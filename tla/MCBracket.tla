----------------------------- MODULE MCBracket -----------------------------
(***************************************************************************)
(* Small instances of a tournament for TLC.                                *)
(***************************************************************************)
EXTENDS BracketTurns

CONSTANTS
    Fields,      \* sizes of the field
    Movers,      \* bound: teams whose entry changes
    Tosses       \* bound: matches with a toss at one time

VARIABLE served
mcVars == <<turnVars, served>>

D(format, groups, double) == [format |-> format, groups |-> groups, double |-> double]
AllDraws == {D("knockout", 1, FALSE), D("league", 1, FALSE), D("league", 1, TRUE)}
            \union {D(f, g, FALSE) : f \in {"group_stage", "league_knockout"}, g \in 0..3}

\* Bound: the draws that are played and not only drawn, with the requests served
\* while none overlap and once two have.
P(field, draw, turns, races) == [field |-> field, draw |-> draw, turns |-> turns, races |-> races]
Plays == {P(3, D("knockout", 1, FALSE), 4, 3), P(4, D("knockout", 1, FALSE), 4, 3),
          P(3, D("league_knockout", 1, FALSE), 4, 1), P(4, D("league_knockout", 2, FALSE), 3, 3),
          P(6, D("league_knockout", 3, FALSE), 3, 1)}

Budget ==
    LET played == {p \in Plays : p.field = Len(lists[1].teams) /\ p.draw = lists[1].draw}
    IN IF lists = <<>> \/ played = {} THEN 1
       ELSE LET p == CHOOSE p \in played : TRUE IN IF inTurn /\ Quiet THEN p.turns ELSE p.races

MCInit ==
    /\ TurnInit /\ approved \in {{t \in Team : t <= n} : n \in Fields}
    /\ served = 0

\* The first request is a draw, and a list is drawn again as it was.
Begin ==
    /\ served < Budget
    /\ \E w \in Worker :
           /\ Request(w)
           /\ lists = <<>> => request'[w].op = "generate"
           /\ request'[w].op = "generate" /\ lists # <<>> => request'[w].want.draw = lists[1].draw
           /\ request'[w].op = "team" => request'[w].id[1] \in Movers
    /\ served' = served + 1

MCNext ==
    /\ \/ Begin
       \/ (\E w \in Worker : Answer(w)) /\ UNCHANGED served
       \/ /\ Toss /\ UNCHANGED served
          /\ Cardinality({id \in DOMAIN rows' : rows'[id].tossed}) <= Tosses
    /\ inTurn' = (inTurn /\ Alone')
MCSpec == MCInit /\ [][MCNext]_mcVars

Symmetry == Permutations(Worker)
=============================================================================
