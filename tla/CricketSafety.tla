--------------------------- MODULE CricketSafety ----------------------------
(***************************************************************************)
(* What cricket scoring keeps true.                                        *)
(***************************************************************************)
EXTENDS Cricket

Row == [status: {"scheduled", "in_progress", "innings_break", "completed", "cancelled"},
        winner: Sides \union {""}, first: Sides \union {""}]
Delivery == [innings: Innings, runs: Nat, extras: Extras, extraRuns: Nat,
             out: Dismissals \union {""}]

TypeOK ==
    /\ match \in Row
    /\ state \in [innings: Innings, batting: Sides, target: Nat, runs: [Innings -> Nat],
                  wickets: [Innings -> Nat], legal: [Innings -> Nat]]
    /\ log \in Seq(Delivery)
    /\ request \in [Console -> [op: {"none", "ball", "switch", "cancel"},
                                was: Row \union {NoRow}]]

\* Runs, wickets and overs of each innings are what the deliveries still in
\* the log add up to: extras count, wides and no-balls use no ball, a batter
\* who retires hurt is no wicket, and undo takes back exactly what was added.
TotalsMatchLog ==
    \A i \in Innings :
        LET balls == {n \in DOMAIN log : log[n].innings = i} IN
        /\ state.runs[i] =
               SumFunctionOnSet([n \in balls |-> log[n].runs + log[n].extraRuns], balls)
        /\ state.wickets[i] = Cardinality({n \in balls : log[n].out \notin {"", "retired_hurt"}})
        /\ state.legal[i] = Cardinality({n \in balls : log[n].extras \notin {"wide", "no_ball"}})

\* No innings runs past its overs or past the last wicket of the side batting
\* in it, whatever was undone and bowled again.
InningsWithin ==
    \A i \in Innings :
        /\ state.legal[i] <= TotalOvers * OverLength
        /\ state.wickets[i] <= BowledOut[IF i = state.innings THEN state.batting
                                                              ELSE Other(state.batting)]

\* The chase is always for one more than the first innings made, also after
\* the switch was undone, the first innings changed and the sides switched
\* again.
TargetStands == state.target = IF state.innings = 2 THEN state.runs[1] + 1 ELSE 0

BattedFirst == IF state.innings = 1 THEN state.batting ELSE Other(state.batting)

\* Once a ball has been bowled the side that bats first stays the same through
\* switching, undoing the switch and a late toss.
SidesKept == [][log # <<>> /\ log' # <<>> => BattedFirst' = BattedFirst]_vars

\* A finished match names the winner its runs give, after results settled by
\* the last ball, by hand and again after an undo.
ResultStands ==
    match.status = "completed" =>
        /\ state.innings = 2
        /\ match.winner = Settled(match, state).winner

\* A chase that is decided, by runs, wickets or overs, never stays open.
ChaseEnds ==
    InningsBalls(2) > 0
    /\ \/ state.runs[2] > state.runs[1]
       \/ state.wickets[2] >= BowledOut[state.batting]
       \/ state.legal[2] = TotalOvers * OverLength
    => match.status \in {"completed", "cancelled"}

\* ScoringEngine "A cancelled match is frozen": no later step takes a match
\* out of cancelled.
CancelledFrozen == [][match.status = "cancelled" => match'.status = "cancelled"]_vars
=============================================================================
