------------------------------ MODULE Bracket ------------------------------
(***************************************************************************)
(* One tournament's fixtures from the draw to the final: the organizer     *)
(* draws them (MatchController.generateFixtures), enters, corrects and     *)
(* calls off results, scorers play the matches (ScoringEngine), teams come *)
(* and go, and after each of these the table is ranked and the bracket is  *)
(* refilled from its sources (rankStandings, BracketService.sync).         *)
(*                                                                         *)
(* A request reads the row it is about and judges it, then acts; what it   *)
(* sees as it acts is what it refills the bracket from, in a last step.    *)
(* A scorer's request acts and refills in one transaction, under the lock  *)
(* of its match; the others save, and refill later.                        *)
(*                                                                         *)
(* A win is worth three points and a draw one, as in a football            *)
(* tournament left at its defaults.  Of a score only the winner matters    *)
(* here, so level teams are parted by the points between them, and then,   *)
(* where the code goes on to goals and cards, by their order.              *)
(***************************************************************************)
EXTENDS Fixtures, FiniteSetsExt, TLC

CONSTANTS
    Worker,        \* API workers
    Team,          \* the teams, by their place in the seeding
    Draws,         \* what the organizer may ask for: [format, groups, double]
    HandStatuses,  \* the statuses entered by hand
    MaxLists       \* bound: how many fixture lists are drawn

ASSUME BracketAssumption ==
    /\ Team \subseteq Nat \ {NoTeam} /\ IsFiniteSet(Team) /\ MaxLists \in Nat
    /\ Draws \subseteq [format : Formats, groups : Nat, double : BOOLEAN]
    /\ HandStatuses \subseteq {"scheduled", "in_progress", "completed", "abandoned", "cancelled"}

VARIABLES
    rows,      \* matches rows: a function from <<list, round, position>>
    lists,     \* the draws made so far, with their teams
    approved,  \* teams whose entry is approved
    group,     \* teams.group_name
    request    \* what each worker has read and not yet written

vars == <<rows, lists, approved, group, request>>

NoRow == [none |-> 0]
NoRequest == [op |-> "none", phase |-> "none", id |-> <<>>, was |-> NoRow, want |-> NoRow, seen |-> <<>>]

Idle(w) == request[w].op = "none"
Done(w) == request' = [request EXCEPT ![w] = NoRequest]

\* A scorer's transaction holds the lock of its match from acting to refilling.
Scored == {"play", "whistle", "reopen", "undo"}
Locked(id) == \E w \in Worker : request[w].op \in Scored /\ request[w].phase = "refill" /\ request[w].id = id

\* Eloquent's save: the columns of m that differ from the row as it was read.
Saved(row, was, m) == [c \in DOMAIN row |-> IF m[c] # was[c] THEN m[c] ELSE row[c]]

----------------------------------------------------------------------------
(* The table *)

Sides(row) == {row.a, row.b}
InBracket(row) == row.round > 0

\* A knockout counts for the table only where there is nothing else.
TableMatches(rs) ==
    LET league == {id \in DOMAIN rs : ~ InBracket(rs[id])}
    IN IF league # {} THEN league ELSE DOMAIN rs

Worth(row, t) == IF row.winner = t THEN 3 ELSE IF row.winner = NoTeam THEN 1 ELSE 0
Points(rs, t, against) ==
    LET played == {id \in TableMatches(rs) : rs[id].status = "completed" /\ t \in Sides(rs[id])
                                             /\ (Sides(rs[id]) \ {t}) \subseteq against}
    IN SumFunction([id \in played |-> Worth(rs[id], t)])

\* Everyone in the table, with what parts level teams: the points between them.
Standings(s) ==
    LET alone == {[team |-> t, points |-> Points(s.rows, t, Team)] : t \in s.approved}
        Level(one) == {two.team : two \in {other \in alone : other.points = one.points}}
    IN {[team |-> one.team, points |-> one.points,
         mini |-> Points(s.rows, one.team, Level(one))] : one \in alone}

Above(one, two) ==
    \/ one.points > two.points
    \/ one.points = two.points /\ one.mini > two.mini
    \/ one.points = two.points /\ one.mini = two.mini /\ one.team < two.team

\* rankStandings with breakTie: the teams of a group in the order of the table.  A
\* match in play is not counted, as a group is read only once it is over.
GroupTable(s, g) ==
    LET order == InOrder({one \in Standings(s) : s.group[one.team] = g}, Above)
    IN [k \in DOMAIN order |-> order[k].team]

\* Mutant: the table of a group in play already seeds the bracket.
InGroupSoFar(s, src) ==
    LET table == GroupTable(s, src.group)
    IN IF src.place \in DOMAIN table THEN table[src.place] ELSE NoTeam

\* groupPosition: a place in a group, once every match of the group is over.
InGroup(s, src) ==
    LET matches == {id \in DOMAIN s.rows : s.rows[id].group = src.group}
        over == \A id \in matches : s.rows[id].status \in {"completed", "cancelled"}
        table == GroupTable(s, src.group)
    IN IF matches # {} /\ over /\ src.place \in DOMAIN table THEN table[src.place] ELSE NoTeam

----------------------------------------------------------------------------
(* Refilling the bracket *)

\* The winner of a fixture of the same list, once it is over.
WinnerThere(s, l, src) ==
    LET id == <<l, src.round, src.pos>>
    IN IF id \in DOMAIN s.rows /\ s.rows[id].status = "completed" THEN s.rows[id].winner ELSE NoTeam

\* Which team a source names now.
Resolve(s, l, src) ==
    CASE src.type = "winner" -> WinnerThere(s, l, src)
      [] src.type = "group"  -> InGroup(s, src)
      [] OTHER               -> DirectTeam(src)

UnderWay(row) == row.status \notin {"scheduled", "cancelled"}
Bye(row) == IsBye(row.round, row.from)
ByeSide(row) == IF row.from.a # NoSource THEN "a" ELSE "b"

SyncBye(s, l, row) ==
    LET t == Resolve(s, l, row.from[ByeSide(row)])
    IN IF t = row[ByeSide(row)] /\ t = row.winner THEN row
       ELSE [row EXCEPT ![ByeSide(row)] = t, !.winner = t, !.status = "completed"]

Refilled(s, l, row) ==
    LET Side(x) == IF row.from[x].type \in {"winner", "group"} THEN Resolve(s, l, row.from[x]) ELSE row[x]
    IN [row EXCEPT !.a = Side("a"), !.b = Side("b")]

\* A fixture that lost a team has no winner.
Emptied(row) == IF NoTeam \in Sides(row) THEN [row EXCEPT !.winner = NoTeam] ELSE row

\* Mutants: a match under way is refilled too, or only a side still empty is filled.
RefillStarted(s, l, row) ==
    LET new == Refilled(s, l, row) IN IF new = row THEN row ELSE Emptied(new)
RefillVacant(s, l, row) ==
    IF UnderWay(row) \/ NoTeam \notin Sides(row) THEN row ELSE Refilled(s, l, row)

\* A side that is not the team itself shows what its source says.
Refill(s, l, row) ==
    LET new == Refilled(s, l, row)
    IN IF UnderWay(row) \/ new = row THEN row ELSE Emptied(new)

\* The rows once one round has been filled from the others.
SyncRound(s, r) ==
    [id \in DOMAIN s.rows |->
        LET row == s.rows[id]
        IN IF row.round # r THEN row
           ELSE IF Bye(row) THEN SyncBye(s, id[1], row) ELSE Refill(s, id[1], row)]

\* Mutant: every round from what was there before the first.
SyncedAtOnce(s) ==
    [id \in DOMAIN s.rows |-> IF InBracket(s.rows[id]) THEN SyncRound(s, s.rows[id].round)[id] ELSE s.rows[id]]

\* sync: the rounds in order, so that one pass settles the bracket.
LastRound(rs) == Max({0} \union {rs[id].round : id \in DOMAIN rs})
Synced(s) ==
    LET pass[r \in 0..LastRound(s.rows)] ==
            IF r = 0 THEN s
            ELSE LET before == pass[r - 1] IN [before EXCEPT !.rows = SyncRound(before, r)]
    IN pass[LastRound(s.rows)].rows

\* rankStandings: with nobody left in the table the bracket is not looked at.
Ranked(s) == IF s.approved = {} THEN s.rows ELSE Synced(s)

----------------------------------------------------------------------------
(* Requests *)

Init ==
    /\ rows = <<>> /\ lists = <<>>
    /\ approved \in SUBSET Team
    /\ group = [t \in Team |-> 1]
    /\ request = [w \in Worker |-> NoRequest]

Read(w, op, id, was, want) ==
    /\ Idle(w)
    /\ request' = [request EXCEPT ![w] =
           [op |-> op, phase |-> "act", id |-> id, was |-> was, want |-> want, seen |-> <<>>]]
    /\ UNCHANGED <<rows, lists, approved, group>>

\* MatchController.update: a status, a winner out of the two sides, or both.
ReadUpdate(w) ==
    \E id \in DOMAIN rows : LET row == rows[id] IN
        \E s \in HandStatuses \union {row.status}, v \in {row.winner, NoTeam} \union Sides(row) :
            /\ s # row.status \/ v # row.winner
            /\ Read(w, "update", id, row, [row EXCEPT !.status = s, !.winner = v])

\* MatchController.cancel.
ReadCancel(w) ==
    \E id \in DOMAIN rows :
        /\ rows[id].status \notin {"completed", "cancelled"}
        /\ Read(w, "cancel", id, rows[id], [rows[id] EXCEPT !.status = "cancelled"])

\* Kick-off, and what is recorded in play.
ReadPlay(w) ==
    \E id \in DOMAIN rows :
        /\ rows[id].status \notin {"completed", "cancelled"}
        /\ rows[id].status = "scheduled" => rows[id].tossed
        /\ Read(w, "play", id, rows[id], [rows[id] EXCEPT !.status = "in_progress"])

\* The result on the score, which favours either side or neither.
Concluded(row) == {[row EXCEPT !.status = "completed", !.winner = v] : v \in {NoTeam} \union Sides(row)}

ReadWhistle(w) ==
    \E id \in DOMAIN rows :
        /\ rows[id].status \notin {"completed", "cancelled", "scheduled"}
        /\ \E m \in Concluded(rows[id]) : Read(w, "whistle", id, rows[id], m)

ReadReopen(w) ==
    \E id \in DOMAIN rows :
        /\ rows[id].status = "completed"
        /\ Read(w, "reopen", id, rows[id], [rows[id] EXCEPT !.status = "in_progress", !.winner = NoTeam])

\* A correction after the whistle; of a bye there is nothing to correct.
ReadUndo(w) ==
    \E id \in DOMAIN rows :
        /\ rows[id].status = "completed" /\ ~ Bye(rows[id])
        /\ \E m \in Concluded(rows[id]) : Read(w, "undo", id, rows[id], m)

\* TeamController.update: an entry is approved or withdrawn.
ReadTeam(w) ==
    \E t \in Team : Read(w, "team", <<t>>, NoRow, [approved |-> t \notin approved])

\* generateFixtures: refused once a match of the old list is past being called off.
ReadGenerate(w) ==
    /\ Len(lists) < MaxLists
    /\ Cardinality(approved) >= 2
    /\ \A id \in DOMAIN rows : ~ UnderWay(rows[id])
    /\ \E d \in Draws : Read(w, "generate", <<>>, DOMAIN rows,
                             [draw |-> d, teams |-> InOrder(approved, <)])

----------------------------------------------------------------------------
(* Acting: the step after which a request refills from what it has seen *)

Acted(w, rs, in, gs) ==
    request' = [request EXCEPT ![w].phase = "refill",
                               ![w].seen = [rows |-> rs, approved |-> in, group |-> gs]]

About(w, ops) == request[w].phase = "act" /\ request[w].op \in ops
Own(w) == LET r == request[w] IN
    IF r.id \in DOMAIN rows THEN [rows EXCEPT ![r.id] = Saved(rows[r.id], r.was, r.want)] ELSE rows

\* The controllers save and only then recalculate; a row deleted meanwhile is
\* not saved, and the table recalculated all the same.
Save(w) ==
    /\ About(w, {"update", "cancel"}) /\ ~ Locked(request[w].id)
    /\ rows' = Own(w)
    /\ Acted(w, rows', approved, group)
    /\ UNCHANGED <<lists, approved, group>>

\* The scorer's transaction: until it commits nobody else sees what it did.
Score(w) ==
    /\ About(w, Scored) /\ ~ Locked(request[w].id)
    /\ IF request[w].id \in DOMAIN rows THEN Acted(w, Own(w), approved, group) ELSE Done(w)
    /\ UNCHANGED <<rows, lists, approved, group>>

SaveTeam(w) ==
    /\ About(w, {"team"})
    /\ approved' = IF request[w].want.approved THEN approved \union {request[w].id[1]}
                                               ELSE approved \ {request[w].id[1]}
    /\ Acted(w, rows, approved', group)
    /\ UNCHANGED <<rows, lists, group>>

\* The old list goes and the new one comes in one transaction; what was read to
\* be deleted is deleted, whatever has become of it.
Generate(w) ==
    LET r == request[w]
        d == r.want.draw
        n == Len(lists) + 1
        new == Build(d.format, r.want.teams, d.groups, d.double)
        kept == DOMAIN rows \ r.was
        Row(id) == CHOOSE m \in new : id = <<n, m.round, m.pos>>
        groups == AssignGroups(r.want.teams, WantedGroups(Len(r.want.teams), d.groups))
    IN
    /\ About(w, {"generate"}) /\ \A id \in DOMAIN rows \intersect r.was : ~ Locked(id)
    /\ rows' = [id \in kept \union {<<n, m.round, m.pos>> : m \in new} |->
                   IF id \in kept THEN rows[id] ELSE Row(id)]
    /\ lists' = Append(lists, [draw |-> d, teams |-> r.want.teams])
    /\ group' = IF d.format \in {"group_stage", "league_knockout"}
                THEN [t \in Team |-> IF t \in ToSet(r.want.teams)
                                     THEN CHOOSE g \in DOMAIN groups : t \in ToSet(groups[g])
                                     ELSE group[t]]
                ELSE group
    /\ Acted(w, rows', approved, group')
    /\ UNCHANGED approved

\* rankStandings and sync: of what the refilled bracket differs in from what was
\* seen, each column is written; rows another transaction has locked are waited for.
Recalculate(w) == LET r == request[w] IN
    /\ r.phase = "refill"
    /\ \E new \in {Ranked(r.seen)}, base \in {IF r.op \in Scored THEN Own(w) ELSE rows} :
          LET changed == {id \in DOMAIN r.seen.rows : new[id] # r.seen.rows[id]} IN
          /\ \A id \in changed \ {r.id} : ~ Locked(id)
          /\ rows' = [id \in DOMAIN rows |->
                         IF id \in changed THEN Saved(base[id], r.seen.rows[id], new[id]) ELSE base[id]]
    /\ Done(w)
    /\ UNCHANGED <<lists, approved, group>>

----------------------------------------------------------------------------
(* The toss, read and written under the lock of the match *)

TossUp(id) ==
    /\ ~ rows[id].tossed /\ ~ Locked(id)
    /\ Sides(rows[id]) # {NoTeam}
    /\ rows' = [rows EXCEPT ![id].tossed = TRUE]
    /\ UNCHANGED <<lists, approved, group, request>>

TossReset(id) ==
    /\ rows[id].tossed /\ rows[id].status = "scheduled" /\ ~ Locked(id)
    /\ rows' = [rows EXCEPT ![id].tossed = FALSE]
    /\ UNCHANGED <<lists, approved, group, request>>

Request(w) ==
    \/ ReadUpdate(w) \/ ReadCancel(w) \/ ReadPlay(w) \/ ReadWhistle(w) \/ ReadReopen(w)
    \/ ReadUndo(w) \/ ReadTeam(w) \/ ReadGenerate(w)
Answer(w) == Save(w) \/ Score(w) \/ SaveTeam(w) \/ Generate(w) \/ Recalculate(w)
Toss == \E id \in DOMAIN rows : TossUp(id) \/ TossReset(id)

Next == (\E w \in Worker : Request(w) \/ Answer(w)) \/ Toss
Spec == Init /\ [][Next]_vars
=============================================================================
