--------------------------- MODULE BracketSafety ---------------------------
(***************************************************************************)
(* What the draw, the table and the bracket keep true.                     *)
(***************************************************************************)
EXTENDS Bracket

Now == [rows |-> rows, approved |-> approved, group |-> group]
Quiet == \A w \in Worker : Idle(w)

\* Every side that waits for a source shows what that source says, in every fixture
\* not under way; a bye has its side and sends it through.
Settled(s) ==
    \A id \in DOMAIN s.rows :
        LET row == s.rows[id]
            Says(x) == row[x] = Resolve(s, id[1], row.from[x])
        IN IF Bye(row) THEN Says(ByeSide(row)) /\ row.winner = row[ByeSide(row)]
           ELSE \A x \in {"a", "b"} :
                    row.from[x].type \in {"winner", "group"} /\ ~ UnderWay(row) => Says(x)

\* Whatever requests that overlapped have left, one refill settles the whole
\* bracket, byes of groups and all: "one pass settles the bracket", the order of the
\* rounds in sync (BracketTest::test_the_bracket_fills_in_order...).
OnePassSettles == Settled([Now EXCEPT !.rows = Synced(Now)])

\* The bracket is settled between requests, whichever way a result changed, an entry
\* was withdrawn or a match taken back: no path that changes one is missed
\* (rankStandings' last call).  With nobody entered it is not looked at, and settles
\* with the next request once somebody is.
SettledAtRest == Quiet /\ approved # {} => Settled(Now)

\* Who qualified, said without the ranking: a team stands in a fixture as first or
\* second of a group only once every match of the group is over, if it is entered and
\* of that group, with fewer than that many others ahead of it on points, and never
\* as both (groupTables, rankStandings, withdrawn teams included).  With nobody
\* entered the bracket is not looked at, and goes on showing the last who were.
QualifiersEarnedIt ==
    LET ahead(t) == {u \in approved : group[u] = group[t]
                                      /\ Points(rows, u, Team) > Points(rows, t, Team)}
    IN Quiet /\ approved # {} =>
       \A id \in DOMAIN rows : LET row == rows[id] IN \A x \in {"a", "b"} :
           row.from[x].type = "group" /\ row[x] # NoTeam /\ (Bye(row) \/ ~ UnderWay(row)) =>
               /\ \A j \in DOMAIN rows : rows[j].group = row.from[x].group =>
                      rows[j].status \in {"completed", "cancelled"}
               /\ row[x] \in approved /\ group[row[x]] = row.from[x].group
               /\ Cardinality(ahead(row[x])) < row.from[x].place
               /\ \A j \in DOMAIN rows, y \in {"a", "b"} :
                      rows[j][y] = row[x] /\ rows[j].from[y].type = "group"
                      /\ (Bye(rows[j]) \/ ~ UnderWay(rows[j])) => <<j, y>> = <<id, x>>

\* BracketService.php:21 "The one thing it will not do is overwrite a match that has
\* already started": its sides and result change only by a request about it.
StartedKept ==
    \A id \in DOMAIN rows : UnderWay(rows[id]) /\ ~ Bye(rows[id]) =>
        /\ id \in DOMAIN rows'
        /\ rows'[id].a = rows[id].a /\ rows'[id].b = rows[id].b
        /\ (\A w \in Worker : request[w].id # id) =>
               rows'[id].status = rows[id].status /\ rows'[id].winner = rows[id].winner

----------------------------------------------------------------------------
(* The draw *)

Fixtures(l) == {rows[id] : id \in {i \in DOMAIN rows : i[1] = l}}
OfTable(l) == {m \in Fixtures(l) : ~ InBracket(m)}
FirstRound(l) == {m \in Fixtures(l) : m.round = 1}

Groups(l) == AssignGroups(lists[l].teams, WantedGroups(Len(lists[l].teams), lists[l].draw.groups))
Tables(l) == IF lists[l].draw.format = "league" THEN <<lists[l].teams>> ELSE Groups(l)

\* Everyone of a table meets everyone once, in a double round once at each end;
\* groups are disjoint, of two teams at least, and differ by one at most.
EveryoneMeets(l) ==
    LET Meetings(t, u) == Cardinality({m \in OfTable(l) : m.a = t /\ m.b = u})
        tables == Tables(l)
        In(g) == ToSet(tables[g])
    IN /\ \A g \in DOMAIN tables : \A t, u \in In(g) : t # u =>
             IF lists[l].draw.format = "league" /\ lists[l].draw.double THEN Meetings(t, u) = 1
             ELSE Meetings(t, u) + Meetings(u, t) = 1
       /\ \A g, h \in DOMAIN tables : g # h =>
             In(g) \intersect In(h) = {} /\ Len(tables[g]) >= 2 /\ Len(tables[g]) - Len(tables[h]) < 2

\* No team plays twice in a day, and the bracket starts when the table is done.
DaysApart(l) ==
    /\ \A m, k \in OfTable(l) : m # k /\ m.day = k.day => Sides(m) \intersect Sides(k) = {}
    /\ \A m \in OfTable(l), k \in Fixtures(l) \ OfTable(l) : m.day < k.day

\* Every entrant is drawn once, the best two on opposite halves, a bye goes to the
\* best alone, and nobody meets his own group in the first round.
BracketFair(l) ==
    LET first == FirstRound(l)
        half == Cardinality(first) \div 2
        count == Len(Groups(l))
        seeds == IF lists[l].draw.format = "knockout"
                 THEN [k \in DOMAIN lists[l].teams |-> Direct(lists[l].teams[k])]
                 ELSE [k \in 1..(2 * count) |-> IF k <= count THEN Place(k, 1) ELSE Place(k - count, 2)]
        DrawnIn(s) == {m \in first : s \in {m.from.a, m.from.b}}
        byes == 2 * Cardinality(first) - Len(seeds)
    IN first # {} =>
       /\ \A k \in DOMAIN seeds : Cardinality(DrawnIn(seeds[k])) = 1
       /\ \A k \in DOMAIN seeds : (\E m \in DrawnIn(seeds[k]) : Bye(m)) <=> k <= byes
       /\ half > 0 =>
             /\ \A m \in DrawnIn(seeds[1]), k \in DrawnIn(seeds[2]) : (m.pos <= half) # (k.pos <= half)
             /\ \A m \in first : ~ SameGroup(m.from.a, m.from.b)

\* Slotter.php:17 "a ground hosts one match at a time", where every round fits in its day.
OneAtATime(l, grounds, minutes) ==
    LET At(m) == Slot(m, grounds, minutes)
        fits == \A m \in Fixtures(l) : At(m).start + minutes <= 1440 * (m.day + 1)
    IN fits => \A m, k \in Fixtures(l) :
          m # k /\ At(m).ground = At(k).ground /\ At(m).start <= At(k).start =>
              At(m).start + minutes <= At(k).start

\* The list of fixtures is what its format promises (league, groupStage, bracket and
\* their helpers, Slotter.slot), while it is the one being played.
DrawFair ==
    \A l \in DOMAIN lists : Fixtures(l) # {} =>
        /\ lists[l].draw.format # "knockout" => EveryoneMeets(l)
        /\ DaysApart(l)
        /\ BracketFair(l)
        /\ \A grounds \in 1..3 : OneAtATime(l, grounds, 60)
=============================================================================
