------------------------------ MODULE Fixtures ------------------------------
(***************************************************************************)
(* How a tournament's fixture list is drawn (FixtureBuilder) and put on    *)
(* days, grounds and clocks (Slotter).  Teams are named by their place in  *)
(* the seeding, 1 being the strongest; a fixture is known by its round in  *)
(* the bracket (0 outside it) and its position there.                      *)
(***************************************************************************)
EXTENDS Integers, Sequences, FiniteSets, SequencesExt

NoTeam == 0

\* Where a side of a fixture comes from.
NoSource == [type |-> "none"]
Direct(t) == [type |-> "team", team |-> t]
Place(group, k) == [type |-> "group", group |-> group, place |-> k]
WinnerOf(round, pos) == [type |-> "winner", round |-> round, pos |-> pos]

DirectTeam(source) == IF source.type = "team" THEN source.team ELSE NoTeam

\* A side drawn against an empty slot of the first round.
IsBye(round, from) == round = 1 /\ (from.a = NoSource) # (from.b = NoSource)

\* One matches row; a bye is written as won.
MakeMatch(round, pos, day, index, group, from) ==
    LET bye == IsBye(round, from)
        through == IF from.a = NoSource THEN from.b ELSE from.a
    IN [round |-> round, pos |-> pos, day |-> day, index |-> index, group |-> group, from |-> from,
        a |-> DirectTeam(from.a), b |-> DirectTeam(from.b),
        status |-> IF bye THEN "completed" ELSE "scheduled",
        winner |-> IF bye THEN DirectTeam(through) ELSE NoTeam, tossed |-> FALSE]

\* The members of S in an order: in k-th place, the one that k - 1 others come before.
InOrder(S, Before(_, _)) ==
    [k \in 1..Cardinality(S) |-> CHOOSE x \in S : Cardinality({y \in S : Before(y, x)}) = k - 1]

----------------------------------------------------------------------------
(* Round robin *)

\* Rotate everything but the first entrant.
Turned(s) == <<Head(s), Last(s)>> \o SubSeq(s, 2, Len(s) - 1)

\* Rounds of pairs <<home, away>>: one team held still while the rest go round
\* it; an odd field gets a phantom, and who draws it sits the round out.
CircleMethod(teams) ==
    LET ring == IF Len(teams) % 2 = 1 THEN Append(teams, NoTeam) ELSE teams
        wheel[r \in Nat] == IF r = 0 THEN ring ELSE Turned(wheel[r - 1])
        Meeting(r, i) ==
            LET one == wheel[r][i]
                two == wheel[r][Len(ring) + 1 - i]
            IN IF r % 2 = 0 THEN <<one, two>> ELSE <<two, one>>
        Played(r) == InOrder({i \in 1..(Len(ring) \div 2) : NoTeam \notin ToSet(Meeting(r, i))}, <)
    IN IF Len(teams) < 2 THEN <<>>
       ELSE [r \in 1..(Len(ring) - 1) |->
                [k \in DOMAIN Played(r - 1) |-> Meeting(r - 1, Played(r - 1)[k])]]

\* A sequence of days, each a sequence of [group, pair], as numbered fixtures.
Numbered(days) ==
    LET all == FlattenSeq([d \in DOMAIN days |->
                   [i \in DOMAIN days[d] |-> [day |-> d - 1, index |-> i - 1, match |-> days[d][i]]]])
    IN {MakeMatch(0, n, all[n].day, all[n].index, all[n].match.group,
                  [a |-> Direct(all[n].match.pair[1]), b |-> Direct(all[n].match.pair[2])]) :
            n \in DOMAIN all}

NoGroup == 0

League(teams, double) ==
    LET first == CircleMethod(teams)
        back == [r \in DOMAIN first |-> [i \in DOMAIN first[r] |-> Reverse(first[r][i])]]
        rounds == IF double THEN first \o back ELSE first
    IN Numbered([r \in DOMAIN rounds |->
                    [i \in DOMAIN rounds[r] |-> [group |-> NoGroup, pair |-> rounds[r][i]]]])

----------------------------------------------------------------------------
(* Groups *)

SuggestGroupCount(n) == IF n < 6 THEN 1 ELSE Max({2, (n + 2) \div 4})

\* What was asked for, 0 leaving it to the builder.
WantedGroups(n, wanted) == IF wanted = 0 THEN SuggestGroupCount(n) ELSE wanted

GroupCount(n, wanted) == Max({1, Min({wanted, Max({1, n \div 2})})})

\* Serpentine: the group, of `count`, of the k-th seed.  As count is at most half
\* the field no group is left with one team, and the fold for that case is idle.
GroupOfSeed(k, count) ==
    LET row == (k - 1) \div count
        along == (k - 1) % count
    IN 1 + (IF row % 2 = 0 THEN along ELSE count - 1 - along)

AssignGroups(teams, wanted) ==
    LET count == GroupCount(Len(teams), wanted)
    IN [g \in 1..count |->
           LET ks == InOrder({k \in DOMAIN teams : GroupOfSeed(k, count) = g}, <)
           IN [j \in DOMAIN ks |-> teams[ks[j]]]]

\* Round r of every group on one day.
GroupDays(groups) ==
    LET rounds == [g \in DOMAIN groups |-> CircleMethod(groups[g])]
        most == Max({Len(rounds[g]) : g \in DOMAIN groups})
    IN [d \in 1..most |->
           FlattenSeq([g \in DOMAIN groups |->
               IF d \in DOMAIN rounds[g]
               THEN [i \in DOMAIN rounds[g][d] |-> [group |-> g, pair |-> rounds[g][d][i]]]
               ELSE <<>>])]

----------------------------------------------------------------------------
(* Knockout *)

\* The slots of a bracket of k rounds: doubled, from one.
Size[k \in Nat] == IF k = 0 THEN 1 ELSE 2 * Size[k - 1]

\* The fewest rounds whose slots hold the field; at least one.
RoundCount(entrants) ==
    CHOOSE k \in 1..entrants : Size[k] >= entrants /\ (k = 1 \/ Size[k - 1] < entrants)

\* Standard seeding: 1, 2, and each doubling sets every seed against its complement.
SeedOrder(rounds) ==
    LET order[k \in 1..rounds] ==
            IF k = 1 THEN <<1, 2>>
            ELSE [i \in 1..Size[k] |->
                     LET seed == order[k - 1][(i + 1) \div 2]
                     IN IF i % 2 = 1 THEN seed ELSE Size[k] + 1 - seed]
    IN order[rounds]

SameGroup(s, t) == s.type = "group" /\ t.type = "group" /\ s.group = t.group

\* Mutant: the seeding is left as it falls.
LeaveTies(slots) == slots

Pairs(slots) == Len(slots) \div 2

\* Swap the second side of the i-th pair, if a same-group tie, with that of the first
\* other pair where this leaves neither a same-group tie.
Untied(slots, i) ==
    LET fits == {j \in 1..Pairs(slots) \ {i} :
                    /\ slots[2 * j - 1] # NoSource /\ slots[2 * j] # NoSource
                    /\ ~ SameGroup(slots[2 * i - 1], slots[2 * j])
                    /\ ~ SameGroup(slots[2 * j - 1], slots[2 * i])}
        j == Min(fits)
    IN IF SameGroup(slots[2 * i - 1], slots[2 * i]) /\ fits # {}
       THEN [slots EXCEPT ![2 * i] = slots[2 * j], ![2 * j] = slots[2 * i]]
       ELSE slots

AvoidSameGroupTies(slots) ==
    LET swapped[i \in 0..Pairs(slots)] == IF i = 0 THEN slots ELSE Untied(swapped[i - 1], i)
    IN swapped[Pairs(slots)]

\* Every round at once: the entrants in the first, then the winners of two
\* neighbours of the round before.
Bracket(seeds, firstDay) ==
    LET rounds == RoundCount(Len(seeds))
        order == SeedOrder(rounds)
        slots == AvoidSameGroupTies([i \in 1..Size[rounds] |->
                     IF order[i] \in DOMAIN seeds THEN seeds[order[i]] ELSE NoSource])
        From(r, p) ==
            IF r = 1 THEN [a |-> slots[2 * p - 1], b |-> slots[2 * p]]
            ELSE [a |-> WinnerOf(r - 1, 2 * p - 1), b |-> WinnerOf(r - 1, 2 * p)]
        Empty(from) == from.a = NoSource /\ from.b = NoSource
        Round(r) == {MakeMatch(r, p, firstDay + r - 1, p - 1, NoGroup, From(r, p)) :
                         p \in {q \in 1..Size[rounds - r] : ~ Empty(From(r, q))}}
    IN IF Len(seeds) < 2 THEN {} ELSE UNION {Round(r) : r \in 1..rounds}

----------------------------------------------------------------------------

Formats == {"league", "knockout", "group_stage", "league_knockout"}

\* The fixtures of one tournament.
Build(format, teams, wanted, double) ==
    LET groups == AssignGroups(teams, WantedGroups(Len(teams), wanted))
        days == GroupDays(groups)
        g == Len(groups)
        qualifiers == [i \in 1..(2 * g) |-> IF i <= g THEN Place(i, 1) ELSE Place(i - g, 2)]
    IN CASE format = "knockout" -> Bracket([i \in DOMAIN teams |-> Direct(teams[i])], 0)
         [] format = "league" -> League(teams, double)
         [] format = "group_stage" -> Numbered(days)
         [] format = "league_knockout" -> Numbered(days) \union Bracket(qualifiers, Len(days))

\* Where and when a fixture is played, in minutes from the first kick-off.
Slot(match, grounds, minutes) ==
    [ground |-> match.index % grounds,
     start |-> 1440 * match.day + (match.index \div grounds) * (Max({30, minutes}) + 30)]
=============================================================================
