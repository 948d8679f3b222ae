---------------------------- MODULE FixtureProofs ----------------------------
(***************************************************************************)
(* Theorems about the fixtures that are drawn, for any field and any draw  *)
(* asked for: the groups and who is in them; the rounds in which the teams *)
(* of a table meet, each two of them once; the bracket, its seeds, byes    *)
(* and ties; and the list they make together.                              *)
(***************************************************************************)
EXTENDS Fixtures, FiniteSums, TLAPS

----------------------------------------------------------------------------
(* The draw of the groups *)

\* The larger and the smaller of two numbers.
LEMMA MaxOfTwo ==
    ASSUME NEW a \in Int, NEW b \in Int
    PROVE  Max({a, b}) \in {a, b} /\ Max({a, b}) >= a /\ Max({a, b}) >= b
<1>1. \E x \in {a, b} : \A y \in {a, b} : x >= y
  OBVIOUS
<1> QED
  BY <1>1 DEF Max

LEMMA MinOfTwo ==
    ASSUME NEW a \in Int, NEW b \in Int
    PROVE  Min({a, b}) \in {a, b} /\ Min({a, b}) <= a /\ Min({a, b}) <= b
<1>1. \E x \in {a, b} : \A y \in {a, b} : x <= y
  OBVIOUS
<1> QED
  BY <1>1 DEF Min

\* Of bounded numbers there is a greatest.
LEMMA MaxBounded ==
    ASSUME NEW S \in SUBSET Nat, S # {}, NEW K \in Nat, \A x \in S : x <= K
    PROVE  Max(S) \in S /\ \A x \in S : x <= Max(S)
<1> DEFINE Tops == {k \in Nat : \A x \in S : x <= k}
<1>1. PICK k \in Tops : \A j \in Tops : k <= j
  <2>1. Tops \in SUBSET Nat /\ Tops # {}
    OBVIOUS
  <2> HIDE DEF Tops
  <2> QED BY <2>1, SmallestNumber
<1>2. k \in S
  <2> SUFFICES ASSUME k \notin S PROVE FALSE
    OBVIOUS
  <2>1. PICK y \in S : TRUE
    OBVIOUS
  <2>2. k \in Nat /\ \A x \in S : x <= k /\ x # k
    BY <1>1
  <2>3. k - 1 \in Nat /\ \A x \in S : x <= k - 1
    BY <2>1, <2>2
  <2> QED BY <1>1, <2>2, <2>3
<1>3. \E x \in S : \A y \in S : x >= y
  BY <1>1, <1>2
<1> QED BY <1>3 DEF Max

\* At most half as many groups as teams, and one at least, whatever was asked for.
LEMMA GroupCountFits ==
    ASSUME NEW n \in Nat, n >= 2, NEW wanted \in Nat
    PROVE  GroupCount(n, wanted) \in Nat \ {0} /\ 2 * GroupCount(n, wanted) <= n
<1> DEFINE half == n \div 2
           least == Max({1, half})
           most == Min({wanted, least})
<1>1. half \in Int /\ half >= 1 /\ 2 * half <= n
  OBVIOUS
<1> HIDE DEF half
<1>2. least = half
  <2>1. Max({1, half}) \in {1, half} /\ Max({1, half}) >= half
    <3>1. 1 \in Int /\ half \in Int
      BY <1>1
    <3> QED
      BY <3>1, MaxOfTwo, Zenon
  <2> QED
    BY <1>1, <2>1
<1> HIDE DEF least
<1>3. most \in Int /\ most <= half
  <2>1. Min({wanted, least}) \in {wanted, least} /\ Min({wanted, least}) <= least
    <3>1. wanted \in Int /\ least \in Int
      BY <1>1, <1>2
    <3> QED
      BY <3>1, MinOfTwo, Zenon
  <2> QED
    BY <1>1, <1>2, <2>1
<1> HIDE DEF most
<1>4. Max({1, most}) \in {1, most} /\ Max({1, most}) >= 1
  <2>1. 1 \in Int /\ most \in Int
    BY <1>3
  <2> QED
    BY <2>1, MaxOfTwo, Zenon
<1>5. Max({1, most}) \in Nat \ {0} /\ 2 * Max({1, most}) <= n
  BY <1>1, <1>3, <1>4
<1> QED
  BY <1>5 DEF GroupCount, most, least, half

\* The row a seed stands in and his place along it, for the first two rows.
LEMMA FirstRow ==
    ASSUME NEW c \in Nat \ {0}, NEW k \in 1..c
    PROVE  GroupOfSeed(k, c) = k
<1>1. (k - 1) \div c = 0 /\ (k - 1) % c = k - 1
  OBVIOUS
<1> QED
  BY <1>1 DEF GroupOfSeed

LEMMA SecondRow ==
    ASSUME NEW c \in Nat \ {0}, NEW k \in (c + 1)..(2 * c)
    PROVE  GroupOfSeed(k, c) = 2 * c + 1 - k
<1>1. (k - 1) \div c = 1 /\ (k - 1) % c = k - 1 - c
  OBVIOUS
<1> QED
  BY <1>1 DEF GroupOfSeed

\* However many groups are asked for, every group is drawn two teams at least, its
\* two qualifiers, so that assignGroups never folds a group of one; and the best
\* seeds, one for each group, are drawn apart.
THEOREM EveryGroupHasTwo ==
    ASSUME NEW n \in Nat, n >= 2, NEW wanted \in Nat
    PROVE  LET count == GroupCount(n, wanted)
           IN /\ \A g \in 1..count : \E j, k \in 1..n :
                     j < k /\ GroupOfSeed(j, count) = g /\ GroupOfSeed(k, count) = g
              /\ \A j, k \in 1..count : GroupOfSeed(j, count) = GroupOfSeed(k, count) => j = k
<1> DEFINE count == GroupCount(n, wanted)
<1>1. count \in Nat \ {0} /\ 2 * count <= n
  BY GroupCountFits
<1> HIDE DEF count
<1>2. ASSUME NEW g \in 1..count
      PROVE  \E j, k \in 1..n : j < k /\ GroupOfSeed(j, count) = g /\ GroupOfSeed(k, count) = g
  <2>1. GroupOfSeed(g, count) = g
    BY <1>1, FirstRow
  <2>2. GroupOfSeed(2 * count + 1 - g, count) = g
    <3>1. 2 * count + 1 - g \in (count + 1)..(2 * count)
      BY <1>1
    <3> QED
      BY <1>1, <3>1, SecondRow
  <2> QED
    BY <1>1, <2>1, <2>2
<1>3. ASSUME NEW j \in 1..count, NEW k \in 1..count, GroupOfSeed(j, count) = GroupOfSeed(k, count)
      PROVE  j = k
  BY <1>1, <1>3, FirstRow
<1> QED
  BY <1>2, <1>3 DEF count

----------------------------------------------------------------------------

(* The slots of a bracket *)

\* The first n doublings.
Doublings(h, n) == h = [k \in 0..n |-> IF k = 0 THEN 1 ELSE 2 * h[k - 1]]

LEMMA DoublingsExist ==
    ASSUME NEW n \in Nat
    PROVE  \E h : Doublings(h, n)
<1> DEFINE Bad == {m \in Nat : ~ \E h : Doublings(h, m)}
<1>1. SUFFICES ASSUME Bad # {} PROVE FALSE
  OBVIOUS
<1>2. PICK m \in Bad : \A k \in Bad : m <= k
  <2>1. Bad \in SUBSET Nat
    OBVIOUS
  <2> HIDE DEF Bad
  <2> QED BY <1>1, <2>1, SmallestNumber
<1>3. m \in Nat /\ ~ \E h : Doublings(h, m)
  OBVIOUS
<1>4. CASE m = 0
  <2> DEFINE h == [k \in 0..0 |-> 1]
  <2>1. \A k \in 0..0 : k = 0
    OBVIOUS
  <2>2. Doublings(h, 0)
    BY <2>1 DEF Doublings
  <2> QED BY <1>3, <1>4, <2>2
<1>5. CASE m # 0
  <2>1. m - 1 \in Nat /\ m - 1 \notin Bad
    BY <1>2, <1>3, <1>5
  <2>2. PICK g : Doublings(g, m - 1)
    BY <2>1
  <2> DEFINE h == [k \in 0..m |-> IF k = m THEN 2 * g[m - 1] ELSE g[k]]
  <2>3. ASSUME NEW k \in 0..m PROVE h[k] = IF k = 0 THEN 1 ELSE 2 * h[k - 1]
    <3>1. CASE k = m
      <4>1. h[m - 1] = g[m - 1] /\ h[k] = 2 * g[m - 1]
        BY <1>3, <1>5, <3>1
      <4> QED BY <1>5, <3>1, <4>1
    <3>2. CASE k # m
      <4>1. k \in 0..(m - 1) /\ h[k] = g[k] /\ (k # 0 => k - 1 \in 0..m /\ k - 1 # m /\ h[k - 1] = g[k - 1])
        BY <1>3, <3>2
      <4>2. g[k] = IF k = 0 THEN 1 ELSE 2 * g[k - 1]
        BY <2>2, <4>1 DEF Doublings
      <4> QED BY <4>1, <4>2
    <3> QED BY <3>1, <3>2
  <2>4. Doublings(h, m)
    <3>1. h = [k \in 0..m |-> h[k]]
      OBVIOUS
    <3> HIDE DEF h
    <3> QED BY <2>3, <3>1 DEF Doublings
  <2> QED BY <1>3, <2>4
<1> QED BY <1>4, <1>5

LEMMA DoublingsAgree ==
    ASSUME NEW n \in Nat, NEW m \in Nat, NEW g, NEW h, Doublings(g, n), Doublings(h, m),
           NEW k \in Nat, k <= n, k <= m
    PROVE  g[k] = h[k]
<1> DEFINE Bad == {i \in Nat : i <= n /\ i <= m /\ g[i] # h[i]}
<1>1. SUFFICES ASSUME Bad # {} PROVE FALSE
  OBVIOUS
<1>2. PICK i \in Bad : \A j \in Bad : i <= j
  <2>1. Bad \in SUBSET Nat
    OBVIOUS
  <2> HIDE DEF Bad
  <2> QED BY <1>1, <2>1, SmallestNumber
<1>3. i \in 0..n /\ i \in 0..m /\ g[i] # h[i]
  OBVIOUS
<1>4. /\ g[i] = IF i = 0 THEN 1 ELSE 2 * g[i - 1]
      /\ h[i] = IF i = 0 THEN 1 ELSE 2 * h[i - 1]
  BY <1>3 DEF Doublings
<1>5. i # 0 => i - 1 \in Nat /\ i - 1 \notin Bad /\ i - 1 <= n /\ i - 1 <= m
  BY <1>2, <1>3
<1>6. i # 0 => g[i - 1] = h[i - 1]
  BY <1>5
<1> QED BY <1>3, <1>4, <1>6

LEMMA SizeDoubles ==
    /\ Size = [k \in Nat |-> IF k = 0 THEN 1 ELSE 2 * Size[k - 1]]
    /\ Size[0] = 1
    /\ \A k \in Nat \ {0} : Size[k] = 2 * Size[k - 1]
<1> DEFINE H(k) == CHOOSE h : Doublings(h, k)
           f == [k \in Nat |-> H(k)[k]]
<1>1. \A k \in Nat : Doublings(H(k), k)
  BY DoublingsExist
<1> HIDE DEF H
<1>2. \A k \in Nat : f[k] = IF k = 0 THEN 1 ELSE 2 * f[k - 1]
  <2> TAKE k \in Nat
  <2>1. H(k)[k] = IF k = 0 THEN 1 ELSE 2 * H(k)[k - 1]
    BY <1>1 DEF Doublings
  <2>2. k # 0 => H(k)[k - 1] = H(k - 1)[k - 1]
    BY <1>1, DoublingsAgree
  <2> QED BY <2>1, <2>2
<1>3. f = [k \in Nat |-> IF k = 0 THEN 1 ELSE 2 * f[k - 1]]
  <2>1. f = [k \in Nat |-> f[k]]
    OBVIOUS
  <2> HIDE DEF f
  <2> QED BY <1>2, <2>1
<1>4. Size = [k \in Nat |-> IF k = 0 THEN 1 ELSE 2 * Size[k - 1]]
  <2> HIDE DEF f
  <2> QED BY <1>3 DEF Size
<1> QED BY <1>4

LEMMA SizeGrows == \A k \in Nat : Size[k] \in Nat /\ Size[k] > k
<1> DEFINE Bad == {k \in Nat : ~ (Size[k] \in Nat /\ Size[k] > k)}
<1>1. SUFFICES ASSUME Bad # {} PROVE FALSE
  OBVIOUS
<1>2. PICK k \in Bad : \A j \in Bad : k <= j
  <2>1. Bad \in SUBSET Nat
    OBVIOUS
  <2> HIDE DEF Bad
  <2> QED BY <1>1, <2>1, SmallestNumber
<1>3. k # 0 => k - 1 \in Nat /\ k - 1 \notin Bad
  BY <1>2
<1>4. k # 0 => Size[k - 1] \in Nat /\ Size[k - 1] > k - 1
  BY <1>3
<1> QED BY <1>2, <1>4, SizeDoubles

\* The bracket has the fewest rounds that hold the field.
LEMMA RoundCountFits ==
    ASSUME NEW n \in Nat \ {0}
    PROVE  /\ RoundCount(n) \in 1..n
           /\ Size[RoundCount(n)] >= n
           /\ RoundCount(n) = 1 \/ Size[RoundCount(n) - 1] < n
<1> DEFINE Holds == {k \in Nat : k # 0 /\ Size[k] >= n}
<1>1. n \in Holds
  BY SizeGrows
<1>2. PICK k \in Holds : \A j \in Holds : k <= j
  <2>1. Holds \in SUBSET Nat /\ Holds # {}
    BY <1>1
  <2> HIDE DEF Holds
  <2> QED BY <2>1, SmallestNumber
<1>3. k \in 1..n /\ Size[k] >= n
  BY <1>1, <1>2
<1>4. k = 1 \/ Size[k - 1] < n
  BY <1>2, SizeGrows
<1> QED BY <1>3, <1>4 DEF RoundCount

----------------------------------------------------------------------------
(* Ties within a group *)

LEMMA LengthOf ==
    ASSUME NEW n \in Nat, NEW s, DOMAIN s = 1..n
    PROVE  Len(s) = n
OBVIOUS

LEMMA UntiedKeeps ==
    ASSUME NEW V, NEW N \in Nat, NEW slots \in [1..N -> V], NEW i \in 1..Pairs(slots)
    PROVE  Untied(slots, i) \in [1..N -> V]
<1> DEFINE fits == {j \in 1..Pairs(slots) \ {i} :
                       /\ slots[2 * j - 1] # NoSource /\ slots[2 * j] # NoSource
                       /\ ~ SameGroup(slots[2 * i - 1], slots[2 * j])
                       /\ ~ SameGroup(slots[2 * j - 1], slots[2 * i])}
<1>1. Len(slots) = N
  BY LengthOf
<1>2. \A j \in 1..Pairs(slots) : 2 * j \in 1..N
  BY <1>1 DEF Pairs
<1>3. fits # {} => Min(fits) \in 1..Pairs(slots)
  <2> SUFFICES ASSUME fits # {} PROVE Min(fits) \in 1..Pairs(slots)
    OBVIOUS
  <2>1. fits \in SUBSET Nat /\ fits \subseteq 1..Pairs(slots)
    OBVIOUS
  <2> HIDE DEF fits
  <2>2. \E x \in fits : \A y \in fits : x <= y
    BY <2>1, SmallestNumber
  <2> QED BY <2>1, <2>2 DEF Min
<1>4. CASE Untied(slots, i) = slots
  BY <1>4
<1>5. CASE fits # {} /\ Untied(slots, i) = [slots EXCEPT ![2 * i] = slots[2 * Min(fits)],
                                                         ![2 * Min(fits)] = slots[2 * i]]
  <2> HIDE DEF fits
  <2>1. 2 * i \in 1..N /\ 2 * Min(fits) \in 1..N
    BY <1>2, <1>3, <1>5
  <2> QED BY <1>5, <2>1
<1> QED BY <1>4, <1>5 DEF Untied

\* t[n]: the slots after the first n pairs have been looked at.
Unties(t, slots, n) == t = [i \in 0..n |-> IF i = 0 THEN slots ELSE Untied(t[i - 1], i)]

LEMMA UntiesExist ==
    ASSUME NEW slots, NEW n \in Nat
    PROVE  \E t : Unties(t, slots, n)
<1> DEFINE Bad == {m \in Nat : ~ \E t : Unties(t, slots, m)}
<1>1. SUFFICES ASSUME Bad # {} PROVE FALSE
  OBVIOUS
<1>2. PICK m \in Bad : \A k \in Bad : m <= k
  <2>1. Bad \in SUBSET Nat
    OBVIOUS
  <2> HIDE DEF Bad
  <2> QED BY <1>1, <2>1, SmallestNumber
<1>3. m \in Nat /\ ~ \E t : Unties(t, slots, m)
  OBVIOUS
<1>4. CASE m = 0
  <2> DEFINE t == [k \in 0..0 |-> slots]
  <2>1. \A k \in 0..0 : k = 0
    OBVIOUS
  <2>2. Unties(t, slots, 0)
    BY <2>1 DEF Unties
  <2> QED BY <1>3, <1>4, <2>2
<1>5. CASE m # 0
  <2>1. m - 1 \in Nat /\ m - 1 \notin Bad
    BY <1>2, <1>3, <1>5
  <2>2. PICK g : Unties(g, slots, m - 1)
    BY <2>1
  <2> DEFINE t == [k \in 0..m |-> IF k = m THEN Untied(g[m - 1], m) ELSE g[k]]
  <2>3. ASSUME NEW k \in 0..m PROVE t[k] = IF k = 0 THEN slots ELSE Untied(t[k - 1], k)
    <3>1. CASE k = m
      <4>1. t[m - 1] = g[m - 1] /\ t[k] = Untied(g[m - 1], m)
        BY <1>3, <1>5, <3>1
      <4> QED BY <1>5, <3>1, <4>1
    <3>2. CASE k # m
      <4>1. k \in 0..(m - 1) /\ t[k] = g[k] /\ (k # 0 => k - 1 \in 0..m /\ k - 1 # m /\ t[k - 1] = g[k - 1])
        BY <1>3, <3>2
      <4>2. g[k] = IF k = 0 THEN slots ELSE Untied(g[k - 1], k)
        BY <2>2, <4>1 DEF Unties
      <4> QED BY <4>1, <4>2
    <3> QED BY <3>1, <3>2
  <2>4. Unties(t, slots, m)
    <3>1. t = [k \in 0..m |-> t[k]]
      OBVIOUS
    <3> HIDE DEF t
    <3> QED BY <2>3, <3>1 DEF Unties
  <2> QED BY <1>3, <2>4
<1> QED BY <1>4, <1>5

LEMMA TiesKeep ==
    ASSUME NEW V, NEW N \in Nat, NEW slots \in [1..N -> V]
    PROVE  AvoidSameGroupTies(slots) \in [1..N -> V]
<1> DEFINE n == Pairs(slots)
<1>0. n \in Nat /\ \A s \in [1..N -> V] : Pairs(s) = n
  BY LengthOf DEF Pairs
<1> HIDE DEF n
<1>1. PICK t : Unties(t, slots, n) /\ AvoidSameGroupTies(slots) = t[n]
  <2>1. AvoidSameGroupTies(slots) = (CHOOSE t : Unties(t, slots, n))[n]
    BY DEF AvoidSameGroupTies, Unties, n
  <2>2. \E t : Unties(t, slots, n)
    BY <1>0, UntiesExist
  <2> QED BY <2>1, <2>2
<1> DEFINE Bad == {i \in Nat : i <= n /\ t[i] \notin [1..N -> V]}
<1>2. Bad = {}
  <2> SUFFICES ASSUME Bad # {} PROVE FALSE
    OBVIOUS
  <2>1. PICK i \in Bad : \A j \in Bad : i <= j
    <3>1. Bad \in SUBSET Nat
      OBVIOUS
    <3> HIDE DEF Bad
    <3> QED BY <3>1, SmallestNumber
  <2>2. i \in 0..n /\ t[i] \notin [1..N -> V]
    BY <1>0
  <2>3. t[i] = IF i = 0 THEN slots ELSE Untied(t[i - 1], i)
    BY <1>1, <2>2 DEF Unties
  <2>4. i # 0 => i - 1 \in Nat /\ i - 1 \notin Bad /\ i - 1 <= n
    BY <1>0, <2>1, <2>2
  <2>5. i # 0 => t[i - 1] \in [1..N -> V]
    BY <2>4
  <2>6. i # 0 => i \in 1..Pairs(t[i - 1])
    BY <1>0, <2>2, <2>5
  <2>7. CASE i = 0
    BY <2>2, <2>3, <2>7
  <2>8. CASE i # 0
    <3> DEFINE s == t[i - 1]
    <3>1. s \in [1..N -> V] /\ i \in 1..Pairs(s)
      BY <2>5, <2>6, <2>8
    <3>2. t[i] = Untied(s, i)
      BY <2>3, <2>8
    <3> HIDE DEF s
    <3>3. Untied(s, i) \in [1..N -> V]
      BY <3>1, UntiedKeeps
    <3> QED BY <2>2, <3>2, <3>3
  <2> QED BY <2>7, <2>8
<1> QED BY <1>0, <1>1, <1>2

----------------------------------------------------------------------------
(* What the draw writes *)

Columns == {"round", "pos", "day", "index", "group", "from", "a", "b", "status", "winner", "tossed"}
Ends == {"a", "b"}

\* A source of a fixture of round r looks back.
LooksBack(src, r) ==
    /\ src.type = "group" => src.group # NoGroup
    /\ src.type = "winner" => src.round \in Nat /\ src.round < r

\* A row as the draw writes it, in what never changes.
RowOk(row) ==
    /\ row = [c \in Columns |-> row[c]]
    /\ row.round \in Nat
    /\ row.round = 0 => \A x \in Ends : row.from[x].type = "team"
    /\ row.round # 0 => row.group = NoGroup /\ \A x \in Ends : LooksBack(row.from[x], row.round)

LEMMA SourceTypes ==
    /\ NoSource.type = "none"
    /\ \A t : Direct(t).type = "team"
    /\ \A g, k : Place(g, k).type = "group" /\ Place(g, k).group = g
    /\ \A r, p : WinnerOf(r, p).type = "winner" /\ WinnerOf(r, p).round = r
BY DEF NoSource, Direct, Place, WinnerOf

LEMMA MakeMatchOk ==
    ASSUME NEW round \in Nat, NEW pos, NEW day, NEW index, NEW g, NEW from,
           round = 0 => \A x \in Ends : from[x].type = "team",
           round # 0 => g = NoGroup /\ \A x \in Ends : LooksBack(from[x], round)
    PROVE  LET m == MakeMatch(round, pos, day, index, g, from)
           IN RowOk(m) /\ m.round = round /\ m.pos = pos
<1> DEFINE m == MakeMatch(round, pos, day, index, g, from)
<1>1. /\ m = [c \in Columns |-> m[c]]
      /\ m.round = round /\ m.pos = pos /\ m.group = g /\ m.from = from
  BY DEF MakeMatch, Columns
<1> HIDE DEF m
<1>2. RowOk(m)
  BY <1>1 DEF RowOk
<1> QED BY <1>1, <1>2 DEF m

LEMMA NumberedOk ==
    ASSUME NEW days, NEW m \in Numbered(days)
    PROVE  RowOk(m) /\ m.round = 0
<1>1. PICK n, day, index, g, one, two :
          m = MakeMatch(0, n, day, index, g, [a |-> Direct(one), b |-> Direct(two)])
  BY Zenon DEF Numbered
<1> DEFINE from == [a |-> Direct(one), b |-> Direct(two)]
<1>2. \A x \in Ends : from[x].type = "team"
  BY SourceTypes DEF Ends
<1> HIDE DEF from
<1>3. m = MakeMatch(0, n, day, index, g, from)
  BY <1>1 DEF from
<1> QED BY <1>2, <1>3, MakeMatchOk

LEMMA BracketOk ==
    ASSUME NEW n \in Nat, n >= 2, NEW seeds, DOMAIN seeds = 1..n, NEW day,
           \A i \in 1..n : seeds[i].type # "winner" /\ LooksBack(seeds[i], 1),
           NEW m \in Bracket(seeds, day)
    PROVE  RowOk(m) /\ m.round \in 1..n
<1> DEFINE rounds == RoundCount(Len(seeds))
           order == SeedOrder(rounds)
           dealt == [i \in 1..Size[rounds] |->
                        IF order[i] \in DOMAIN seeds THEN seeds[order[i]] ELSE NoSource]
           slots == AvoidSameGroupTies(dealt)
           From(r, p) == IF r = 1 THEN [a |-> slots[2 * p - 1], b |-> slots[2 * p]]
                         ELSE [a |-> WinnerOf(r - 1, 2 * p - 1), b |-> WinnerOf(r - 1, 2 * p)]
           Empty(from) == from.a = NoSource /\ from.b = NoSource
           Round(r) == {MakeMatch(r, p, day + r - 1, p - 1, NoGroup, From(r, p)) :
                            p \in {q \in 1..Size[rounds - r] : ~ Empty(From(r, q))}}
           V == {seeds[i] : i \in 1..n} \cup {NoSource}
<1>1. Len(seeds) = n
  BY LengthOf
<1>2. rounds \in 1..n
  BY <1>1, RoundCountFits
<1>3. Size[rounds] \in Nat /\ Size[rounds] = 2 * Size[rounds - 1]
  <2>1. rounds \in Nat \ {0} /\ rounds \in Nat
    BY <1>2
  <2>2. \A k \in Nat \ {0} : Size[k] = 2 * Size[k - 1]
    BY SizeDoubles
  <2> HIDE DEF rounds
  <2> QED BY <2>1, <2>2, SizeGrows
<1>4. m \in UNION {Round(r) : r \in 1..rounds}
  <2>1. ~ Len(seeds) < 2
    BY <1>1
  <2>2. Bracket(seeds, day) = UNION {Round(r) : r \in 1..rounds}
    BY <2>1, Zenon DEF Bracket
  <2> QED BY <2>2, Zenon
<1>5. slots \in [1..Size[rounds] -> V]
  <2>1. dealt \in [1..Size[rounds] -> V]
    <3> HIDE DEF rounds, order
    <3> QED OBVIOUS
  <2> HIDE DEF dealt, V, rounds
  <2> QED BY <1>3, <2>1, TiesKeep
<1>6. \A v \in V : v.type # "winner" /\ LooksBack(v, 1)
  BY SourceTypes DEF LooksBack
<1> HIDE DEF rounds, slots, V
<1>7. PICK r \in 1..rounds : m \in Round(r)
  BY <1>4
<1>8. PICK p \in 1..Size[rounds - r] :
          m = MakeMatch(r, p, day + r - 1, p - 1, NoGroup, From(r, p))
  BY <1>7
<1>9. r \in Nat /\ r # 0 /\ r \in 1..n
  BY <1>2, <1>7
<1>10. \A x \in Ends : LooksBack(From(r, p)[x], r)
  <2>1. CASE r = 1
    <3>1. 2 * p - 1 \in 1..Size[rounds] /\ 2 * p \in 1..Size[rounds]
      <4>1. p \in 1..Size[rounds - 1] /\ Size[rounds - 1] \in Nat
        BY <1>2, <1>8, <2>1, SizeGrows
      <4> QED BY <1>3, <4>1
    <3>2. slots[2 * p - 1] \in V /\ slots[2 * p] \in V
      BY <1>5, <3>1
    <3>3. LooksBack(slots[2 * p - 1], r) /\ LooksBack(slots[2 * p], r)
      BY <1>6, <2>1, <3>2
    <3> QED BY <2>1, <3>3 DEF Ends
  <2>2. CASE r # 1
    <3>1. \A k : LooksBack(WinnerOf(r - 1, k), r)
      BY <1>9, <2>2, SourceTypes DEF LooksBack
    <3> QED BY <2>2, <3>1 DEF Ends
  <2> QED BY <2>1, <2>2
<1> DEFINE from == From(r, p)
<1> HIDE DEF From
<1>11. RowOk(m) /\ m.round = r
  BY <1>8, <1>9, <1>10, MakeMatchOk
<1> QED BY <1>9, <1>11

\* The groups of a field of two or more are as many as were counted, of two each at least.
LEMMA DrawnGroups ==
    ASSUME NEW n \in Nat, n >= 2, NEW teams, DOMAIN teams = 1..n, NEW wanted \in Nat
    PROVE  LET count == GroupCount(n, WantedGroups(n, wanted))
               groups == AssignGroups(teams, WantedGroups(Len(teams), wanted))
           IN count \in Nat \ {0} /\ 2 * count <= n /\ Len(groups) = count /\ DOMAIN groups = 1..count
<1> DEFINE count == GroupCount(n, WantedGroups(n, wanted))
           groups == AssignGroups(teams, WantedGroups(Len(teams), wanted))
<1>1. Len(teams) = n
  BY LengthOf
<1>2. count \in Nat \ {0} /\ 2 * count <= n
  <2>1. WantedGroups(n, wanted) \in Nat
    <3>1. Max({2, (n + 2) \div 4}) \in {2, (n + 2) \div 4}
      <4>1. 2 \in Int /\ (n + 2) \div 4 \in Int
        OBVIOUS
      <4> QED BY <4>1, MaxOfTwo, Zenon
    <3>2. (n + 2) \div 4 \in Nat
      OBVIOUS
    <3> QED BY <3>1, <3>2 DEF WantedGroups, SuggestGroupCount
  <2> QED BY <2>1, GroupCountFits
<1>3. DOMAIN groups = 1..count
  BY <1>1 DEF AssignGroups
<1>4. Len(groups) = count
  <2> HIDE DEF groups, count
  <2> QED BY <1>2, <1>3, LengthOf
<1> QED BY <1>2, <1>3, <1>4

\* The fixtures of every format, for every field of two or more.
LEMMA BuildOk ==
    ASSUME NEW n \in Nat, n >= 2, NEW teams, DOMAIN teams = 1..n, NEW wanted \in Nat,
           NEW format \in Formats, NEW double
    PROVE  \E K \in Nat : \A m \in Build(format, teams, wanted, double) : RowOk(m) /\ m.round <= K
<1> DEFINE count == GroupCount(n, WantedGroups(n, wanted))
           groups == AssignGroups(teams, WantedGroups(Len(teams), wanted))
           days == GroupDays(groups)
           g == Len(groups)
           qualifiers == [i \in 1..(2 * g) |-> IF i <= g THEN Place(i, 1) ELSE Place(i - g, 2)]
           seeds == [i \in DOMAIN teams |-> Direct(teams[i])]
<1>2. count \in Nat \ {0} /\ 2 * count <= n
  BY DrawnGroups
<1>3. g = count
  BY DrawnGroups
<1> HIDE DEF count
<1>4. \A m \in Bracket(seeds, 0) : RowOk(m) /\ m.round \in 1..n
  <2>1. DOMAIN seeds = 1..n
    OBVIOUS
  <2>2. \A i \in 1..n : seeds[i].type # "winner" /\ LooksBack(seeds[i], 1)
    BY SourceTypes DEF LooksBack
  <2> HIDE DEF seeds
  <2> QED BY <2>1, <2>2, BracketOk
<1>5. \A m \in Bracket(qualifiers, Len(days)) : RowOk(m) /\ m.round \in 1..(2 * count)
  <2>1. DOMAIN qualifiers = 1..(2 * count) /\ 2 * count \in Nat /\ 2 * count >= 2
    BY <1>2, <1>3
  <2>2. ASSUME NEW i \in 1..(2 * count)
        PROVE  qualifiers[i].type # "winner" /\ LooksBack(qualifiers[i], 1)
    <3> HIDE DEF g
    <3>1. CASE i <= g
      <4>1. qualifiers[i] = Place(i, 1) /\ i # NoGroup
        BY <1>3, <3>1 DEF NoGroup
      <4> HIDE DEF qualifiers
      <4> QED BY <4>1, SourceTypes DEF LooksBack
    <3>2. CASE ~ i <= g
      <4>1. qualifiers[i] = Place(i - g, 2) /\ i - g # NoGroup
        BY <1>2, <1>3, <3>2 DEF NoGroup
      <4> HIDE DEF qualifiers
      <4> QED BY <4>1, SourceTypes DEF LooksBack
    <3> QED BY <3>1, <3>2
  <2> HIDE DEF qualifiers, days
  <2> QED BY <2>1, <2>2, BracketOk
<1>6. \A m \in Build(format, teams, wanted, double) :
          \/ m \in Bracket(seeds, 0) \/ m \in Bracket(qualifiers, Len(days))
          \/ \E ds : m \in Numbered(ds)
  BY Zenon DEF Build, League, Formats
<1>7. \A m \in Build(format, teams, wanted, double) : RowOk(m) /\ m.round <= n
  <2> TAKE m \in Build(format, teams, wanted, double)
  <2> HIDE DEF seeds, qualifiers, days
  <2>1. CASE m \in Bracket(seeds, 0)
    BY <1>4, <2>1
  <2>2. CASE m \in Bracket(qualifiers, Len(days))
    BY <1>2, <1>5, <2>2
  <2>3. CASE \E ds : m \in Numbered(ds)
    BY <2>3, NumberedOk
  <2> QED BY <1>6, <2>1, <2>2, <2>3
<1> QED BY <1>7

----------------------------------------------------------------------------
(* Fixtures are finitely many *)

\* A list, and a list of lists.
Listed(l) == l = [i \in DOMAIN l |-> l[i]] /\ \E n \in Nat : DOMAIN l = 1..n
Days(ds) == Listed(ds) /\ \A d \in DOMAIN ds : Listed(ds[d])

\* What is listed is a sequence of what it holds.
LEMMA ListIsSeq ==
    ASSUME NEW l, Listed(l), NEW S, \A i \in DOMAIN l : l[i] \in S
    PROVE  l \in Seq(S)
<1>1. PICK n \in Nat : DOMAIN l = 1..n
  BY DEF Listed
<1>2. l \in [1..n -> S]
  BY <1>1 DEF Listed
<1> QED BY <1>2

LEMMA NothingListed == Days(<<>>) /\ Len(<<>>) = 0
<1>1. DOMAIN <<>> = 1..0 /\ 0 \in Nat /\ <<>> = [i \in DOMAIN <<>> |-> <<>>[i]] /\ Len(<<>>) = 0
  OBVIOUS
<1>2. \A d \in DOMAIN <<>> : FALSE
  OBVIOUS
<1> QED BY <1>1, <1>2 DEF Days, Listed

LEMMA ListLength ==
    ASSUME NEW l, Listed(l)
    PROVE  Len(l) \in Nat /\ DOMAIN l = 1..Len(l)
<1>1. PICK n \in Nat : DOMAIN l = 1..n
  BY DEF Listed
<1>2. Len(l) = n
  BY <1>1, LengthOf
<1> QED BY <1>1, <1>2

LEMMA SeqIsList ==
    ASSUME NEW S, NEW l \in Seq(S)
    PROVE  Listed(l) /\ Len(l) \in Nat /\ DOMAIN l = 1..Len(l) /\ \A i \in DOMAIN l : l[i] \in S
BY DEF Listed

Flattens(t, f, n) == t = [i \in 1..n |-> IF i = 1 THEN f[i] ELSE t[i - 1] \o f[i]]

LEMMA FlattensExist ==
    ASSUME NEW f, NEW n \in Nat
    PROVE  \E t : Flattens(t, f, n)
<1> DEFINE Bad == {m \in Nat : ~ \E t : Flattens(t, f, m)}
<1>1. SUFFICES ASSUME Bad # {} PROVE FALSE
  OBVIOUS
<1>2. PICK m \in Bad : \A k \in Bad : m <= k
  <2>1. Bad \in SUBSET Nat
    OBVIOUS
  <2> HIDE DEF Bad
  <2> QED BY <1>1, <2>1, SmallestNumber
<1>3. m \in Nat /\ ~ \E t : Flattens(t, f, m)
  OBVIOUS
<1>4. CASE m = 0
  <2> DEFINE t == [k \in 1..0 |-> f[k]]
  <2>1. \A k \in 1..0 : FALSE
    OBVIOUS
  <2>2. Flattens(t, f, 0)
    BY <2>1 DEF Flattens
  <2> QED BY <1>3, <1>4, <2>2
<1>5. CASE m # 0
  <2>1. m - 1 \in Nat /\ m - 1 \notin Bad
    BY <1>2, <1>3, <1>5
  <2>2. PICK g : Flattens(g, f, m - 1)
    BY <2>1
  <2> DEFINE t == [k \in 1..m |-> IF k = 1 THEN f[k] ELSE IF k = m THEN g[m - 1] \o f[m] ELSE g[k]]
  <2>3. ASSUME NEW k \in 1..m PROVE t[k] = IF k = 1 THEN f[k] ELSE t[k - 1] \o f[k]
    <3>1. g[1] = f[1] \/ m = 1
      BY <1>3, <1>5, <2>2 DEF Flattens
    <3>2. k # 1 => t[k - 1] = g[k - 1] /\ k - 1 \in 1..(m - 1)
      BY <1>3, <3>1
    <3>3. CASE k = m
      BY <3>2, <3>3
    <3>4. CASE k # m
      <4>1. k \in 1..(m - 1) /\ (k # 1 => t[k] = g[k])
        BY <1>3, <3>4
      <4>2. g[k] = IF k = 1 THEN f[k] ELSE g[k - 1] \o f[k]
        BY <2>2, <4>1 DEF Flattens
      <4> QED BY <3>2, <4>1, <4>2
    <3> QED BY <3>3, <3>4
  <2>4. Flattens(t, f, m)
    <3>1. t = [k \in 1..m |-> t[k]]
      OBVIOUS
    <3> HIDE DEF t
    <3> QED BY <2>3, <3>1 DEF Flattens
  <2> QED BY <1>3, <2>4
<1> QED BY <1>4, <1>5

\* Sequences one after another are a sequence.
LEMMA FlatIsSeq ==
    ASSUME NEW S, NEW n \in Nat, NEW f \in [1..n -> Seq(S)]
    PROVE  FlattenSeq(f) \in Seq(S)
<1>1. Len(f) = n
  BY LengthOf
<1>2. CASE n = 0
  <2>1. FlattenSeq(f) = f
    BY <1>1, <1>2 DEF FlattenSeq
  <2>2. f \in [1..0 -> S]
    BY <1>2
  <2> QED BY <2>1, <2>2
<1>3. CASE n # 0
  <2>1. PICK t : Flattens(t, f, n) /\ FlattenSeq(f) = t[n]
    <3>1. FlattenSeq(f) = (CHOOSE t : Flattens(t, f, n))[n]
      BY <1>1, <1>3 DEF FlattenSeq, Flattens
    <3>2. \E t : Flattens(t, f, n)
      BY FlattensExist
    <3> QED BY <3>1, <3>2
  <2> DEFINE Bad == {k \in Nat : k # 0 /\ k <= n /\ t[k] \notin Seq(S)}
  <2>2. Bad = {}
    <3> SUFFICES ASSUME Bad # {} PROVE FALSE
      OBVIOUS
    <3>1. PICK k \in Bad : \A j \in Bad : k <= j
      <4>1. Bad \in SUBSET Nat
        OBVIOUS
      <4> HIDE DEF Bad
      <4> QED BY <4>1, SmallestNumber
    <3>2. k \in 1..n /\ t[k] \notin Seq(S)
      OBVIOUS
    <3>3. t[k] = IF k = 1 THEN f[k] ELSE t[k - 1] \o f[k]
      BY <2>1, <3>2 DEF Flattens
    <3>4. f[k] \in Seq(S)
      BY <3>2
    <3>5. k # 1 => t[k - 1] \in Seq(S)
      <4>1. k # 1 => k - 1 \in Nat /\ k - 1 # 0 /\ k - 1 \notin Bad /\ k - 1 <= n
        BY <3>1, <3>2
      <4> QED BY <4>1
    <3> HIDE DEF Bad
    <3> QED BY <3>2, <3>3, <3>4, <3>5
  <2> QED BY <1>3, <2>1, <2>2
<1> QED BY <1>2, <1>3

LEMMA NumberedFinite ==
    ASSUME NEW days, Days(days)
    PROVE  IsFiniteSet(Numbered(days))
<1> DEFINE cell(d, i) == [day |-> d - 1, index |-> i - 1, match |-> days[d][i]]
           f == [d \in DOMAIN days |-> [i \in DOMAIN days[d] |-> cell(d, i)]]
           S == {cell(d[1], d[2]) : d \in {e \in (DOMAIN days) \X UNION {DOMAIN days[d] : d \in DOMAIN days} :
                                               e[2] \in DOMAIN days[e[1]]}}
           all == FlattenSeq(f)
           row(n) == MakeMatch(0, n, all[n].day, all[n].index, all[n].match.group,
                               [a |-> Direct(all[n].match.pair[1]), b |-> Direct(all[n].match.pair[2])])
           h == [n \in DOMAIN all |-> row(n)]
<1>1. Numbered(days) = {row(n) : n \in DOMAIN all}
  BY Zenon DEF Numbered
<1>2. PICK m \in Nat : DOMAIN days = 1..m
  BY DEF Days, Listed
<1>3. ASSUME NEW d \in DOMAIN days PROVE f[d] \in Seq(S)
  <2>1. \A i \in DOMAIN days[d] : cell(d, i) \in S
    <3> TAKE i \in DOMAIN days[d]
    <3> DEFINE e == <<d, i>>
    <3>1. e \in (DOMAIN days) \X UNION {DOMAIN days[c] : c \in DOMAIN days} /\ e[2] \in DOMAIN days[e[1]]
      OBVIOUS
    <3>2. cell(d, i) = cell(e[1], e[2])
      OBVIOUS
    <3> HIDE DEF cell, e
    <3> QED BY <3>1, <3>2
  <2>2. PICK k \in Nat : DOMAIN days[d] = 1..k
    BY DEF Days, Listed
  <2>3. f[d] = [i \in 1..k |-> cell(d, i)]
    BY <2>2
  <2> HIDE DEF f, S, cell
  <2>4. f[d] \in [1..k -> S]
    BY <2>1, <2>2, <2>3
  <2> QED BY <2>4
<1>4. all \in Seq(S)
  <2>1. f \in [1..m -> Seq(S)]
    BY <1>2, <1>3
  <2> HIDE DEF f, S
  <2> QED BY <2>1, FlatIsSeq
<1>5. IsFiniteSet(DOMAIN all)
  <2> HIDE DEF all, S
  <2>1. DOMAIN all = 1..Len(all) /\ Len(all) \in Nat
    BY <1>4, SeqIsList
  <2> QED BY <2>1, FS_Interval
<1>6. Numbered(days) = {h[n] : n \in DOMAIN all}
  <2> HIDE DEF row, all
  <2> QED BY <1>1
<1> HIDE DEF all, h
<1> QED BY <1>5, <1>6, ValuesFinite

LEMMA OrderListed ==
    ASSUME NEW k \in Nat, NEW P \in SUBSET (1..k)
    PROVE  Listed(InOrder(P, <)) /\ Len(InOrder(P, <)) <= k
<1>1. Cardinality(P) \in Nat /\ Cardinality(P) <= k
  <2>1. IsFiniteSet(1..k) /\ Cardinality(1..k) = k
    BY FS_Interval
  <2>2. IsFiniteSet(P) /\ Cardinality(P) <= Cardinality(1..k)
    BY <2>1, FS_Subset
  <2> QED BY <2>1, <2>2, FS_CardinalityType
<1> DEFINE o == InOrder(P, <)
<1>2. DOMAIN o = 1..Cardinality(P) /\ o = [i \in DOMAIN o |-> o[i]]
  <2> DEFINE e(i) == CHOOSE x \in P : Cardinality({y \in P : y < x}) = i - 1
  <2>1. o = [i \in 1..Cardinality(P) |-> e(i)]
    BY DEF InOrder
  <2> HIDE DEF e, o
  <2> QED BY <2>1
<1> HIDE DEF o
<1>3. Len(o) = Cardinality(P)
  BY <1>1, <1>2, LengthOf
<1> QED BY <1>1, <1>2, <1>3 DEF Listed, o

\* The rounds of a table are listed, fewer than its teams and one.
LEMMA CircleListed ==
    ASSUME NEW n \in Nat, NEW teams, teams = [i \in 1..n |-> teams[i]]
    PROVE  Days(CircleMethod(teams)) /\ Len(CircleMethod(teams)) \in 0..n
<1> DEFINE ring == IF Len(teams) % 2 = 1 THEN Append(teams, NoTeam) ELSE teams
           rounds == CircleMethod(teams)
<1>1. Len(teams) = n
  BY LengthOf
<1>2. Len(ring) \in Nat /\ Len(ring) <= n + 1 /\ (n >= 2 => Len(ring) >= 2)
  <2> DEFINE S == {teams[i] : i \in 1..n} \cup {NoTeam}
  <2>1. teams \in Seq(S) /\ NoTeam \in S
    OBVIOUS
  <2> HIDE DEF S
  <2> QED BY <1>1, <2>1
<1>3. CASE n < 2
  <2>1. rounds = <<>>
    BY <1>1, <1>3 DEF CircleMethod
  <2> QED BY <2>1, NothingListed
<1>4. CASE n >= 2
  <2> DEFINE last == Len(ring) - 1
             wheel == CHOOSE wheel : wheel = [r \in Nat |-> IF r = 0 THEN ring ELSE Turned(wheel[r - 1])]
             Meeting(r, i) ==
                 LET one == wheel[r][i]
                     two == wheel[r][Len(ring) + 1 - i]
                 IN IF r % 2 = 0 THEN <<one, two>> ELSE <<two, one>>
             Set(r) == {i \in 1..(Len(ring) \div 2) : NoTeam \notin ToSet(Meeting(r, i))}
             Played(r) == InOrder(Set(r), <)
             Cell(r, k) == Meeting(r - 1, Played(r - 1)[k])
  <2>1. rounds = [r \in 1..last |-> [k \in DOMAIN Played(r - 1) |-> Cell(r, k)]]
    <3>1. ~ Len(teams) < 2
      BY <1>1, <1>4
    <3> QED BY <3>1, Zenon DEF CircleMethod
  <2>2. \A r : Listed(Played(r))
    <3>1. Len(ring) \div 2 \in Nat
      BY <1>2
    <3>2. \A r : Set(r) \in SUBSET (1..(Len(ring) \div 2))
      OBVIOUS
    <3> HIDE DEF Set, ring
    <3> QED BY <3>1, <3>2, OrderListed
  <2> HIDE DEF Cell, Played, rounds, ring
  <2>3. last \in Nat /\ last <= n
    BY <1>2, <1>4
  <2> HIDE DEF last
  <2>4. /\ DOMAIN rounds = 1..last /\ rounds = [r \in DOMAIN rounds |-> rounds[r]]
        /\ \A r \in 1..last : rounds[r] = [k \in DOMAIN Played(r - 1) |-> Cell(r, k)]
    BY <2>1
  <2>5. \A r \in 1..last : Listed(rounds[r])
    BY <2>2, <2>4 DEF Listed
  <2>6. Len(rounds) = last
    BY <2>3, <2>4, LengthOf
  <2>7. Listed(rounds)
    BY <2>3, <2>4 DEF Listed
  <2>8. Days(rounds)
    BY <2>4, <2>5, <2>7 DEF Days
  <2>9. Len(rounds) \in 0..n
    BY <2>3, <2>6
  <2> QED BY <2>8, <2>9 DEF rounds
<1> QED BY <1>3, <1>4

\* The days of a league are listed, and those of a group stage: their fixtures are
\* finitely many.
LEMMA LeagueFinite ==
    ASSUME NEW n \in Nat, NEW teams, teams = [i \in 1..n |-> teams[i]], NEW double
    PROVE  IsFiniteSet(League(teams, double))
<1> DEFINE first == CircleMethod(teams)
           back == [r \in DOMAIN first |-> [i \in DOMAIN first[r] |-> Reverse(first[r][i])]]
           rounds == IF double THEN first \o back ELSE first
           days == [r \in DOMAIN rounds |->
                       [i \in DOMAIN rounds[r] |-> [group |-> NoGroup, pair |-> rounds[r][i]]]]
<1>1. League(teams, double) = Numbered(days)
  BY Zenon DEF League
<1>2. Days(first)
  BY CircleListed
<1> HIDE DEF first
<1>3. Days(back)
  <2>1. Listed(back)
    BY <1>2 DEF Days, Listed
  <2>2. \A r \in DOMAIN back : Listed(back[r])
    BY <1>2 DEF Days, Listed
  <2> QED BY <2>1, <2>2 DEF Days
<1> HIDE DEF back
<1>4. Days(first \o back)
  <2> DEFINE S == {first[r] : r \in DOMAIN first} \cup {back[r] : r \in DOMAIN back}
  <2>1. first \in Seq(S) /\ back \in Seq(S)
    BY <1>2, <1>3, ListIsSeq DEF Days
  <2>2. \A l \in S : Listed(l)
    BY <1>2, <1>3 DEF Days
  <2> HIDE DEF S
  <2>3. first \o back \in Seq(S)
    BY <2>1
  <2> QED BY <2>2, <2>3, SeqIsList DEF Days
<1>5. Days(rounds)
  BY <1>2, <1>4
<1> HIDE DEF rounds
<1>6. Days(days)
  <2>1. Listed(days)
    BY <1>5 DEF Days, Listed
  <2>2. \A r \in DOMAIN days : Listed(days[r])
    BY <1>5 DEF Days, Listed
  <2> QED BY <2>1, <2>2 DEF Days
<1> QED BY <1>1, <1>6, NumberedFinite

\* The days of a group stage are listed.
LEMMA GroupDaysListed ==
    ASSUME NEW c \in Nat \ {0}, NEW K \in Nat, NEW groups, groups = [g \in 1..c |-> groups[g]],
           \A g \in 1..c : \E n \in 0..K : groups[g] = [i \in 1..n |-> groups[g][i]]
    PROVE  Days(GroupDays(groups))
<1> DEFINE rounds == [g \in DOMAIN groups |-> CircleMethod(groups[g])]
           most == Max({Len(rounds[g]) : g \in DOMAIN groups})
           match(d, g, i) == [group |-> g, pair |-> rounds[g][d][i]]
           table(d, g) == IF d \in DOMAIN rounds[g] THEN [i \in DOMAIN rounds[g][d] |-> match(d, g, i)] ELSE <<>>
           f(d) == [g \in DOMAIN groups |-> table(d, g)]
           days == GroupDays(groups)
<1>1. days = [d \in 1..most |-> FlattenSeq(f(d))]
  BY Zenon DEF GroupDays
<1>2. \A g \in 1..c : Days(rounds[g]) /\ Len(rounds[g]) \in 0..K
  <2> TAKE g \in 1..c
  <2>1. PICK n \in 0..K : groups[g] = [i \in 1..n |-> groups[g][i]]
    OBVIOUS
  <2>2. n \in Nat /\ n <= K /\ rounds[g] = CircleMethod(groups[g])
    OBVIOUS
  <2>3. Days(CircleMethod(groups[g])) /\ Len(CircleMethod(groups[g])) \in 0..n
    BY <2>1, <2>2, CircleListed
  <2> QED BY <2>2, <2>3
<1> HIDE DEF rounds
<1>3. most \in Nat
  <2> DEFINE S == {Len(rounds[g]) : g \in DOMAIN groups}
  <2>0. DOMAIN groups = 1..c /\ 1 \in 1..c
    OBVIOUS
  <2>1. S \in SUBSET Nat /\ S # {} /\ \A x \in S : x <= K
    <3>1. \A g \in 1..c : Len(rounds[g]) \in Nat /\ Len(rounds[g]) <= K
      BY <1>2
    <3>2. S = {Len(rounds[g]) : g \in 1..c}
      BY <2>0
    <3> HIDE DEF S
    <3>3. S \in SUBSET Nat /\ \A x \in S : x <= K
      BY <3>1, <3>2
    <3>4. Len(rounds[1]) \in S
      BY <2>0, <3>2
    <3> QED BY <3>3, <3>4
  <2> HIDE DEF S
  <2>2. Max(S) \in Nat
    BY <2>1, MaxBounded
  <2> QED BY <2>2 DEF S
<1>4. ASSUME NEW d \in 1..most PROVE Listed(FlattenSeq(f(d)))
  <2> DEFINE S == UNION {{table(d, g)[i] : i \in DOMAIN table(d, g)} : g \in 1..c}
  <2>1. ASSUME NEW g \in 1..c PROVE Listed(table(d, g))
    <3>1. CASE d \notin DOMAIN rounds[g]
      BY <3>1, NothingListed DEF Days
    <3>2. CASE d \in DOMAIN rounds[g]
      <4>1. Listed(rounds[g][d])
        BY <1>2, <3>2 DEF Days
      <4>2. table(d, g) = [i \in DOMAIN rounds[g][d] |-> match(d, g, i)]
        BY <3>2
      <4> HIDE DEF match, table
      <4> QED BY <4>1, <4>2 DEF Listed
    <3> QED BY <3>1, <3>2
  <2> HIDE DEF table
  <2>2. ASSUME NEW g \in 1..c PROVE table(d, g) \in Seq(S)
    <3>1. \A i \in DOMAIN table(d, g) : table(d, g)[i] \in S
      OBVIOUS
    <3> HIDE DEF S
    <3> QED BY <2>1, <3>1, ListIsSeq
  <2>3. f(d) \in [1..c -> Seq(S)]
    <3> HIDE DEF S
    <3> QED BY <2>2
  <2> HIDE DEF S, f
  <2>4. FlattenSeq(f(d)) \in Seq(S)
    BY <2>3, FlatIsSeq
  <2> DEFINE l == FlattenSeq(f(d))
  <2>5. l \in Seq(S)
    BY <2>4
  <2> HIDE DEF l
  <2>6. Listed(l)
    BY <2>5, SeqIsList
  <2> QED BY <2>6 DEF l
<1> HIDE DEF f, most, days
<1>5. Listed(days)
  BY <1>1, <1>3 DEF Listed
<1> QED BY <1>1, <1>4, <1>5 DEF Days, days

\* The fixtures of a bracket, and of every format, are finitely many.
LEMMA BracketFinite ==
    ASSUME NEW n \in Nat, n >= 2, NEW seeds, DOMAIN seeds = 1..n, NEW day
    PROVE  IsFiniteSet(Bracket(seeds, day))
<1> DEFINE rounds == RoundCount(Len(seeds))
           order == SeedOrder(rounds)
           dealt == [i \in 1..Size[rounds] |->
                        IF order[i] \in DOMAIN seeds THEN seeds[order[i]] ELSE NoSource]
           slots == AvoidSameGroupTies(dealt)
           From(r, p) == IF r = 1 THEN [a |-> slots[2 * p - 1], b |-> slots[2 * p]]
                         ELSE [a |-> WinnerOf(r - 1, 2 * p - 1), b |-> WinnerOf(r - 1, 2 * p)]
           Empty(from) == from.a = NoSource /\ from.b = NoSource
           Row(r, p) == MakeMatch(r, p, day + r - 1, p - 1, NoGroup, From(r, p))
           Drawn(r) == {q \in 1..Size[rounds - r] : ~ Empty(From(r, q))}
           Round(r) == {Row(r, p) : p \in Drawn(r)}
<1>1. Len(seeds) = n
  BY LengthOf
<1>2. rounds \in 1..n
  BY <1>1, RoundCountFits
<1>3. Bracket(seeds, day) = UNION {Round(r) : r \in 1..rounds}
  <2>1. ~ Len(seeds) < 2
    BY <1>1
  <2> QED BY <2>1, Zenon DEF Bracket
<1> HIDE DEF rounds, From, Empty, Row
<1>4. ASSUME NEW r \in 1..rounds PROVE IsFiniteSet(Round(r))
  <2> DEFINE row == [p \in Drawn(r) |-> Row(r, p)]
  <2>1. Size[rounds - r] \in Nat
    <3>1. rounds - r \in Nat
      BY <1>2
    <3> QED BY <3>1, SizeGrows
  <2>2. IsFiniteSet(1..Size[rounds - r])
    BY <2>1, FS_Interval
  <2>3. IsFiniteSet(Drawn(r))
    BY <2>2, FS_Subset
  <2> HIDE DEF Drawn
  <2>4. Round(r) = {row[p] : p \in Drawn(r)}
    OBVIOUS
  <2> HIDE DEF row, Round
  <2> QED BY <2>3, <2>4, ValuesFinite
<1> HIDE DEF Round
<1> DEFINE R == [r \in 1..rounds |-> Round(r)]
<1>5. {Round(r) : r \in 1..rounds} = {R[r] : r \in 1..rounds}
  OBVIOUS
<1>6. IsFiniteSet(1..rounds)
  BY <1>2, FS_Interval
<1>7. \A r \in 1..rounds : IsFiniteSet(R[r])
  BY <1>4
<1> HIDE DEF R
<1>8. IsFiniteSet({R[r] : r \in 1..rounds})
  BY <1>6, ValuesFinite
<1> DEFINE All == {R[r] : r \in 1..rounds}
<1>9. \A T \in All : IsFiniteSet(T)
  BY <1>7
<1> HIDE DEF All
<1>10. IsFiniteSet(UNION All)
  BY <1>8, <1>9, FS_UNION DEF All
<1> QED BY <1>3, <1>5, <1>10 DEF All

LEMMA BuildFinite ==
    ASSUME NEW n \in Nat, n >= 2, NEW teams, teams = [i \in 1..n |-> teams[i]], NEW wanted \in Nat,
           NEW format \in Formats, NEW double
    PROVE  IsFiniteSet(Build(format, teams, wanted, double))
<1> DEFINE count == GroupCount(n, WantedGroups(n, wanted))
           groups == AssignGroups(teams, WantedGroups(Len(teams), wanted))
           days == GroupDays(groups)
           g == Len(groups)
           qualifiers == [i \in 1..(2 * g) |-> IF i <= g THEN Place(i, 1) ELSE Place(i - g, 2)]
           seeds == [i \in DOMAIN teams |-> Direct(teams[i])]
<1>0. DOMAIN teams = 1..n /\ Len(teams) = n
  BY LengthOf
<1>1. g = count /\ count \in Nat \ {0} /\ DOMAIN groups = 1..count
  BY <1>0, DrawnGroups
<1>2. /\ groups = [i \in 1..count |-> groups[i]]
      /\ \A i \in 1..count : \E m \in 0..n : groups[i] = [j \in 1..m |-> groups[i][j]]
  <2> DEFINE drawn == GroupCount(Len(teams), WantedGroups(Len(teams), wanted))
             Of(i) == {k \in DOMAIN teams : GroupOfSeed(k, drawn) = i}
             ks(i) == InOrder(Of(i), <)
             team(i, j) == teams[ks(i)[j]]
  <2>0. drawn = count
    BY <1>0
  <2>1. groups = [i \in 1..drawn |-> [j \in DOMAIN ks(i) |-> team(i, j)]]
    BY Zenon DEF AssignGroups
  <2>2. ASSUME NEW i \in 1..count PROVE Listed(ks(i)) /\ Len(ks(i)) \in 0..n
    <3>1. Of(i) \in SUBSET (1..n)
      BY <1>0
    <3> HIDE DEF Of
    <3> DEFINE l == ks(i)
    <3>2. Listed(l) /\ Len(l) <= n
      BY <3>1, OrderListed
    <3> HIDE DEF l
    <3>3. Listed(l) /\ Len(l) \in 0..n
      BY <3>2, ListLength
    <3> QED BY <3>3, Zenon DEF l
  <2> HIDE DEF ks, groups, count, drawn
  <2>3. ASSUME NEW i \in 1..count
        PROVE \E m \in 0..n : groups[i] = [j \in 1..m |-> groups[i][j]]
    <3> HIDE DEF team
    <3>1. groups[i] = [j \in DOMAIN ks(i) |-> team(i, j)]
      BY <2>0, <2>1
    <3>2. DOMAIN ks(i) = 1..Len(ks(i))
      BY <2>2, ListLength
    <3>3. groups[i] = [j \in 1..Len(ks(i)) |-> groups[i][j]]
      BY <3>1, <3>2
    <3> QED BY <2>2, <3>3
  <2> QED BY <2>0, <2>1, <2>3
<1> HIDE DEF count, groups
<1>3. Days(days)
  BY <1>1, <1>2, GroupDaysListed
<1> HIDE DEF days
<1>4. IsFiniteSet(Numbered(days))
  BY <1>3, NumberedFinite
<1>5. IsFiniteSet(Bracket(seeds, 0))
  <2>1. DOMAIN seeds = 1..n
    BY <1>0
  <2> HIDE DEF seeds
  <2> QED BY <2>1, BracketFinite
<1>6. IsFiniteSet(Bracket(qualifiers, Len(days)))
  <2>1. DOMAIN qualifiers = 1..(2 * g) /\ 2 * g \in Nat /\ 2 * g >= 2
    BY <1>1
  <2> HIDE DEF qualifiers, g
  <2> QED BY <2>1, BracketFinite
<1>7. IsFiniteSet(League(teams, double))
  BY LeagueFinite
<1>8. IsFiniteSet(Numbered(days) \cup Bracket(qualifiers, Len(days)))
  <2> HIDE DEF qualifiers
  <2> QED BY <1>4, <1>6, FS_Union
<1>9. \/ Build(format, teams, wanted, double) = Bracket(seeds, 0)
      \/ Build(format, teams, wanted, double) = League(teams, double)
      \/ Build(format, teams, wanted, double) = Numbered(days)
      \/ Build(format, teams, wanted, double) = Numbered(days) \cup Bracket(qualifiers, Len(days))
  BY Zenon DEF Build, Formats, days, groups
<1> HIDE DEF seeds, qualifiers
<1> QED BY <1>4, <1>5, <1>7, <1>8, <1>9

----------------------------------------------------------------------------
(* Everyone meets everyone *)

\* Who of N teams has come to the i-th place of the circle after r turns: the first
\* stays, the others have moved r places on.
AtTurn(N, r, i) == IF i = 1 THEN 1 ELSE IF i - 2 >= r THEN i - r ELSE i - r + N - 1

\* Who faces whom across the circle, at its i-th place and at the one opposite.
Facing(N, r, i) == {AtTurn(N, r, i), AtTurn(N, r, N + 1 - i)}

\* Every place is somebody's, and nobody is in two.
LEMMA AtOnce ==
    ASSUME NEW N \in Nat, N >= 2, NEW r \in 0..(N - 2)
    PROVE  /\ \A i \in 1..N : AtTurn(N, r, i) \in 1..N /\ (AtTurn(N, r, i) = 1 <=> i = 1)
           /\ \A i, j \in 1..N : AtTurn(N, r, i) = AtTurn(N, r, j) => i = j
BY DEF AtTurn

\* Any two come to face each other: which turn it is follows from the sum of their
\* numbers modulo N - 1, which is odd.
LEMMA FaceOnce ==
    ASSUME NEW h \in Nat \ {0}, NEW x \in 1..(2 * h), NEW y \in 1..(2 * h), x < y
    PROVE  \E r \in 0..(2 * h - 2), i \in 1..h : Facing(2 * h, r, i) = {x, y}
<1> DEFINE N == 2 * h
<1>1. SUFFICES \E r \in 0..(N - 2), i \in 1..h :
                  \/ AtTurn(N, r, i) = x /\ AtTurn(N, r, N + 1 - i) = y
                  \/ AtTurn(N, r, i) = y /\ AtTurn(N, r, N + 1 - i) = x
  BY DEF Facing
<1>2. CASE x = 1
  <2>1. N - y \in 0..(N - 2) /\ 1 \in 1..h
    BY <1>2
  <2>2. AtTurn(N, N - y, 1) = x /\ AtTurn(N, N - y, N + 1 - 1) = y
    BY <1>2 DEF AtTurn
  <2> QED BY <2>1, <2>2
<1>3. CASE x # 1
  <2>0. x \in Nat /\ y \in Nat /\ x >= 2 /\ y <= N /\ x < y /\ h \in Nat
    BY <1>3
  <2> HIDE DEF N
  <2>1. CASE \E s \in Nat : x + y = 2 * s
    <3>1. PICK s \in Nat : x + y = 2 * s
      BY <2>1
    <3> DEFINE r == N - s
               j == x + r
               i == y + r - N + 1
    <3>2. r \in 0..(N - 2) /\ i \in 1..h
      BY <2>0, <3>1 DEF N
    <3>3. N + 1 - i = j /\ i >= 2 /\ j >= 2 /\ ~ i - 2 >= r /\ j - 2 >= r
      BY <2>0, <3>1 DEF N
    <3>4. AtTurn(N, r, i) = y /\ AtTurn(N, r, N + 1 - i) = x
      BY <2>0, <3>1, <3>2, <3>3 DEF AtTurn, N
    <3> QED BY <3>2, <3>4
  <2>2. CASE \E s \in Nat : x + y = 2 * s + 1
    <3>1. PICK s \in Nat : x + y = 2 * s + 1
      BY <2>2
    <3>2. CASE s <= h
      <4> DEFINE r == h - s
                 i == x + r
      <4>1. r \in 0..(N - 2) /\ i \in 1..h
        BY <2>0, <3>1, <3>2 DEF N
      <4>2. N + 1 - i = y + r /\ i - 2 >= r /\ y + r - 2 >= r /\ i # 1 /\ y + r # 1
        BY <2>0, <3>1, <4>1 DEF N
      <4>3. AtTurn(N, r, i) = x /\ AtTurn(N, r, N + 1 - i) = y
        BY <2>0, <4>1, <4>2 DEF AtTurn, N
      <4> QED BY <4>1, <4>3
    <3>3. CASE s > h
      <4> DEFINE r == 3 * h - s - 1
                 i == x + r - N + 1
      <4>1. r \in 0..(N - 2) /\ i \in 1..h
        BY <2>0, <3>1, <3>3 DEF N
      <4>2. N + 1 - i = y + r - N + 1 /\ i >= 2 /\ ~ i - 2 >= r /\ ~ y + r - N + 1 - 2 >= r /\ y + r - N + 1 # 1
        BY <2>0, <3>1, <3>3, <4>1 DEF N
      <4>3. AtTurn(N, r, i) = x /\ AtTurn(N, r, N + 1 - i) = y
        BY <2>0, <4>1, <4>2 DEF AtTurn, N
      <4> QED BY <4>1, <4>3
    <3> QED BY <2>0, <3>1, <3>2, <3>3
  <2>3. \E s \in Nat : x + y = 2 * s \/ x + y = 2 * s + 1
    <3>1. (x + y) \div 2 \in Nat /\ (x + y = 2 * ((x + y) \div 2) \/ x + y = 2 * ((x + y) \div 2) + 1)
      BY <2>0
    <3> QED BY <3>1
  <2> QED BY <2>1, <2>2, <2>3 DEF N
<1> QED BY <1>2, <1>3

\* No two face each other twice.
LEMMA FaceNoMore ==
    ASSUME NEW h \in Nat \ {0}, NEW r \in 0..(2 * h - 2), NEW q \in 0..(2 * h - 2),
           NEW i \in 1..h, NEW j \in 1..h, Facing(2 * h, r, i) = Facing(2 * h, q, j)
    PROVE  r = q /\ i = j
<1> DEFINE N == 2 * h
           a == AtTurn(N, r, i)
           b == AtTurn(N, r, N + 1 - i)
           c == AtTurn(N, q, j)
           d == AtTurn(N, q, N + 1 - j)
<1>0. /\ N \in Nat /\ N >= 2 /\ r \in 0..(N - 2) /\ q \in 0..(N - 2)
      /\ i \in 1..N /\ j \in 1..N /\ N + 1 - i \in 1..N /\ N + 1 - j \in 1..N
      /\ i # N + 1 - i /\ j # N + 1 - j
  OBVIOUS
<1>1. (a = c /\ b = d) \/ (a = d /\ b = c)
  <2>1. {a, b} = {c, d}
    BY DEF Facing
  <2>2. a # b /\ c # d
    BY <1>0, AtOnce
  <2> HIDE DEF a, b, c, d
  <2> QED BY <2>1, <2>2
<1>2. (a = 1 <=> i = 1) /\ (c = 1 <=> j = 1) /\ b # 1 /\ d # 1
  BY <1>0, AtOnce
<1>3. i = 1 <=> j = 1
  BY <1>1, <1>2
<1>4. r = q
  <2>1. CASE i = 1
    <3>1. b = N - r /\ d = N - q
      BY <1>0, <1>3, <2>1 DEF AtTurn
    <3>2. b = d
      BY <1>1, <1>2, <1>3, <2>1
    <3> QED BY <1>0, <3>1, <3>2
  <2>2. CASE i # 1
    <3>1. \E u \in 0..2 : a + b = N + 1 - 2 * r + u * (N - 1)
      BY <1>0, <2>2 DEF AtTurn
    <3>2. \E v \in 0..2 : c + d = N + 1 - 2 * q + v * (N - 1)
      BY <1>0, <1>3, <2>2 DEF AtTurn
    <3>3. a + b = c + d /\ a \in Int /\ b \in Int /\ c \in Int /\ d \in Int
      BY <1>0, <1>1, AtOnce
    <3> HIDE DEF a, b, c, d
    <3>4. PICK u \in 0..2, v \in 0..2 : N + 1 - 2 * r + u * (N - 1) = N + 1 - 2 * q + v * (N - 1)
      BY <3>1, <3>2, <3>3
    <3>5. u \in {0, 1, 2} /\ v \in {0, 1, 2}
      OBVIOUS
    <3> QED BY <3>4, <3>5
  <2> QED BY <2>1, <2>2
<1>5. i = j \/ i = N + 1 - j
  BY <1>0, <1>1, <1>4, AtOnce
<1> QED BY <1>4, <1>5

\* One turn of the circle.
LEMMA TurnedAt ==
    ASSUME NEW S, NEW N \in Nat, N >= 2, NEW s \in [1..N -> S]
    PROVE  Turned(s) = [i \in 1..N |-> IF i = 1 THEN s[1] ELSE IF i = 2 THEN s[N] ELSE s[i - 1]]
<1>1. s \in Seq(S) /\ Len(s) = N
  BY LengthOf
<1>2. Head(s) = s[1] /\ Last(s) = s[N]
  BY <1>1 DEF Last
<1>3. /\ SubSeq(s, 2, N - 1) \in Seq(S) /\ Len(SubSeq(s, 2, N - 1)) = N - 2
      /\ \A k \in 1..(N - 2) : SubSeq(s, 2, N - 1)[k] = s[k + 1]
  BY <1>1
<1> DEFINE t == SubSeq(s, 2, N - 1)
           ends == <<s[1], s[N]>>
<1>4. ends \in Seq(S) /\ Len(ends) = 2 /\ ends[1] = s[1] /\ ends[2] = s[N]
  BY <1>1
<1>5. Turned(s) = ends \o t
  BY <1>1, <1>2 DEF Turned
<1> HIDE DEF t, ends
<1>6. t \in Seq(S) /\ Len(t) = N - 2 /\ \A k \in 1..(N - 2) : t[k] = s[k + 1]
  BY <1>3 DEF t
<1> DEFINE u == ends \o t
<1>7. /\ u \in Seq(S) /\ Len(u) = N
      /\ \A k \in 1..N : u[k] = IF k <= 2 THEN ends[k] ELSE t[k - 2]
  <2>1. Len(ends) + Len(t) = N
    BY <1>4, <1>6
  <2>2. /\ ends \o t \in Seq(S) /\ Len(ends \o t) = Len(ends) + Len(t)
        /\ \A k \in 1..(Len(ends) + Len(t)) :
               (ends \o t)[k] = IF k <= Len(ends) THEN ends[k] ELSE t[k - Len(ends)]
    <3>1. ends \in Seq(S) /\ t \in Seq(S)
      BY <1>4, <1>6
    <3> QED BY <3>1, JoinAt, Zenon
  <2> HIDE DEF u
  <2>3. u = ends \o t
    BY DEF u
  <2> QED BY <1>4, <2>1, <2>2, <2>3
<1>8. \A k \in 3..N : t[k - 2] = s[k - 1]
  <2> TAKE k \in 3..N
  <2>1. k - 2 \in 1..(N - 2)
    OBVIOUS
  <2>2. t[k - 2] = s[k - 2 + 1]
    BY <1>6, <2>1
  <2> QED BY <2>2
<1> HIDE DEF u
<1>9. u = [k \in 1..N |-> u[k]]
  BY <1>7
<1>10. \A k \in 1..N : u[k] = IF k = 1 THEN s[1] ELSE IF k = 2 THEN s[N] ELSE s[k - 1]
  BY <1>4, <1>7, <1>8
<1> QED BY <1>5, <1>9, <1>10 DEF u

\* The turns of a circle are a function.
Turns(f, ring) == f = [r \in Nat |-> IF r = 0 THEN ring ELSE Turned(f[r - 1])]

\* There is one: the CHOOSE of circleMethod's wheel finds it.
LEMMA TurnsExist ==
    ASSUME NEW S, NEW N \in Nat, N >= 2, NEW ring \in [1..N -> S]
    PROVE  \E f : Turns(f, ring)
<1> DEFINE D == [1..N -> S]
           g == [u \in Nat \X D |-> Turned(u[2])]
<1>1. \A s \in D : Turned(s) \in D
  <2> TAKE s \in D
  <2>1. Turned(s) = [i \in 1..N |-> IF i = 1 THEN s[1] ELSE IF i = 2 THEN s[N] ELSE s[i - 1]]
    BY TurnedAt
  <2>2. \A i \in 1..N : (IF i = 1 THEN s[1] ELSE IF i = 2 THEN s[N] ELSE s[i - 1]) \in S
    OBVIOUS
  <2> QED BY <2>1, <2>2
<1>2. g \in [Nat \X D -> D]
  <2> HIDE DEF D
  <2> QED BY <1>1
<1>3. \A k \in Nat, s \in D : g[<<k, s>>] = Turned(s)
  <2> HIDE DEF D
  <2> QED OBVIOUS
<1>4. ring \in D
  OBVIOUS
<1> HIDE DEF D, g
<1>5. PICK f : Steps(f, D, ring, g)
  BY <1>2, <1>4, RecursionExists
<1>6. \A r \in Nat : f[r] = IF r = 0 THEN ring ELSE Turned(f[r - 1])
  <2> TAKE r \in Nat
  <2>1. r # 0 => r - 1 \in Nat /\ f[r - 1] \in D
    BY <1>5 DEF Steps
  <2> QED BY <1>3, <1>5, <2>1 DEF Steps
<1>7. f = [r \in Nat |-> f[r]]
  BY <1>5 DEF Steps
<1>8. Turns(f, ring)
  BY <1>6, <1>7 DEF Turns
<1> QED BY <1>8

\* The circle after r turns.
LEMMA WheelAt ==
    ASSUME NEW N \in Nat, N >= 2, NEW ring \in [1..N -> Nat],
           NEW wheel, Turns(wheel, ring)
    PROVE  \A r \in 0..(N - 2), i \in 1..N : wheel[r][i] = ring[AtTurn(N, r, i)]
<1> DEFINE D == [1..N -> Nat]
<1>6. wheel[0] = ring /\ \A r \in Nat \ {0} : wheel[r] = Turned(wheel[r - 1])
  BY DEF Turns
<1> DEFINE Is(r) == wheel[r] = [i \in 1..N |-> ring[AtTurn(N, r, i)]]
           Bad == {r \in Nat : r <= N - 2 /\ ~ Is(r)}
<1>7. Is(0)
  <2>1. \A i \in 1..N : AtTurn(N, 0, i) = i
    BY DEF AtTurn
  <2>2. ring = [i \in 1..N |-> ring[i]]
    OBVIOUS
  <2> QED BY <1>6, <2>1, <2>2
<1>8. ASSUME NEW r \in 1..(N - 2), Is(r - 1) PROVE Is(r)
  <2> DEFINE s == [i \in 1..N |-> ring[AtTurn(N, r - 1, i)]]
  <2>1. \A i \in 1..N : AtTurn(N, r - 1, i) \in 1..N
    BY AtOnce
  <2>2. s \in D
    BY <2>1
  <2>3. wheel[r] = Turned(s)
    BY <1>6, <1>8
  <2>4. Turned(s) = [i \in 1..N |-> IF i = 1 THEN s[1] ELSE IF i = 2 THEN s[N] ELSE s[i - 1]]
    BY <2>2, TurnedAt
  <2>5. \A i \in 1..N : (IF i = 1 THEN s[1] ELSE IF i = 2 THEN s[N] ELSE s[i - 1]) = ring[AtTurn(N, r, i)]
    <3> TAKE i \in 1..N
    <3>1. CASE i = 1
      <4>1. AtTurn(N, r - 1, 1) = AtTurn(N, r, 1)
        BY DEF AtTurn
      <4> QED BY <3>1, <4>1
    <3>2. CASE i = 2
      <4>1. AtTurn(N, r - 1, N) = AtTurn(N, r, 2)
        BY DEF AtTurn
      <4> QED BY <3>2, <4>1
    <3>3. CASE i # 1 /\ i # 2
      <4>1. i - 1 \in 1..N /\ AtTurn(N, r - 1, i - 1) = AtTurn(N, r, i)
        BY <3>3 DEF AtTurn
      <4> QED BY <3>3, <4>1
    <3> QED BY <3>1, <3>2, <3>3
  <2> HIDE DEF s
  <2> QED BY <2>3, <2>4, <2>5
<1>9. Bad = {}
  <2>1. SUFFICES ASSUME Bad # {} PROVE FALSE
    OBVIOUS
  <2> HIDE DEF Is
  <2>2. PICK r \in Bad : \A j \in Bad : r <= j
    <3>1. Bad \in SUBSET Nat
      OBVIOUS
    <3> HIDE DEF Bad
    <3> QED BY <2>1, <3>1, SmallestNumber
  <2>3. r # 0
    BY <1>7
  <2>4. r \in 1..(N - 2) /\ r - 1 \notin Bad
    BY <2>2, <2>3
  <2>5. Is(r - 1)
    BY <2>4
  <2> QED BY <1>8, <2>4, <2>5
<1>10. ASSUME NEW r \in 0..(N - 2) PROVE Is(r)
  <2> HIDE DEF Is
  <2> QED BY <1>9
<1>11. ASSUME NEW r \in 0..(N - 2), NEW i \in 1..N PROVE wheel[r][i] = ring[AtTurn(N, r, i)]
  <2>1. Is(r)
    BY <1>10
  <2> QED BY <2>1
<1> QED BY <1>11

\* Numbers put in order: each of them has one place.
LEMMA NumbersOrdered ==
    ASSUME NEW P \in SUBSET Nat, IsFiniteSet(P)
    PROVE  LET o == InOrder(P, <)
           IN /\ DOMAIN o = 1..Cardinality(P) /\ Cardinality(P) \in Nat
              /\ \A k \in DOMAIN o : o[k] \in P
              /\ \A k, j \in DOMAIN o : o[k] = o[j] => k = j
              /\ \A p \in P : \E k \in DOMAIN o : o[k] = p
<1> DEFINE R == {e \in P \X P : e[1] < e[2]}
           c == Cardinality(P)
           rank(p) == Cardinality(Earlier(P, R, p))
<1>1. IsFiniteSet(P)
  OBVIOUS
<1>2. \A p, q \in P : <<p, q>> \in R <=> p < q
  OBVIOUS
<1> HIDE DEF R
<1>3. StrictOrder(P, R)
  <2>1. \A p \in P : p \in Nat
    OBVIOUS
  <2> QED BY <1>2, <2>1 DEF StrictOrder
<1>4. \A p \in P : Earlier(P, R, p) = {q \in P : q < p}
  BY <1>2 DEF Earlier
<1>5. /\ c \in Nat
      /\ \A p \in P : rank(p) + 1 \in 1..c
      /\ \A p, q \in P : rank(p) = rank(q) => p = q
      /\ \A k \in 1..c : \E p \in P : k = rank(p) + 1
  <2>1. c \in Nat
    BY <1>1, FS_CardinalityType
  <2>2. \A p \in P : rank(p) + 1 \in 1..c
    BY <1>1, <1>3, EveryPlaceTaken
  <2>3. \A p, q \in P : rank(p) = rank(q) => p = q
    BY <1>1, <1>3, EveryPlaceTaken
  <2>4. ASSUME NEW k \in 1..c PROVE \E p \in P : k = rank(p) + 1
    <3>1. PICK p \in P : rank(p) = k - 1
      BY <1>1, <1>3, PlaceTaken
    <3> QED BY <3>1
  <2> QED BY <2>1, <2>2, <2>3, <2>4
<1>6. \A p \in P : rank(p) = Cardinality({q \in P : q < p})
  BY <1>4
<1> DEFINE o == InOrder(P, <)
<1>7. o = [k \in 1..c |-> CHOOSE p \in P : Cardinality({q \in P : q < p}) = k - 1]
  BY DEF InOrder
<1> DEFINE before(p) == Cardinality({q \in P : q < p})
           e(k) == CHOOSE p \in P : before(p) = k - 1
<1>8. o = [k \in 1..c |-> e(k)]
  BY <1>7
<1>9. \A p \in P : before(p) = rank(p) /\ before(p) \in Nat
  <2>1. \A p \in P : rank(p) \in Nat
    <3> TAKE p \in P
    <3>1. IsFiniteSet(Earlier(P, R, p))
      BY <1>1, FS_Subset DEF Earlier
    <3> QED BY <3>1, FS_CardinalityType
  <2> QED BY <1>6, <2>1
<1> HIDE DEF before, rank, c, o
<1>10. \A k \in 1..c : e(k) \in P /\ before(e(k)) = k - 1
  <2> TAKE k \in 1..c
  <2>1. PICK p \in P : k = rank(p) + 1
    BY <1>5
  <2>2. before(p) = k - 1
    BY <1>9, <2>1
  <2> QED BY <2>2
<1> HIDE DEF e
<1>11. \A k, j \in 1..c : e(k) = e(j) => k = j
  BY <1>10
<1>12. ASSUME NEW p \in P PROVE \E k \in 1..c : e(k) = p
  <2>1. rank(p) + 1 \in 1..c
    BY <1>5
  <2>2. before(e(rank(p) + 1)) = rank(p)
    BY <1>9, <1>10, <2>1
  <2>3. e(rank(p) + 1) = p
    BY <1>5, <1>9, <1>10, <2>1, <2>2
  <2> QED BY <2>1, <2>3
<1>13. /\ DOMAIN o = 1..c /\ c \in Nat
       /\ \A k \in DOMAIN o : o[k] \in P
       /\ \A k, j \in DOMAIN o : o[k] = o[j] => k = j
       /\ \A p \in P : \E k \in DOMAIN o : o[k] = p
  BY <1>5, <1>8, <1>10, <1>11, <1>12
<1> QED BY <1>13, Zenon DEF o, c

LEMMA OrderTakes ==
    ASSUME NEW m \in Nat, NEW P \in SUBSET (1..m)
    PROVE  LET o == InOrder(P, <)
           IN /\ DOMAIN o = 1..Cardinality(P) /\ Cardinality(P) \in Nat
              /\ \A k \in DOMAIN o : o[k] \in P
              /\ \A k, j \in DOMAIN o : o[k] = o[j] => k = j
              /\ \A p \in P : \E k \in DOMAIN o : o[k] = p
<1>1. IsFiniteSet(P)
  <2>1. IsFiniteSet(1..m)
    BY FS_Interval
  <2> QED BY <2>1, FS_Subset
<1>2. P \in SUBSET Nat
  OBVIOUS
<1> QED BY <1>1, <1>2, NumbersOrdered, Zenon

\* The two sides of a fixture.
Two(pair) == {pair[1], pair[2]}

\* Nobody is left out, or meets the same team twice, or plays twice in a round: each
\* two of a table meet in one match of one round of the circle, whoever is at home,
\* and an odd field sits one team out in turn (circleMethod).
THEOREM EveryPairMeetsOnce ==
    ASSUME NEW n \in Nat, n >= 2, NEW teams \in [1..n -> Nat \ {NoTeam}],
           \A i, j \in 1..n : teams[i] = teams[j] => i = j
    PROVE  LET rounds == CircleMethod(teams)
           IN /\ \A r \in DOMAIN rounds : \A k \in DOMAIN rounds[r] :
                     /\ DOMAIN rounds[r][k] = 1..2 /\ rounds[r][k][1] # rounds[r][k][2]
                     /\ Two(rounds[r][k]) \subseteq {teams[i] : i \in 1..n}
              /\ \A i, j \in 1..n : i # j =>
                     \E r \in DOMAIN rounds : \E k \in DOMAIN rounds[r] :
                         Two(rounds[r][k]) = {teams[i], teams[j]}
              /\ \A r, q \in DOMAIN rounds : \A k \in DOMAIN rounds[r], j \in DOMAIN rounds[q] :
                     Two(rounds[r][k]) = Two(rounds[q][j]) => r = q /\ k = j
              /\ \A r \in DOMAIN rounds : \A k, j \in DOMAIN rounds[r] :
                     k # j => Two(rounds[r][k]) \intersect Two(rounds[r][j]) = {}
<1> DEFINE ring == IF Len(teams) % 2 = 1 THEN Append(teams, NoTeam) ELSE teams
           wheel == CHOOSE wheel : wheel = [r \in Nat |-> IF r = 0 THEN ring ELSE Turned(wheel[r - 1])]
           Meeting(r, i) ==
               LET one == wheel[r][i]
                   two == wheel[r][Len(ring) + 1 - i]
               IN IF r % 2 = 0 THEN <<one, two>> ELSE <<two, one>>
           Set(r) == {i \in 1..(Len(ring) \div 2) : NoTeam \notin ToSet(Meeting(r, i))}
           Played(r) == InOrder(Set(r), <)
           Cell(r, k) == Meeting(r - 1, Played(r - 1)[k])
           rounds == CircleMethod(teams)
<1>1. Len(teams) = n /\ teams \in Seq(Nat)
  BY LengthOf
<1>2. rounds = [r \in 1..(Len(ring) - 1) |-> [k \in DOMAIN Played(r - 1) |-> Cell(r, k)]]
  <2>1. ~ Len(teams) < 2
    BY <1>1
  <2> QED BY <2>1, Zenon DEF CircleMethod
<1>3. \E h \in Nat \ {0} :
         /\ ring \in [1..(2 * h) -> Nat] /\ (2 * h = n \/ 2 * h = n + 1)
         /\ \A i \in 1..n : ring[i] = teams[i]
         /\ \A i \in 1..(2 * h) : i > n => ring[i] = NoTeam
  <2>1. CASE n % 2 = 1
    <3>1. ring = Append(teams, NoTeam) /\ NoTeam \in Nat
      BY <1>1, <2>1 DEF NoTeam
    <3>2. ring \in [1..(n + 1) -> Nat] /\ (\A i \in 1..n : ring[i] = teams[i]) /\ ring[n + 1] = NoTeam
      <4> HIDE DEF ring
      <4>1. ring \in Seq(Nat) /\ Len(ring) = n + 1
        BY <1>1, <3>1
      <4>2. \A i \in 1..(n + 1) : ring[i] = IF i <= n THEN teams[i] ELSE NoTeam
        BY <1>1, <3>1
      <4>3. ring \in [1..(n + 1) -> Nat]
        BY <4>1
      <4> QED BY <4>2, <4>3
    <3>3. (n + 1) \div 2 \in Nat \ {0} /\ 2 * ((n + 1) \div 2) = n + 1
      BY <2>1
    <3> HIDE DEF ring
    <3> QED BY <3>2, <3>3
  <2>2. CASE n % 2 # 1
    <3>1. ring = teams
      BY <1>1, <2>2
    <3>2. n \div 2 \in Nat \ {0} /\ 2 * (n \div 2) = n
      BY <2>2
    <3> HIDE DEF ring
    <3> QED BY <3>1, <3>2
  <2> QED BY <2>1, <2>2
<1>4. PICK h \in Nat \ {0} :
         /\ ring \in [1..(2 * h) -> Nat] /\ (2 * h = n \/ 2 * h = n + 1)
         /\ \A i \in 1..n : ring[i] = teams[i]
         /\ \A i \in 1..(2 * h) : i > n => ring[i] = NoTeam
  BY <1>3
<1> DEFINE N == 2 * h
           last == N - 1
<1>5. N \in Nat /\ N >= 2 /\ Len(ring) = N /\ Len(ring) \div 2 = h
  <2>1. DOMAIN ring = 1..N /\ N \in Nat /\ N >= 2
    BY <1>4
  <2> HIDE DEF ring
  <2>2. Len(ring) = N
    BY <2>1, LengthOf
  <2>3. (2 * h) \div 2 = h
    OBVIOUS
  <2> QED BY <2>1, <2>2, <2>3
<1>6. \A i, j \in 1..N : ring[i] = ring[j] => i = j
  BY <1>4
<1>7. \A i \in 1..N : ring[i] = NoTeam <=> i > n
  BY <1>4
<1>8. \A r \in 0..(N - 2), i \in 1..N : wheel[r][i] = ring[AtTurn(N, r, i)]
  <2>1. ring \in [1..N -> Nat]
    BY <1>4
  <2> HIDE DEF ring, N
  <2>2. PICK f : Turns(f, ring)
    BY <1>5, <2>1, TurnsExist
  <2>3. Turns(wheel, ring)
    BY <2>2 DEF Turns
  <2> HIDE DEF wheel
  <2>4. N \in Nat /\ N >= 2
    BY <1>5
  <2>5. ASSUME NEW r \in 0..(N - 2), NEW i \in 1..N PROVE wheel[r][i] = ring[AtTurn(N, r, i)]
    BY <2>1, <2>3, <2>4, WheelAt
  <2> QED BY <2>5
<1> HIDE DEF ring, wheel
<1> DEFINE one(r, i) == ring[AtTurn(N, r, i)]
           two(r, i) == ring[AtTurn(N, r, N + 1 - i)]
<1>9. ASSUME NEW r \in 0..(N - 2), NEW i \in 1..h
      PROVE  Meeting(r, i) \in {<<one(r, i), two(r, i)>>, <<two(r, i), one(r, i)>>}
  <2>1. wheel[r][i] = one(r, i) /\ wheel[r][Len(ring) + 1 - i] = two(r, i)
    <3>1. i \in 1..N /\ Len(ring) + 1 - i \in 1..N /\ Len(ring) + 1 - i = N + 1 - i
      BY <1>5
    <3> HIDE DEF N
    <3> QED BY <1>8, <3>1
  <2> HIDE DEF one, two
  <2> QED BY <2>1
<1>10. ASSUME NEW r \in 0..(N - 2), NEW i \in 1..h
       PROVE  /\ ToSet(Meeting(r, i)) = {one(r, i), two(r, i)} /\ Two(Meeting(r, i)) = {one(r, i), two(r, i)}
              /\ DOMAIN Meeting(r, i) = 1..2 /\ Meeting(r, i)[1] # Meeting(r, i)[2]
              /\ one(r, i) # two(r, i)
  <2>1. one(r, i) # two(r, i)
    <3>1. AtTurn(N, r, i) # AtTurn(N, r, N + 1 - i) /\ AtTurn(N, r, i) \in 1..N /\ AtTurn(N, r, N + 1 - i) \in 1..N
      BY <1>5, AtOnce
    <3> QED BY <1>6, <3>1
  <2> HIDE DEF one, two
  <2> DEFINE m == Meeting(r, i)
  <2>2. m = <<one(r, i), two(r, i)>> \/ m = <<two(r, i), one(r, i)>>
    BY <1>9
  <2> HIDE DEF m
  <2>3. DOMAIN m = 1..2 /\ m[1] # m[2] /\ {m[1], m[2]} = {one(r, i), two(r, i)}
    BY <2>1, <2>2
  <2>4. ToSet(m) = {m[1], m[2]}
    <3>1. ToSet(m) = {m[k] : k \in DOMAIN m}
      BY DEF ToSet
    <3> QED BY <2>3, <3>1
  <2> QED BY <2>1, <2>3, <2>4 DEF m, Two
<1> DEFINE index(r, k) == Played(r - 1)[k]
<1>11. /\ DOMAIN rounds = 1..last
       /\ \A r \in 1..last : /\ r - 1 \in 0..(N - 2)
                             /\ DOMAIN rounds[r] = DOMAIN Played(r - 1)
                             /\ \A k \in DOMAIN rounds[r] : rounds[r][k] = Meeting(r - 1, index(r, k))
  <2>1. rounds = [r \in 1..last |-> [k \in DOMAIN Played(r - 1) |-> Meeting(r - 1, index(r, k))]]
    BY <1>2, <1>5
  <2>2. \A r \in 1..last : r - 1 \in 0..(N - 2)
    BY <1>5
  <2> HIDE DEF rounds, Meeting, index, Played, last, N
  <2> QED BY <2>1, <2>2
<1>12. ASSUME NEW r \in 1..last
       PROVE  /\ \A k \in DOMAIN Played(r - 1) : index(r, k) \in Set(r - 1)
              /\ \A k, j \in DOMAIN Played(r - 1) : index(r, k) = index(r, j) => k = j
              /\ \A i \in Set(r - 1) : \E k \in DOMAIN Played(r - 1) : index(r, k) = i
  <2> DEFINE P == Set(r - 1)
  <2>1. P \in SUBSET (1..h)
    BY <1>5
  <2> HIDE DEF P
  <2>2. /\ \A k \in DOMAIN InOrder(P, <) : InOrder(P, <)[k] \in P
        /\ \A k, j \in DOMAIN InOrder(P, <) : InOrder(P, <)[k] = InOrder(P, <)[j] => k = j
        /\ \A i \in P : \E k \in DOMAIN InOrder(P, <) : InOrder(P, <)[k] = i
    BY <2>1, OrderTakes
  <2> QED BY <2>2, Zenon DEF P
<1>13. ASSUME NEW r \in 0..(N - 2)
       PROVE  /\ Set(r) \subseteq 1..h
              /\ \A i \in 1..h : i \in Set(r) <=> one(r, i) # NoTeam /\ two(r, i) # NoTeam
  <2>1. Set(r) \subseteq 1..h /\ \A i \in 1..h : i \in Set(r) <=> NoTeam \notin ToSet(Meeting(r, i))
    BY <1>5
  <2> HIDE DEF Meeting, Set, one, two
  <2>2. \A i \in 1..h : ToSet(Meeting(r, i)) = {one(r, i), two(r, i)}
    BY <1>10
  <2>3. \A i \in 1..h : NoTeam \notin ToSet(Meeting(r, i)) <=> one(r, i) # NoTeam /\ two(r, i) # NoTeam
    BY <2>2
  <2> QED BY <2>1, <2>3
<1> HIDE DEF rounds, Meeting, Played, Set
<1>14. ASSUME NEW r \in 1..last, NEW k \in DOMAIN rounds[r]
       PROVE  /\ index(r, k) \in Set(r - 1) /\ index(r, k) \in 1..h
              /\ one(r - 1, index(r, k)) # NoTeam /\ two(r - 1, index(r, k)) # NoTeam
              /\ DOMAIN rounds[r][k] = 1..2 /\ rounds[r][k][1] # rounds[r][k][2]
              /\ Two(rounds[r][k]) = {one(r - 1, index(r, k)), two(r - 1, index(r, k))}
  <2>1. r - 1 \in 0..(N - 2) /\ k \in DOMAIN Played(r - 1) /\ rounds[r][k] = Meeting(r - 1, index(r, k))
    BY <1>11
  <2> DEFINE i == index(r, k)
  <2>2. i \in Set(r - 1)
    BY <1>12, <2>1
  <2> HIDE DEF i, one, two, N
  <2>3. i \in 1..h /\ one(r - 1, i) # NoTeam /\ two(r - 1, i) # NoTeam
    BY <1>13, <2>1, <2>2
  <2>4. rounds[r][k] = Meeting(r - 1, i)
    BY <2>1 DEF i
  <2> QED BY <1>10, <2>1, <2>2, <2>3, <2>4 DEF i
<1>15. ASSUME NEW r \in 1..last, NEW k \in DOMAIN rounds[r]
       PROVE  Two(rounds[r][k]) \subseteq {teams[i] : i \in 1..n}
  <2> DEFINE i == index(r, k)
  <2>0. r - 1 \in 0..(N - 2) /\ i \in 1..h
    BY <1>11, <1>14
  <2> HIDE DEF i
  <2>1. r - 1 \in 0..(N - 2) /\ i \in 1..N /\ N + 1 - i \in 1..N
    BY <2>0
  <2>2. AtTurn(N, r - 1, i) \in 1..N /\ AtTurn(N, r - 1, N + 1 - i) \in 1..N
    BY <1>5, <2>1, AtOnce
  <2>3. one(r - 1, i) # NoTeam /\ two(r - 1, i) # NoTeam /\ Two(rounds[r][k]) = {one(r - 1, i), two(r - 1, i)}
    BY <1>14 DEF i
  <2>4. \A j \in 1..N : ring[j] # NoTeam => ring[j] \in {teams[x] : x \in 1..n}
    BY <1>4, <1>7
  <2> QED BY <2>2, <2>3, <2>4
<1>16. ASSUME NEW i \in 1..n, NEW j \in 1..n, i < j
       PROVE  \E r \in 1..last : \E k \in DOMAIN rounds[r] : Two(rounds[r][k]) = {teams[i], teams[j]}
  <2>1. i \in 1..N /\ j \in 1..N
    BY <1>4
  <2>2. PICK r \in 0..(N - 2), c \in 1..h : Facing(N, r, c) = {i, j}
    BY <1>16, <2>1, FaceOnce
  <2>3. {one(r, c), two(r, c)} = {teams[i], teams[j]}
    <3>1. ring[i] = teams[i] /\ ring[j] = teams[j]
      BY <1>4
    <3>2. {AtTurn(N, r, c), AtTurn(N, r, N + 1 - c)} = {i, j}
      BY <2>2 DEF Facing
    <3> QED BY <3>1, <3>2
  <2>4. teams[i] # NoTeam /\ teams[j] # NoTeam
    OBVIOUS
  <2>5. one(r, c) # NoTeam /\ two(r, c) # NoTeam
    <3> HIDE DEF one, two
    <3> QED BY <2>3, <2>4
  <2>6. c \in Set(r)
    <3> HIDE DEF one, two, N
    <3> QED BY <1>13, <2>5
  <2> DEFINE q == r + 1
  <2>7. q \in 1..last /\ q - 1 = r
    BY <1>5
  <2> HIDE DEF q, last, N
  <2>8. PICK k \in DOMAIN Played(q - 1) : index(q, k) = c
    BY <1>12, <2>6, <2>7
  <2>9. k \in DOMAIN rounds[q]
    BY <1>11, <2>7
  <2>10. Two(rounds[q][k]) = {one(r, c), two(r, c)}
    BY <1>14, <2>7, <2>8, <2>9
  <2> QED BY <2>3, <2>7, <2>9, <2>10
<1>17. ASSUME NEW r \in 1..last, NEW q \in 1..last, NEW k \in DOMAIN rounds[r], NEW j \in DOMAIN rounds[q],
              Two(rounds[r][k]) = Two(rounds[q][j])
       PROVE  r = q /\ k = j
  <2> DEFINE a == index(r, k)
             b == index(q, j)
  <2>1. r - 1 \in 0..(N - 2) /\ q - 1 \in 0..(N - 2) /\ a \in 1..h /\ b \in 1..h
    BY <1>11, <1>14
  <2>2. {one(r - 1, a), two(r - 1, a)} = {one(q - 1, b), two(q - 1, b)}
    BY <1>14, <1>17
  <2> HIDE DEF a, b
  <2>3. Facing(N, r - 1, a) = Facing(N, q - 1, b)
    <3>1. a \in 1..N /\ N + 1 - a \in 1..N /\ b \in 1..N /\ N + 1 - b \in 1..N
      BY <1>5, <2>1
    <3>2. /\ AtTurn(N, r - 1, a) \in 1..N /\ AtTurn(N, r - 1, N + 1 - a) \in 1..N
          /\ AtTurn(N, q - 1, b) \in 1..N /\ AtTurn(N, q - 1, N + 1 - b) \in 1..N
      BY <1>5, <2>1, <3>1, AtOnce
    <3> DEFINE x == AtTurn(N, r - 1, a)
               y == AtTurn(N, r - 1, N + 1 - a)
               u == AtTurn(N, q - 1, b)
               v == AtTurn(N, q - 1, N + 1 - b)
    <3>4. {ring[x], ring[y]} = {ring[u], ring[v]}
      BY <2>2
    <3>5. x \in 1..N /\ y \in 1..N /\ u \in 1..N /\ v \in 1..N
      BY <3>2
    <3> HIDE DEF x, y, u, v, N
    <3>6. {x, y} = {u, v}
      BY <1>6, <3>4, <3>5
    <3> QED BY <3>6 DEF Facing, x, y, u, v
  <2>4. r - 1 = q - 1 /\ a = b
    BY <2>1, <2>3, FaceNoMore
  <2>5. r = q
    BY <2>4
  <2> HIDE DEF N, last
  <2>6. k \in DOMAIN Played(r - 1) /\ j \in DOMAIN Played(r - 1) /\ index(r, k) = index(r, j)
    BY <1>11, <2>4, <2>5 DEF a, b
  <2> QED BY <1>12, <2>5, <2>6
<1>18. ASSUME NEW r \in 1..last, NEW k \in DOMAIN rounds[r], NEW j \in DOMAIN rounds[r], k # j
       PROVE  Two(rounds[r][k]) \intersect Two(rounds[r][j]) = {}
  <2> DEFINE a == index(r, k)
             b == index(r, j)
             t == r - 1
  <2>1. t \in 0..(N - 2) /\ a \in 1..h /\ b \in 1..h
    BY <1>11, <1>14
  <2>2. Two(rounds[r][k]) = {one(t, a), two(t, a)} /\ Two(rounds[r][j]) = {one(t, b), two(t, b)}
    BY <1>14
  <2>3. a # b
    <3> HIDE DEF N, last
    <3>1. k \in DOMAIN Played(r - 1) /\ j \in DOMAIN Played(r - 1)
      BY <1>11
    <3> QED BY <1>12, <1>18, <3>1
  <2> HIDE DEF a, b, t
  <2>4. /\ a \in 1..N /\ N + 1 - a \in 1..N /\ b \in 1..N /\ N + 1 - b \in 1..N
        /\ a # N + 1 - b /\ b # N + 1 - a /\ N + 1 - a # N + 1 - b
    BY <1>5, <2>1, <2>3
  <2>5. \A x, y \in 1..N : x # y => ring[AtTurn(N, t, x)] # ring[AtTurn(N, t, y)]
    <3>1. \A x \in 1..N : AtTurn(N, t, x) \in 1..N
      BY <1>5, <2>1, AtOnce
    <3>2. \A x, y \in 1..N : AtTurn(N, t, x) = AtTurn(N, t, y) => x = y
      BY <1>5, <2>1, AtOnce
    <3> HIDE DEF N
    <3> QED BY <1>6, <3>1, <3>2
  <2>6. /\ one(t, a) # one(t, b) /\ one(t, a) # two(t, b)
        /\ two(t, a) # one(t, b) /\ two(t, a) # two(t, b)
    BY <2>3, <2>4, <2>5
  <2> HIDE DEF one, two
  <2> QED BY <2>2, <2>6
<1>19. \A i, j \in 1..n : i # j =>
          \E r \in 1..last : \E k \in DOMAIN rounds[r] : Two(rounds[r][k]) = {teams[i], teams[j]}
  <2> TAKE i, j \in 1..n
  <2> HAVE i # j
  <2>1. CASE i < j
    BY <1>16, <2>1
  <2>2. CASE j < i
    <3>1. PICK r \in 1..last : \E k \in DOMAIN rounds[r] : Two(rounds[r][k]) = {teams[j], teams[i]}
      BY <1>16, <2>2
    <3>2. {teams[j], teams[i]} = {teams[i], teams[j]}
      OBVIOUS
    <3> QED BY <3>1, <3>2
  <2> QED BY <2>1, <2>2
<1> HIDE DEF last, one, two, index
<1>20. \A r \in DOMAIN rounds : \A k \in DOMAIN rounds[r] :
           /\ DOMAIN rounds[r][k] = 1..2 /\ rounds[r][k][1] # rounds[r][k][2]
           /\ Two(rounds[r][k]) \subseteq {teams[i] : i \in 1..n}
  BY <1>11, <1>14, <1>15
<1>21. \A i, j \in 1..n : i # j =>
           \E r \in DOMAIN rounds : \E k \in DOMAIN rounds[r] :
               Two(rounds[r][k]) = {teams[i], teams[j]}
  BY <1>11, <1>19
<1>22. \A r, q \in DOMAIN rounds : \A k \in DOMAIN rounds[r], j \in DOMAIN rounds[q] :
           Two(rounds[r][k]) = Two(rounds[q][j]) => r = q /\ k = j
  BY <1>11, <1>17
<1>23. \A r \in DOMAIN rounds : \A k, j \in DOMAIN rounds[r] :
           k # j => Two(rounds[r][k]) \intersect Two(rounds[r][j]) = {}
  BY <1>11, <1>18
<1> QED BY <1>20, <1>21, <1>22, <1>23, Zenon DEF rounds

----------------------------------------------------------------------------
(* Every qualifier is drawn once *)

\* The order of one round more.
Doubled(o, k) == [i \in 1..Size[k] |->
                     IF i % 2 = 1 THEN o[(i + 1) \div 2] ELSE Size[k] + 1 - o[(i + 1) \div 2]]
Orders(o, n) == o = [k \in 1..n |-> IF k = 1 THEN <<1, 2>> ELSE Doubled(o[k - 1], k)]

LEMMA OrdersExist ==
    ASSUME NEW n \in Nat
    PROVE  \E o : Orders(o, n)
<1> DEFINE Bad == {m \in Nat : ~ \E o : Orders(o, m)}
<1>1. SUFFICES ASSUME Bad # {} PROVE FALSE
  OBVIOUS
<1>2. PICK m \in Bad : \A k \in Bad : m <= k
  <2>1. Bad \in SUBSET Nat
    OBVIOUS
  <2> HIDE DEF Bad
  <2> QED BY <1>1, <2>1, SmallestNumber
<1>3. m \in Nat /\ ~ \E o : Orders(o, m)
  OBVIOUS
<1>4. CASE m = 0
  <2> DEFINE o == [k \in 1..0 |-> <<1, 2>>]
  <2>1. \A k \in 1..0 : FALSE
    OBVIOUS
  <2>2. Orders(o, 0)
    BY <2>1 DEF Orders
  <2> QED BY <1>3, <1>4, <2>2
<1>5. CASE m # 0
  <2>1. m - 1 \in Nat /\ m - 1 \notin Bad
    BY <1>2, <1>3, <1>5
  <2>2. PICK g : Orders(g, m - 1)
    BY <2>1
  <2> DEFINE o == [k \in 1..m |-> IF k = 1 THEN <<1, 2>> ELSE IF k = m THEN Doubled(g[m - 1], m) ELSE g[k]]
  <2>3. ASSUME NEW k \in 1..m PROVE o[k] = IF k = 1 THEN <<1, 2>> ELSE Doubled(o[k - 1], k)
    <3>1. g[1] = <<1, 2>> \/ m = 1
      BY <1>3, <1>5, <2>2 DEF Orders
    <3>2. k # 1 => o[k - 1] = g[k - 1] /\ k - 1 \in 1..(m - 1)
      BY <1>3, <3>1
    <3>3. CASE k = m
      BY <3>2, <3>3
    <3>4. CASE k # m
      <4>1. k \in 1..(m - 1) /\ (k # 1 => o[k] = g[k])
        BY <1>3, <3>4
      <4>2. g[k] = IF k = 1 THEN <<1, 2>> ELSE Doubled(g[k - 1], k)
        BY <2>2, <4>1 DEF Orders
      <4> QED BY <3>2, <4>1, <4>2
    <3> QED BY <3>3, <3>4
  <2>4. Orders(o, m)
    <3>1. o = [k \in 1..m |-> o[k]]
      OBVIOUS
    <3> HIDE DEF o
    <3> QED BY <2>3, <3>1 DEF Orders
  <2> QED BY <1>3, <2>4
<1> QED BY <1>4, <1>5

\* An order names every seed up to N once at most.
Seeding(o, N) == o \in [1..N -> 1..N] /\ \A i, j \in 1..N : o[i] = o[j] => i = j

LEMMA DoubledSeeds ==
    ASSUME NEW k \in Nat \ {0}, NEW o, Seeding(o, Size[k - 1])
    PROVE  Seeding(Doubled(o, k), Size[k])
<1> DEFINE M == Size[k - 1]
           N == Size[k]
           d == Doubled(o, k)
           h(i) == (i + 1) \div 2
<1>1. M \in Nat /\ N = 2 * M
  BY SizeDoubles, SizeGrows
<1>2. d = [i \in 1..N |-> IF i % 2 = 1 THEN o[h(i)] ELSE N + 1 - o[h(i)]]
  BY DEF Doubled
<1>3. o \in [1..M -> 1..M] /\ \A i, j \in 1..M : o[i] = o[j] => i = j
  BY DEF Seeding
<1> HIDE DEF M, N, d
<1>4. ASSUME NEW i \in 1..N
      PROVE  h(i) \in 1..M /\ i % 2 \in {0, 1} /\ i = 2 * h(i) - (i % 2)
  BY <1>1
<1>5. \A i \in 1..N : o[h(i)] \in 1..M
  BY <1>3, <1>4
<1>6. ASSUME NEW i \in 1..N PROVE d[i] \in 1..N /\ (i % 2 = 1 <=> d[i] <= M)
  <2> HIDE DEF h
  <2>1. i % 2 \in {0, 1} /\ o[h(i)] \in 1..M
    BY <1>4, <1>5
  <2>2. d[i] = IF i % 2 = 1 THEN o[h(i)] ELSE N + 1 - o[h(i)]
    BY <1>2
  <2> QED BY <1>1, <2>1, <2>2
<1>7. ASSUME NEW i \in 1..N, NEW j \in 1..N, d[i] = d[j]
      PROVE  i = j
  <2> HIDE DEF h
  <2>1. i % 2 = j % 2
    BY <1>4, <1>6, <1>7
  <2>2. o[h(i)] = o[h(j)]
    BY <1>1, <1>2, <1>5, <1>7, <2>1
  <2>3. h(i) = h(j)
    BY <1>3, <1>4, <2>2
  <2> QED BY <1>4, <2>1, <2>3
<1>8. d \in [1..N -> 1..N]
  BY <1>2, <1>6
<1> QED BY <1>7, <1>8 DEF Seeding, d, N

LEMMA SeedsOnce ==
    ASSUME NEW n \in Nat \ {0}
    PROVE  Seeding(SeedOrder(n), Size[n])
<1>1. PICK o : Orders(o, n) /\ SeedOrder(n) = o[n]
  <2>1. SeedOrder(n) = (CHOOSE o : Orders(o, n))[n]
    BY DEF SeedOrder, Orders, Doubled
  <2>2. \E o : Orders(o, n)
    BY OrdersExist
  <2> QED BY <2>1, <2>2
<1> DEFINE Bad == {k \in Nat : k # 0 /\ k <= n /\ ~ Seeding(o[k], Size[k])}
<1>2. Bad = {}
  <2> SUFFICES ASSUME Bad # {} PROVE FALSE
    OBVIOUS
  <2>1. PICK k \in Bad : \A j \in Bad : k <= j
    <3>1. Bad \in SUBSET Nat
      OBVIOUS
    <3> HIDE DEF Bad
    <3> QED BY <3>1, SmallestNumber
  <2>2. k \in 1..n /\ ~ Seeding(o[k], Size[k])
    OBVIOUS
  <2>3. o[k] = IF k = 1 THEN <<1, 2>> ELSE Doubled(o[k - 1], k)
    BY <1>1, <2>2 DEF Orders
  <2>4. CASE k = 1
    <3>1. Size[1] = 2
      BY SizeDoubles
    <3>2. Seeding(<<1, 2>>, 2)
      BY DEF Seeding
    <3> QED BY <2>2, <2>3, <2>4, <3>1, <3>2
  <2>5. CASE k # 1
    <3>1. k - 1 \in Nat /\ k - 1 # 0 /\ k - 1 \notin Bad /\ k - 1 <= n
      BY <2>1, <2>2, <2>5
    <3>2. Seeding(o[k - 1], Size[k - 1])
      BY <3>1
    <3> QED BY <2>2, <2>3, <2>5, <3>2, DoubledSeeds
  <2> QED BY <2>4, <2>5
<1> QED BY <1>1, <1>2

\* No source is in two slots.
Apart(slots, N) == \A i, j \in 1..N : slots[i] = slots[j] /\ slots[i] # NoSource => i = j

LEMMA UntiedApart ==
    ASSUME NEW V, NEW N \in Nat, NEW slots \in [1..N -> V], NEW i \in 1..Pairs(slots), Apart(slots, N)
    PROVE  Apart(Untied(slots, i), N)
<1> DEFINE fits == {j \in 1..Pairs(slots) \ {i} :
                       /\ slots[2 * j - 1] # NoSource /\ slots[2 * j] # NoSource
                       /\ ~ SameGroup(slots[2 * i - 1], slots[2 * j])
                       /\ ~ SameGroup(slots[2 * j - 1], slots[2 * i])}
           new == Untied(slots, i)
           m == Min(fits)
<1>1. Len(slots) = N
  BY LengthOf
<1>2. \A j \in 1..Pairs(slots) : j \in Nat /\ 2 * j \in 1..N
  BY <1>1 DEF Pairs
<1>3. fits # {} => m \in 1..Pairs(slots) \ {i}
  <2> SUFFICES ASSUME fits # {} PROVE Min(fits) \in 1..Pairs(slots) \ {i}
    OBVIOUS
  <2>1. fits \in SUBSET Nat /\ fits \subseteq 1..Pairs(slots) \ {i}
    OBVIOUS
  <2> HIDE DEF fits
  <2>2. \E x \in fits : \A y \in fits : x <= y
    BY <2>1, SmallestNumber
  <2> QED BY <2>1, <2>2 DEF Min
<1>4. CASE new = slots
  BY <1>4
<1>5. CASE fits # {} /\ new = [slots EXCEPT ![2 * i] = slots[2 * m], ![2 * m] = slots[2 * i]]
  <2> HIDE DEF fits, m, new
  <2> DEFINE from(a) == IF a = 2 * i THEN 2 * m ELSE IF a = 2 * m THEN 2 * i ELSE a
  <2>1. 2 * i \in 1..N /\ 2 * m \in 1..N /\ 2 * i # 2 * m
    BY <1>2, <1>3, <1>5
  <2>2. \A a \in 1..N : from(a) \in 1..N /\ new[a] = slots[from(a)]
    BY <1>5, <2>1
  <2>3. \A a, b \in 1..N : from(a) = from(b) => a = b
    BY <2>1
  <2> HIDE DEF from
  <2> QED BY <2>2, <2>3 DEF Apart, new
<1> QED BY <1>4, <1>5 DEF Untied

LEMMA TiesApart ==
    ASSUME NEW V, NEW N \in Nat, NEW slots \in [1..N -> V], Apart(slots, N)
    PROVE  Apart(AvoidSameGroupTies(slots), N)
<1> DEFINE n == Pairs(slots)
<1>0. n \in Nat /\ \A s \in [1..N -> V] : Pairs(s) = n
  BY LengthOf DEF Pairs
<1> HIDE DEF n
<1>1. PICK t : Unties(t, slots, n) /\ AvoidSameGroupTies(slots) = t[n]
  <2>1. AvoidSameGroupTies(slots) = (CHOOSE t : Unties(t, slots, n))[n]
    BY DEF AvoidSameGroupTies, Unties, n
  <2>2. \E t : Unties(t, slots, n)
    BY <1>0, UntiesExist
  <2> QED BY <2>1, <2>2
<1> DEFINE Bad == {i \in Nat : i <= n /\ ~ (t[i] \in [1..N -> V] /\ Apart(t[i], N))}
<1>2. Bad = {}
  <2> SUFFICES ASSUME Bad # {} PROVE FALSE
    OBVIOUS
  <2>1. PICK i \in Bad : \A j \in Bad : i <= j
    <3>1. Bad \in SUBSET Nat
      OBVIOUS
    <3> HIDE DEF Bad
    <3> QED BY <3>1, SmallestNumber
  <2>2. i \in 0..n /\ ~ (t[i] \in [1..N -> V] /\ Apart(t[i], N))
    BY <1>0
  <2>3. t[i] = IF i = 0 THEN slots ELSE Untied(t[i - 1], i)
    BY <1>1, <2>2 DEF Unties
  <2>4. i # 0 => i - 1 \in Nat /\ i - 1 \notin Bad /\ i - 1 <= n
    BY <1>0, <2>1, <2>2
  <2>5. CASE i = 0
    BY <2>2, <2>3, <2>5
  <2>6. CASE i # 0
    <3> DEFINE s == t[i - 1]
    <3>1. s \in [1..N -> V] /\ Apart(s, N)
      BY <2>4, <2>6
    <3>2. i \in 1..Pairs(s) /\ t[i] = Untied(s, i)
      BY <1>0, <2>2, <2>3, <2>6, <3>1
    <3> HIDE DEF s
    <3>3. Untied(s, i) \in [1..N -> V]
      BY <3>1, <3>2, UntiedKeeps
    <3>4. Apart(Untied(s, i), N)
      BY <3>1, <3>2, UntiedApart
    <3> QED BY <2>2, <3>2, <3>3, <3>4
  <2> QED BY <2>5, <2>6
<1> QED BY <1>0, <1>1, <1>2

\* The fixtures of the first round take the slots two by two, and those of the others
\* the winners before them.
FirstSlots(M, slots, N) ==
    \A m \in M :
        \/ /\ m.round = 1 /\ m.pos \in Nat /\ 2 * m.pos - 1 \in 1..N /\ 2 * m.pos \in 1..N
           /\ m.from.a = slots[2 * m.pos - 1] /\ m.from.b = slots[2 * m.pos]
        \/ \A x \in Ends : m.from[x].type = "winner"

Distinct(seeds) == \A i, j \in DOMAIN seeds : seeds[i] = seeds[j] => i = j

LEMMA BracketSlots ==
    ASSUME NEW n \in Nat, n >= 2, NEW seeds, DOMAIN seeds = 1..n, NEW day
    PROVE  \E N \in Nat : \E slots \in [1..N -> {seeds[i] : i \in 1..n} \cup {NoSource}] :
              (Distinct(seeds) => Apart(slots, N)) /\ FirstSlots(Bracket(seeds, day), slots, N)
<1> DEFINE rounds == RoundCount(Len(seeds))
           N == Size[rounds]
           V == {seeds[i] : i \in 1..n} \cup {NoSource}
           order == SeedOrder(rounds)
           dealt == [i \in 1..Size[rounds] |->
                        IF order[i] \in DOMAIN seeds THEN seeds[order[i]] ELSE NoSource]
           slots == AvoidSameGroupTies(dealt)
           From(r, p) == IF r = 1 THEN [a |-> slots[2 * p - 1], b |-> slots[2 * p]]
                         ELSE [a |-> WinnerOf(r - 1, 2 * p - 1), b |-> WinnerOf(r - 1, 2 * p)]
           Empty(from) == from.a = NoSource /\ from.b = NoSource
           Round(r) == {MakeMatch(r, p, day + r - 1, p - 1, NoGroup, From(r, p)) :
                            p \in {q \in 1..Size[rounds - r] : ~ Empty(From(r, q))}}
<1>1. Len(seeds) = n
  BY LengthOf
<1>2. rounds \in 1..n
  BY <1>1, RoundCountFits
<1>3. /\ N \in Nat /\ N = 2 * Size[rounds - 1] /\ Size[rounds - 1] \in Nat
      /\ rounds \in Nat \ {0}
  <2>1. rounds \in Nat \ {0} /\ rounds \in Nat
    BY <1>2
  <2>2. \A k \in Nat \ {0} : Size[k] = 2 * Size[k - 1]
    BY SizeDoubles
  <2> HIDE DEF rounds
  <2> QED BY <2>1, <2>2, SizeGrows
<1>4. Bracket(seeds, day) = UNION {Round(r) : r \in 1..rounds}
  <2>1. ~ Len(seeds) < 2
    BY <1>1
  <2> QED BY <2>1, Zenon DEF Bracket
<1>5. dealt \in [1..N -> V]
  <2> HIDE DEF rounds, order
  <2> QED OBVIOUS
<1>6. ASSUME Distinct(seeds)
      PROVE  Apart(dealt, N)
  <2>1. Seeding(order, N)
    <3> HIDE DEF rounds
    <3> QED BY <1>3, SeedsOnce
  <2>2. \A i \in 1..N : dealt[i] = IF order[i] \in 1..n THEN seeds[order[i]] ELSE NoSource
    OBVIOUS
  <2> HIDE DEF dealt, order, N
  <2>3. \A i, j \in 1..N : order[i] = order[j] => i = j
    BY <2>1 DEF Seeding
  <2> QED BY <1>6, <2>2, <2>3 DEF Apart, Distinct
<1>7. /\ slots \in [1..N -> V]
      /\ Distinct(seeds) => Apart(slots, N)
  <2> HIDE DEF dealt, V, N
  <2> QED BY <1>3, <1>5, <1>6, TiesKeep, TiesApart
<1> HIDE DEF slots, V
<1>8. ASSUME NEW m \in Bracket(seeds, day)
      PROVE  \/ /\ m.round = 1 /\ m.pos \in Nat /\ 2 * m.pos - 1 \in 1..N /\ 2 * m.pos \in 1..N
                /\ m.from.a = slots[2 * m.pos - 1] /\ m.from.b = slots[2 * m.pos]
             \/ \A x \in Ends : m.from[x].type = "winner"
  <2>1. PICK r \in 1..rounds : m \in Round(r)
    BY <1>4, <1>8
  <2>2. PICK p \in 1..Size[rounds - r] : m = MakeMatch(r, p, day + r - 1, p - 1, NoGroup, From(r, p))
    BY <2>1
  <2>3. m.round = r /\ m.pos = p /\ m.from = From(r, p)
    <3> HIDE DEF From
    <3> QED BY <2>2 DEF MakeMatch
  <2>4. CASE r = 1
    <3>1. p \in 1..Size[rounds - 1]
      BY <2>2, <2>4
    <3>2. p \in Nat /\ 2 * p - 1 \in 1..N /\ 2 * p \in 1..N
      <4> HIDE DEF rounds, N
      <4> QED BY <1>3, <3>1
    <3>3. m.from.a = slots[2 * p - 1] /\ m.from.b = slots[2 * p]
      BY <2>3, <2>4
    <3> HIDE DEF N
    <3> QED BY <2>3, <2>4, <3>2, <3>3
  <2>5. CASE r # 1
    <3>1. m.from.a = WinnerOf(r - 1, 2 * p - 1) /\ m.from.b = WinnerOf(r - 1, 2 * p)
      BY <2>3, <2>5
    <3> QED BY <3>1, SourceTypes DEF Ends
  <2> QED BY <2>4, <2>5
<1> HIDE DEF N
<1>9. FirstSlots(Bracket(seeds, day), slots, N)
  BY <1>8 DEF FirstSlots
<1> QED BY <1>3, <1>7, <1>9 DEF V

\* Among some fixtures a place in a group is at one end of one.
GroupEnd(from, x, g, k) == from[x].type = "group" /\ from[x].group = g /\ from[x].place = k
DrawnOnce(M) ==
    \A m, j \in M : \A x, y \in Ends :
        m.from[x].type = "group" /\ GroupEnd(j.from, y, m.from[x].group, m.from[x].place) =>
            m.round = j.round /\ m.pos = j.pos /\ x = y

\* A source that is a place in a group is nothing else.
PlaceAlone(src) == src.type = "group" => src = Place(src.group, src.place)

LEMMA PlaceParts ==
    \A g, k : Place(g, k).group = g /\ Place(g, k).place = k /\ PlaceAlone(Place(g, k))
BY DEF Place, PlaceAlone

LEMMA BracketDrawn ==
    ASSUME NEW n \in Nat, n >= 2, NEW seeds, DOMAIN seeds = 1..n, NEW day,
           \A i \in 1..n : PlaceAlone(seeds[i]),
           \/ Distinct(seeds)
           \/ \A i \in 1..n : seeds[i].type # "group"
    PROVE  DrawnOnce(Bracket(seeds, day))
<1> DEFINE V == {seeds[i] : i \in 1..n} \cup {NoSource}
<1>0. PICK N \in Nat : \E slots \in [1..N -> V] :
          (Distinct(seeds) => Apart(slots, N)) /\ FirstSlots(Bracket(seeds, day), slots, N)
  BY BracketSlots, Zenon
<1>1. PICK slots \in [1..N -> V] :
          (Distinct(seeds) => Apart(slots, N)) /\ FirstSlots(Bracket(seeds, day), slots, N)
  BY <1>0
<1>2. \A v \in V : PlaceAlone(v) /\ (v.type = "group" => v # NoSource)
  BY SourceTypes DEF PlaceAlone
<1> HIDE DEF V
<1> DEFINE at(m, x) == IF x = "a" THEN 2 * m.pos - 1 ELSE 2 * m.pos
<1>3. ASSUME NEW m \in Bracket(seeds, day), NEW x \in Ends, m.from[x].type = "group"
      PROVE  /\ m.round = 1 /\ m.pos \in Nat /\ at(m, x) \in 1..N /\ m.from[x] = slots[at(m, x)]
             /\ m.from[x] \in V
  <2>1. ~ m.from[x].type = "winner"
    BY <1>3
  <2>2. /\ m.round = 1 /\ m.pos \in Nat /\ 2 * m.pos - 1 \in 1..N /\ 2 * m.pos \in 1..N
        /\ m.from.a = slots[2 * m.pos - 1] /\ m.from.b = slots[2 * m.pos]
    BY <1>1, <2>1 DEF FirstSlots
  <2> QED BY <2>2 DEF Ends
<1>4. ASSUME NEW m \in Bracket(seeds, day), NEW j \in Bracket(seeds, day), NEW x \in Ends, NEW y \in Ends,
             m.from[x].type = "group", GroupEnd(j.from, y, m.from[x].group, m.from[x].place)
      PROVE  m.round = j.round /\ m.pos = j.pos /\ x = y
  <2>1. j.from[y].type = "group" /\ m.from[x] = j.from[y]
    BY <1>2, <1>3, <1>4 DEF GroupEnd, PlaceAlone
  <2>2. /\ m.round = 1 /\ j.round = 1 /\ m.pos \in Nat /\ j.pos \in Nat
        /\ at(m, x) \in 1..N /\ at(j, y) \in 1..N /\ slots[at(m, x)] = slots[at(j, y)]
        /\ slots[at(m, x)] \in V /\ slots[at(m, x)] # NoSource /\ slots[at(m, x)].type = "group"
    BY <1>2, <1>3, <1>4, <2>1
  <2>3. Distinct(seeds)
    <3>1. PICK i \in 1..n : slots[at(m, x)] = seeds[i]
      BY <2>2 DEF V
    <3> QED BY <2>2, <3>1
  <2>4. at(m, x) = at(j, y)
    BY <1>1, <2>2, <2>3 DEF Apart
  <2> QED BY <2>2, <2>4 DEF Ends
<1> QED BY <1>4 DEF DrawnOnce

\* Every place of a group is drawn once.
LEMMA BuildDrawn ==
    ASSUME NEW n \in Nat, n >= 2, NEW teams, DOMAIN teams = 1..n, NEW wanted \in Nat,
           NEW format \in Formats, NEW double
    PROVE  DrawnOnce(Build(format, teams, wanted, double))
<1> DEFINE count == GroupCount(n, WantedGroups(n, wanted))
           groups == AssignGroups(teams, WantedGroups(Len(teams), wanted))
           days == GroupDays(groups)
           g == Len(groups)
           qualifiers == [i \in 1..(2 * g) |-> IF i <= g THEN Place(i, 1) ELSE Place(i - g, 2)]
           seeds == [i \in DOMAIN teams |-> Direct(teams[i])]
<1>1. g = count /\ count \in Nat \ {0}
  BY DrawnGroups
<1> HIDE DEF count, groups
<1>2. DrawnOnce(Bracket(seeds, 0))
  <2>1. DOMAIN seeds = 1..n
    OBVIOUS
  <2>2. \A i \in 1..n : seeds[i].type # "group" /\ PlaceAlone(seeds[i])
    BY SourceTypes DEF PlaceAlone
  <2> HIDE DEF seeds
  <2> QED BY <2>1, <2>2, BracketDrawn
<1>3. DrawnOnce(Bracket(qualifiers, Len(days)))
  <2> HIDE DEF g, days
  <2>1. DOMAIN qualifiers = 1..(2 * g) /\ 2 * g \in Nat /\ 2 * g >= 2
    BY <1>1
  <2>2. \A i \in 1..(2 * g) : qualifiers[i] = IF i <= g THEN Place(i, 1) ELSE Place(i - g, 2)
    OBVIOUS
  <2> HIDE DEF qualifiers
  <2>3. \A i \in 1..(2 * g) : PlaceAlone(qualifiers[i])
    BY <2>2, PlaceParts
  <2>4. Distinct(qualifiers)
    <3> SUFFICES ASSUME NEW i \in 1..(2 * g), NEW j \in 1..(2 * g), qualifiers[i] = qualifiers[j]
                 PROVE  i = j
      BY <2>1 DEF Distinct
    <3>1. /\ qualifiers[i].group = IF i <= g THEN i ELSE i - g
          /\ qualifiers[i].place = IF i <= g THEN 1 ELSE 2
      BY <2>2, PlaceParts
    <3>2. /\ qualifiers[j].group = IF j <= g THEN j ELSE j - g
          /\ qualifiers[j].place = IF j <= g THEN 1 ELSE 2
      BY <2>2, PlaceParts
    <3> QED BY <1>1, <3>1, <3>2
  <2> QED BY <2>1, <2>3, <2>4, BracketDrawn
<1>4. \/ Build(format, teams, wanted, double) = Bracket(seeds, 0)
      \/ \E ds : Build(format, teams, wanted, double) \subseteq Numbered(ds) \cup Bracket(qualifiers, Len(days))
  BY Zenon DEF Build, League, Formats, groups
<1>5. \A ds : \A m \in Numbered(ds) : \A x \in Ends : m.from[x].type = "team"
  BY NumberedOk DEF RowOk
<1> HIDE DEF qualifiers, seeds, days
<1> QED BY <1>2, <1>3, <1>4, <1>5 DEF DrawnOnce, GroupEnd

----------------------------------------------------------------------------
(* Lists one after another *)

\* Nothing stands twice in the lists of f.
Single(f, n) == \A d, e \in 1..n : \A i \in DOMAIN f[d], j \in DOMAIN f[e] : f[d][i] = f[e][j] => d = e /\ i = j

\* What the first k lists of f hold, and nothing else, stands in s, once.
Holds(s, f, k) ==
    /\ \A d \in 1..k : \A i \in DOMAIN f[d] : \E x \in DOMAIN s : s[x] = f[d][i]
    /\ \A x \in DOMAIN s : \E d \in 1..k : \E i \in DOMAIN f[d] : s[x] = f[d][i]
    /\ \A x, y \in DOMAIN s : s[x] = s[y] => x = y

\* One list more.
LEMMA HoldsMore ==
    ASSUME NEW S, NEW n \in Nat, NEW f \in [1..n -> Seq(S)], Single(f, n),
           NEW k \in 1..n, NEW s \in Seq(S), Holds(s, f, k - 1)
    PROVE  s \o f[k] \in Seq(S) /\ Holds(s \o f[k], f, k)
<1> DEFINE b == f[k]
           t == s \o b
<1>0. b \in Seq(S) /\ Len(s) \in Nat /\ Len(b) \in Nat /\ DOMAIN s = 1..Len(s) /\ DOMAIN b = 1..Len(b)
  OBVIOUS
<1>1. /\ t \in Seq(S) /\ DOMAIN t = 1..(Len(s) + Len(b))
      /\ \A x \in 1..(Len(s) + Len(b)) : t[x] = IF x <= Len(s) THEN s[x] ELSE b[x - Len(s)]
  <2>1. /\ t \in Seq(S) /\ Len(t) = Len(s) + Len(b)
        /\ \A x \in 1..(Len(s) + Len(b)) : t[x] = IF x <= Len(s) THEN s[x] ELSE b[x - Len(s)]
    BY <1>0, JoinAt
  <2> HIDE DEF t, b
  <2> QED BY <2>1
<1> HIDE DEF t
<1>2. ASSUME NEW d \in 1..k, NEW i \in DOMAIN f[d] PROVE \E x \in DOMAIN t : t[x] = f[d][i]
  <2>1. CASE d = k
    <3>1. i \in 1..Len(b) /\ Len(s) + i \in 1..(Len(s) + Len(b)) /\ ~ Len(s) + i <= Len(s)
      BY <1>0, <2>1
    <3>2. t[Len(s) + i] = b[i]
      BY <1>0, <1>1, <3>1
    <3> QED BY <1>1, <2>1, <3>1, <3>2
  <2>2. CASE d # k
    <3>1. d \in 1..(k - 1)
      BY <2>2
    <3>2. PICK x \in DOMAIN s : s[x] = f[d][i]
      BY <3>1 DEF Holds
    <3>3. x \in 1..(Len(s) + Len(b)) /\ x <= Len(s)
      BY <1>0
    <3> QED BY <1>1, <3>2, <3>3
  <2> QED BY <2>1, <2>2
<1>3. ASSUME NEW x \in DOMAIN t
      PROVE  \/ x <= Len(s) /\ x \in DOMAIN s /\ t[x] = s[x]
             \/ x > Len(s) /\ x - Len(s) \in DOMAIN f[k] /\ t[x] = f[k][x - Len(s)]
  BY <1>0, <1>1
<1>4. \A x \in DOMAIN s : \E d \in 1..k : \E i \in DOMAIN f[d] : s[x] = f[d][i] /\ d # k
  <2> TAKE x \in DOMAIN s
  <2>1. PICK d \in 1..(k - 1) : \E i \in DOMAIN f[d] : s[x] = f[d][i]
    BY DEF Holds
  <2>2. d \in 1..k /\ d # k
    OBVIOUS
  <2> QED BY <2>1, <2>2
<1>5. ASSUME NEW x \in DOMAIN t PROVE \E d \in 1..k : \E i \in DOMAIN f[d] : t[x] = f[d][i]
  <2>1. k \in 1..k
    OBVIOUS
  <2> QED BY <1>3, <1>4, <2>1
<1>6. ASSUME NEW x \in DOMAIN t, NEW y \in DOMAIN t, t[x] = t[y] PROVE x = y
  <2>1. CASE x <= Len(s) /\ y <= Len(s)
    <3>1. x \in DOMAIN s /\ y \in DOMAIN s /\ s[x] = s[y]
      BY <1>0, <1>1, <1>6, <2>1
    <3> QED BY <3>1 DEF Holds
  <2>2. CASE x > Len(s) /\ y > Len(s)
    <3>1. x - Len(s) \in DOMAIN f[k] /\ y - Len(s) \in DOMAIN f[k] /\ f[k][x - Len(s)] = f[k][y - Len(s)]
      BY <1>0, <1>1, <1>3, <1>6, <2>2
    <3>2. x - Len(s) = y - Len(s)
      BY <3>1 DEF Single
    <3> QED BY <1>0, <1>1, <3>2
  <2>3. ASSUME NEW u \in DOMAIN t, NEW v \in DOMAIN t, u <= Len(s), v > Len(s), t[u] = t[v] PROVE FALSE
    <3>1. u \in DOMAIN s /\ t[u] = s[u]
      BY <1>0, <1>1, <2>3
    <3>2. PICK d \in 1..k : \E i \in DOMAIN f[d] : s[u] = f[d][i] /\ d # k
      BY <1>4, <3>1
    <3>3. d \in 1..n
      OBVIOUS
    <3>4. v - Len(s) \in DOMAIN f[k] /\ t[v] = f[k][v - Len(s)]
      BY <1>0, <1>1, <2>3
    <3>5. PICK i \in DOMAIN f[d] : s[u] = f[d][i]
      BY <3>2
    <3>6. f[d][i] = f[k][v - Len(s)]
      BY <2>3, <3>1, <3>4, <3>5
    <3>7. d = k
      BY <3>3, <3>4, <3>6 DEF Single
    <3> QED BY <3>2, <3>7
  <2> QED BY <1>0, <1>1, <1>6, <2>1, <2>2, <2>3
<1> QED BY <1>1, <1>2, <1>5, <1>6 DEF Holds, t, b

\* Lists that hold nothing twice, put one after another.
LEMMA FlatHolds ==
    ASSUME NEW S, NEW n \in Nat, NEW f \in [1..n -> Seq(S)], Single(f, n)
    PROVE  Holds(FlattenSeq(f), f, n)
<1>1. Len(f) = n
  BY LengthOf
<1>2. CASE n = 0
  <2>1. FlattenSeq(f) = f /\ DOMAIN f = {}
    BY <1>1, <1>2 DEF FlattenSeq
  <2> QED BY <1>2, <2>1 DEF Holds
<1>3. CASE n # 0
  <2>1. PICK t : Flattens(t, f, n) /\ FlattenSeq(f) = t[n]
    <3>1. FlattenSeq(f) = (CHOOSE t : Flattens(t, f, n))[n]
      BY <1>1, <1>3 DEF FlattenSeq, Flattens
    <3>2. \E t : Flattens(t, f, n)
      BY FlattensExist
    <3> QED BY <3>1, <3>2
  <2> DEFINE Good(k) == t[k] \in Seq(S) /\ Holds(t[k], f, k)
             Bad == {k \in Nat : k # 0 /\ k <= n /\ ~ Good(k)}
  <2>2. Bad = {}
    <3> SUFFICES ASSUME Bad # {} PROVE FALSE
      OBVIOUS
    <3> HIDE DEF Good
    <3>1. PICK k \in Bad : \A j \in Bad : k <= j
      <4>1. Bad \in SUBSET Nat
        OBVIOUS
      <4> HIDE DEF Bad
      <4> QED BY <4>1, SmallestNumber
    <3>2. k \in 1..n /\ ~ Good(k)
      OBVIOUS
    <3>3. t[k] = IF k = 1 THEN f[k] ELSE t[k - 1] \o f[k]
      BY <2>1, <3>2 DEF Flattens
    <3>4. CASE k = 1
      <4>1. f[1] \in Seq(S) /\ 1 \in 1..n /\ t[k] = f[1]
        BY <3>2, <3>3, <3>4
      <4>2. \A d \in 1..1 : d = 1
        OBVIOUS
      <4>3. Holds(f[1], f, 1)
        BY <4>1, <4>2 DEF Holds, Single
      <4> QED BY <3>2, <3>4, <4>1, <4>3 DEF Good
    <3>5. CASE k # 1
      <4>1. k - 1 \in Nat /\ k - 1 # 0 /\ k - 1 \notin Bad /\ k - 1 <= n
        BY <3>1, <3>2, <3>5
      <4>2. Good(k - 1)
        BY <4>1
      <4>3. Good(k)
        BY <3>2, <3>3, <3>5, <4>2, HoldsMore DEF Good
      <4> QED BY <3>2, <4>3
    <3> QED BY <3>4, <3>5
  <2>3. Good(n)
    <3> HIDE DEF Good
    <3> QED BY <1>3, <2>2
  <2> QED BY <2>1, <2>3
<1> QED BY <1>2, <1>3

----------------------------------------------------------------------------
(* A fixture for each cell of a table *)

\* m is the i-th fixture of day d.
Cell(m, days, d, i) ==
    /\ m.round = 0 /\ m.day = d - 1 /\ m.index = i - 1 /\ m.group = days[d][i].group
    /\ m.a = days[d][i].pair[1] /\ m.b = days[d][i].pair[2]

\* M holds a fixture for every cell of days and nothing else, each known by its place.
Celled(M, days) ==
    /\ \A d \in DOMAIN days : \A i \in DOMAIN days[d] : \E m \in M : Cell(m, days, d, i)
    /\ \A m \in M : \E d \in DOMAIN days : \E i \in DOMAIN days[d] : Cell(m, days, d, i)
    /\ \A m, k \in M : m.pos = k.pos \/ (m.day = k.day /\ m.index = k.index) => m = k

\* Numbered makes a fixture of every cell.
LEMMA NumberedCells ==
    ASSUME NEW days, Days(days)
    PROVE  Celled(Numbered(days), days)
<1> DEFINE cell(d, i) == [day |-> d - 1, index |-> i - 1, match |-> days[d][i]]
           f == [d \in DOMAIN days |-> [i \in DOMAIN days[d] |-> cell(d, i)]]
           S == {cell(d[1], d[2]) : d \in {e \in (DOMAIN days) \X UNION {DOMAIN days[d] : d \in DOMAIN days} :
                                               e[2] \in DOMAIN days[e[1]]}}
           all == FlattenSeq(f)
           row(n) == MakeMatch(0, n, all[n].day, all[n].index, all[n].match.group,
                               [a |-> Direct(all[n].match.pair[1]), b |-> Direct(all[n].match.pair[2])])
<1>1. Numbered(days) = {row(n) : n \in DOMAIN all}
  BY Zenon DEF Numbered
<1>2. PICK m \in Nat : DOMAIN days = 1..m
  BY DEF Days, Listed
<1>3. ASSUME NEW d \in DOMAIN days PROVE f[d] \in Seq(S)
  <2>1. \A i \in DOMAIN days[d] : cell(d, i) \in S
    <3> TAKE i \in DOMAIN days[d]
    <3> DEFINE e == <<d, i>>
    <3>1. e \in (DOMAIN days) \X UNION {DOMAIN days[c] : c \in DOMAIN days} /\ e[2] \in DOMAIN days[e[1]]
      OBVIOUS
    <3>2. cell(d, i) = cell(e[1], e[2])
      OBVIOUS
    <3> HIDE DEF cell, e
    <3> QED BY <3>1, <3>2
  <2>2. PICK k \in Nat : DOMAIN days[d] = 1..k
    BY DEF Days, Listed
  <2>3. f[d] = [i \in 1..k |-> cell(d, i)]
    BY <2>2
  <2> HIDE DEF f, S, cell
  <2>4. f[d] \in [1..k -> S]
    BY <2>1, <2>2, <2>3
  <2> QED BY <2>4
<1>4. f \in [1..m -> Seq(S)]
  <2> HIDE DEF S, cell
  <2> QED BY <1>2, <1>3
<1>5. ASSUME NEW d \in DOMAIN days PROVE d \in Int /\ \A i \in DOMAIN days[d] : i \in Int
  <2>1. \A i \in DOMAIN days[d] : i \in Int
    BY DEF Days, Listed
  <2> QED BY <1>2, <2>1
<1>6. \A d \in DOMAIN days : DOMAIN f[d] = DOMAIN days[d] /\ \A i \in DOMAIN days[d] : f[d][i] = cell(d, i)
  <2> HIDE DEF cell
  <2> QED OBVIOUS
<1>7. Single(f, m)
  <2> HIDE DEF f
  <2> SUFFICES ASSUME NEW d \in DOMAIN days, NEW e \in DOMAIN days,
                      NEW i \in DOMAIN days[d], NEW j \in DOMAIN days[e], f[d][i] = f[e][j]
               PROVE  d = e /\ i = j
    BY <1>2, <1>6 DEF Single
  <2>1. cell(d, i) = cell(e, j)
    BY <1>6
  <2>2. d - 1 = e - 1 /\ i - 1 = j - 1
    BY <2>1
  <2> QED BY <1>5, <2>2
<1>8. Holds(all, f, m)
  <2> HIDE DEF f, S
  <2> QED BY <1>4, <1>7, FlatHolds
<1> HIDE DEF f, S, all
<1>9. ASSUME NEW n \in DOMAIN all, NEW d \in DOMAIN days, NEW i \in DOMAIN days[d], all[n] = cell(d, i)
      PROVE  Cell(row(n), days, d, i)
  <2>1. all[n].day = d - 1 /\ all[n].index = i - 1 /\ all[n].match = days[d][i]
    BY <1>9
  <2> QED BY <2>1 DEF Cell, MakeMatch, DirectTeam, Direct
<1>10. \A n \in DOMAIN all : row(n).pos = n /\ row(n).day = all[n].day /\ row(n).index = all[n].index
  BY DEF MakeMatch
<1> HIDE DEF row
<1>11. ASSUME NEW d \in DOMAIN days, NEW i \in DOMAIN days[d]
       PROVE  \E k \in Numbered(days) : Cell(k, days, d, i)
  <2>1. d \in 1..m /\ i \in DOMAIN f[d] /\ f[d][i] = cell(d, i)
    BY <1>2, <1>6
  <2> HIDE DEF cell
  <2>2. PICK n \in DOMAIN all : all[n] = f[d][i]
    BY <1>8, <2>1 DEF Holds
  <2> QED BY <1>1, <1>9, <2>1, <2>2
<1>12. \A n \in DOMAIN all : \E d \in DOMAIN days : \E i \in DOMAIN days[d] : all[n] = cell(d, i)
  <2> HIDE DEF cell
  <2> TAKE n \in DOMAIN all
  <2>1. PICK d \in 1..m : \E i \in DOMAIN f[d] : all[n] = f[d][i]
    BY <1>8 DEF Holds
  <2> QED BY <1>2, <1>6, <2>1
<1>13. ASSUME NEW k \in Numbered(days)
       PROVE  \E d \in DOMAIN days : \E i \in DOMAIN days[d] : Cell(k, days, d, i)
  <2> HIDE DEF cell
  <2>1. PICK n \in DOMAIN all : k = row(n)
    BY <1>1
  <2> QED BY <1>9, <1>12, <2>1
<1>14. ASSUME NEW j \in Numbered(days), NEW k \in Numbered(days),
              j.pos = k.pos \/ (j.day = k.day /\ j.index = k.index)
       PROVE  j = k
  <2>1. PICK x \in DOMAIN all : j = row(x)
    BY <1>1
  <2>2. PICK y \in DOMAIN all : k = row(y)
    BY <1>1
  <2>3. CASE j.pos = k.pos
    BY <1>10, <2>1, <2>2, <2>3
  <2>4. CASE j.day = k.day /\ j.index = k.index
    <3>1. PICK d \in DOMAIN days : \E i \in DOMAIN days[d] : all[x] = cell(d, i)
      BY <1>12
    <3>2. PICK i \in DOMAIN days[d] : all[x] = cell(d, i)
      BY <3>1
    <3>3. PICK e \in DOMAIN days : \E i2 \in DOMAIN days[e] : all[y] = cell(e, i2)
      BY <1>12
    <3>4. PICK c \in DOMAIN days[e] : all[y] = cell(e, c)
      BY <3>3
    <3>5. all[x].day = d - 1 /\ all[x].index = i - 1 /\ all[y].day = e - 1 /\ all[y].index = c - 1
      BY <3>2, <3>4
    <3>6. d = e /\ i = c
      BY <1>5, <1>10, <2>1, <2>2, <2>4, <3>5
    <3>7. x = y
      BY <1>8, <3>2, <3>4, <3>6 DEF Holds
    <3> QED BY <2>1, <2>2, <3>7
  <2> QED BY <1>14, <2>3, <2>4
<1> QED BY <1>11, <1>13, <1>14 DEF Celled

----------------------------------------------------------------------------
(* Who meets whom in a table *)

\* n teams, each listed once.
Teams(teams, n) == teams \in [1..n -> Nat \ {NoTeam}] /\ \A i, j \in 1..n : teams[i] = teams[j] => i = j

\* The rounds of one table, T: each two meet once.
RoundRobin(rounds, T) ==
    /\ Days(rounds)
    /\ \A r \in DOMAIN rounds : \A k \in DOMAIN rounds[r] :
           DOMAIN rounds[r][k] = 1..2 /\ rounds[r][k][1] # rounds[r][k][2] /\ Two(rounds[r][k]) \subseteq T
    /\ \A t, u \in T : t # u =>
           \E r \in DOMAIN rounds : \E k \in DOMAIN rounds[r] : Two(rounds[r][k]) = {t, u}
    /\ \A r, q \in DOMAIN rounds : \A k \in DOMAIN rounds[r], j \in DOMAIN rounds[q] :
           Two(rounds[r][k]) = Two(rounds[q][j]) => r = q /\ k = j
    /\ \A r \in DOMAIN rounds : \A k, j \in DOMAIN rounds[r] :
           k # j => Two(rounds[r][k]) \intersect Two(rounds[r][j]) = {}

\* The circle method's rounds are a round robin of the teams.
LEMMA CircleRobin ==
    ASSUME NEW n \in Nat, n >= 2, NEW teams, Teams(teams, n)
    PROVE  RoundRobin(CircleMethod(teams), ToSet(teams))
<1> DEFINE rounds == CircleMethod(teams)
           T == {teams[i] : i \in 1..n}
<1>1. teams \in [1..n -> Nat \ {NoTeam}] /\ \A i, j \in 1..n : teams[i] = teams[j] => i = j
  BY DEF Teams
<1>2. ToSet(teams) = T
  BY <1>1 DEF ToSet
<1>3. Days(rounds)
  <2>1. teams = [i \in 1..n |-> teams[i]]
    BY <1>1
  <2> QED BY <2>1, CircleListed
<1>4. /\ \A r \in DOMAIN rounds : \A k \in DOMAIN rounds[r] :
             /\ DOMAIN rounds[r][k] = 1..2 /\ rounds[r][k][1] # rounds[r][k][2]
             /\ Two(rounds[r][k]) \subseteq T
      /\ \A i, j \in 1..n : i # j =>
             \E r \in DOMAIN rounds : \E k \in DOMAIN rounds[r] : Two(rounds[r][k]) = {teams[i], teams[j]}
      /\ \A r, q \in DOMAIN rounds : \A k \in DOMAIN rounds[r], j \in DOMAIN rounds[q] :
             Two(rounds[r][k]) = Two(rounds[q][j]) => r = q /\ k = j
      /\ \A r \in DOMAIN rounds : \A k, j \in DOMAIN rounds[r] :
             k # j => Two(rounds[r][k]) \intersect Two(rounds[r][j]) = {}
  BY <1>1, EveryPairMeetsOnce
<1> HIDE DEF rounds
<1>5. ASSUME NEW t \in T, NEW u \in T, t # u
      PROVE  \E r \in DOMAIN rounds : \E k \in DOMAIN rounds[r] : Two(rounds[r][k]) = {t, u}
  <2>1. PICK i \in 1..n : t = teams[i]
    OBVIOUS
  <2>2. PICK j \in 1..n : u = teams[j]
    OBVIOUS
  <2>3. i # j
    BY <1>5, <2>1, <2>2
  <2>4. \A x, y \in 1..n : x # y =>
            \E r \in DOMAIN rounds : \E k \in DOMAIN rounds[r] : Two(rounds[r][k]) = {teams[x], teams[y]}
    BY <1>4
  <2> HIDE DEF T
  <2> QED BY <2>1, <2>2, <2>3, <2>4
<1> HIDE DEF T
<1> QED BY <1>2, <1>3, <1>4, <1>5 DEF RoundRobin, rounds

\* The fixtures outside the bracket: each two of T meet once, or once at each end;
\* and nobody plays twice in a day.
MeetOnce(M, T) ==
    /\ \A t, u \in T : t # u => \E m \in M : m.round = 0 /\ {m.a, m.b} = {t, u}
    /\ \A m, k \in M : m.round = 0 /\ k.round = 0 /\ {m.a, m.b} = {k.a, k.b} /\ m.a \in T /\ m.b \in T => m = k
MeetEach(M, T) ==
    /\ \A t, u \in T : t # u => \E m \in M : m.round = 0 /\ m.a = t /\ m.b = u
    /\ \A m, k \in M : m.round = 0 /\ k.round = 0 /\ m.a = k.a /\ m.b = k.b /\ m.a \in T /\ m.b \in T => m = k
DayApart(M) ==
    \A m, k \in M : m.round = 0 /\ k.round = 0 /\ m # k /\ m.day = k.day => {m.a, m.b} \intersect {k.a, k.b} = {}

\* The same of the days that are numbered.
Once(days, T) ==
    /\ \A t, u \in T : t # u => \E d \in DOMAIN days : \E i \in DOMAIN days[d] : Two(days[d][i].pair) = {t, u}
    /\ \A d, e \in DOMAIN days : \A i \in DOMAIN days[d], j \in DOMAIN days[e] :
           Two(days[d][i].pair) = Two(days[e][j].pair) /\ Two(days[d][i].pair) \subseteq T => d = e /\ i = j
Each(days, T) ==
    /\ \A t, u \in T : t # u => \E d \in DOMAIN days : \E i \in DOMAIN days[d] :
                                    days[d][i].pair[1] = t /\ days[d][i].pair[2] = u
    /\ \A d, e \in DOMAIN days : \A i \in DOMAIN days[d], j \in DOMAIN days[e] :
           days[d][i].pair[1] = days[e][j].pair[1] /\ days[d][i].pair[2] = days[e][j].pair[2]
           /\ Two(days[d][i].pair) \subseteq T => d = e /\ i = j
Free(days) ==
    \A d \in DOMAIN days : \A i, j \in DOMAIN days[d] :
        i # j => Two(days[d][i].pair) \intersect Two(days[d][j].pair) = {}

\* What holds of the days holds of their fixtures.
LEMMA CellsMeet ==
    ASSUME NEW days, Days(days), NEW M, Celled(M, days)
    PROVE  /\ \A T : Once(days, T) => MeetOnce(M, T)
           /\ \A T : Each(days, T) => MeetEach(M, T)
           /\ Free(days) => DayApart(M)
<1>1. \A m \in M : \E d \in DOMAIN days : \E i \in DOMAIN days[d] : Cell(m, days, d, i)
  BY DEF Celled
<1>2. ASSUME NEW d \in DOMAIN days, NEW i \in DOMAIN days[d], NEW m \in M, NEW k \in M,
             Cell(m, days, d, i), Cell(k, days, d, i)
      PROVE  m = k
  BY <1>2 DEF Cell, Celled
<1>3. \A m, d, i : Cell(m, days, d, i) => m.round = 0 /\ {m.a, m.b} = Two(days[d][i].pair)
  BY DEF Cell, Two
<1>4. ASSUME NEW T, Once(days, T) PROVE MeetOnce(M, T)
  <2>1. ASSUME NEW t \in T, NEW u \in T, t # u PROVE \E m \in M : m.round = 0 /\ {m.a, m.b} = {t, u}
    <3>1. PICK d \in DOMAIN days : \E i \in DOMAIN days[d] : Two(days[d][i].pair) = {t, u}
      BY <1>4, <2>1 DEF Once
    <3>2. PICK i \in DOMAIN days[d] : Two(days[d][i].pair) = {t, u}
      BY <3>1
    <3>3. PICK m \in M : Cell(m, days, d, i)
      BY DEF Celled
    <3> QED BY <1>3, <3>2, <3>3
  <2>2. ASSUME NEW m \in M, NEW k \in M, {m.a, m.b} = {k.a, k.b}, m.a \in T, m.b \in T PROVE m = k
    <3>1. PICK d \in DOMAIN days : \E i \in DOMAIN days[d] : Cell(m, days, d, i)
      BY <1>1
    <3>1i. PICK i \in DOMAIN days[d] : Cell(m, days, d, i)
      BY <3>1
    <3>2. PICK e \in DOMAIN days : \E j \in DOMAIN days[e] : Cell(k, days, e, j)
      BY <1>1
    <3>2i. PICK j \in DOMAIN days[e] : Cell(k, days, e, j)
      BY <3>2
    <3>3. Two(days[d][i].pair) = Two(days[e][j].pair) /\ Two(days[d][i].pair) \subseteq T
      <4>1. Two(days[d][i].pair) = {m.a, m.b} /\ Two(days[e][j].pair) = {k.a, k.b}
        BY <1>3, <3>1i, <3>2i
      <4>2. {m.a, m.b} \subseteq T
        BY <2>2
      <4> QED BY <2>2, <4>1, <4>2
    <3>4. d = e /\ i = j
      BY <1>4, <3>3 DEF Once
    <3> QED BY <1>2, <2>2, <3>1i, <3>2i, <3>4
  <2> QED BY <2>1, <2>2 DEF MeetOnce
<1>5. ASSUME NEW T, Each(days, T) PROVE MeetEach(M, T)
  <2>1. ASSUME NEW t \in T, NEW u \in T, t # u PROVE \E m \in M : m.round = 0 /\ m.a = t /\ m.b = u
    <3>1. PICK d \in DOMAIN days : \E i \in DOMAIN days[d] : days[d][i].pair[1] = t /\ days[d][i].pair[2] = u
      BY <1>5, <2>1 DEF Each
    <3>2. PICK i \in DOMAIN days[d] : days[d][i].pair[1] = t /\ days[d][i].pair[2] = u
      BY <3>1
    <3>3. PICK m \in M : Cell(m, days, d, i)
      BY DEF Celled
    <3> QED BY <3>2, <3>3 DEF Cell
  <2>2. ASSUME NEW m \in M, NEW k \in M, m.a = k.a, m.b = k.b, m.a \in T, m.b \in T PROVE m = k
    <3>1. PICK d \in DOMAIN days : \E i \in DOMAIN days[d] : Cell(m, days, d, i)
      BY <1>1
    <3>1i. PICK i \in DOMAIN days[d] : Cell(m, days, d, i)
      BY <3>1
    <3>2. PICK e \in DOMAIN days : \E j \in DOMAIN days[e] : Cell(k, days, e, j)
      BY <1>1
    <3>2i. PICK j \in DOMAIN days[e] : Cell(k, days, e, j)
      BY <3>2
    <3>3. /\ days[d][i].pair[1] = days[e][j].pair[1] /\ days[d][i].pair[2] = days[e][j].pair[2]
          /\ Two(days[d][i].pair) \subseteq T
      BY <2>2, <3>1i, <3>2i DEF Cell, Two
    <3>4. d = e /\ i = j
      BY <1>5, <3>3 DEF Each
    <3> QED BY <1>2, <2>2, <3>1i, <3>2i, <3>4
  <2> QED BY <2>1, <2>2 DEF MeetEach
<1>6. ASSUME Free(days), NEW m \in M, NEW k \in M, m # k, m.day = k.day
      PROVE  {m.a, m.b} \intersect {k.a, k.b} = {}
  <2>1. PICK d \in DOMAIN days : \E i \in DOMAIN days[d] : Cell(m, days, d, i)
    BY <1>1
  <2>1i. PICK i \in DOMAIN days[d] : Cell(m, days, d, i)
    BY <2>1
  <2>2. PICK e \in DOMAIN days : \E j \in DOMAIN days[e] : Cell(k, days, e, j)
    BY <1>1
  <2>2i. PICK j \in DOMAIN days[e] : Cell(k, days, e, j)
    BY <2>2
  <2>3. d \in Int /\ e \in Int
    BY DEF Days, Listed
  <2>4. d = e
    <3>1. m.day = d - 1 /\ k.day = e - 1
      BY <2>1i, <2>2i DEF Cell
    <3>2. m.day = k.day
      BY <1>6
    <3>3. d - 1 = e - 1
      BY <3>1, <3>2
    <3> QED BY <2>3, <3>3
  <2>5. i # j
    BY <1>2, <1>6, <2>1i, <2>2i, <2>4
  <2>6. Two(days[d][i].pair) \intersect Two(days[d][j].pair) = {}
    BY <1>6, <2>4, <2>5 DEF Free
  <2> QED BY <1>3, <2>1i, <2>2i, <2>4, <2>6
<1> QED BY <1>4, <1>5, <1>6 DEF DayApart

----------------------------------------------------------------------------
(* Leagues *)


\* The second half of a double round: every match again, at the other end.
LEMMA ReversePair ==
    ASSUME NEW p, DOMAIN p = 1..2
    PROVE  Reverse(p)[1] = p[2] /\ Reverse(p)[2] = p[1] /\ Two(Reverse(p)) = Two(p)
<1>1. Len(p) = 2
  BY LengthOf
<1>2. Reverse(p) = [i \in 1..2 |-> p[2 - i + 1]]
  BY <1>1 DEF Reverse
<1>3. Reverse(p)[1] = p[2] /\ Reverse(p)[2] = p[1]
  BY <1>2
<1> QED BY <1>3 DEF Two

\* The rounds of a league as days.
Day(rounds) == [r \in DOMAIN rounds |-> [i \in DOMAIN rounds[r] |-> [group |-> NoGroup, pair |-> rounds[r][i]]]]

\* A day's matches are the pairs of its round.
LEMMA DayPairs ==
    ASSUME NEW rounds, Days(rounds)
    PROVE  /\ Days(Day(rounds)) /\ DOMAIN Day(rounds) = DOMAIN rounds
           /\ \A r \in DOMAIN rounds : /\ DOMAIN Day(rounds)[r] = DOMAIN rounds[r]
                                       /\ \A i \in DOMAIN rounds[r] : Day(rounds)[r][i].pair = rounds[r][i]
<1> DEFINE days == Day(rounds)
<1>1. Listed(days)
  BY DEF Days, Listed, Day
<1>2. \A r \in DOMAIN days : Listed(days[r])
  BY DEF Days, Listed, Day
<1>3. DOMAIN days = DOMAIN rounds
  BY DEF Day
<1>4. ASSUME NEW r \in DOMAIN rounds
      PROVE  DOMAIN days[r] = DOMAIN rounds[r] /\ \A i \in DOMAIN rounds[r] : days[r][i].pair = rounds[r][i]
  BY DEF Day
<1> HIDE DEF days
<1>5. Days(days)
  BY <1>1, <1>2 DEF Days
<1> QED BY <1>3, <1>4, <1>5 DEF days

\* A league is of rounds on days in which nobody plays twice, and in which each two teams
\* meet once, or in a double round once at each end (league, roundRobinRounds).
THEOREM LeagueMeets ==
    ASSUME NEW n \in Nat, n >= 2, NEW teams, Teams(teams, n), NEW double \in BOOLEAN
    PROVE  \E days : /\ Days(days) /\ League(teams, double) = Numbered(days) /\ Free(days)
                     /\ IF double THEN Each(days, ToSet(teams)) ELSE Once(days, ToSet(teams))
<1> DEFINE T == ToSet(teams)
           first == CircleMethod(teams)
           back == [r \in DOMAIN first |-> [i \in DOMAIN first[r] |-> Reverse(first[r][i])]]
           rounds == IF double THEN first \o back ELSE first
           days == Day(rounds)
<1>1. League(teams, double) = Numbered(days)
  BY Zenon DEF League, Day
<1>2. RoundRobin(first, T)
  BY CircleRobin
<1> HIDE DEF first, T
<1>3. Days(first)
  BY <1>2 DEF RoundRobin
<1>4. CASE ~ double
  <2>1. rounds = first
    BY <1>4
  <2> HIDE DEF rounds
  <2>2. /\ Days(days) /\ DOMAIN days = DOMAIN first
        /\ \A r \in DOMAIN first : /\ DOMAIN days[r] = DOMAIN first[r]
                                   /\ \A i \in DOMAIN first[r] : days[r][i].pair = first[r][i]
    BY <1>3, <2>1, DayPairs
  <2> HIDE DEF days
  <2>3. Free(days)
    BY <1>2, <2>2 DEF RoundRobin, Free
  <2>4. Once(days, T)
    <3>1. ASSUME NEW t \in T, NEW u \in T, t # u
          PROVE  \E d \in DOMAIN days : \E i \in DOMAIN days[d] : Two(days[d][i].pair) = {t, u}
      <4>1. PICK r \in DOMAIN first : \E k \in DOMAIN first[r] : Two(first[r][k]) = {t, u}
        BY <1>2, <3>1 DEF RoundRobin
      <4>2. PICK k \in DOMAIN first[r] : Two(first[r][k]) = {t, u}
        BY <4>1
      <4> QED BY <2>2, <4>2
    <3>2. ASSUME NEW d \in DOMAIN days, NEW e \in DOMAIN days,
                 NEW i \in DOMAIN days[d], NEW j \in DOMAIN days[e],
                 Two(days[d][i].pair) = Two(days[e][j].pair)
          PROVE  d = e /\ i = j
      <4>1. Two(first[d][i]) = Two(first[e][j]) /\ i \in DOMAIN first[d] /\ j \in DOMAIN first[e]
        BY <2>2, <3>2
      <4> QED BY <1>2, <2>2, <4>1 DEF RoundRobin
    <3> QED BY <3>1, <3>2 DEF Once
  <2> QED BY <1>1, <1>4, <2>2, <2>3, <2>4 DEF T
<1>5. CASE double
  <2>1. rounds = first \o back
    BY <1>5
  <2>2. PICK m \in Nat : DOMAIN first = 1..m
    BY <1>3 DEF Days, Listed
  <2>3. Days(back) /\ DOMAIN back = 1..m
    <3>1. Listed(back)
      BY <1>3 DEF Days, Listed
    <3>2. \A r \in DOMAIN back : Listed(back[r])
      BY <1>3 DEF Days, Listed
    <3> QED BY <2>2, <3>1, <3>2 DEF Days
  <2>4. \A r \in 1..m : /\ DOMAIN back[r] = DOMAIN first[r]
                        /\ \A i \in DOMAIN first[r] : back[r][i] = Reverse(first[r][i])
    BY <2>2
  <2> HIDE DEF back
  <2>5. /\ Days(rounds) /\ DOMAIN rounds = 1..(m + m)
        /\ \A r \in 1..(m + m) : rounds[r] = IF r <= m THEN first[r] ELSE back[r - m]
    <3> DEFINE S == {first[r] : r \in DOMAIN first} \cup {back[r] : r \in DOMAIN back}
    <3>1. first \in Seq(S) /\ back \in Seq(S) /\ Len(first) = m /\ Len(back) = m
      <4>1. first \in Seq(S) /\ back \in Seq(S)
        BY <1>3, <2>3, ListIsSeq DEF Days
      <4>2. Len(first) = m /\ Len(back) = m
        BY <2>2, <2>3, LengthOf
      <4> QED BY <4>1, <4>2
    <3>2. \A l \in S : Listed(l)
      BY <1>3, <2>3 DEF Days
    <3> HIDE DEF S
    <3> DEFINE both == first \o back
    <3>3. /\ both \in Seq(S) /\ Len(both) = Len(first) + Len(back)
          /\ \A r \in 1..(Len(first) + Len(back)) :
                 both[r] = IF r <= Len(first) THEN first[r] ELSE back[r - Len(first)]
      BY <3>1, JoinAt
    <3> HIDE DEF both
    <3>4. Days(both)
      BY <3>2, <3>3, SeqIsList DEF Days
    <3>5. DOMAIN both = 1..(m + m)
      BY <3>1, <3>3
    <3> QED BY <2>1, <3>1, <3>3, <3>4, <3>5 DEF both
  <2> HIDE DEF rounds
  <2>6. /\ Days(days) /\ DOMAIN days = 1..(m + m)
        /\ \A r \in 1..(m + m) : /\ DOMAIN days[r] = DOMAIN rounds[r]
                                 /\ \A i \in DOMAIN rounds[r] : days[r][i].pair = rounds[r][i]
    BY <2>5, DayPairs
  <2> HIDE DEF days
  \* The cell of the first half that a cell comes from, and its ends.
  <2> DEFINE r0(d) == IF d <= m THEN d ELSE d - m
             p(d, i) == days[d][i].pair
  <2>7. ASSUME NEW d \in DOMAIN days, NEW i \in DOMAIN days[d]
        PROVE  /\ r0(d) \in DOMAIN first /\ i \in DOMAIN first[r0(d)]
               /\ Two(p(d, i)) = Two(first[r0(d)][i])
               /\ d <= m => p(d, i) = first[r0(d)][i]
               /\ d > m => p(d, i)[1] = first[r0(d)][i][2] /\ p(d, i)[2] = first[r0(d)][i][1]
    <3>1. d \in 1..(m + m)
      BY <2>6
    <3>2. CASE d <= m
      BY <2>2, <2>5, <2>6, <3>1, <3>2
    <3>3. CASE d > m
      <4>1. d - m \in 1..m /\ r0(d) = d - m
        BY <3>1, <3>3
      <4>2. rounds[d] = back[d - m] /\ DOMAIN rounds[d] = DOMAIN first[d - m]
        BY <2>4, <2>5, <3>1, <3>3, <4>1
      <4>3. i \in DOMAIN first[d - m] /\ p(d, i) = Reverse(first[d - m][i])
        BY <2>4, <2>6, <3>1, <4>1, <4>2
      <4>4. DOMAIN first[d - m][i] = 1..2
        BY <1>2, <2>2, <4>1, <4>3 DEF RoundRobin
      <4> HIDE DEF p
      <4>5. /\ p(d, i)[1] = first[d - m][i][2] /\ p(d, i)[2] = first[d - m][i][1]
            /\ Two(p(d, i)) = Two(first[d - m][i])
        BY <4>3, <4>4, ReversePair
      <4> QED BY <2>2, <3>3, <4>1, <4>3, <4>5
    <3> QED BY <3>1, <3>2, <3>3
  <2>8. Free(days)
    <3> SUFFICES ASSUME NEW d \in DOMAIN days, NEW i \in DOMAIN days[d], NEW j \in DOMAIN days[d], i # j
                 PROVE  Two(p(d, i)) \intersect Two(p(d, j)) = {}
      BY DEF Free
    <3> HIDE DEF p, r0
    <3>1. Two(first[r0(d)][i]) \intersect Two(first[r0(d)][j]) = {}
      BY <1>2, <2>7 DEF RoundRobin
    <3> QED BY <2>7, <3>1
  <2>9. ASSUME NEW t \in T, NEW u \in T, t # u
        PROVE  \E d \in DOMAIN days : \E i \in DOMAIN days[d] : p(d, i)[1] = t /\ p(d, i)[2] = u
    <3>1. PICK r \in DOMAIN first : \E k \in DOMAIN first[r] : Two(first[r][k]) = {t, u}
      BY <1>2, <2>9 DEF RoundRobin
    <3>2. PICK k \in DOMAIN first[r] : Two(first[r][k]) = {t, u}
      BY <3>1
    <3>3. \/ first[r][k][1] = t /\ first[r][k][2] = u
          \/ first[r][k][1] = u /\ first[r][k][2] = t
      BY <3>2 DEF Two
    <3>4. r \in 1..m /\ r \in 1..(m + m) /\ r + m \in 1..(m + m) /\ ~ r + m <= m /\ r + m - m = r /\ r <= m
      BY <2>2
    <3>5. r \in DOMAIN days /\ k \in DOMAIN days[r] /\ p(r, k) = first[r][k]
      BY <2>5, <2>6, <3>4
    <3>6. r + m \in DOMAIN days /\ k \in DOMAIN days[r + m] /\ r0(r + m) = r
      <4>1. rounds[r + m] = back[r]
        BY <2>5, <3>4
      <4>2. DOMAIN rounds[r + m] = DOMAIN first[r]
        BY <2>4, <3>4, <4>1
      <4>3. r + m \in DOMAIN days /\ DOMAIN days[r + m] = DOMAIN first[r]
        BY <2>6, <3>4, <4>2
      <4> QED BY <3>2, <3>4, <4>3
    <3>7. p(r + m, k)[1] = first[r][k][2] /\ p(r + m, k)[2] = first[r][k][1]
      <4>1. r + m > m
        BY <3>4
      <4> HIDE DEF p, r0
      <4> QED BY <2>7, <3>6, <4>1
    <3> HIDE DEF p
    <3> QED BY <3>3, <3>5, <3>6, <3>7
  <2>10. ASSUME NEW d \in DOMAIN days, NEW e \in DOMAIN days,
                NEW i \in DOMAIN days[d], NEW j \in DOMAIN days[e],
                p(d, i)[1] = p(e, j)[1], p(d, i)[2] = p(e, j)[2]
         PROVE  d = e /\ i = j
    <3> HIDE DEF p
    <3>1. Two(p(d, i)) = Two(p(e, j))
      BY <2>10 DEF Two
    <3>2. r0(d) = r0(e) /\ i = j
      <4> HIDE DEF r0
      <4>1. Two(first[r0(d)][i]) = Two(first[r0(e)][j])
        BY <2>7, <3>1
      <4> QED BY <1>2, <2>7, <4>1 DEF RoundRobin
    <3> DEFINE q == first[r0(d)][i]
    <3>3. q[1] # q[2]
      BY <1>2, <2>7 DEF RoundRobin
    <3>4. (d <= m => p(d, i) = q) /\ (d > m => p(d, i)[1] = q[2] /\ p(d, i)[2] = q[1])
      BY <2>7
    <3>5. (e <= m => p(e, j) = q) /\ (e > m => p(e, j)[1] = q[2] /\ p(e, j)[2] = q[1])
      BY <2>7, <3>2
    <3> HIDE DEF q
    <3>6. d \in 1..(m + m) /\ e \in 1..(m + m)
      BY <2>6
    <3>7. d <= m <=> e <= m
      BY <2>10, <3>3, <3>4, <3>5, <3>6
    <3>8. d = e
      BY <3>2, <3>6, <3>7
    <3> QED BY <3>2, <3>8
  <2>11. Each(days, T)
    <3>1. \A t, u \in T : t # u => \E d \in DOMAIN days : \E i \in DOMAIN days[d] :
                                       days[d][i].pair[1] = t /\ days[d][i].pair[2] = u
      BY <2>9
    <3>2. ASSUME NEW d \in DOMAIN days, NEW e \in DOMAIN days,
                 NEW i \in DOMAIN days[d], NEW j \in DOMAIN days[e],
                 days[d][i].pair[1] = days[e][j].pair[1], days[d][i].pair[2] = days[e][j].pair[2]
          PROVE  d = e /\ i = j
      <4>1. p(d, i)[1] = p(e, j)[1] /\ p(d, i)[2] = p(e, j)[2]
        BY <3>2
      <4> HIDE DEF p
      <4> QED BY <2>10, <4>1
    <3> HIDE DEF p
    <3> QED BY <3>1, <3>2 DEF Each
  <2> QED BY <1>1, <1>5, <2>6, <2>8, <2>11 DEF T
<1> QED BY <1>4, <1>5

----------------------------------------------------------------------------
(* Group stages *)


\* The days of a group stage: round d of every group, and nothing else, on day d.
LEMMA GroupsMeet ==
    ASSUME NEW c \in Nat \ {0}, NEW K \in Nat, NEW groups, groups = [g \in 1..c |-> groups[g]],
           \A g \in 1..c : \E n \in 2..K : Teams(groups[g], n),
           \A g, h \in 1..c : g # h => ToSet(groups[g]) \intersect ToSet(groups[h]) = {}
    PROVE  LET days == GroupDays(groups)
           IN Days(days) /\ Free(days) /\ \A g \in 1..c : Once(days, ToSet(groups[g]))
<1> DEFINE rounds == [g \in DOMAIN groups |-> CircleMethod(groups[g])]
           most == Max({Len(rounds[g]) : g \in DOMAIN groups})
           match(d, g, i) == [group |-> g, pair |-> rounds[g][d][i]]
           table(d, g) == IF d \in DOMAIN rounds[g] THEN [i \in DOMAIN rounds[g][d] |-> match(d, g, i)] ELSE <<>>
           f(d) == [g \in DOMAIN groups |-> table(d, g)]
           days == GroupDays(groups)
           T(g) == ToSet(groups[g])
<1>1. days = [d \in 1..most |-> FlattenSeq(f(d))]
  BY Zenon DEF GroupDays
<1>2. \A g \in 1..c : RoundRobin(rounds[g], T(g)) /\ Len(rounds[g]) \in 0..K
  <2> TAKE g \in 1..c
  <2>1. PICK n \in 2..K : Teams(groups[g], n)
    OBVIOUS
  <2>2. n \in Nat /\ n >= 2 /\ n <= K /\ rounds[g] = CircleMethod(groups[g])
    OBVIOUS
  <2>3. RoundRobin(rounds[g], T(g))
    BY <2>1, <2>2, CircleRobin
  <2>4. groups[g] = [i \in 1..n |-> groups[g][i]]
    BY <2>1 DEF Teams
  <2>5. Len(CircleMethod(groups[g])) \in 0..n
    BY <2>2, <2>4, CircleListed
  <2> QED BY <2>2, <2>3, <2>5
<1>0. DOMAIN groups = 1..c /\ 1 \in 1..c
  OBVIOUS
<1> HIDE DEF rounds
<1>3. most \in Nat /\ \A g \in 1..c : Len(rounds[g]) <= most
  <2> DEFINE S == {Len(rounds[g]) : g \in DOMAIN groups}
  <2>1. S \in SUBSET Nat /\ S # {} /\ \A x \in S : x <= K
    <3>1. \A g \in 1..c : Len(rounds[g]) \in Nat /\ Len(rounds[g]) <= K
      BY <1>2
    <3>2. S = {Len(rounds[g]) : g \in 1..c}
      BY <1>0
    <3> HIDE DEF S
    <3>3. S \in SUBSET Nat /\ \A x \in S : x <= K
      BY <3>1, <3>2
    <3>4. Len(rounds[1]) \in S
      BY <1>0, <3>2
    <3> QED BY <3>3, <3>4
  <2>3. \A g \in 1..c : Len(rounds[g]) \in S
    BY <1>0
  <2> HIDE DEF S
  <2>2. Max(S) \in Nat /\ \A x \in S : x <= Max(S)
    BY <2>1, MaxBounded
  <2> QED BY <2>2, <2>3 DEF S
<1>4. \A g \in 1..c : Days(rounds[g])
  BY <1>2 DEF RoundRobin
<1>5. ASSUME NEW d, NEW g \in 1..c
      PROVE  /\ Listed(table(d, g))
             /\ \A i \in DOMAIN table(d, g) :
                    /\ d \in DOMAIN rounds[g] /\ i \in DOMAIN rounds[g][d]
                    /\ table(d, g)[i].group = g /\ table(d, g)[i].pair = rounds[g][d][i]
             /\ d \in DOMAIN rounds[g] => DOMAIN table(d, g) = DOMAIN rounds[g][d]
  <2>1. CASE d \notin DOMAIN rounds[g]
    <3>1. table(d, g) = <<>> /\ \A i \in DOMAIN <<>> : FALSE
      BY <2>1
    <3> HIDE DEF table
    <3> QED BY <2>1, <3>1, NothingListed DEF Days
  <2>2. CASE d \in DOMAIN rounds[g]
    <3>1. Listed(rounds[g][d])
      BY <1>4, <2>2 DEF Days
    <3>2. table(d, g) = [i \in DOMAIN rounds[g][d] |-> match(d, g, i)]
      BY <2>2
    <3>3. \A i : match(d, g, i).group = g /\ match(d, g, i).pair = rounds[g][d][i]
      OBVIOUS
    <3> HIDE DEF match, table
    <3>4. /\ DOMAIN table(d, g) = DOMAIN rounds[g][d]
          /\ \A i \in DOMAIN rounds[g][d] : table(d, g)[i] = match(d, g, i)
      BY <3>2
    <3>5. Listed(table(d, g))
      BY <3>1, <3>2 DEF Listed
    <3> QED BY <2>2, <3>3, <3>4, <3>5
  <2> QED BY <2>1, <2>2
<1> DEFINE S(d) == UNION {{table(d, g)[i] : i \in DOMAIN table(d, g)} : g \in 1..c}
<1>6. ASSUME NEW d PROVE f(d) \in [1..c -> Seq(S(d))]
  <2> HIDE DEF table
  <2>1. ASSUME NEW g \in 1..c PROVE table(d, g) \in Seq(S(d))
    <3>1. \A i \in DOMAIN table(d, g) : table(d, g)[i] \in S(d)
      OBVIOUS
    <3> HIDE DEF S
    <3> QED BY <1>5, <3>1, ListIsSeq
  <2> HIDE DEF S
  <2> QED BY <2>1
<1>7. ASSUME NEW d PROVE \A g \in 1..c : f(d)[g] = table(d, g)
  <2> HIDE DEF table
  <2> QED BY <1>0
<1> HIDE DEF f, S, table, T
<1>8. ASSUME NEW d PROVE Single(f(d), c)
  <2> SUFFICES ASSUME NEW g \in 1..c, NEW h \in 1..c, NEW i \in DOMAIN table(d, g), NEW j \in DOMAIN table(d, h),
                      table(d, g)[i] = table(d, h)[j]
               PROVE  g = h /\ i = j
    BY <1>7 DEF Single
  <2>1. g = h
    BY <1>5
  <2>2. Two(rounds[g][d][i]) = Two(rounds[g][d][j])
    BY <1>5, <2>1
  <2>3. d \in DOMAIN rounds[g] /\ i \in DOMAIN rounds[g][d] /\ j \in DOMAIN rounds[g][d]
    BY <1>5, <2>1
  <2> QED BY <1>2, <2>1, <2>2, <2>3 DEF RoundRobin
<1>9. ASSUME NEW d PROVE Holds(FlattenSeq(f(d)), f(d), c) /\ FlattenSeq(f(d)) \in Seq(S(d))
  BY <1>6, <1>8, FlatHolds, FlatIsSeq
<1>10. /\ DOMAIN days = 1..most
       /\ \A d \in 1..most : Holds(days[d], f(d), c) /\ Listed(days[d])
  <2>1. \A d : Listed(FlattenSeq(f(d)))
    <3> TAKE d
    <3> DEFINE l == FlattenSeq(f(d))
    <3>1. l \in Seq(S(d))
      BY <1>9
    <3> HIDE DEF l
    <3>2. Listed(l)
      BY <3>1, SeqIsList
    <3> QED BY <3>2 DEF l
  <2> HIDE DEF days, most
  <2> QED BY <1>1, <1>9, <2>1
<1>11. Days(days)
  <2> HIDE DEF most
  <2>1. Listed(days)
    <3> HIDE DEF days
    <3> QED BY <1>1, <1>3 DEF Listed
  <2> HIDE DEF days
  <2> QED BY <1>10, <2>1 DEF Days
<1> HIDE DEF days, most
<1> DEFINE From(d, i, g, k) ==
               /\ d \in DOMAIN rounds[g] /\ k \in DOMAIN rounds[g][d] /\ k \in DOMAIN table(d, g)
               /\ days[d][i] = table(d, g)[k] /\ days[d][i].pair = rounds[g][d][k]
\* Each match of a day is one of a group's round, and no two are the same.
<1>12. ASSUME NEW d \in DOMAIN days, NEW i \in DOMAIN days[d]
       PROVE  \E g \in 1..c : \E k : From(d, i, g, k)
  <2>1. PICK g \in 1..c : \E k \in DOMAIN f(d)[g] : days[d][i] = f(d)[g][k]
    BY <1>10 DEF Holds
  <2>2. PICK k \in DOMAIN f(d)[g] : days[d][i] = f(d)[g][k]
    BY <2>1
  <2>3. k \in DOMAIN table(d, g) /\ days[d][i] = table(d, g)[k]
    BY <1>7, <2>2
  <2>4. From(d, i, g, k)
    BY <1>5, <2>3
  <2> HIDE DEF From
  <2> QED BY <2>4
<1>13. ASSUME NEW d \in DOMAIN days, NEW i \in DOMAIN days[d], NEW j \in DOMAIN days[d], days[d][i] = days[d][j]
       PROVE  i = j
  BY <1>10, <1>13 DEF Holds
<1>14. ASSUME NEW g \in 1..c, NEW d \in DOMAIN rounds[g], NEW k \in DOMAIN rounds[g][d]
       PROVE  d \in DOMAIN days /\ \E i \in DOMAIN days[d] : days[d][i].pair = rounds[g][d][k]
  <2>1. d \in 1..most
    <3>1. DOMAIN rounds[g] = 1..Len(rounds[g]) /\ Len(rounds[g]) \in Nat
      BY <1>4, ListLength DEF Days
    <3> QED BY <1>3, <3>1
  <2>2. k \in DOMAIN table(d, g) /\ table(d, g)[k].pair = rounds[g][d][k]
    BY <1>5
  <2>3. PICK i \in DOMAIN days[d] : days[d][i] = f(d)[g][k]
    BY <1>7, <1>10, <2>1, <2>2 DEF Holds
  <2> QED BY <1>7, <1>10, <2>1, <2>2, <2>3
<1>15. ASSUME NEW g \in 1..c, NEW h \in 1..c, NEW d \in DOMAIN rounds[g], NEW e \in DOMAIN rounds[h],
              NEW k \in DOMAIN rounds[g][d], NEW j \in DOMAIN rounds[h][e],
              Two(rounds[g][d][k]) \intersect Two(rounds[h][e][j]) # {}
       PROVE  g = h
  <2>1. Two(rounds[g][d][k]) \subseteq T(g) /\ Two(rounds[h][e][j]) \subseteq T(h)
    BY <1>2 DEF RoundRobin
  <2>2. T(g) \intersect T(h) # {}
    BY <1>15, <2>1
  <2> QED BY <2>2 DEF T
<1>u. ASSUME NEW g \in 1..c, NEW d \in DOMAIN rounds[g], NEW e \in DOMAIN rounds[g],
             NEW k \in DOMAIN rounds[g][d], NEW j \in DOMAIN rounds[g][e],
             Two(rounds[g][d][k]) = Two(rounds[g][e][j])
      PROVE  d = e /\ k = j
  BY <1>2, <1>u DEF RoundRobin
<1>v. ASSUME NEW g \in 1..c, NEW d \in DOMAIN rounds[g], NEW k \in DOMAIN rounds[g][d], NEW j \in DOMAIN rounds[g][d],
             Two(rounds[g][d][k]) \intersect Two(rounds[g][d][j]) # {}
      PROVE  k = j
  BY <1>2, <1>v DEF RoundRobin
<1>w. ASSUME NEW g \in 1..c, NEW t \in T(g), NEW u \in T(g), t # u
      PROVE  \E d \in DOMAIN rounds[g] : \E k \in DOMAIN rounds[g][d] : Two(rounds[g][d][k]) = {t, u}
  <2>1. RoundRobin(rounds[g], T(g))
    BY <1>2
  <2> QED BY <1>w, <2>1 DEF RoundRobin
<1>16. Free(days)
  <2> SUFFICES ASSUME NEW d \in DOMAIN days, NEW i \in DOMAIN days[d], NEW j \in DOMAIN days[d], i # j,
                      Two(days[d][i].pair) \intersect Two(days[d][j].pair) # {}
               PROVE  FALSE
    BY DEF Free
  <2>1. PICK g \in 1..c : \E k : From(d, i, g, k)
    BY <1>12
  <2>2. PICK k : From(d, i, g, k)
    BY <2>1
  <2>3. PICK h \in 1..c : \E x : From(d, j, h, x)
    BY <1>12
  <2>4. PICK x : From(d, j, h, x)
    BY <2>3
  <2>5. g = h
    <3>1. Two(rounds[g][d][k]) \intersect Two(rounds[h][d][x]) # {}
      BY <2>2, <2>4
    <3>2. d \in DOMAIN rounds[g] /\ k \in DOMAIN rounds[g][d] /\ d \in DOMAIN rounds[h] /\ x \in DOMAIN rounds[h][d]
      BY <2>2, <2>4
    <3> HIDE DEF From
    <3> QED BY <1>15, <3>1, <3>2
  <2>6. k = x
    BY <1>v, <2>2, <2>4, <2>5
  <2> QED BY <1>13, <2>2, <2>4, <2>5, <2>6
<1>17. ASSUME NEW g \in 1..c PROVE Once(days, T(g))
  <2>1. ASSUME NEW t \in T(g), NEW u \in T(g), t # u
        PROVE  \E d \in DOMAIN days : \E i \in DOMAIN days[d] : Two(days[d][i].pair) = {t, u}
    <3>1. PICK d \in DOMAIN rounds[g] : \E k \in DOMAIN rounds[g][d] : Two(rounds[g][d][k]) = {t, u}
      BY <1>w, <2>1
    <3>2. PICK k \in DOMAIN rounds[g][d] : Two(rounds[g][d][k]) = {t, u}
      BY <3>1
    <3> QED BY <1>14, <3>2
  <2>2. ASSUME NEW d \in DOMAIN days, NEW e \in DOMAIN days,
               NEW i \in DOMAIN days[d], NEW j \in DOMAIN days[e],
               Two(days[d][i].pair) = Two(days[e][j].pair)
        PROVE  d = e /\ i = j
    <3>1. PICK a \in 1..c : \E k : From(d, i, a, k)
      BY <1>12
    <3>2. PICK k : From(d, i, a, k)
      BY <3>1
    <3>3. PICK h \in 1..c : \E x : From(e, j, h, x)
      BY <1>12
    <3>4. PICK x : From(e, j, h, x)
      BY <3>3
    <3>5. Two(days[d][i].pair) # {}
      BY DEF Two
    <3>6. a = h
      <4>1. Two(rounds[a][d][k]) \intersect Two(rounds[h][e][x]) # {}
        BY <2>2, <3>2, <3>4, <3>5
      <4>2. d \in DOMAIN rounds[a] /\ k \in DOMAIN rounds[a][d] /\ e \in DOMAIN rounds[h] /\ x \in DOMAIN rounds[h][e]
        BY <3>2, <3>4
      <4> HIDE DEF From
      <4> QED BY <1>15, <4>1, <4>2
    <3>7. d = e /\ k = x
      BY <1>u, <2>2, <3>2, <3>4, <3>6
    <3> QED BY <1>13, <3>2, <3>4, <3>6, <3>7
  <2> QED BY <2>1, <2>2 DEF Once
<1> QED BY <1>11, <1>16, <1>17 DEF days, T

----------------------------------------------------------------------------
(* The serpentine *)


\* Multiplying keeps the order.
LEMMA MulLe ==
    ASSUME NEW c \in Nat, NEW a \in Nat, NEW b \in Nat, a <= b
    PROVE  c * a <= c * b
OBVIOUS

\* A number from its quotient and remainder.
LEMMA Divides ==
    ASSUME NEW c \in Nat \ {0}, NEW x \in Nat, NEW q, q = x \div c, NEW r, r = x % c
    PROVE  x = c * q + r
BY Z3

\* Quotient and remainder exist.
LEMMA Divide ==
    ASSUME NEW c \in Nat \ {0}, NEW x \in Nat
    PROVE  \E q \in Nat, r \in 0..(c - 1) : q = x \div c /\ r = x % c /\ x = c * q + r
<1> DEFINE q == x \div c
           r == x % c
<1>1. q = x \div c /\ r = x % c
  OBVIOUS
<1>2. r \in 0..(c - 1)
  OBVIOUS
<1>3. q \in Nat
  OBVIOUS
<1> HIDE DEF q, r
<1>4. x = c * q + r
  BY <1>1, Divides
<1> QED BY <1>1, <1>2, <1>3, <1>4

\* Quotient and remainder are the only ones.
LEMMA Quotient ==
    ASSUME NEW c \in Nat \ {0}, NEW r \in Nat, NEW a \in 0..(c - 1)
    PROVE  (c * r + a) \div c = r /\ (c * r + a) % c = a
<1> DEFINE x == c * r + a
<1>1. x \in Nat
  OBVIOUS
<1>2. PICK q \in Nat, b \in 0..(c - 1) : q = x \div c /\ b = x % c /\ x = c * q + b
  BY <1>1, Divide
<1>3. c * r + a = c * q + b
  BY <1>2
<1>4. ~ q < r
  <2> SUFFICES ASSUME q < r PROVE FALSE
    OBVIOUS
  <2>1. c * (q + 1) <= c * r
    BY <1>2, MulLe
  <2>2. c * (q + 1) = c * q + c
    BY <1>2
  <2> QED BY <1>2, <1>3, <2>1, <2>2
<1>5. ~ r < q
  <2> SUFFICES ASSUME r < q PROVE FALSE
    OBVIOUS
  <2>1. c * (r + 1) <= c * q
    BY <1>2, MulLe
  <2>2. c * (r + 1) = c * r + c
    BY <1>2
  <2> QED BY <1>2, <1>3, <2>1, <2>2
<1>6. q = r
  BY <1>2, <1>4, <1>5
<1>7. b = a
  <2>1. c * r + a = c * r + b
    BY <1>3, <1>6
  <2>2. c * r \in Int /\ a \in Int /\ b \in Int
    BY <1>2
  <2> QED BY <2>1, <2>2
<1> QED BY <1>2, <1>6, <1>7

\* Where row r of the serpentine seats group g.
Seat(c, r, g) == c * r + (IF r % 2 = 0 THEN g - 1 ELSE c - g) + 1

\* The group of a seed, by its row and place in the serpentine.
LEMMA GroupAt ==
    ASSUME NEW c \in Nat \ {0}, NEW k \in Nat \ {0}, NEW r \in Nat, (k - 1) \div c = r,
           NEW a \in Nat, (k - 1) % c = a
    PROVE  GroupOfSeed(k, c) = 1 + (IF r % 2 = 0 THEN a ELSE c - 1 - a)
BY DEF GroupOfSeed

\* A seat is given to a seed of its group.
LEMMA SeatOf ==
    ASSUME NEW c \in Nat \ {0}, NEW r \in Nat, NEW g \in 1..c
    PROVE  /\ GroupOfSeed(Seat(c, r, g), c) = g /\ (Seat(c, r, g) - 1) \div c = r
           /\ Seat(c, r, g) \in Nat \ {0} /\ Seat(c, r, g) <= c * r + c
<1> DEFINE a == IF r % 2 = 0 THEN g - 1 ELSE c - g
           x == c * r
<1>1. a \in 0..(c - 1)
  OBVIOUS
<1>2. x \in Nat
  <2>1. c * 0 <= c * r
    BY MulLe
  <2>2. c * 0 = 0 /\ c * r \in Int
    OBVIOUS
  <2> QED BY <2>1, <2>2
<1>3. Seat(c, r, g) = x + a + 1
  BY DEF Seat
<1> HIDE DEF a
<1>4. (c * r + a) \div c = r /\ (c * r + a) % c = a
  BY <1>1, Quotient
<1>5. Seat(c, r, g) - 1 = c * r + a
  <2> HIDE DEF x
  <2>1. Seat(c, r, g) - 1 = x + a
    BY <1>1, <1>2, <1>3
  <2> QED BY <2>1 DEF x
<1>6. (Seat(c, r, g) - 1) \div c = r /\ (Seat(c, r, g) - 1) % c = a
  BY <1>4, <1>5, Zenon
<1>10. Seat(c, r, g) \in Nat \ {0}
  <2> HIDE DEF x
  <2> QED BY <1>1, <1>2, <1>3
<1>7. GroupOfSeed(Seat(c, r, g), c) = 1 + (IF r % 2 = 0 THEN a ELSE c - 1 - a)
  BY <1>1, <1>6, <1>10, GroupAt
<1>8. GroupOfSeed(Seat(c, r, g), c) = g
  BY <1>7 DEF a
<1>9. Seat(c, r, g) \in Nat \ {0} /\ Seat(c, r, g) <= x + c
  <2> HIDE DEF x
  <2> QED BY <1>1, <1>2, <1>3
<1> QED BY <1>6, <1>8, <1>9

\* Every seed has a seat.
LEMMA SeatTaken ==
    ASSUME NEW c \in Nat \ {0}, NEW k \in Nat \ {0}
    PROVE  /\ GroupOfSeed(k, c) \in 1..c /\ (k - 1) \div c \in Nat
           /\ k = Seat(c, (k - 1) \div c, GroupOfSeed(k, c))
           /\ c * ((k - 1) \div c) <= k - 1
<1> DEFINE g == GroupOfSeed(k, c)
<1>1. PICK r \in Nat, a \in 0..(c - 1) : r = (k - 1) \div c /\ a = (k - 1) % c /\ k - 1 = c * r + a
  BY Divide
<1>2. g = 1 + (IF r % 2 = 0 THEN a ELSE c - 1 - a)
  BY <1>1, GroupAt
<1> HIDE DEF g
<1>3. g \in 1..c /\ a = IF r % 2 = 0 THEN g - 1 ELSE c - g
  <2>1. r % 2 \in {0, 1}
    OBVIOUS
  <2> QED BY <1>2, <2>1
<1> DEFINE x == c * r
<1>4. x \in Int
  OBVIOUS
<1>5. k = x + a + 1 /\ x <= k - 1
  <2>1. k - 1 = x + a
    BY <1>1
  <2> HIDE DEF x
  <2> QED BY <1>4, <2>1
<1>6. Seat(c, r, g) = x + a + 1
  BY <1>3 DEF Seat
<1>7. k = Seat(c, r, g) /\ c * r <= k - 1
  BY <1>5, <1>6
<1> QED BY <1>1, <1>3, <1>7 DEF g

----------------------------------------------------------------------------
(* The groups of a draw *)


\* The seeds of one group.
SeedsOf(n, c, g) == {k \in 1..n : GroupOfSeed(k, c) = g}

\* The groups' sizes differ by one at most, and none has less than two seeds.
LEMMA GroupSizes ==
    ASSUME NEW n \in Nat, NEW c \in Nat \ {0}, 2 * c <= n
    PROVE  \E q \in Nat : q >= 2 /\ \A g \in 1..c : Cardinality(SeedsOf(n, c, g)) \in {q, q + 1}
<1>1. PICK q \in Nat, b \in 0..(c - 1) : q = n \div c /\ b = n % c /\ n = c * q + b
  BY Divide
<1> DEFINE x == c * q
<1>2. x \in Int /\ n = x + b
  BY <1>1
<1>3. \A r \in Nat : r < q => c * r + c <= x
  <2> SUFFICES ASSUME NEW r \in Nat, r < q PROVE c * r + c <= x
    OBVIOUS
  <2>1. c * (r + 1) <= c * q
    BY MulLe
  <2>2. c * (r + 1) = c * r + c
    OBVIOUS
  <2> QED BY <2>1, <2>2
<1>4. q >= 2
  <2> SUFFICES ASSUME q < 2 PROVE FALSE
    BY <1>1
  <2>1. c * q <= c * 1
    BY MulLe
  <2>2. c * 1 = c
    OBVIOUS
  <2> HIDE DEF x
  <2>3. x <= c
    BY <2>1, <2>2 DEF x
  <2> QED BY <1>2, <2>3
<1>5. ASSUME NEW g \in 1..c PROVE Cardinality(SeedsOf(n, c, g)) \in {q, q + 1}
  <2> DEFINE S == SeedsOf(n, c, g)
  <2>1. \A k \in S : k \in 1..n /\ GroupOfSeed(k, c) = g
    BY DEF SeedsOf
  <2>2. IsFiniteSet(S) /\ Cardinality(S) \in Nat
    <3>1. IsFiniteSet(1..n)
      BY FS_Interval
    <3>2. S \in SUBSET (1..n)
      BY DEF SeedsOf
    <3> HIDE DEF S
    <3> QED BY <3>1, <3>2, FS_Subset, FS_CardinalityType
  <2> HIDE DEF S
  <2>3. ASSUME NEW k \in S PROVE (k - 1) \div c \in 0..q /\ k = Seat(c, (k - 1) \div c, g)
    <3> DEFINE r == (k - 1) \div c
    <3>0. k \in Nat \ {0} /\ GroupOfSeed(k, c) = g
      BY <2>1
    <3>1. r \in Nat /\ k = Seat(c, r, g) /\ c * r <= k - 1
      BY <3>0, SeatTaken
    <3> HIDE DEF r
    <3>2. ~ q < r
      <4> SUFFICES ASSUME q < r PROVE FALSE
        OBVIOUS
      <4>1. c * (q + 1) <= c * r
        BY <3>1, MulLe
      <4>2. c * (q + 1) = x + c
        OBVIOUS
      <4> DEFINE y == c * r
      <4>4. y \in Int /\ x + c <= y /\ y <= k - 1
        BY <3>1, <4>1, <4>2
      <4>5. k \in Int
        BY <2>1
      <4> HIDE DEF x, y
      <4>3. x + c <= k - 1
        BY <1>2, <4>4, <4>5
      <4> QED BY <1>2, <2>1, <4>3
    <3> QED BY <3>1, <3>2 DEF r
  <2>4. Cardinality(S) <= q + 1
    <3> DEFINE f == [k \in S |-> (k - 1) \div c]
    <3>1. f \in [S -> 0..q]
      BY <2>3
    <3>2. \A k, j \in S : f[k] = f[j] => k = j
      <4> SUFFICES ASSUME NEW k \in S, NEW j \in S, f[k] = f[j] PROVE k = j
        OBVIOUS
      <4>1. k = Seat(c, f[k], g) /\ j = Seat(c, f[j], g)
        BY <2>3
      <4> HIDE DEF f
      <4> QED BY <4>1
    <3> HIDE DEF f
    <3>3. f \in Injection(S, 0..q)
      BY <3>1, <3>2 DEF Injection, IsInjective
    <3>4. IsFiniteSet(0..q) /\ Cardinality(0..q) = q + 1
      BY FS_Interval
    <3>5. Cardinality(S) <= Cardinality(0..q)
      BY <3>3, <3>4, FS_Injection
    <3> QED BY <3>4, <3>5
  <2>5. q <= Cardinality(S)
    <3> DEFINE f == [r \in 0..(q - 1) |-> Seat(c, r, g)]
    <3>1. ASSUME NEW r \in 0..(q - 1) PROVE f[r] \in S /\ (f[r] - 1) \div c = r
      <4>1. /\ GroupOfSeed(Seat(c, r, g), c) = g /\ (Seat(c, r, g) - 1) \div c = r
            /\ Seat(c, r, g) \in Nat \ {0} /\ Seat(c, r, g) <= c * r + c
        BY SeatOf
      <4>2. c * r + c <= x /\ c * r + c \in Int
        BY <1>3
      <4> DEFINE k == Seat(c, r, g)
                 y == c * r + c
      <4> HIDE DEF k, y, x
      <4>3. k \in Nat \ {0} /\ k <= y /\ y <= x /\ y \in Int
        BY <4>1, <4>2 DEF k, y
      <4>4. k \in 1..n
        BY <1>2, <4>3
      <4>5. k \in S
        BY <4>1, <4>4 DEF S, SeedsOf, k
      <4> QED BY <4>1, <4>5 DEF k
    <3>2. f \in [0..(q - 1) -> S]
      <4>1. \A r \in 0..(q - 1) : f[r] \in S
        BY <3>1
      <4> QED BY <4>1
    <3>3. \A r, p \in 0..(q - 1) : f[r] = f[p] => r = p
      <4> SUFFICES ASSUME NEW r \in 0..(q - 1), NEW p \in 0..(q - 1), f[r] = f[p] PROVE r = p
        OBVIOUS
      <4>1. (f[r] - 1) \div c = r /\ (f[p] - 1) \div c = p
        BY <3>1
      <4> HIDE DEF f
      <4> QED BY <4>1
    <3> HIDE DEF f
    <3>4. f \in Injection(0..(q - 1), S)
      BY <3>2, <3>3 DEF Injection, IsInjective
    <3>5. IsFiniteSet(0..(q - 1)) /\ Cardinality(0..(q - 1)) = q
      BY <1>4, FS_Interval
    <3>6. Cardinality(0..(q - 1)) <= Cardinality(S)
      BY <2>2, <3>4, FS_Injection
    <3> QED BY <3>5, <3>6
  <2> QED BY <2>2, <2>4, <2>5 DEF S
<1> QED BY <1>4, <1>5

\* The groups of a draw: each of some of the teams, two of them at least and one
\* more than another at most, and no team in two.
Shares(groups, c, n) ==
    /\ groups = [g \in 1..c |-> groups[g]] /\ Len(groups) = c
    /\ \A g \in 1..c : Len(groups[g]) \in 2..n /\ Teams(groups[g], Len(groups[g]))
    /\ \A g, h \in 1..c : g # h =>
           ToSet(groups[g]) \intersect ToSet(groups[h]) = {} /\ Len(groups[g]) - Len(groups[h]) < 2

\* The teams of a draw are shared out as groups should be, whatever number of them was asked
\* for (assignGroups, groupCount, suggestGroupCount).
THEOREM GroupsShare ==
    ASSUME NEW n \in Nat, n >= 2, NEW teams, Teams(teams, n), NEW wanted \in Nat
    PROVE  \E c \in Nat \ {0} : 2 * c <= n /\ Shares(AssignGroups(teams, WantedGroups(Len(teams), wanted)), c, n)
<1> DEFINE want == WantedGroups(Len(teams), wanted)
           groups == AssignGroups(teams, want)
           c == GroupCount(Len(teams), want)
           ks(g) == InOrder({k \in DOMAIN teams : GroupOfSeed(k, c) = g}, <)
           list(g) == [j \in DOMAIN ks(g) |-> teams[ks(g)[j]]]
<1>1. DOMAIN teams = 1..n /\ Len(teams) = n
  BY LengthOf DEF Teams
<1>2. c \in Nat \ {0} /\ 2 * c <= n /\ Len(groups) = c
  BY <1>1, DrawnGroups
<1>3. groups = [g \in 1..c |-> list(g)]
  BY Zenon DEF AssignGroups
<1> HIDE DEF c, groups
<1>4. PICK q \in Nat : q >= 2 /\ \A g \in 1..c : Cardinality(SeedsOf(n, c, g)) \in {q, q + 1}
  BY <1>2, GroupSizes
<1>5. ASSUME NEW g \in 1..c
      PROVE  /\ DOMAIN ks(g) = 1..Cardinality(SeedsOf(n, c, g))
             /\ \A k \in DOMAIN ks(g) : ks(g)[k] \in SeedsOf(n, c, g)
             /\ \A k, j \in DOMAIN ks(g) : ks(g)[k] = ks(g)[j] => k = j
  <2> DEFINE P == {k \in DOMAIN teams : GroupOfSeed(k, c) = g}
             o == InOrder(P, <)
  <2>1. P \in SUBSET (1..n) /\ P = SeedsOf(n, c, g)
    BY <1>1 DEF SeedsOf
  <2> HIDE DEF P
  <2>2. /\ DOMAIN o = 1..Cardinality(P)
        /\ \A k \in DOMAIN o : o[k] \in P
        /\ \A k, j \in DOMAIN o : o[k] = o[j] => k = j
    BY <2>1, OrderTakes
  <2> HIDE DEF o
  <2>3. o = ks(g)
    BY Zenon DEF o, P
  <2> HIDE DEF ks
  <2> QED BY <2>1, <2>2, <2>3
<1> HIDE DEF ks
<1>6. ASSUME NEW g \in 1..c
      PROVE  /\ Len(groups[g]) = Cardinality(SeedsOf(n, c, g))
             /\ Len(groups[g]) \in 2..n /\ Teams(groups[g], Len(groups[g]))
             /\ \A t \in ToSet(groups[g]) : \E k \in SeedsOf(n, c, g) : t = teams[k]
  <2> DEFINE s == Cardinality(SeedsOf(n, c, g))
             l == groups[g]
  <2>1. l = list(g)
    BY <1>3
  <2>2. s \in Nat /\ s >= 2
    BY <1>4
  <2>3. DOMAIN l = 1..s /\ \A j \in 1..s : l[j] = teams[ks(g)[j]]
    BY <1>5, <2>1
  <2> HIDE DEF l
  <2>4. \A j \in 1..s : ks(g)[j] \in SeedsOf(n, c, g) /\ ks(g)[j] \in 1..n
    BY <1>5 DEF SeedsOf
  <2>5. \A j, i \in 1..s : ks(g)[j] = ks(g)[i] => j = i
    BY <1>5
  <2>6. s <= n
    <3>1. SeedsOf(n, c, g) \in SUBSET (1..n)
      BY DEF SeedsOf
    <3>2. IsFiniteSet(1..n) /\ Cardinality(1..n) = n
      BY FS_Interval
    <3> HIDE DEF s
    <3>3. Cardinality(SeedsOf(n, c, g)) <= Cardinality(1..n)
      BY <3>1, <3>2, FS_Subset
    <3> QED BY <3>2, <3>3 DEF s
  <2> HIDE DEF s
  <2>7. Len(l) = s
    BY <2>2, <2>3, LengthOf
  <2>8. l = [j \in 1..s |-> l[j]]
    BY <2>1, <2>3 DEF l
  <2>9. \A j \in 1..s : l[j] \in Nat \ {NoTeam}
    BY <2>3, <2>4 DEF Teams
  <2>10. \A j, i \in 1..s : l[j] = l[i] => j = i
    BY <2>3, <2>4, <2>5 DEF Teams
  <2>11. l \in [1..s -> Nat \ {NoTeam}]
    BY <2>8, <2>9
  <2>12. Teams(l, s)
    BY <2>10, <2>11 DEF Teams
  <2>13. \A t \in ToSet(l) : \E k \in SeedsOf(n, c, g) : t = teams[k]
    BY <2>3, <2>4 DEF ToSet
  <2> QED BY <2>2, <2>6, <2>7, <2>12, <2>13 DEF l, s
<1>7. ASSUME NEW g \in 1..c, NEW h \in 1..c, g # h
      PROVE  ToSet(groups[g]) \intersect ToSet(groups[h]) = {} /\ Len(groups[g]) - Len(groups[h]) < 2
  <2>1. Len(groups[g]) \in {q, q + 1} /\ Len(groups[h]) \in {q, q + 1}
    BY <1>4, <1>6
  <2>2. ASSUME NEW t \in ToSet(groups[g]), t \in ToSet(groups[h]) PROVE FALSE
    <3>1. PICK k \in SeedsOf(n, c, g) : t = teams[k]
      BY <1>6
    <3>2. PICK j \in SeedsOf(n, c, h) : t = teams[j]
      BY <1>6, <2>2
    <3>3. k \in 1..n /\ j \in 1..n /\ GroupOfSeed(k, c) = g /\ GroupOfSeed(j, c) = h
      BY DEF SeedsOf
    <3>4. k = j
      BY <3>1, <3>2, <3>3 DEF Teams
    <3> QED BY <1>7, <3>3, <3>4
  <2>3. Len(groups[g]) - Len(groups[h]) < 2
    <3> DEFINE a == Len(groups[g])
               b == Len(groups[h])
    <3>1. a \in {q, q + 1} /\ b \in {q, q + 1}
      BY <2>1
    <3> HIDE DEF a, b
    <3>2. a - b < 2
      BY <3>1
    <3> QED BY <3>2 DEF a, b
  <2>4. ToSet(groups[g]) \intersect ToSet(groups[h]) = {}
    BY <2>2, Zenon
  <2> QED BY <2>3, <2>4
<1>8. groups = [g \in 1..c |-> groups[g]]
  <2>1. DOMAIN groups = 1..c
    BY <1>3
  <2> QED BY <1>3, <2>1
<1>9. Shares(groups, c, n)
  BY <1>2, <1>6, <1>7, <1>8 DEF Shares
<1> QED BY <1>2, <1>9 DEF groups

----------------------------------------------------------------------------
(* Seeds and ties *)


\* The seeds of a bracket of k rounds: each once, every pair one of the better half
\* and its complement, the best two at the head of the two halves.
Sown(o, k) ==
    LET N == Size[k]
        H == Size[k - 1]
    IN /\ Seeding(o, N)
       /\ \A p \in 1..H : o[2 * p - 1] \in 1..H /\ o[2 * p] = N + 1 - o[2 * p - 1]
       /\ \A s \in 1..N : \E i \in 1..N : o[i] = s
       /\ o[1] = 1 /\ o[H + 1] = 2

\* Doubling keeps the order of the seeds so.
LEMMA SownMore ==
    ASSUME NEW k \in Nat \ {0, 1}, NEW o, Sown(o, k - 1)
    PROVE  Sown(Doubled(o, k), k)
<1> DEFINE H == Size[k - 1]
           N == Size[k]
           L == Size[k - 2]
           d == Doubled(o, k)
<1>1. H \in Nat /\ N = 2 * H /\ L \in Nat /\ H = 2 * L /\ L > 0
  <2>1. k - 1 \in Nat \ {0} /\ k \in Nat \ {0} /\ k - 2 \in Nat /\ (k - 1) - 1 = k - 2
    OBVIOUS
  <2>2. \A j \in Nat : Size[j] \in Nat /\ Size[j] > j
    BY SizeGrows
  <2>3. \A j \in Nat \ {0} : Size[j] = 2 * Size[j - 1]
    BY SizeDoubles
  <2>4. Size[k - 1] = 2 * Size[k - 2]
    BY <2>1, <2>3
  <2> QED BY <2>1, <2>2, <2>3, <2>4
<1>2. d = [i \in 1..N |-> IF i % 2 = 1 THEN o[(i + 1) \div 2] ELSE N + 1 - o[(i + 1) \div 2]]
  BY DEF Doubled
<1>3. (k - 1) - 1 = k - 2
  OBVIOUS
<1>4. /\ Seeding(o, H) /\ \A s \in 1..H : \E i \in 1..H : o[i] = s
      /\ o[1] = 1 /\ o[L + 1] = 2
  BY <1>3 DEF Sown
<1>5. Seeding(d, N)
  BY <1>4, DoubledSeeds
<1> HIDE DEF H, N, L, d
<1>6. ASSUME NEW p \in 1..H
      PROVE  d[2 * p - 1] = o[p] /\ d[2 * p] = N + 1 - o[p] /\ o[p] \in 1..H
  <2>1. /\ 2 * p - 1 \in 1..N /\ 2 * p \in 1..N /\ (2 * p - 1) % 2 = 1 /\ (2 * p) % 2 = 0
        /\ (2 * p - 1 + 1) \div 2 = p /\ (2 * p + 1) \div 2 = p
    BY <1>1
  <2>2. o[p] \in 1..H
    BY <1>4 DEF Seeding
  <2> QED BY <1>2, <2>1, <2>2
<1>7. ASSUME NEW s \in 1..N PROVE \E i \in 1..N : d[i] = s
  <2>1. CASE s <= H
    <3>1. PICK p \in 1..H : o[p] = s
      BY <1>1, <1>4, <2>1
    <3>2. 2 * p - 1 \in 1..N /\ d[2 * p - 1] = s
      BY <1>1, <1>6, <3>1
    <3> QED BY <3>2
  <2>2. CASE ~ s <= H
    <3>1. N + 1 - s \in 1..H
      BY <1>1, <2>2
    <3>2. PICK p \in 1..H : o[p] = N + 1 - s
      BY <1>4, <3>1
    <3>3. 2 * p \in 1..N /\ d[2 * p] = s
      BY <1>1, <1>6, <3>2
    <3> QED BY <3>3
  <2> QED BY <2>1, <2>2
<1>8. d[1] = 1 /\ d[H + 1] = 2
  <2>1. 1 \in 1..H /\ L + 1 \in 1..H
    BY <1>1
  <2>2. d[2 * 1 - 1] = o[1] /\ d[2 * (L + 1) - 1] = o[L + 1]
    BY <1>6, <2>1
  <2>3. 2 * 1 - 1 = 1 /\ 2 * (L + 1) - 1 = H + 1
    BY <1>1
  <2> QED BY <1>4, <2>2, <2>3
<1>9. \A p \in 1..H : d[2 * p - 1] \in 1..H /\ d[2 * p] = N + 1 - d[2 * p - 1]
  BY <1>6
<1> QED BY <1>5, <1>7, <1>8, <1>9 DEF Sown, d, N, H

\* The order of the seeds is so for any number of rounds.
LEMMA SownOrder ==
    ASSUME NEW n \in Nat \ {0}
    PROVE  Sown(SeedOrder(n), n)
<1>1. PICK o : Orders(o, n) /\ SeedOrder(n) = o[n]
  <2>1. SeedOrder(n) = (CHOOSE o : Orders(o, n))[n]
    BY DEF SeedOrder, Orders, Doubled
  <2>2. \E o : Orders(o, n)
    BY OrdersExist
  <2> QED BY <2>1, <2>2
<1> DEFINE Bad == {k \in Nat : k # 0 /\ k <= n /\ ~ Sown(o[k], k)}
<1>2. Bad = {}
  <2> SUFFICES ASSUME Bad # {} PROVE FALSE
    OBVIOUS
  <2>1. PICK k \in Bad : \A j \in Bad : k <= j
    <3>1. Bad \in SUBSET Nat
      OBVIOUS
    <3> HIDE DEF Bad
    <3> QED BY <3>1, SmallestNumber
  <2>2. k \in 1..n /\ ~ Sown(o[k], k)
    OBVIOUS
  <2>3. o[k] = IF k = 1 THEN <<1, 2>> ELSE Doubled(o[k - 1], k)
    BY <1>1, <2>2 DEF Orders
  <2>4. CASE k = 1
    <3>1. Size[1] = 2 /\ Size[0] = 1
      BY SizeDoubles
    <3>2. Seeding(<<1, 2>>, 2)
      BY DEF Seeding
    <3>3. Sown(<<1, 2>>, 1)
      <4> DEFINE z == <<1, 2>>
      <4>1. z[1] = 1 /\ z[2] = 2
        OBVIOUS
      <4> HIDE DEF z
      <4>2. Seeding(z, 2)
        BY <3>2 DEF z
      <4>3. \A p \in 1..1 : z[2 * p - 1] \in 1..1 /\ z[2 * p] = 2 + 1 - z[2 * p - 1]
        BY <4>1
      <4>4. \A s \in 1..2 : \E i \in 1..2 : z[i] = s
        BY <4>1
      <4>5. 1 - 1 = 0
        OBVIOUS
      <4>6. Sown(z, 1)
        BY <3>1, <4>1, <4>2, <4>3, <4>4, <4>5 DEF Sown
      <4> QED BY <4>6 DEF z
    <3> QED BY <2>2, <2>3, <2>4, <3>3
  <2>5. CASE k # 1
    <3>1. k - 1 \in Nat /\ k - 1 # 0 /\ k - 1 \notin Bad /\ k - 1 <= n /\ k \in Nat \ {0, 1}
      BY <2>1, <2>2, <2>5
    <3>2. Sown(o[k - 1], k - 1)
      BY <3>1
    <3> QED BY <2>2, <2>3, <2>5, <3>1, <3>2, SownMore
  <2> QED BY <2>4, <2>5
<1> QED BY <1>1, <1>2

\* Of N slots only second sides of real pairs have changed places.
Rearranged(s, t, N) ==
    /\ \A i \in 1..N : (i % 2 = 1 => t[i] = s[i]) /\ (t[i] = NoSource <=> s[i] = NoSource)
    /\ \A i \in 1..N : \E j \in 1..N : t[j] = s[i]

\* The pairs that the second side of a tied one may be given to.
Fits(slots, i) ==
    {j \in 1..Pairs(slots) \ {i} :
        /\ slots[2 * j - 1] # NoSource /\ slots[2 * j] # NoSource
        /\ ~ SameGroup(slots[2 * i - 1], slots[2 * j])
        /\ ~ SameGroup(slots[2 * j - 1], slots[2 * i])}

\* Two of one group are to meet.
Tied(slots, i) == SameGroup(slots[2 * i - 1], slots[2 * i])

\* What undoing one tie comes to.
LEMMA UntiedSwaps ==
    ASSUME NEW V, NEW N \in Nat, NEW slots \in [1..N -> V], NEW i \in 1..Pairs(slots)
    PROVE  \/ Untied(slots, i) = slots /\ (Tied(slots, i) => Fits(slots, i) = {})
           \/ \E j \in Fits(slots, i) :
                  /\ Tied(slots, i)
                  /\ Untied(slots, i) = [slots EXCEPT ![2 * i] = slots[2 * j], ![2 * j] = slots[2 * i]]
<1> DEFINE fits == Fits(slots, i)
           m == Min(fits)
<1>1. Untied(slots, i) = IF Tied(slots, i) /\ fits # {}
                         THEN [slots EXCEPT ![2 * i] = slots[2 * m], ![2 * m] = slots[2 * i]]
                         ELSE slots
  BY Zenon DEF Untied, Fits, Tied
<1>2. fits \in SUBSET Nat
  BY DEF Fits
<1> HIDE DEF fits
<1>3. fits # {} => m \in fits
  <2> SUFFICES ASSUME fits # {} PROVE Min(fits) \in fits
    OBVIOUS
  <2>2. \E x \in fits : \A y \in fits : x <= y
    BY <1>2, SmallestNumber
  <2> QED BY <2>2 DEF Min
<1> HIDE DEF m
<1> QED BY <1>1, <1>3 DEF fits

\* At most one pair is tied, and it finds one to swap with.
Solvable(slots) ==
    /\ \A i, j \in 1..Pairs(slots) : Tied(slots, i) /\ Tied(slots, j) => i = j
    /\ \A i \in 1..Pairs(slots) : Tied(slots, i) => Fits(slots, i) # {}

\* After the first i pairs: nothing was tied among them, or nothing is left tied.
Loosened(slots, s, i) ==
    \/ s = slots /\ \A j \in 1..i : ~ Tied(slots, j)
    \/ \A j \in 1..Pairs(slots) : ~ Tied(s, j)

\* Undoing a tie leaves the slots rearranged, and no tie where the only one is undone.
LEMMA UntiedMoves ==
    ASSUME NEW V, NEW N \in Nat, NEW slots \in [1..N -> V], NEW s \in [1..N -> V], NEW i \in 1..Pairs(slots),
           Rearranged(slots, s, N)
    PROVE  /\ Rearranged(slots, Untied(s, i), N)
           /\ Solvable(slots) /\ Loosened(slots, s, i - 1) => Loosened(slots, Untied(s, i), i)
<1> DEFINE n == Pairs(slots)
           new == Untied(s, i)
<1>1. Pairs(s) = n /\ n \in Nat /\ \A j \in 1..n : j \in Nat /\ 2 * j \in 1..N /\ 2 * j - 1 \in 1..N
  BY LengthOf DEF Pairs
<1>2. i \in 1..Pairs(s)
  BY <1>1
<1>3. \/ new = s /\ (Tied(s, i) => Fits(s, i) = {})
      \/ \E j \in Fits(s, i) : Tied(s, i) /\ new = [s EXCEPT ![2 * i] = s[2 * j], ![2 * j] = s[2 * i]]
  BY <1>2, UntiedSwaps
<1>4. CASE new = s /\ (Tied(s, i) => Fits(s, i) = {})
  <2>1. Rearranged(slots, new, N)
    BY <1>4
  <2>2. ASSUME Solvable(slots), Loosened(slots, s, i - 1) PROVE Loosened(slots, new, i)
    <3>1. CASE s = slots /\ \A j \in 1..(i - 1) : ~ Tied(slots, j)
      <4>1. ~ Tied(slots, i)
        BY <1>4, <2>2, <3>1 DEF Solvable
      <4>2. \A j \in 1..i : ~ Tied(slots, j)
        BY <1>1, <3>1, <4>1
      <4> QED BY <1>4, <3>1, <4>2 DEF Loosened
    <3>2. CASE \A j \in 1..n : ~ Tied(s, j)
      BY <1>4, <3>2 DEF Loosened
    <3> QED BY <2>2, <3>1, <3>2 DEF Loosened
  <2> QED BY <2>1, <2>2
<1>5. CASE \E j \in Fits(s, i) : Tied(s, i) /\ new = [s EXCEPT ![2 * i] = s[2 * j], ![2 * j] = s[2 * i]]
  <2>1. PICK j \in Fits(s, i) : Tied(s, i) /\ new = [s EXCEPT ![2 * i] = s[2 * j], ![2 * j] = s[2 * i]]
    BY <1>5
  <2>2. /\ j \in 1..n \ {i} /\ s[2 * j - 1] # NoSource /\ s[2 * j] # NoSource
        /\ ~ SameGroup(s[2 * i - 1], s[2 * j])
        /\ ~ SameGroup(s[2 * j - 1], s[2 * i])
    BY <1>1 DEF Fits
  <2>3. s[2 * i] # NoSource
    BY <2>1, SourceTypes DEF Tied, SameGroup
  <2> DEFINE from(a) == IF a = 2 * i THEN 2 * j ELSE IF a = 2 * j THEN 2 * i ELSE a
  <2>4. 2 * i \in 1..N /\ 2 * j \in 1..N /\ 2 * i # 2 * j /\ (2 * i) % 2 = 0 /\ (2 * j) % 2 = 0
    BY <1>1, <1>2, <2>2
  <2>5. \A a \in 1..N : from(a) \in 1..N /\ from(from(a)) = a /\ new[a] = s[from(a)]
    <3> HIDE DEF new
    <3>1. \A a \in 1..N : new[a] = IF a = 2 * j THEN s[2 * i] ELSE IF a = 2 * i THEN s[2 * j] ELSE s[a]
      BY <2>1, <2>4
    <3> QED BY <2>4, <3>1
  <2> HIDE DEF new
  <2>6. ASSUME NEW a \in 1..N
        PROVE  (a % 2 = 1 => new[a] = slots[a]) /\ (new[a] = NoSource <=> slots[a] = NoSource)
    <3>1. (a % 2 = 1 => s[a] = slots[a]) /\ (s[a] = NoSource <=> slots[a] = NoSource)
      BY DEF Rearranged
    <3>2. CASE a \in {2 * i, 2 * j}
      BY <2>2, <2>3, <2>4, <2>5, <3>1, <3>2
    <3>3. CASE a \notin {2 * i, 2 * j}
      BY <2>5, <3>1, <3>3
    <3> QED BY <3>2, <3>3
  <2>7. ASSUME NEW a \in 1..N PROVE \E b \in 1..N : new[b] = slots[a]
    <3>1. PICK b \in 1..N : s[b] = slots[a]
      BY DEF Rearranged
    <3>2. from(b) \in 1..N /\ new[from(b)] = s[b]
      BY <2>5
    <3> QED BY <3>1, <3>2
  <2>8. Rearranged(slots, new, N)
    BY <2>6, <2>7 DEF Rearranged
  <2>9. ASSUME Solvable(slots), Loosened(slots, s, i - 1) PROVE Loosened(slots, new, i)
    <3>1. s = slots
      BY <1>1, <1>2, <2>1, <2>9 DEF Loosened
    <3>2. \A k \in 1..n \ {i} : ~ Tied(s, k)
      BY <1>1, <1>2, <2>1, <2>9, <3>1 DEF Solvable
    <3>3. ASSUME NEW k \in 1..n PROVE ~ Tied(new, k)
      <4>1. k \in Nat /\ 2 * k \in 1..N /\ 2 * k - 1 \in 1..N /\ 2 * k - 1 # 2 * i /\ 2 * k - 1 # 2 * j
        BY <1>1, <1>2, <2>2
      <4>2. new[2 * k - 1] = s[2 * k - 1]
        BY <2>5, <4>1
      <4>3. CASE k = i
        <5>1. new[2 * k] = s[2 * j]
          BY <2>4, <2>5, <4>3
        <5> QED BY <2>2, <4>2, <4>3, <5>1 DEF Tied
      <4>4. CASE k = j
        <5>1. new[2 * k] = s[2 * i]
          BY <2>4, <2>5, <4>4
        <5> QED BY <2>2, <4>2, <4>4, <5>1 DEF Tied
      <4>5. CASE k # i /\ k # j
        <5>1. 2 * k # 2 * i /\ 2 * k # 2 * j
          BY <1>1, <1>2, <2>2, <4>1, <4>5
        <5>2. new[2 * k] = s[2 * k]
          BY <2>5, <4>1, <5>1
        <5> QED BY <3>2, <4>2, <4>5, <5>2 DEF Tied
      <4> QED BY <4>3, <4>4, <4>5
    <3> QED BY <3>3 DEF Loosened
  <2> QED BY <2>8, <2>9 DEF new
<1> QED BY <1>3, <1>4, <1>5

\* With every tie undone in turn the slots are rearranged, and none is left where they can be.
LEMMA TiesGone ==
    ASSUME NEW V, NEW N \in Nat, NEW slots \in [1..N -> V]
    PROVE  /\ Rearranged(slots, AvoidSameGroupTies(slots), N)
           /\ Solvable(slots) => \A j \in 1..Pairs(slots) : ~ Tied(AvoidSameGroupTies(slots), j)
<1> DEFINE n == Pairs(slots)
<1>0. n \in Nat /\ \A s \in [1..N -> V] : Pairs(s) = n
  BY LengthOf DEF Pairs
<1> HIDE DEF n
<1>1. PICK t : Unties(t, slots, n) /\ AvoidSameGroupTies(slots) = t[n]
  <2>1. AvoidSameGroupTies(slots) = (CHOOSE t : Unties(t, slots, n))[n]
    BY DEF AvoidSameGroupTies, Unties, n
  <2>2. \E t : Unties(t, slots, n)
    BY <1>0, UntiesExist
  <2> QED BY <2>1, <2>2
<1> DEFINE Is(i) == /\ t[i] \in [1..N -> V] /\ Rearranged(slots, t[i], N)
                    /\ Solvable(slots) => Loosened(slots, t[i], i)
           Bad == {i \in Nat : i <= n /\ ~ Is(i)}
<1>2. Bad = {}
  <2> SUFFICES ASSUME Bad # {} PROVE FALSE
    OBVIOUS
  <2>1. PICK i \in Bad : \A j \in Bad : i <= j
    <3>1. Bad \in SUBSET Nat
      OBVIOUS
    <3> HIDE DEF Bad
    <3> QED BY <3>1, SmallestNumber
  <2>2. i \in 0..n /\ ~ Is(i)
    BY <1>0
  <2>3. t[i] = IF i = 0 THEN slots ELSE Untied(t[i - 1], i)
    BY <1>1, <2>2 DEF Unties
  <2>4. i # 0 => i - 1 \in Nat /\ i - 1 \notin Bad /\ i - 1 <= n
    BY <1>0, <2>1, <2>2
  <2>5. CASE i = 0
    <3>1. t[i] = slots
      BY <2>3, <2>5
    <3>2. Rearranged(slots, slots, N)
      BY DEF Rearranged
    <3>3. Loosened(slots, slots, 0)
      BY DEF Loosened
    <3> QED BY <2>2, <2>5, <3>1, <3>2, <3>3
  <2>6. CASE i # 0
    <3> DEFINE s == t[i - 1]
    <3>1. Is(i - 1)
      BY <2>4, <2>6
    <3>2. /\ s \in [1..N -> V] /\ Rearranged(slots, s, N)
          /\ Solvable(slots) => Loosened(slots, s, i - 1)
      BY <3>1
    <3>3. i \in 1..Pairs(slots) /\ i \in 1..Pairs(s) /\ t[i] = Untied(s, i)
      BY <1>0, <2>2, <2>3, <2>6, <3>2 DEF n
    <3> HIDE DEF s
    <3>4. Untied(s, i) \in [1..N -> V]
      BY <3>2, <3>3, UntiedKeeps
    <3>5. /\ Rearranged(slots, Untied(s, i), N)
          /\ Solvable(slots) /\ Loosened(slots, s, i - 1) => Loosened(slots, Untied(s, i), i)
      BY <3>2, <3>3, UntiedMoves
    <3> QED BY <2>2, <3>2, <3>3, <3>4, <3>5
  <2> QED BY <2>5, <2>6
<1>3. Is(n)
  BY <1>0, <1>2
<1> QED BY <1>0, <1>1, <1>3 DEF Loosened, n

----------------------------------------------------------------------------
(* The first round of a bracket *)


\* The slots as the seeds fall, and the pairs of the first round.
Dealt(seeds) ==
    LET order == SeedOrder(RoundCount(Len(seeds)))
    IN [i \in 1..Size[RoundCount(Len(seeds))] |-> IF order[i] \in DOMAIN seeds THEN seeds[order[i]] ELSE NoSource]

\* The fixtures of the first round.
Half(n) == Size[RoundCount(n) - 1]

\* The first round has room for the field and is more than half full.
LEMMA HalfFits ==
    ASSUME NEW n \in Nat, n >= 2
    PROVE  /\ RoundCount(n) \in Nat \ {0} /\ Half(n) \in Nat /\ Size[RoundCount(n)] = 2 * Half(n)
           /\ Half(n) < n /\ n <= 2 * Half(n)
           /\ Half(n) = 1 \/ Half(n) % 2 = 0
<1> DEFINE K == RoundCount(n)
<1>1. K \in 1..n /\ Size[K] >= n /\ (K = 1 \/ Size[K - 1] < n)
  BY RoundCountFits
<1> HIDE DEF K
<1>2. \A k \in Nat : Size[k] \in Nat
  BY SizeGrows
<1>3. Size[0] = 1 /\ \A k \in Nat \ {0} : Size[k] = 2 * Size[k - 1]
  BY SizeDoubles
<1>4. K \in Nat \ {0} /\ K - 1 \in Nat
  BY <1>1
<1>5. Size[K] = 2 * Size[K - 1] /\ Size[K - 1] \in Nat
  BY <1>2, <1>3, <1>4
<1>6. CASE K = 1
  <2>1. Size[K - 1] = 1
    BY <1>3, <1>6
  <2> QED BY <1>1, <1>4, <1>5, <2>1 DEF Half, K
<1>7. CASE K # 1
  <2>1. K - 1 \in Nat \ {0} /\ (K - 1) - 1 \in Nat
    BY <1>4, <1>7
  <2>2. Size[K - 1] = 2 * Size[(K - 1) - 1] /\ Size[(K - 1) - 1] \in Nat
    BY <1>2, <1>3, <2>1
  <2> DEFINE h == Size[K - 1]
             l == Size[(K - 1) - 1]
  <2> HIDE DEF h, l
  <2>3. h = 2 * l /\ l \in Nat
    BY <2>2 DEF h, l
  <2>4. h % 2 = 0
    BY <2>3
  <2> QED BY <1>1, <1>4, <1>5, <1>7, <2>4 DEF Half, K, h
<1> QED BY <1>6, <1>7

\* The first round of n seeds in H fixtures: every seed in one, those of the first seeds
\* without an opponent, the best two in different halves, no two of one group.
Holding(m, s) == s \in {m.from.a, m.from.b}
Opening(M, seeds, n, H) ==
    /\ \A m \in M : m.round = 1 => m.pos \in 1..H /\ m.from.a # NoSource
    /\ \A p \in 1..H : \E m \in M : m.round = 1 /\ m.pos = p
    /\ \A k \in 1..n : \E m \in M : m.round = 1 /\ Holding(m, seeds[k])
    /\ \A k \in 1..n : \A m, j \in M :
           m.round = 1 /\ j.round = 1 /\ Holding(m, seeds[k]) /\ Holding(j, seeds[k]) => m.pos = j.pos
    /\ \A k \in 1..n : \A m \in M :
           m.round = 1 /\ Holding(m, seeds[k]) => (m.from.b = NoSource <=> k <= 2 * H - n)
    /\ H >= 2 => \A m \in M : m.round = 1 =>
           /\ Holding(m, seeds[1]) => m.pos <= H \div 2
           /\ Holding(m, seeds[2]) => m.pos > H \div 2
           /\ ~ SameGroup(m.from.a, m.from.b)

\* One of the bracket's fixtures for every round and place, a day for every round.
Rounds(M, first) ==
    \A m \in M : /\ m.round \in Nat \ {0} /\ m.pos \in Nat \ {0}
                 /\ m.day = first + m.round - 1 /\ m.index = m.pos - 1
                 /\ \A k \in M : m.round = k.round /\ m.pos = k.pos => m = k

\* How the slots hold the seeds.
Held(slots, seeds, n, H) ==
    /\ \A k \in 1..n : \E i \in 1..(2 * H) : slots[i] = seeds[k]
    /\ \A k \in 1..n : \A i, j \in 1..(2 * H) : slots[i] = seeds[k] /\ slots[j] = seeds[k] => i = j
    /\ \A p \in 1..H : \E q \in 1..n :
           /\ slots[2 * p - 1] = seeds[q] /\ q <= H
           /\ slots[2 * p] = NoSource <=> q <= 2 * H - n
    /\ \A k \in 1..n : k <= 2 * H - n => \E p \in 1..H : slots[2 * p - 1] = seeds[k]
    /\ slots[1] = seeds[1] /\ (H >= 2 => slots[H + 1] = seeds[2])

\* The slots of a bracket hold its seeds so, whatever ties were undone.
LEMMA SlotsHold ==
    ASSUME NEW n \in Nat, n >= 2, NEW seeds, DOMAIN seeds = 1..n, Distinct(seeds),
           \A i \in 1..n : seeds[i] # NoSource,
           NEW slots, slots = AvoidSameGroupTies(Dealt(seeds))
    PROVE  Held(slots, seeds, n, Half(n))
<1> DEFINE K == RoundCount(Len(seeds))
           H == Half(n)
           N == 2 * H
           order == SeedOrder(K)
           dealt == Dealt(seeds)
           V == {seeds[i] : i \in 1..n} \cup {NoSource}
<1>1. Len(seeds) = n
  BY LengthOf
<1>2. K = RoundCount(n) /\ K \in Nat \ {0} /\ Size[K] = N /\ H \in Nat /\ H < n /\ n <= N /\ (H = 1 \/ H % 2 = 0)
  BY <1>1, HalfFits
<1>3. Sown(order, K)
  BY <1>2, SownOrder
<1>4. Size[K - 1] = H
  BY <1>2 DEF Half
<1>5. dealt = [i \in 1..N |-> IF order[i] \in 1..n THEN seeds[order[i]] ELSE NoSource]
  <2>1. dealt = [i \in 1..Size[K] |-> IF order[i] \in DOMAIN seeds THEN seeds[order[i]] ELSE NoSource]
    BY Zenon DEF Dealt
  <2> HIDE DEF dealt, order, N
  <2> QED BY <1>2, <2>1
<1> HIDE DEF dealt, order, K, H
<1>6. /\ order \in [1..N -> 1..N] /\ \A i, j \in 1..N : order[i] = order[j] => i = j
      /\ \A p \in 1..H : order[2 * p - 1] \in 1..H /\ order[2 * p] = N + 1 - order[2 * p - 1]
      /\ \A s \in 1..N : \E i \in 1..N : order[i] = s
      /\ order[1] = 1 /\ order[H + 1] = 2
  BY <1>2, <1>3, <1>4 DEF Sown, Seeding
<1>7. dealt \in [1..N -> V]
  BY <1>5
<1>8. Apart(dealt, N)
  <2>1. \A i, j \in 1..N : order[i] = order[j] => i = j
    BY <1>6
  <2> HIDE DEF N
  <2> QED BY <1>5, <2>1 DEF Apart, Distinct
<1>9. N \in Nat
  BY <1>2
<1> HIDE DEF V
<1>10. Rearranged(dealt, slots, N) /\ Apart(slots, N) /\ slots \in [1..N -> V]
  <2> HIDE DEF N
  <2> QED BY <1>7, <1>8, <1>9, TiesGone, TiesApart, TiesKeep DEF dealt
<1>11. ASSUME NEW k \in 1..n PROVE \E i \in 1..N : slots[i] = seeds[k]
  <2>1. k \in 1..N
    BY <1>2
  <2>2. PICK i \in 1..N : order[i] = k
    BY <1>6, <2>1
  <2>3. dealt[i] = seeds[k]
    BY <1>5, <2>2
  <2> HIDE DEF N
  <2> QED BY <1>10, <2>3 DEF Rearranged
<1>12. \A k \in 1..n : \A i, j \in 1..N : slots[i] = seeds[k] /\ slots[j] = seeds[k] => i = j
  <2> HIDE DEF N
  <2> QED BY <1>10 DEF Apart
<1>13. ASSUME NEW p \in 1..H
       PROVE  /\ order[2 * p - 1] \in 1..n /\ order[2 * p - 1] <= H
              /\ slots[2 * p - 1] = seeds[order[2 * p - 1]]
              /\ slots[2 * p] = NoSource <=> order[2 * p - 1] <= N - n
  <2>1. 2 * p - 1 \in 1..N /\ 2 * p \in 1..N /\ (2 * p - 1) % 2 = 1
    BY <1>2
  <2>2. order[2 * p - 1] \in 1..H /\ order[2 * p] = N + 1 - order[2 * p - 1]
    BY <1>6
  <2>3. order[2 * p - 1] \in 1..n
    BY <1>2, <2>2
  <2>4. slots[2 * p - 1] = dealt[2 * p - 1] /\ (slots[2 * p] = NoSource <=> dealt[2 * p] = NoSource)
    <3> HIDE DEF N
    <3> QED BY <1>10, <2>1 DEF Rearranged
  <2>5. dealt[2 * p - 1] = seeds[order[2 * p - 1]]
    BY <1>5, <2>1, <2>3
  <2>6. dealt[2 * p] = NoSource <=> order[2 * p] \notin 1..n
    BY <1>5, <2>1
  <2>7. order[2 * p] \notin 1..n <=> order[2 * p - 1] <= N - n
    <3> DEFINE q == order[2 * p - 1]
    <3> HIDE DEF q
    <3>1. q \in 1..H /\ order[2 * p] = N + 1 - q
      BY <2>2 DEF q
    <3>2. N + 1 - q \notin 1..n <=> q <= N - n
      BY <1>2, <3>1
    <3> QED BY <3>1, <3>2 DEF q
  <2> QED BY <2>2, <2>3, <2>4, <2>5, <2>6, <2>7
<1>14. ASSUME NEW k \in 1..n, k <= N - n PROVE \E p \in 1..H : slots[2 * p - 1] = seeds[k]
  <2>1. k <= H /\ k \in 1..N
    BY <1>2, <1>14
  <2>2. PICK i \in 1..N : order[i] = k
    BY <1>6, <2>1
  <2>3. i % 2 = 1
    <3> SUFFICES ASSUME i % 2 = 0 PROVE FALSE
      OBVIOUS
    <3>1. i \div 2 \in 1..H /\ i = 2 * (i \div 2)
      BY <1>2
    <3>2. order[2 * (i \div 2) - 1] \in 1..H /\ order[i] = N + 1 - order[2 * (i \div 2) - 1]
      BY <1>6, <3>1
    <3> QED BY <1>2, <2>1, <2>2, <3>2
  <2>4. (i + 1) \div 2 \in 1..H /\ i = 2 * ((i + 1) \div 2) - 1
    BY <1>2, <2>3
  <2> DEFINE p == (i + 1) \div 2
  <2>5. p \in 1..H /\ order[2 * p - 1] = k
    BY <2>2, <2>4
  <2> HIDE DEF p
  <2>6. slots[2 * p - 1] = seeds[k]
    BY <1>13, <2>5
  <2> QED BY <2>5, <2>6
<1>15. slots[1] = seeds[1]
  <2>1. 1 \in 1..H /\ 2 * 1 - 1 = 1
    BY <1>2
  <2>2. slots[2 * 1 - 1] = seeds[order[2 * 1 - 1]]
    BY <1>13, <2>1
  <2> QED BY <1>6, <2>1, <2>2
<1>16. ASSUME H >= 2 PROVE slots[H + 1] = seeds[2]
  <2>1. H % 2 = 0
    BY <1>2, <1>16
  <2>2. (H \div 2) + 1 \in 1..H /\ 2 * ((H \div 2) + 1) - 1 = H + 1
    BY <1>2, <1>16, <2>1
  <2>3. slots[2 * ((H \div 2) + 1) - 1] = seeds[order[2 * ((H \div 2) + 1) - 1]]
    BY <1>13, <2>2
  <2> QED BY <1>6, <2>2, <2>3
<1>17. \A p \in 1..H : \E q \in 1..n : /\ slots[2 * p - 1] = seeds[q] /\ q <= H
                                       /\ slots[2 * p] = NoSource <=> q <= N - n
  BY <1>13
<1> QED BY <1>11, <1>12, <1>14, <1>15, <1>16, <1>17 DEF H, Held

\* The bracket's fixtures, and what its first round is made from.
LEMMA BracketRounds ==
    ASSUME NEW n \in Nat, n >= 2, NEW seeds, DOMAIN seeds = 1..n, NEW day \in Nat
    PROVE  LET slots == AvoidSameGroupTies(Dealt(seeds))
           IN /\ Rounds(Bracket(seeds, day), day)
              /\ \A m \in Bracket(seeds, day) : m.round = 1 =>
                     m.pos \in 1..Half(n) /\ m.from = [a |-> slots[2 * m.pos - 1], b |-> slots[2 * m.pos]]
              /\ \A p \in 1..Half(n) : slots[2 * p - 1] # NoSource =>
                     \E m \in Bracket(seeds, day) : m.round = 1 /\ m.pos = p
<1> DEFINE rounds == RoundCount(Len(seeds))
           order == SeedOrder(rounds)
           slots == AvoidSameGroupTies([i \in 1..Size[rounds] |->
                        IF order[i] \in DOMAIN seeds THEN seeds[order[i]] ELSE NoSource])
           From(r, p) == IF r = 1 THEN [a |-> slots[2 * p - 1], b |-> slots[2 * p]]
                         ELSE [a |-> WinnerOf(r - 1, 2 * p - 1), b |-> WinnerOf(r - 1, 2 * p)]
           Empty(from) == from.a = NoSource /\ from.b = NoSource
           Row(r, p) == MakeMatch(r, p, day + r - 1, p - 1, NoGroup, From(r, p))
           Round(r) == {Row(r, p) : p \in {q \in 1..Size[rounds - r] : ~ Empty(From(r, q))}}
           M == Bracket(seeds, day)
<1>1. Len(seeds) = n
  BY LengthOf
<1>2. M = UNION {Round(r) : r \in 1..rounds}
  <2>1. ~ Len(seeds) < 2
    BY <1>1
  <2> QED BY <2>1, Zenon DEF Bracket
<1>3. slots = AvoidSameGroupTies(Dealt(seeds))
  BY DEF Dealt
<1>4. rounds = RoundCount(n) /\ rounds \in Nat \ {0} /\ \A k \in Nat : Size[k] \in Nat
  BY <1>1, HalfFits, SizeGrows
<1> HIDE DEF slots, rounds
<1>5. ASSUME NEW m \in M
      PROVE  \E r \in 1..rounds : \E p \in 1..Size[rounds - r] : m = Row(r, p)
  <2>1. PICK r \in 1..rounds : m \in Round(r)
    BY <1>2
  <2> QED BY <2>1
<1>6. ASSUME NEW r, NEW p
      PROVE  LET m == Row(r, p) IN /\ m.round = r /\ m.pos = p /\ m.day = day + r - 1 /\ m.index = p - 1
                                   /\ m.from = From(r, p)
  <2> HIDE DEF From
  <2> QED BY DEF MakeMatch
<1>7. ASSUME NEW r \in 1..rounds, NEW p \in 1..Size[rounds - r]
      PROVE  r \in Nat \ {0} /\ p \in Nat \ {0}
  <2>1. rounds - r \in Nat
    BY <1>4
  <2>2. Size[rounds - r] \in Nat
    BY <1>4, <2>1
  <2> QED BY <2>2
<1>8. ASSUME NEW p \in 1..Size[rounds - 1], slots[2 * p - 1] # NoSource
      PROVE  \E m \in M : m.round = 1 /\ m.pos = p
  <2>1. ~ Empty(From(1, p)) /\ 1 \in 1..rounds
    BY <1>4, <1>8
  <2> HIDE DEF Empty, From
  <2>2. Row(1, p) \in Round(1)
    BY <2>1
  <2> HIDE DEF Row, Round
  <2>3. Row(1, p) \in M
    BY <1>2, <2>1, <2>2
  <2> QED BY <1>6, <2>3
<1> HIDE DEF Row, M
<1>9. Rounds(M, day)
  <2>1. ASSUME NEW m \in M
        PROVE  /\ m.round \in Nat \ {0} /\ m.pos \in Nat \ {0}
               /\ m.day = day + m.round - 1 /\ m.index = m.pos - 1 /\ m = Row(m.round, m.pos)
    <3>1. PICK r \in 1..rounds : \E p \in 1..Size[rounds - r] : m = Row(r, p)
      BY <1>5
    <3>2. PICK p \in 1..Size[rounds - r] : m = Row(r, p)
      BY <3>1
    <3>3. m.round = r /\ m.pos = p /\ m.day = day + r - 1 /\ m.index = p - 1
      BY <1>6, <3>2
    <3> QED BY <1>7, <3>2, <3>3
  <2>2. \A m, k \in M : m.round = k.round /\ m.pos = k.pos => m = k
    BY <2>1
  <2>3. \A m \in M : /\ m.round \in Nat \ {0} /\ m.pos \in Nat \ {0}
                     /\ m.day = day + m.round - 1 /\ m.index = m.pos - 1
    BY <2>1
  <2> QED BY <2>2, <2>3 DEF Rounds
<1>10. ASSUME NEW m \in M, m.round = 1
       PROVE  m.pos \in 1..Half(n) /\ m.from = [a |-> slots[2 * m.pos - 1], b |-> slots[2 * m.pos]]
  <2>1. PICK r \in 1..rounds : \E p \in 1..Size[rounds - r] : m = Row(r, p)
    BY <1>5
  <2>2. PICK p \in 1..Size[rounds - r] : m = Row(r, p)
    BY <2>1
  <2>3. r = 1 /\ m.pos = p /\ m.from = From(r, p)
    BY <1>6, <1>10, <2>2
  <2>4. p \in 1..Size[rounds - 1]
    BY <2>3
  <2> QED BY <1>4, <2>3, <2>4 DEF Half
<1>11. \A p \in 1..Half(n) : slots[2 * p - 1] # NoSource => \E m \in M : m.round = 1 /\ m.pos = p
  BY <1>4, <1>8 DEF Half
<1>12. \A m \in M : m.round = 1 =>
           m.pos \in 1..Half(n) /\ m.from = [a |-> slots[2 * m.pos - 1], b |-> slots[2 * m.pos]]
  BY <1>10
<1> QED BY <1>3, <1>9, <1>11, <1>12 DEF M

\* The seeds of a bracket whose ties can be undone.
LEMMA BracketOpens ==
    ASSUME NEW n \in Nat, n >= 2, NEW seeds, DOMAIN seeds = 1..n, Distinct(seeds), NEW day \in Nat,
           \A i \in 1..n : seeds[i] # NoSource,
           Half(n) >= 2 => Solvable(Dealt(seeds))
    PROVE  Opening(Bracket(seeds, day), seeds, n, Half(n))
<1> DEFINE slots == AvoidSameGroupTies(Dealt(seeds))
           H == Half(n)
           M == Bracket(seeds, day)
           N == 2 * H
<1>1. /\ \A m \in M : m.round = 1 => m.pos \in 1..H /\ m.from = [a |-> slots[2 * m.pos - 1], b |-> slots[2 * m.pos]]
      /\ \A p \in 1..H : slots[2 * p - 1] # NoSource => \E m \in M : m.round = 1 /\ m.pos = p
  BY BracketRounds
<1>2. /\ \A k \in 1..n : \E i \in 1..N : slots[i] = seeds[k]
      /\ \A k \in 1..n : \A i, j \in 1..N : slots[i] = seeds[k] /\ slots[j] = seeds[k] => i = j
      /\ \A p \in 1..H : \E q \in 1..n : /\ slots[2 * p - 1] = seeds[q] /\ q <= H
                                         /\ slots[2 * p] = NoSource <=> q <= N - n
      /\ \A k \in 1..n : k <= N - n => \E p \in 1..H : slots[2 * p - 1] = seeds[k]
      /\ slots[1] = seeds[1] /\ (H >= 2 => slots[H + 1] = seeds[2])
  <2> DEFINE z == slots
  <2> HIDE DEF z
  <2>1. z = AvoidSameGroupTies(Dealt(seeds))
    BY DEF z
  <2>2. Held(z, seeds, n, Half(n))
    BY <2>1, SlotsHold
  <2> QED BY <2>2, Zenon DEF Held, z
<1>3. H \in Nat /\ H < n /\ n <= N /\ (H = 1 \/ H % 2 = 0) /\ Size[RoundCount(n)] = N
  BY HalfFits
<1>4. H >= 2 => \A p \in 1..H : ~ SameGroup(slots[2 * p - 1], slots[2 * p])
  <2> SUFFICES ASSUME H >= 2, NEW p \in 1..H PROVE ~ SameGroup(slots[2 * p - 1], slots[2 * p])
    OBVIOUS
  <2> DEFINE V == {seeds[i] : i \in 1..n} \cup {NoSource}
             d == Dealt(seeds)
  <2>1. d \in [1..N -> V]
    <3>1. Len(seeds) = n
      BY LengthOf
    <3> HIDE DEF N
    <3> QED BY <1>3, <3>1 DEF Dealt
  <2>2. N \in Nat
    BY <1>3
  <2>3. Pairs(d) = H
    <3>1. DOMAIN d = 1..N
      BY <2>1
    <3> HIDE DEF d, N
    <3>2. Len(d) = N
      BY <2>2, <3>1, LengthOf
    <3> QED BY <1>3, <3>2 DEF Pairs, N
  <2> HIDE DEF V, N
  <2>4. Solvable(d) => \A j \in 1..Pairs(d) : ~ Tied(AvoidSameGroupTies(d), j)
    BY <2>1, <2>2, TiesGone
  <2> QED BY <2>3, <2>4 DEF Tied
<1> HIDE DEF slots, H, M
<1>5. \A m \in M : m.round = 1 => m.pos \in 1..H /\ m.from.a = slots[2 * m.pos - 1] /\ m.from.b = slots[2 * m.pos]
  <2> TAKE m \in M
  <2>1. m.round = 1 => m.pos \in 1..H /\ m.from = [a |-> slots[2 * m.pos - 1], b |-> slots[2 * m.pos]]
    BY <1>1, Zenon
  <2> QED BY <2>1
<1>6. \A p \in 1..H : slots[2 * p - 1] # NoSource
  <2> TAKE p \in 1..H
  <2>1. PICK q \in 1..n : slots[2 * p - 1] = seeds[q]
    BY <1>2
  <2> QED BY <2>1
<1>7. \A p \in 1..H : \E m \in M : m.round = 1 /\ m.pos = p
  BY <1>1, <1>6
<1>8. \A p \in 1..H : 2 * p - 1 \in 1..N /\ 2 * p \in 1..N
  BY <1>3
<1>9. ASSUME NEW k \in 1..n, NEW m \in M, m.round = 1, Holding(m, seeds[k])
      PROVE  m.pos \in 1..H /\ \E i \in {2 * m.pos - 1, 2 * m.pos} : i \in 1..N /\ slots[i] = seeds[k]
  <2>1. m.pos \in 1..H /\ m.from.a = slots[2 * m.pos - 1] /\ m.from.b = slots[2 * m.pos]
    BY <1>5, <1>9
  <2> QED BY <1>8, <1>9, <2>1 DEF Holding
<1>10. \A m \in M : m.round = 1 => m.pos \in 1..H /\ m.from.a # NoSource
  BY <1>5, <1>6
<1>11. ASSUME NEW k \in 1..n PROVE \E m \in M : m.round = 1 /\ Holding(m, seeds[k])
  <2>1. PICK i \in 1..N : slots[i] = seeds[k]
    BY <1>2
  <2>2. PICK p \in 1..H : i = 2 * p - 1 \/ i = 2 * p
    <3>1. (i + 1) \div 2 \in 1..H /\ (i = 2 * ((i + 1) \div 2) - 1 \/ i = 2 * ((i + 1) \div 2))
      BY <1>3
    <3> QED BY <3>1
  <2>3. PICK m \in M : m.round = 1 /\ m.pos = p
    BY <1>7
  <2> QED BY <1>5, <2>1, <2>2, <2>3 DEF Holding
<1>12. ASSUME NEW k \in 1..n, NEW m \in M, NEW j \in M,
              m.round = 1, j.round = 1, Holding(m, seeds[k]), Holding(j, seeds[k])
       PROVE  m.pos = j.pos
  <2>1. PICK i \in {2 * m.pos - 1, 2 * m.pos} : i \in 1..N /\ slots[i] = seeds[k]
    BY <1>9, <1>12
  <2>2. PICK h \in {2 * j.pos - 1, 2 * j.pos} : h \in 1..N /\ slots[h] = seeds[k]
    BY <1>9, <1>12
  <2>3. i = h
    BY <1>2, <2>1, <2>2
  <2>4. m.pos \in 1..H /\ j.pos \in 1..H
    BY <1>9, <1>12
  <2> QED BY <2>3, <2>4
<1>13. ASSUME NEW k \in 1..n, NEW m \in M, m.round = 1, Holding(m, seeds[k])
       PROVE  m.from.b = NoSource <=> k <= N - n
  <2>1. m.pos \in 1..H /\ m.from.a = slots[2 * m.pos - 1] /\ m.from.b = slots[2 * m.pos]
    BY <1>5, <1>13
  <2>2. PICK q \in 1..n : /\ slots[2 * m.pos - 1] = seeds[q] /\ q <= H
                          /\ slots[2 * m.pos] = NoSource <=> q <= N - n
    BY <1>2, <2>1
  <2>3. ASSUME m.from.b = NoSource PROVE k <= N - n
    <3>1. m.from.a = seeds[k]
      BY <1>13, <2>3 DEF Holding
    <3>2. k = q
      BY <2>1, <2>2, <3>1 DEF Distinct
    <3> QED BY <2>1, <2>2, <2>3, <3>2
  <2>4. ASSUME k <= N - n PROVE m.from.b = NoSource
    <3>1. PICK p \in 1..H : slots[2 * p - 1] = seeds[k]
      BY <1>2, <2>4
    <3>2. PICK i \in {2 * m.pos - 1, 2 * m.pos} : i \in 1..N /\ slots[i] = seeds[k]
      BY <1>9, <1>13
    <3>3. i = 2 * p - 1
      BY <1>2, <1>8, <3>1, <3>2
    <3>4. p = m.pos
      BY <2>1, <3>2, <3>3
    <3>5. k = q
      BY <2>2, <3>1, <3>4 DEF Distinct
    <3> QED BY <2>1, <2>2, <2>4, <3>5
  <2> QED BY <2>3, <2>4
<1>14. ASSUME H >= 2, NEW m \in M, m.round = 1
       PROVE  /\ Holding(m, seeds[1]) => m.pos <= H \div 2
              /\ Holding(m, seeds[2]) => m.pos > H \div 2
              /\ ~ SameGroup(m.from.a, m.from.b)
  <2>0. 1 \in 1..n /\ 2 \in 1..n /\ 1 \in 1..N /\ H + 1 \in 1..N /\ H % 2 = 0
    BY <1>3, <1>14
  <2>1. ASSUME Holding(m, seeds[1]) PROVE m.pos <= H \div 2
    <3>1. m.pos \in 1..H
      BY <1>5, <1>14
    <3>2. PICK i \in {2 * m.pos - 1, 2 * m.pos} : i \in 1..N /\ slots[i] = seeds[1]
      BY <1>9, <1>14, <2>0, <2>1
    <3>4. slots[1] = seeds[1]
      BY <1>2, <1>14, <2>0
    <3>3. i = 1
      BY <1>2, <2>0, <3>2, <3>4
    <3> DEFINE p == m.pos
    <3>5. p \in 1..H /\ (i = 2 * p - 1 \/ i = 2 * p)
      BY <3>1, <3>2
    <3> HIDE DEF p
    <3>6. p <= H \div 2
      BY <1>3, <1>14, <2>0, <3>3, <3>5
    <3> QED BY <3>6 DEF p
  <2>2. ASSUME Holding(m, seeds[2]) PROVE m.pos > H \div 2
    <3>1. m.pos \in 1..H
      BY <1>5, <1>14
    <3>2. PICK i \in {2 * m.pos - 1, 2 * m.pos} : i \in 1..N /\ slots[i] = seeds[2]
      BY <1>9, <1>14, <2>0, <2>2
    <3>4. slots[H + 1] = seeds[2]
      BY <1>2, <1>14, <2>0
    <3>3. i = H + 1
      BY <1>2, <2>0, <3>2, <3>4
    <3> DEFINE p == m.pos
    <3>5. p \in 1..H /\ (i = 2 * p - 1 \/ i = 2 * p)
      BY <3>1, <3>2
    <3> HIDE DEF p
    <3>6. p > H \div 2
      BY <1>3, <1>14, <2>0, <3>3, <3>5
    <3> QED BY <3>6 DEF p
  <2>3. ~ SameGroup(m.from.a, m.from.b)
    <3>1. m.pos \in 1..H /\ m.from.a = slots[2 * m.pos - 1] /\ m.from.b = slots[2 * m.pos]
      BY <1>5, <1>14
    <3> QED BY <1>4, <1>14, <3>1
  <2> QED BY <2>1, <2>2, <2>3
<1>15. \A k \in 1..n : \A m \in M :
          m.round = 1 /\ Holding(m, seeds[k]) => (m.from.b = NoSource <=> k <= 2 * H - n)
  BY <1>13
<1>16. \A k \in 1..n : \A m, j \in M :
          m.round = 1 /\ j.round = 1 /\ Holding(m, seeds[k]) /\ Holding(j, seeds[k]) => m.pos = j.pos
  BY <1>12
<1>17. \A k \in 1..n : \E m \in M : m.round = 1 /\ Holding(m, seeds[k])
  BY <1>11
<1> QED BY <1>7, <1>10, <1>14, <1>15, <1>16, <1>17, Zenon DEF Opening, M, H

----------------------------------------------------------------------------
(* The seeds of a bracket *)


\* The pairs of the first round as they fall: of the better half, each with its complement.
Paired(d, seeds, n, H, o) ==
    /\ o \in [1..H -> 1..H] /\ \A q \in 1..H : \E p \in 1..H : o[p] = q
    /\ \A p, r \in 1..H : o[p] = o[r] => p = r
    /\ \A p \in 1..H : /\ d[2 * p - 1] = seeds[o[p]]
                       /\ d[2 * p] = IF 2 * H + 1 - o[p] \in 1..n THEN seeds[2 * H + 1 - o[p]] ELSE NoSource

\* The order of the seeds pairs them so.
LEMMA DealtPairs ==
    ASSUME NEW n \in Nat, n >= 2, NEW seeds, DOMAIN seeds = 1..n
    PROVE  /\ \E o : Paired(Dealt(seeds), seeds, n, Half(n), o)
           /\ Pairs(Dealt(seeds)) = Half(n)
<1> DEFINE K == RoundCount(Len(seeds))
           H == Half(n)
           N == 2 * H
           order == SeedOrder(K)
           d == Dealt(seeds)
           o == [p \in 1..H |-> order[2 * p - 1]]
<1>1. Len(seeds) = n
  BY LengthOf
<1>2. K = RoundCount(n) /\ K \in Nat \ {0} /\ Size[K] = N /\ H \in Nat /\ H < n /\ n <= N
  BY <1>1, HalfFits
<1>3. Sown(order, K)
  BY <1>2, SownOrder
<1>4. Size[K - 1] = H
  BY <1>2 DEF Half
<1>5. d = [i \in 1..N |-> IF order[i] \in 1..n THEN seeds[order[i]] ELSE NoSource]
  <2>1. d = [i \in 1..Size[K] |-> IF order[i] \in DOMAIN seeds THEN seeds[order[i]] ELSE NoSource]
    BY Zenon DEF Dealt
  <2> HIDE DEF d, order, N
  <2> QED BY <1>2, <2>1
<1> HIDE DEF d, order, K, H
<1>6. /\ \A i, j \in 1..N : order[i] = order[j] => i = j
      /\ \A p \in 1..H : order[2 * p - 1] \in 1..H /\ order[2 * p] = N + 1 - order[2 * p - 1]
      /\ \A s \in 1..N : \E i \in 1..N : order[i] = s
  BY <1>2, <1>3, <1>4 DEF Sown, Seeding
<1>7. Pairs(d) = H
  <2>1. DOMAIN d = 1..N /\ N \in Nat
    BY <1>2, <1>5
  <2> HIDE DEF N
  <2>2. Len(d) = N
    BY <2>1, LengthOf
  <2> QED BY <1>2, <2>2 DEF Pairs, N
<1>8. \A p \in 1..H : o[p] = order[2 * p - 1] /\ o[p] \in 1..H
  BY <1>6
<1>9. o \in [1..H -> 1..H]
  BY <1>6
<1> HIDE DEF o
<1>10. ASSUME NEW q \in 1..H PROVE \E p \in 1..H : o[p] = q
  <2>1. PICK i \in 1..N : order[i] = q
    <3>1. q \in 1..N
      BY <1>2
    <3> QED BY <1>6, <3>1
  <2>2. i % 2 = 1
    <3> SUFFICES ASSUME i % 2 = 0 PROVE FALSE
      OBVIOUS
    <3>1. i \div 2 \in 1..H /\ i = 2 * (i \div 2)
      BY <1>2
    <3>2. order[2 * (i \div 2) - 1] \in 1..H /\ order[i] = N + 1 - order[2 * (i \div 2) - 1]
      BY <1>6, <3>1
    <3> QED BY <1>2, <2>1, <3>2
  <2>3. (i + 1) \div 2 \in 1..H /\ i = 2 * ((i + 1) \div 2) - 1
    BY <1>2, <2>2
  <2> QED BY <1>8, <2>1, <2>3
<1>11. ASSUME NEW p \in 1..H, NEW r \in 1..H, o[p] = o[r] PROVE p = r
  <2>1. 2 * p - 1 \in 1..N /\ 2 * r - 1 \in 1..N
    BY <1>2
  <2>2. 2 * p - 1 = 2 * r - 1
    BY <1>6, <1>8, <1>11, <2>1
  <2> QED BY <2>2
<1>12. ASSUME NEW p \in 1..H
       PROVE  /\ d[2 * p - 1] = seeds[o[p]]
              /\ d[2 * p] = IF N + 1 - o[p] \in 1..n THEN seeds[N + 1 - o[p]] ELSE NoSource
  <2>1. 2 * p - 1 \in 1..N /\ 2 * p \in 1..N
    BY <1>2
  <2>2. o[p] = order[2 * p - 1] /\ o[p] \in 1..H /\ order[2 * p] = N + 1 - o[p]
    BY <1>6, <1>8
  <2>3. o[p] \in 1..n
    BY <1>2, <2>2
  <2> HIDE DEF N
  <2>4. d[2 * p - 1] = seeds[o[p]]
    BY <1>5, <2>1, <2>2, <2>3
  <2>5. d[2 * p] = IF order[2 * p] \in 1..n THEN seeds[order[2 * p]] ELSE NoSource
    BY <1>5, <2>1
  <2> QED BY <2>2, <2>4, <2>5
<1>13. Paired(d, seeds, n, H, o)
  BY <1>9, <1>10, <1>11, <1>12 DEF Paired
<1> QED BY <1>7, <1>13 DEF d, H

\* Of the qualifiers at most one pair is of one group, and there is another to swap with.
Qualifiers(g) == [i \in 1..(2 * g) |-> IF i <= g THEN Place(i, 1) ELSE Place(i - g, 2)]

\* A first meets the second of his own group in one pair at most, and another pair can take
\* the second.
LEMMA QualifiersSolvable ==
    ASSUME NEW g \in Nat \ {0}, Half(2 * g) >= 2
    PROVE  Solvable(Dealt(Qualifiers(g)))
<1> DEFINE n == 2 * g
           H == Half(n)
           N == 2 * H
           seeds == Qualifiers(g)
           d == Dealt(seeds)
<1>1. n \in Nat /\ n >= 2 /\ DOMAIN seeds = 1..n
  BY DEF Qualifiers
<1>2. H \in Nat /\ H < n /\ n <= N /\ H >= 2 /\ H % 2 = 0
  <2> HIDE DEF n
  <2>1. H \in Nat /\ H < n /\ n <= N /\ (H = 1 \/ H % 2 = 0)
    BY <1>1, HalfFits
  <2> QED BY <2>1 DEF n
<1>3. PICK o : Paired(d, seeds, n, H, o)
  <2> HIDE DEF n, seeds
  <2> QED BY <1>1, DealtPairs
<1>4. Pairs(d) = H
  <2> HIDE DEF n, seeds
  <2> QED BY <1>1, DealtPairs
<1>5. \A i \in 1..n : /\ seeds[i].group = (IF i <= g THEN i ELSE i - g)
                      /\ seeds[i].type = "group"
  BY SourceTypes DEF Qualifiers
<1> HIDE DEF H, seeds, d
<1>6. /\ \A q \in 1..H : \E p \in 1..H : o[p] = q
      /\ \A p, r \in 1..H : o[p] = o[r] => p = r
      /\ \A p \in 1..H : /\ o[p] \in 1..H /\ d[2 * p - 1] = seeds[o[p]]
                         /\ d[2 * p] = IF N + 1 - o[p] \in 1..n THEN seeds[N + 1 - o[p]] ELSE NoSource
  BY <1>3 DEF Paired
<1>7. ASSUME NEW p \in 1..H
      PROVE  /\ o[p] \in 1..H /\ d[2 * p - 1].type = "group"
             /\ d[2 * p - 1].group = (IF o[p] <= g THEN o[p] ELSE o[p] - g)
             /\ IF N + 1 - o[p] <= n THEN d[2 * p].type = "group" /\ d[2 * p].group = N + 1 - o[p] - g
                ELSE d[2 * p] = NoSource
  <2> DEFINE q == o[p]
             e == N + 1 - q
  <2>1. q \in 1..H /\ d[2 * p - 1] = seeds[q] /\ d[2 * p] = IF e \in 1..n THEN seeds[e] ELSE NoSource
    BY <1>6
  <2> HIDE DEF q
  <2>2. q \in 1..n /\ e > g /\ e \in Nat /\ e >= 1
    BY <1>2, <2>1
  <2> HIDE DEF e
  <2>3. seeds[q].group = (IF q <= g THEN q ELSE q - g) /\ seeds[q].type = "group"
    BY <1>5, <2>2
  <2>4. CASE e <= n
    <3>1. e \in 1..n
      BY <1>1, <2>2, <2>4
    <3>2. seeds[e].group = (IF e <= g THEN e ELSE e - g) /\ seeds[e].type = "group"
      BY <1>5, <3>1
    <3>3. d[2 * p].type = "group" /\ d[2 * p].group = e - g
      BY <2>1, <2>2, <3>1, <3>2
    <3>4. q \in 1..H /\ d[2 * p - 1].type = "group" /\ d[2 * p - 1].group = (IF q <= g THEN q ELSE q - g)
      BY <2>1, <2>3
    <3>5. N + 1 - q <= n /\ d[2 * p].group = N + 1 - q - g
      <4>1. e = N + 1 - q
        BY DEF e
      <4>2. e - g = N + 1 - q - g
        BY <1>2, <2>1, <2>2, <4>1
      <4> HIDE DEF N, n
      <4>3. N + 1 - q <= n
        BY <2>4, <4>1
      <4>4. d[2 * p].group = e - g
        BY <3>3
      <4> DEFINE x == d[2 * p].group
      <4> HIDE DEF x
      <4>5. x = N + 1 - q - g
        BY <4>2, <4>4 DEF x
      <4> QED BY <4>3, <4>5 DEF x
    <3> QED BY <3>3, <3>4, <3>5 DEF q
  <2>5. CASE ~ e <= n
    <3>1. e \notin 1..n
      BY <1>1, <2>5
    <3> QED BY <2>1, <2>3, <2>5, <3>1 DEF q, e
  <2> QED BY <2>4, <2>5
<1>8. ASSUME NEW p \in 1..H
      PROVE  Tied(d, p) => 2 * o[p] = N + 1 - g /\ o[p] <= g /\ N + 1 - o[p] <= n
  <2> SUFFICES ASSUME Tied(d, p) PROVE 2 * o[p] = N + 1 - g /\ o[p] <= g /\ N + 1 - o[p] <= n
    OBVIOUS
  <2> DEFINE q == o[p]
  <2>1. /\ q \in 1..H /\ d[2 * p - 1].group = (IF q <= g THEN q ELSE q - g)
        /\ N + 1 - q <= n => d[2 * p].group = N + 1 - q - g
        /\ ~ N + 1 - q <= n => d[2 * p] = NoSource
    BY <1>7
  <2>2. d[2 * p].type = "group" /\ d[2 * p - 1].group = d[2 * p].group
    BY DEF Tied, SameGroup
  <2>3. N + 1 - q <= n
    BY <2>1, <2>2, SourceTypes
  <2>4. (IF q <= g THEN q ELSE q - g) = N + 1 - q - g
    BY <2>1, <2>2, <2>3
  <2> HIDE DEF q
  <2>5. 2 * q = N + 1 - g /\ q <= g
    BY <1>2, <2>1, <2>4
  <2> QED BY <2>3, <2>5 DEF q
<1>9. ASSUME NEW p \in 1..H, NEW r \in 1..H, Tied(d, p), Tied(d, r) PROVE p = r
  <2>1. 2 * o[p] = N + 1 - g /\ 2 * o[r] = N + 1 - g /\ o[p] \in 1..H /\ o[r] \in 1..H
    BY <1>7, <1>8, <1>9
  <2>2. o[p] = o[r]
    BY <2>1
  <2> QED BY <1>6, <2>2
<1>10. ASSUME NEW p \in 1..H, Tied(d, p) PROVE Fits(d, p) # {}
  <2> DEFINE q == o[p]
             e == IF q = H THEN H - 1 ELSE H
  <2>1. 2 * q = N + 1 - g /\ q <= g /\ N + 1 - q <= n /\ q \in 1..H
    BY <1>7, <1>8, <1>10
  <2> HIDE DEF q
  <2>2. e \in 1..H /\ e # q /\ N + 1 - e <= n
    BY <1>2, <2>1
  <2> HIDE DEF e
  <2>3. PICK j \in 1..H : o[j] = e
    BY <1>6, <2>2
  <2>4. j # p
    BY <2>2, <2>3 DEF q
  <2>5. /\ d[2 * p - 1].type = "group" /\ d[2 * p - 1].group = q
        /\ d[2 * p].type = "group" /\ d[2 * p].group = N + 1 - q - g
    BY <1>7, <2>1 DEF q
  <2>6. /\ d[2 * j - 1].type = "group" /\ d[2 * j - 1].group = (IF e <= g THEN e ELSE e - g)
        /\ d[2 * j].type = "group" /\ d[2 * j].group = N + 1 - e - g
    BY <1>7, <2>2, <2>3
  <2>7. ~ SameGroup(d[2 * p - 1], d[2 * j])
    <3>1. q # N + 1 - e - g
      BY <1>2, <2>1, <2>2
    <3> QED BY <2>5, <2>6, <3>1 DEF SameGroup
  <2>8. ~ SameGroup(d[2 * j - 1], d[2 * p])
    <3>1. (IF e <= g THEN e ELSE e - g) # N + 1 - q - g
      BY <1>2, <2>1, <2>2
    <3> QED BY <2>5, <2>6, <3>1 DEF SameGroup
  <2>9. d[2 * j - 1] # NoSource /\ d[2 * j] # NoSource
    BY <2>6, SourceTypes
  <2>10. j \in Fits(d, p)
    BY <1>4, <2>3, <2>4, <2>7, <2>8, <2>9 DEF Fits
  <2> QED BY <2>10
<1> QED BY <1>4, <1>9, <1>10 DEF Solvable, d, seeds

\* The first round of the qualifiers of g groups.
LEMMA QualifiersOpen ==
    ASSUME NEW g \in Nat \ {0}, NEW day \in Nat
    PROVE  Opening(Bracket(Qualifiers(g), day), Qualifiers(g), 2 * g, Half(2 * g))
<1> DEFINE n == 2 * g
           seeds == Qualifiers(g)
<1>1. n \in Nat /\ n >= 2 /\ DOMAIN seeds = 1..n
  BY DEF Qualifiers
<1>2. \A i \in 1..n : /\ seeds[i].group = (IF i <= g THEN i ELSE i - g)
                      /\ seeds[i].place = (IF i <= g THEN 1 ELSE 2)
                      /\ seeds[i].type = "group"
  BY SourceTypes, PlaceParts DEF Qualifiers
<1> HIDE DEF seeds
<1>3. Distinct(seeds)
  <2> SUFFICES ASSUME NEW i \in 1..n, NEW j \in 1..n, seeds[i] = seeds[j] PROVE i = j
    BY <1>1 DEF Distinct
  <2>1. (IF i <= g THEN i ELSE i - g) = (IF j <= g THEN j ELSE j - g)
    BY <1>2
  <2>2. (IF i <= g THEN 1 ELSE 2) = (IF j <= g THEN 1 ELSE 2)
    BY <1>2
  <2> QED BY <2>1, <2>2
<1>4. \A i \in 1..n : seeds[i] # NoSource
  BY <1>2, SourceTypes
<1>5. Half(n) >= 2 => Solvable(Dealt(seeds))
  BY QualifiersSolvable DEF seeds
<1> HIDE DEF n
<1>6. Opening(Bracket(seeds, day), seeds, n, Half(n))
  BY <1>1, <1>3, <1>4, <1>5, BracketOpens
<1> QED BY <1>6 DEF seeds, n

\* In a knockout nobody has a group.
LEMMA KnockoutOpen ==
    ASSUME NEW n \in Nat, n >= 2, NEW teams, Teams(teams, n), NEW seeds, DOMAIN seeds = 1..n,
           \A i \in 1..n : seeds[i] = Direct(teams[i])
    PROVE  Opening(Bracket(seeds, 0), seeds, n, Half(n))
<1>1. \A i \in 1..n : seeds[i].type = "team" /\ seeds[i].team = teams[i]
  BY SourceTypes DEF Direct
<1>2. Distinct(seeds)
  BY <1>1 DEF Distinct, Teams
<1>3. \A i \in 1..n : seeds[i] # NoSource
  BY <1>1, SourceTypes
<1>4. Solvable(Dealt(seeds))
  <2> DEFINE d == Dealt(seeds)
             H == Half(n)
  <2>1. PICK o : Paired(d, seeds, n, H, o)
    BY DealtPairs
  <2>2. Pairs(d) = H /\ H \in Nat /\ H < n
    BY DealtPairs, HalfFits
  <2> HIDE DEF d, H
  <2>3. \A p \in 1..H : ~ Tied(d, p)
    <3> TAKE p \in 1..H
    <3>1. o[p] \in 1..H /\ d[2 * p - 1] = seeds[o[p]]
      BY <2>1 DEF Paired
    <3>2. o[p] \in 1..n
      BY <2>2, <3>1
    <3>3. d[2 * p - 1].type = "team"
      BY <1>1, <3>1, <3>2
    <3> QED BY <3>3 DEF Tied, SameGroup
  <2> QED BY <2>2, <2>3 DEF Solvable, d
<1> QED BY <1>2, <1>3, <1>4, BracketOpens

----------------------------------------------------------------------------
(* A list of fixtures *)


\* A fixture for every place of every round, one at a time on its day, the table's first.
Keyed(M) == \A m, k \in M : m.round = k.round /\ m.pos = k.pos => m = k
Placed(M) ==
    /\ \A m \in M : m.round \in Nat /\ m.day \in Nat /\ m.index \in Nat
    /\ \A m, k \in M : m.day = k.day /\ m.index = k.index => m = k
    /\ \A m, k \in M : m.round = 0 /\ k.round # 0 => m.day < k.day

\* What a list of fixtures is to be, said of its fixtures one by one.
Fair(M, format, double, teams, groups) ==
    /\ Keyed(M) /\ Placed(M) /\ DayApart(M)
    /\ format = "league" => IF double THEN MeetEach(M, ToSet(teams)) ELSE MeetOnce(M, ToSet(teams))
    /\ format \in {"group_stage", "league_knockout"} => \A g \in DOMAIN groups : MeetOnce(M, ToSet(groups[g]))
    /\ format = "knockout" =>
           /\ \A m \in M : m.round # 0
           /\ Opening(M, [i \in DOMAIN teams |-> Direct(teams[i])], Len(teams), Half(Len(teams)))
    /\ format = "league_knockout" =>
           Opening(M, Qualifiers(Len(groups)), 2 * Len(groups), Half(2 * Len(groups)))
    /\ format \in {"league", "group_stage"} => \A m \in M : m.round = 0

\* A table alone.
LEMMA TablePlaced ==
    ASSUME NEW days, Days(days)
    PROVE  LET M == Numbered(days)
           IN /\ \A m \in M : m.round = 0 /\ m.day \in Nat /\ m.day < Len(days) /\ m.index \in Nat
              /\ \A m, k \in M : m.pos = k.pos \/ (m.day = k.day /\ m.index = k.index) => m = k
<1> DEFINE M == Numbered(days)
<1>1. Celled(M, days)
  BY NumberedCells
<1> HIDE DEF M
<1>2. Listed(days) /\ Len(days) \in Nat /\ DOMAIN days = 1..Len(days)
  BY ListLength DEF Days
<1>3. ASSUME NEW m \in M PROVE m.round = 0 /\ m.day \in Nat /\ m.day < Len(days) /\ m.index \in Nat
  <2>1. PICK d \in DOMAIN days : \E i \in DOMAIN days[d] : Cell(m, days, d, i)
    BY <1>1 DEF Celled
  <2>2. PICK i \in DOMAIN days[d] : Cell(m, days, d, i)
    BY <2>1
  <2>3. d \in 1..Len(days) /\ i \in Nat \ {0}
    <3>1. Listed(days[d])
      BY DEF Days
    <3>2. DOMAIN days[d] = 1..Len(days[d]) /\ Len(days[d]) \in Nat
      BY <3>1, ListLength
    <3> QED BY <1>2, <3>2
  <2>4. m.round = 0 /\ m.day = d - 1 /\ m.index = i - 1
    BY <2>2 DEF Cell
  <2> QED BY <1>2, <2>3, <2>4
<1>4. \A m, k \in M : m.pos = k.pos \/ (m.day = k.day /\ m.index = k.index) => m = k
  BY <1>1 DEF Celled
<1> QED BY <1>3, <1>4 DEF M

\* A table's fixtures have one place each.
LEMMA TableFair ==
    ASSUME NEW days, Days(days)
    PROVE  LET M == Numbered(days)
           IN Keyed(M) /\ Placed(M) /\ \A m \in M : m.round = 0
<1>1. /\ \A m \in Numbered(days) : m.round = 0 /\ m.day \in Nat /\ m.day < Len(days) /\ m.index \in Nat
      /\ \A m, k \in Numbered(days) : m.pos = k.pos \/ (m.day = k.day /\ m.index = k.index) => m = k
  BY TablePlaced
<1> QED BY <1>1 DEF Keyed, Placed

\* A bracket alone.
LEMMA KnockoutFair ==
    ASSUME NEW M, NEW first \in Nat, Rounds(M, first)
    PROVE  /\ Keyed(M) /\ Placed(M) /\ \A m \in M : m.round # 0
           /\ \A m \in M : first <= m.day
<1>1. ASSUME NEW m \in M
      PROVE  /\ m.round \in Nat \ {0} /\ m.pos \in Nat \ {0} /\ m.day = first + m.round - 1 /\ m.index = m.pos - 1
             /\ \A k \in M : m.round = k.round /\ m.pos = k.pos => m = k
  BY DEF Rounds
<1>2. ASSUME NEW m \in M PROVE m.round \in Nat /\ m.round # 0 /\ m.day \in Nat /\ m.index \in Nat /\ first <= m.day
  BY <1>1
<1>3. ASSUME NEW m \in M, NEW k \in M, m.day = k.day, m.index = k.index PROVE m = k
  <2>1. /\ m.round \in Nat \ {0} /\ m.pos \in Nat \ {0} /\ m.day = first + m.round - 1 /\ m.index = m.pos - 1
        /\ k.round \in Nat \ {0} /\ k.pos \in Nat \ {0} /\ k.day = first + k.round - 1 /\ k.index = k.pos - 1
    BY <1>1
  <2> DEFINE r == m.round
             q == k.round
             p == m.pos
             o == k.pos
  <2>3. /\ r \in Nat /\ q \in Nat /\ p \in Nat /\ o \in Nat
        /\ first + r - 1 = first + q - 1 /\ p - 1 = o - 1
    BY <1>3, <2>1
  <2> HIDE DEF r, q, p, o
  <2>4. r = q /\ p = o
    BY <2>3
  <2>2. m.round = k.round /\ m.pos = k.pos
    BY <2>4 DEF r, q, p, o
  <2> QED BY <1>1, <2>2
<1>4. Keyed(M)
  BY <1>1 DEF Keyed
<1>5. Placed(M)
  BY <1>2, <1>3 DEF Placed
<1> QED BY <1>2, <1>4, <1>5

\* A table with a bracket after it.
LEMMA BothFair ==
    ASSUME NEW days, Days(days), NEW B, Rounds(B, Len(days))
    PROVE  Keyed(Numbered(days) \cup B) /\ Placed(Numbered(days) \cup B)
<1> DEFINE M == Numbered(days)
           L == Len(days)
<1>1. L \in Nat
  BY ListLength DEF Days
<1>2. /\ \A m \in M : m.round = 0 /\ m.day \in Nat /\ m.day < L /\ m.index \in Nat
      /\ \A m, k \in M : m.pos = k.pos \/ (m.day = k.day /\ m.index = k.index) => m = k
  BY TablePlaced
<1> HIDE DEF M, L
<1>3. Keyed(B) /\ Placed(B) /\ \A m \in B : m.round # 0
  BY <1>1, KnockoutFair DEF L
<1>4. \A m \in B : L <= m.day /\ m.day \in Nat
  BY <1>1, <1>3, KnockoutFair DEF L, Placed
<1>5. \A m \in M, k \in B : m.day < k.day /\ m.day # k.day
  BY <1>1, <1>2, <1>4
<1>6. Keyed(M \cup B)
  BY <1>2, <1>3 DEF Keyed
<1>7. \A m, k \in M \cup B : m.day = k.day /\ m.index = k.index => m = k
  BY <1>2, <1>3, <1>5 DEF Placed
<1>8. \A m, k \in M \cup B : m.round = 0 /\ k.round # 0 => m.day < k.day
  BY <1>2, <1>3, <1>5
<1>9. \A m \in M \cup B : m.round \in Nat /\ m.day \in Nat /\ m.index \in Nat
  BY <1>2, <1>3 DEF Placed
<1> QED BY <1>6, <1>7, <1>8, <1>9 DEF Placed, M

\* A bracket beside a table changes nothing of the table.
LEMMA MeetAlso ==
    ASSUME NEW M, NEW B, \A m \in B : m.round # 0
    PROVE  /\ \A T : MeetOnce(M, T) => MeetOnce(M \cup B, T)
           /\ DayApart(M) => DayApart(M \cup B)
<1>1. ASSUME NEW T, MeetOnce(M, T) PROVE MeetOnce(M \cup B, T)
  BY <1>1 DEF MeetOnce
<1>2. DayApart(M) => DayApart(M \cup B)
  BY DEF DayApart
<1> QED BY <1>1, <1>2

\* A table beside a bracket changes nothing of the bracket.
LEMMA OpeningAlso ==
    ASSUME NEW M, NEW B, \A m \in M : m.round = 0, NEW seeds, NEW n, NEW H, Opening(B, seeds, n, H)
    PROVE  Opening(M \cup B, seeds, n, H)
<1> DEFINE U == M \cup B
<1>1. \A m \in U : m.round = 1 => m \in B
  OBVIOUS
<1>2. B \subseteq U
  OBVIOUS
<1> HIDE DEF U
<1>3. Opening(U, seeds, n, H)
  BY <1>1, <1>2 DEF Opening
<1> QED BY <1>3 DEF U

----------------------------------------------------------------------------
(* Every draw *)


\* The groups of a draw.
DrawnGroupsOf(teams, wanted) == AssignGroups(teams, WantedGroups(Len(teams), wanted))

\* The days of the groups of a draw.
LEMMA GroupStageFair ==
    ASSUME NEW n \in Nat, n >= 2, NEW teams, Teams(teams, n), NEW wanted \in Nat
    PROVE  LET groups == DrawnGroupsOf(teams, wanted)
               days == GroupDays(groups)
           IN /\ Days(days) /\ Free(days) /\ \A g \in DOMAIN groups : Once(days, ToSet(groups[g]))
              /\ Len(groups) \in Nat \ {0}
<1> DEFINE groups == DrawnGroupsOf(teams, wanted)
<1>1. PICK c \in Nat \ {0} : 2 * c <= n /\ Shares(groups, c, n)
  BY GroupsShare DEF DrawnGroupsOf
<1> HIDE DEF groups
<1>2. groups = [g \in 1..c |-> groups[g]] /\ Len(groups) = c /\ DOMAIN groups = 1..c
  BY <1>1 DEF Shares
<1>3. \A g \in 1..c : \E k \in 2..n : Teams(groups[g], k)
  BY <1>1 DEF Shares
<1>4. \A g, h \in 1..c : g # h => ToSet(groups[g]) \intersect ToSet(groups[h]) = {}
  BY <1>1 DEF Shares
<1>5. LET days == GroupDays(groups)
      IN Days(days) /\ Free(days) /\ \A g \in 1..c : Once(days, ToSet(groups[g]))
  BY <1>2, <1>3, <1>4, GroupsMeet
<1> QED BY <1>2, <1>5 DEF groups

\* Every list that is drawn is fair: in a table each two teams meet once, or once at each
\* end, nobody twice in a day; a bracket comes after its table, holds every seed once, the
\* best two in different halves, gives its byes to the best, and no two of one group meet in
\* its first round (FixtureBuilder.build and its helpers).
THEOREM BuildFair ==
    ASSUME NEW n \in Nat, n >= 2, NEW teams, Teams(teams, n), NEW wanted \in Nat,
           NEW format \in Formats, NEW double \in BOOLEAN
    PROVE  Fair(Build(format, teams, wanted, double), format, double, teams, DrawnGroupsOf(teams, wanted))
<1> DEFINE groups == DrawnGroupsOf(teams, wanted)
           days == GroupDays(groups)
           g == Len(groups)
           seeds == [i \in DOMAIN teams |-> Direct(teams[i])]
           all == Build(format, teams, wanted, double)
<1>1. DOMAIN teams = 1..n /\ Len(teams) = n
  BY LengthOf DEF Teams
<1>2. Days(days) /\ Free(days) /\ (\A h \in DOMAIN groups : Once(days, ToSet(groups[h]))) /\ g \in Nat \ {0}
  BY GroupStageFair
<1>3. /\ format = "knockout" => all = Bracket(seeds, 0)
      /\ format = "league" => all = League(teams, double)
      /\ format = "group_stage" => all = Numbered(days)
      /\ format = "league_knockout" => all = Numbered(days) \cup Bracket(Qualifiers(g), Len(days))
  BY Zenon DEF Build, DrawnGroupsOf, Qualifiers
<1> HIDE DEF groups, days, g, seeds, all
<1>4. CASE format = "knockout"
  <2>1. DOMAIN seeds = 1..n /\ \A i \in 1..n : seeds[i] = Direct(teams[i])
    BY <1>1 DEF seeds
  <2>2. Opening(all, seeds, n, Half(n))
    BY <1>3, <1>4, <2>1, KnockoutOpen
  <2>3. Rounds(all, 0)
    BY <1>3, <1>4, <2>1, BracketRounds
  <2>4. Keyed(all) /\ Placed(all) /\ \A m \in all : m.round # 0
    BY <2>3, KnockoutFair
  <2>5. DayApart(all)
    BY <2>4 DEF DayApart
  <2> QED BY <1>1, <1>4, <2>2, <2>4, <2>5 DEF Fair, seeds, all
<1>5. CASE format = "league"
  <2>1. PICK ds : /\ Days(ds) /\ League(teams, double) = Numbered(ds) /\ Free(ds)
                  /\ IF double THEN Each(ds, ToSet(teams)) ELSE Once(ds, ToSet(teams))
    BY LeagueMeets
  <2>2. all = Numbered(ds)
    BY <1>3, <1>5, <2>1
  <2>3. Keyed(all) /\ Placed(all) /\ \A m \in all : m.round = 0
    BY <2>1, <2>2, TableFair
  <2>4. Celled(all, ds)
    BY <2>1, <2>2, NumberedCells
  <2>5. /\ \A T : Once(ds, T) => MeetOnce(all, T)
        /\ \A T : Each(ds, T) => MeetEach(all, T)
        /\ Free(ds) => DayApart(all)
    BY <2>1, <2>4, CellsMeet
  <2>6. DayApart(all) /\ IF double THEN MeetEach(all, ToSet(teams)) ELSE MeetOnce(all, ToSet(teams))
    BY <2>1, <2>5
  <2> QED BY <1>5, <2>3, <2>6 DEF Fair, all
<1>6. LET M == Numbered(days)
      IN /\ Keyed(M) /\ Placed(M) /\ DayApart(M) /\ \A m \in M : m.round = 0
         /\ \A h \in DOMAIN groups : MeetOnce(M, ToSet(groups[h]))
  <2> DEFINE M == Numbered(days)
  <2>1. Keyed(M) /\ Placed(M) /\ \A m \in M : m.round = 0
    BY <1>2, TableFair
  <2>2. Celled(M, days)
    BY <1>2, NumberedCells
  <2> HIDE DEF M
  <2>3. /\ \A T : Once(days, T) => MeetOnce(M, T)
        /\ Free(days) => DayApart(M)
    BY <1>2, <2>2, CellsMeet
  <2> QED BY <1>2, <2>1, <2>3 DEF M
<1>7. CASE format = "group_stage"
  BY <1>3, <1>6, <1>7 DEF Fair, all, groups
<1>8. CASE format = "league_knockout"
  <2> DEFINE M == Numbered(days)
             B == Bracket(Qualifiers(g), Len(days))
             L == Len(days)
  <2>1. all = M \cup B /\ L \in Nat
    BY <1>2, <1>3, <1>8, ListLength DEF Days
  <2>2. Rounds(B, L)
    <3>1. 2 * g \in Nat /\ 2 * g >= 2 /\ DOMAIN Qualifiers(g) = 1..(2 * g)
      BY <1>2 DEF Qualifiers
    <3> HIDE DEF L
    <3> QED BY <2>1, <3>1, BracketRounds DEF L
  <2>3. Opening(B, Qualifiers(g), 2 * g, Half(2 * g))
    <3> HIDE DEF L
    <3> QED BY <1>2, <2>1, QualifiersOpen DEF L
  <2>4. \A m \in B : m.round # 0
    BY <2>1, <2>2, KnockoutFair
  <2>5. Keyed(all) /\ Placed(all)
    BY <1>2, <2>1, <2>2, BothFair
  <2> HIDE DEF M, B, L
  <2>6. DayApart(M) /\ (\A h \in DOMAIN groups : MeetOnce(M, ToSet(groups[h]))) /\ \A m \in M : m.round = 0
    BY <1>6 DEF M
  <2>7. (\A T : MeetOnce(M, T) => MeetOnce(M \cup B, T)) /\ DayApart(M \cup B)
    BY <2>4, <2>6, MeetAlso
  <2>8. Opening(M \cup B, Qualifiers(g), 2 * g, Half(2 * g))
    BY <2>3, <2>6, OpeningAlso
  <2> QED BY <1>8, <2>1, <2>5, <2>6, <2>7, <2>8 DEF Fair, all, groups, g
<1> QED BY <1>4, <1>5, <1>7, <1>8 DEF Formats

\* The same fixture, whoever has been put in it since if it is one of the bracket.
Drawn(m, k) ==
    /\ \A c \in {"round", "pos", "day", "index", "from"} : m[c] = k[c]
    /\ k.round = 0 => m.a = k.a /\ m.b = k.b

\* A first round stays as it was drawn, whoever has advanced since.
LEMMA OpeningStays ==
    ASSUME NEW M, NEW F, NEW seeds, NEW n, NEW H,
           \A m \in F : \E k \in M : Drawn(m, k), \A k \in M : \E m \in F : Drawn(m, k),
           Opening(M, seeds, n, H)
    PROVE  Opening(F, seeds, n, H)
<1>0. \A m, k : Drawn(m, k) => m.round = k.round /\ m.pos = k.pos /\ m.from = k.from
  BY DEF Drawn
<1>1. \A m \in F : m.round = 1 => m.pos \in 1..H /\ m.from.a # NoSource
  BY <1>0 DEF Opening
<1>2. ASSUME NEW p \in 1..H PROVE \E m \in F : m.round = 1 /\ m.pos = p
  <2>1. PICK k \in M : k.round = 1 /\ k.pos = p
    BY DEF Opening
  <2>2. PICK m \in F : Drawn(m, k)
    OBVIOUS
  <2> QED BY <1>0, <2>1, <2>2
<1>3. ASSUME NEW j \in 1..n PROVE \E m \in F : m.round = 1 /\ Holding(m, seeds[j])
  <2>1. PICK k \in M : k.round = 1 /\ Holding(k, seeds[j])
    BY DEF Opening
  <2>2. PICK m \in F : Drawn(m, k)
    OBVIOUS
  <2> QED BY <1>0, <2>1, <2>2 DEF Holding
<1>4. ASSUME NEW j \in 1..n, NEW m \in F, NEW h \in F,
             m.round = 1, h.round = 1, Holding(m, seeds[j]), Holding(h, seeds[j])
      PROVE  m.pos = h.pos
  <2>1. PICK k \in M : Drawn(m, k)
    OBVIOUS
  <2>2. PICK e \in M : Drawn(h, e)
    OBVIOUS
  <2>3. k.round = 1 /\ e.round = 1 /\ Holding(k, seeds[j]) /\ Holding(e, seeds[j])
    BY <1>0, <1>4, <2>1, <2>2 DEF Holding
  <2>4. k.pos = e.pos
    BY <2>3 DEF Opening
  <2> QED BY <1>0, <2>1, <2>2, <2>4
<1>5. ASSUME NEW j \in 1..n, NEW m \in F, m.round = 1, Holding(m, seeds[j])
      PROVE  m.from.b = NoSource <=> j <= 2 * H - n
  <2>1. PICK k \in M : Drawn(m, k)
    OBVIOUS
  <2>2. k.round = 1 /\ Holding(k, seeds[j]) /\ k.from = m.from
    BY <1>0, <1>5, <2>1 DEF Holding
  <2> QED BY <2>2 DEF Opening
<1>6. ASSUME H >= 2, NEW m \in F, m.round = 1
      PROVE  /\ Holding(m, seeds[1]) => m.pos <= H \div 2
             /\ Holding(m, seeds[2]) => m.pos > H \div 2
             /\ ~ SameGroup(m.from.a, m.from.b)
  <2>1. PICK k \in M : Drawn(m, k)
    OBVIOUS
  <2>2. k.round = 1 /\ k.from = m.from /\ k.pos = m.pos
    BY <1>0, <1>6, <2>1
  <2>3. \A s : Holding(m, s) <=> Holding(k, s)
    BY <2>2 DEF Holding
  <2>4. /\ Holding(k, seeds[1]) => k.pos <= H \div 2
        /\ Holding(k, seeds[2]) => k.pos > H \div 2
        /\ ~ SameGroup(k.from.a, k.from.b)
    BY <1>6, <2>2 DEF Opening
  <2> QED BY <2>2, <2>3, <2>4
<1>7. \A j \in 1..n : \A m, h \in F :
          m.round = 1 /\ h.round = 1 /\ Holding(m, seeds[j]) /\ Holding(h, seeds[j]) => m.pos = h.pos
  BY <1>4
<1>8. \A j \in 1..n : \A m \in F :
          m.round = 1 /\ Holding(m, seeds[j]) => (m.from.b = NoSource <=> j <= 2 * H - n)
  BY <1>5
<1>9. H >= 2 => \A m \in F : m.round = 1 =>
           /\ Holding(m, seeds[1]) => m.pos <= H \div 2
           /\ Holding(m, seeds[2]) => m.pos > H \div 2
           /\ ~ SameGroup(m.from.a, m.from.b)
  BY <1>6
<1>10. \A p \in 1..H : \E m \in F : m.round = 1 /\ m.pos = p
  BY <1>2
<1>11. \A j \in 1..n : \E m \in F : m.round = 1 /\ Holding(m, seeds[j])
  BY <1>3
<1> QED BY <1>1, <1>7, <1>8, <1>9, <1>10, <1>11, Zenon DEF Opening

\* A table stays as it was drawn.
LEMMA MeetStays ==
    ASSUME NEW M, NEW F, Keyed(F),
           \A m \in F : \E k \in M : Drawn(m, k), \A k \in M : \E m \in F : Drawn(m, k)
    PROVE  /\ \A T : MeetOnce(M, T) => MeetOnce(F, T)
           /\ \A T : MeetEach(M, T) => MeetEach(F, T)
           /\ DayApart(M) => DayApart(F)
           /\ Placed(M) => Placed(F)
<1>0. \A m, k : Drawn(m, k) => /\ m.round = k.round /\ m.pos = k.pos /\ m.day = k.day /\ m.index = k.index
                               /\ k.round = 0 => m.a = k.a /\ m.b = k.b
  BY DEF Drawn
<1>1. ASSUME NEW m \in F, NEW h \in F, NEW k \in M, Drawn(m, k), Drawn(h, k) PROVE m = h
  BY <1>0, <1>1 DEF Keyed
<1>2. ASSUME NEW T, MeetOnce(M, T) PROVE MeetOnce(F, T)
  <2>1. ASSUME NEW t \in T, NEW u \in T, t # u PROVE \E m \in F : m.round = 0 /\ {m.a, m.b} = {t, u}
    <3>1. PICK k \in M : k.round = 0 /\ {k.a, k.b} = {t, u}
      BY <1>2, <2>1 DEF MeetOnce
    <3>2. PICK m \in F : Drawn(m, k)
      OBVIOUS
    <3> QED BY <1>0, <3>1, <3>2
  <2>2. ASSUME NEW m \in F, NEW h \in F, m.round = 0, h.round = 0, {m.a, m.b} = {h.a, h.b}, m.a \in T, m.b \in T
        PROVE  m = h
    <3>1. PICK k \in M : Drawn(m, k)
      OBVIOUS
    <3>2. PICK e \in M : Drawn(h, e)
      OBVIOUS
    <3>3. k.round = 0 /\ e.round = 0 /\ m.a = k.a /\ m.b = k.b /\ h.a = e.a /\ h.b = e.b
      BY <1>0, <2>2, <3>1, <3>2
    <3>4. k = e
      BY <1>2, <2>2, <3>3 DEF MeetOnce
    <3> QED BY <1>1, <3>1, <3>2, <3>4
  <2> QED BY <2>1, <2>2 DEF MeetOnce
<1>3. ASSUME NEW T, MeetEach(M, T) PROVE MeetEach(F, T)
  <2>1. ASSUME NEW t \in T, NEW u \in T, t # u PROVE \E m \in F : m.round = 0 /\ m.a = t /\ m.b = u
    <3>1. PICK k \in M : k.round = 0 /\ k.a = t /\ k.b = u
      BY <1>3, <2>1 DEF MeetEach
    <3>2. PICK m \in F : Drawn(m, k)
      OBVIOUS
    <3> QED BY <1>0, <3>1, <3>2
  <2>2. ASSUME NEW m \in F, NEW h \in F, m.round = 0, h.round = 0, m.a = h.a, m.b = h.b, m.a \in T, m.b \in T
        PROVE  m = h
    <3>1. PICK k \in M : Drawn(m, k)
      OBVIOUS
    <3>2. PICK e \in M : Drawn(h, e)
      OBVIOUS
    <3>3. k.round = 0 /\ e.round = 0 /\ m.a = k.a /\ m.b = k.b /\ h.a = e.a /\ h.b = e.b
      BY <1>0, <2>2, <3>1, <3>2
    <3>5. k.a = e.a /\ k.b = e.b /\ k.a \in T /\ k.b \in T /\ k.round = 0 /\ e.round = 0
      BY <2>2, <3>3
    <3>6. \A x, y \in M : x.round = 0 /\ y.round = 0 /\ x.a = y.a /\ x.b = y.b /\ x.a \in T /\ x.b \in T => x = y
      BY <1>3, Zenon DEF MeetEach
    <3>4. k = e
      BY <3>5, <3>6
    <3> QED BY <1>1, <3>1, <3>2, <3>4
  <2> QED BY <2>1, <2>2 DEF MeetEach
<1>4. ASSUME DayApart(M), NEW m \in F, NEW h \in F, m.round = 0, h.round = 0, m # h, m.day = h.day
      PROVE  {m.a, m.b} \intersect {h.a, h.b} = {}
  <2>1. PICK k \in M : Drawn(m, k)
    OBVIOUS
  <2>2. PICK e \in M : Drawn(h, e)
    OBVIOUS
  <2>3. /\ k.round = 0 /\ e.round = 0 /\ m.a = k.a /\ m.b = k.b /\ h.a = e.a /\ h.b = e.b
        /\ k.day = e.day
    BY <1>0, <1>4, <2>1, <2>2
  <2>4. k # e
    BY <1>1, <1>4, <2>1, <2>2
  <2> QED BY <1>4, <2>3, <2>4 DEF DayApart
<1>5. ASSUME Placed(M) PROVE Placed(F)
  <2>1. \A m \in F : m.round \in Nat /\ m.day \in Nat /\ m.index \in Nat
    BY <1>0, <1>5 DEF Placed
  <2>2. ASSUME NEW m \in F, NEW h \in F
        PROVE  /\ m.day = h.day /\ m.index = h.index => m = h
               /\ m.round = 0 /\ h.round # 0 => m.day < h.day
    <3>1. PICK k \in M : Drawn(m, k)
      OBVIOUS
    <3>2. PICK e \in M : Drawn(h, e)
      OBVIOUS
    <3>3. /\ m.round = k.round /\ h.round = e.round /\ m.day = k.day /\ h.day = e.day
          /\ m.index = k.index /\ h.index = e.index
      BY <1>0, <3>1, <3>2
    <3>4. m.day = h.day /\ m.index = h.index => m = h
      BY <1>1, <1>5, <3>1, <3>2, <3>3 DEF Placed
    <3> QED BY <1>5, <3>3, <3>4 DEF Placed
  <2> QED BY <2>1, <2>2 DEF Placed
<1> QED BY <1>2, <1>3, <1>4, <1>5 DEF DayApart

\* A fair list stays fair while its fixtures stay as they were drawn.
LEMMA FairStays ==
    ASSUME NEW M, NEW F, Keyed(F),
           \A m \in F : \E k \in M : Drawn(m, k), \A k \in M : \E m \in F : Drawn(m, k),
           NEW format, NEW double, NEW teams, NEW groups, Fair(M, format, double, teams, groups)
    PROVE  Fair(F, format, double, teams, groups)
<1>1. /\ \A T : MeetOnce(M, T) => MeetOnce(F, T)
      /\ \A T : MeetEach(M, T) => MeetEach(F, T)
      /\ DayApart(M) => DayApart(F)
      /\ Placed(M) => Placed(F)
  BY MeetStays
<1>2. \A seeds, n, H : Opening(M, seeds, n, H) => Opening(F, seeds, n, H)
  BY OpeningStays
<1>3. /\ (\A m \in M : m.round # 0) => \A m \in F : m.round # 0
      /\ (\A m \in M : m.round = 0) => \A m \in F : m.round = 0
  BY DEF Drawn
<1> QED BY <1>1, <1>2, <1>3, Zenon DEF Fair
=============================================================================
