----------------------------- MODULE FiniteSums -----------------------------
(***************************************************************************)
(* Lemmas about the sums and counts of the model: a function added up over *)
(* a finite set (SumFunctionOnSet of the Functions module), what the       *)
(* entries of a log come to, the places of an order, and that a function   *)
(* of the numbers exists by its first value and its steps.                 *)
(*                                                                         *)
(* The library defines the sum by recursion over the subsets of the set.   *)
(* What such a definition yields is shown here by a smallest               *)
(* counterexample: strict inclusion is well-founded on finite sets, so if  *)
(* any finite set fails there is one all of whose proper subsets do not.   *)
(***************************************************************************)
EXTENDS Integers, Sequences, FiniteSets, Functions, FiniteSetTheorems, TLAPS

\* Among finite sets there is always one that contains no other of them.
LEMMA SmallestSet ==
    ASSUME NEW Bad, Bad # {}, \A S \in Bad : IsFiniteSet(S)
    PROVE  \E S \in Bad : \A U \in Bad : U \subseteq S => U = S
<1> DEFINE X == UNION Bad
           R == StrictSubsetOrdering(X)
<1>1. IsWellFoundedOn(R, FiniteSubsetsOf(X)) BY FS_StrictSubsetOrderingWellFounded
<1>2. Bad \subseteq FiniteSubsetsOf(X) BY DEF FiniteSubsetsOf
<1>3. PICK S \in Bad : \A U \in Bad : ~ (<<U, S>> \in R)
  <2> HIDE DEF R
  <2> QED BY <1>1, <1>2, WFMin
<1>4. ASSUME NEW U \in Bad, U \subseteq S, U # S PROVE FALSE
  BY <1>3, <1>4 DEF StrictSubsetOrdering
<1> QED BY <1>4

\* Among natural numbers there is always a least one.
LEMMA SmallestNumber ==
    ASSUME NEW Bad \in SUBSET Nat, Bad # {}
    PROVE  \E n \in Bad : \A m \in Bad : n <= m
<1> DEFINE up(n) == 1..n
           Ups == {up(n) : n \in Bad}
<1>1. \A S \in Ups : IsFiniteSet(S) BY FS_Interval
<1>2. Ups # {} OBVIOUS
<1>3. PICK S \in Ups : \A U \in Ups : U \subseteq S => U = S
  <2> HIDE DEF Ups
  <2> QED BY <1>1, <1>2, SmallestSet
<1>4. PICK n \in Bad : S = up(n) OBVIOUS
<1>5. ASSUME NEW m \in Bad, m < n PROVE FALSE
  <2>1. up(m) \subseteq up(n) /\ n \in up(n) /\ n \notin up(m) BY <1>5
  <2>2. up(m) \in Ups OBVIOUS
  <2> HIDE DEF up, Ups
  <2> QED BY <1>3, <1>4, <2>1, <2>2
<1>6. \A m \in Bad : n <= m BY <1>5
<1> QED BY <1>6

----------------------------------------------------------------------------
(* The recursion behind the sum *)

Pick(s) == CHOOSE x \in s : TRUE

\* g adds f up over every subset of U, one chosen element after the other.
Adds(g, f, U) ==
    g = [s \in SUBSET U |-> IF s = {} THEN 0 ELSE f[Pick(s)] + g[s \ {Pick(s)}]]

Adder(f, U) == CHOOSE g : Adds(g, f, U)

LEMMA SumIsAdder == ASSUME NEW f, NEW U PROVE SumFunctionOnSet(f, U) = Adder(f, U)[U]
BY DEF SumFunctionOnSet, FoldFunctionOnSet, MapThenFoldSet, Adder, Adds, Pick

LEMMA PickIn == ASSUME NEW s, s # {} PROVE Pick(s) \in s
BY DEF Pick

LEMMA AdderUnique ==
    ASSUME NEW f, NEW S, NEW T, NEW g, NEW h, Adds(g, f, S), Adds(h, f, T),
           NEW V, V \subseteq S, V \subseteq T, IsFiniteSet(V)
    PROVE  g[V] = h[V]
<1> DEFINE Bad == {U \in SUBSET V : g[U] # h[U]}
<1>1. SUFFICES ASSUME Bad # {} PROVE FALSE OBVIOUS
<1>2. PICK U \in Bad : \A W \in Bad : W \subseteq U => W = U
  <2>1. \A W \in Bad : IsFiniteSet(W) BY FS_Subset
  <2> HIDE DEF Bad
  <2> QED BY <1>1, <2>1, SmallestSet
<1>3. U \in SUBSET S /\ U \in SUBSET T /\ g[U] # h[U] OBVIOUS
<1>4. /\ g[U] = IF U = {} THEN 0 ELSE f[Pick(U)] + g[U \ {Pick(U)}]
      /\ h[U] = IF U = {} THEN 0 ELSE f[Pick(U)] + h[U \ {Pick(U)}]
  BY <1>3 DEF Adds
<1>5. U # {} BY <1>3, <1>4
<1>6. U \ {Pick(U)} \in SUBSET V /\ U \ {Pick(U)} # U BY <1>5, PickIn
<1>7. g[U \ {Pick(U)}] = h[U \ {Pick(U)}] BY <1>2, <1>6
<1> QED BY <1>3, <1>4, <1>7

LEMMA AdderExists ==
    ASSUME NEW f, NEW V, IsFiniteSet(V)
    PROVE  Adds(Adder(f, V), f, V)
<1> DEFINE Bad == {U \in SUBSET V : ~ Adds(Adder(f, U), f, U)}
<1>1. SUFFICES ASSUME Bad # {} PROVE FALSE OBVIOUS
<1>2. PICK U \in Bad : \A W \in Bad : W \subseteq U => W = U
  <2>1. \A W \in Bad : IsFiniteSet(W) BY FS_Subset
  <2> HIDE DEF Bad
  <2> QED BY <1>1, <2>1, SmallestSet
<1>3. \A W \in SUBSET U : W # U => Adds(Adder(f, W), f, W) /\ IsFiniteSet(W)
  BY <1>2, FS_Subset
<1> DEFINE sum(s) == Adder(f, s)[s]
           g == [s \in SUBSET U |->
                   IF s = U THEN IF U = {} THEN 0 ELSE f[Pick(U)] + sum(U \ {Pick(U)})
                   ELSE sum(s)]
<1>4. ASSUME NEW s \in SUBSET U
      PROVE  g[s] = IF s = {} THEN 0 ELSE f[Pick(s)] + g[s \ {Pick(s)}]
  <2>1. CASE s = {} /\ s = U BY <2>1
  <2>2. CASE s # U
    <3>1. Adds(Adder(f, s), f, s) BY <2>2, <1>3
    <3>2. sum(s) = IF s = {} THEN 0 ELSE f[Pick(s)] + Adder(f, s)[s \ {Pick(s)}]
      BY <3>1 DEF Adds
    <3>3. ASSUME s # {} PROVE Adder(f, s)[s \ {Pick(s)}] = g[s \ {Pick(s)}]
      <4> DEFINE w == s \ {Pick(s)}
      <4>1. w \in SUBSET U /\ w # U /\ w \subseteq s BY <3>3, PickIn
      <4>2. Adds(Adder(f, w), f, w) /\ IsFiniteSet(w) BY <4>1, <1>3
      <4>3. Adder(f, s)[w] = Adder(f, w)[w]
        <5> HIDE DEF w
        <5> QED BY <4>1, <4>2, <3>1, AdderUnique
      <4>4. g[w] = Adder(f, w)[w] BY <4>1
      <4> QED BY <4>3, <4>4
    <3>4. g[s] = sum(s) BY <2>2
    <3> HIDE DEF g, sum
    <3> QED BY <3>2, <3>3, <3>4
  <2>3. CASE s = U /\ U # {}
    <3>1. U \ {Pick(U)} \in SUBSET U /\ U \ {Pick(U)} # U BY <2>3, PickIn
    <3>2. g[U \ {Pick(U)}] = sum(U \ {Pick(U)}) BY <3>1
    <3>3. g[U] = f[Pick(U)] + sum(U \ {Pick(U)}) BY <2>3
    <3> HIDE DEF g, sum
    <3> QED BY <2>3, <3>2, <3>3
  <2> QED BY <2>1, <2>2, <2>3
<1>5. Adds(g, f, U)
  <2>1. g = [s \in SUBSET U |-> g[s]] OBVIOUS
  <2> HIDE DEF g
  <2> QED BY <1>4, <2>1 DEF Adds
<1>6. Adds(Adder(f, U), f, U)
  <2> HIDE DEF g
  <2> QED BY <1>5 DEF Adder
<1> QED BY <1>6

----------------------------------------------------------------------------
(* What a sum is *)

LEMMA SumStep ==
    ASSUME NEW f, NEW S, IsFiniteSet(S)
    PROVE  SumFunctionOnSet(f, S) =
              IF S = {} THEN 0 ELSE f[Pick(S)] + SumFunctionOnSet(f, S \ {Pick(S)})
<1>1. Adds(Adder(f, S), f, S) BY AdderExists
<1>2. Adder(f, S)[S] = IF S = {} THEN 0 ELSE f[Pick(S)] + Adder(f, S)[S \ {Pick(S)}]
  BY <1>1 DEF Adds
<1>3. ASSUME S # {}
      PROVE  Adder(f, S)[S \ {Pick(S)}] = Adder(f, S \ {Pick(S)})[S \ {Pick(S)}]
  <2> DEFINE W == S \ {Pick(S)}
  <2>1. W \subseteq S /\ IsFiniteSet(W) BY FS_Subset
  <2>2. Adds(Adder(f, W), f, W) BY <2>1, AdderExists
  <2> HIDE DEF W
  <2> QED BY <1>1, <2>1, <2>2, AdderUnique DEF W
<1> QED BY <1>2, <1>3, SumIsAdder

LEMMA SumEmpty == ASSUME NEW f PROVE SumFunctionOnSet(f, {}) = 0
BY SumStep, FS_EmptySet

LEMMA SumTyped ==
    ASSUME NEW f, NEW S, IsFiniteSet(S), \A x \in S : f[x] \in Nat
    PROVE  SumFunctionOnSet(f, S) \in Nat
<1> DEFINE Bad == {U \in SUBSET S : SumFunctionOnSet(f, U) \notin Nat}
<1>1. SUFFICES ASSUME Bad # {} PROVE FALSE OBVIOUS
<1>2. PICK U \in Bad : \A W \in Bad : W \subseteq U => W = U
  <2>1. \A W \in Bad : IsFiniteSet(W) BY FS_Subset
  <2> HIDE DEF Bad
  <2> QED BY <1>1, <2>1, SmallestSet
<1>3. U \subseteq S /\ IsFiniteSet(U) /\ SumFunctionOnSet(f, U) \notin Nat BY FS_Subset
<1>4. U # {} BY <1>3, SumEmpty
<1>5. Pick(U) \in U /\ U \ {Pick(U)} \in SUBSET S /\ U \ {Pick(U)} # U BY <1>3, <1>4, PickIn
<1>6. SumFunctionOnSet(f, U \ {Pick(U)}) \in Nat BY <1>2, <1>5
<1>7. f[Pick(U)] \in Nat BY <1>3, <1>5
<1> QED BY <1>3, <1>4, <1>6, <1>7, SumStep

\* In whatever order the elements are taken.
LEMMA SumRemove ==
    ASSUME NEW f, NEW S, IsFiniteSet(S), \A x \in S : f[x] \in Nat, NEW y \in S
    PROVE  SumFunctionOnSet(f, S) = f[y] + SumFunctionOnSet(f, S \ {y})
<1> DEFINE Sum(U) == SumFunctionOnSet(f, U)
           Bad == {U \in SUBSET S : \E x \in U : Sum(U) # f[x] + Sum(U \ {x})}
<1>1. SUFFICES ASSUME Bad # {} PROVE FALSE OBVIOUS
<1>2. PICK U \in Bad : \A W \in Bad : W \subseteq U => W = U
  <2>1. \A W \in Bad : IsFiniteSet(W) BY FS_Subset
  <2> HIDE DEF Bad
  <2> QED BY <1>1, <2>1, SmallestSet
<1>3. U \subseteq S /\ IsFiniteSet(U) BY FS_Subset
<1>4. PICK x \in U : Sum(U) # f[x] + Sum(U \ {x}) OBVIOUS
<1> DEFINE c == Pick(U)
<1>5. c \in U /\ Sum(U) = f[c] + Sum(U \ {c}) BY <1>3, <1>4, PickIn, SumStep
<1>6. x # c BY <1>4, <1>5
<1>7. Sum(U \ {c}) = f[x] + Sum((U \ {c}) \ {x})
  <2>1. U \ {c} \in SUBSET S /\ U \ {c} # U /\ U \ {c} \subseteq U BY <1>5, <1>3
  <2>2. U \ {c} \notin Bad BY <1>2, <2>1
  <2>3. x \in U \ {c} BY <1>6
  <2> HIDE DEF Sum, c
  <2> QED BY <2>1, <2>2, <2>3
<1>8. Sum(U \ {x}) = f[c] + Sum((U \ {x}) \ {c})
  <2>1. U \ {x} \in SUBSET S /\ U \ {x} # U /\ U \ {x} \subseteq U BY <1>3
  <2>2. U \ {x} \notin Bad BY <1>2, <2>1
  <2>3. c \in U \ {x} BY <1>5, <1>6
  <2> HIDE DEF Sum, c
  <2> QED BY <2>1, <2>2, <2>3
<1>9. (U \ {c}) \ {x} = (U \ {x}) \ {c} OBVIOUS
<1>10. Sum((U \ {x}) \ {c}) \in Nat
  <2>1. IsFiniteSet((U \ {x}) \ {c}) /\ \A z \in (U \ {x}) \ {c} : f[z] \in Nat
    BY <1>3, FS_Subset
  <2> QED BY <2>1, SumTyped
<1>11. f[c] \in Nat /\ f[x] \in Nat BY <1>3, <1>5
<1> DEFINE rest == SumFunctionOnSet(f, (U \ {x}) \ {c})
<1>12. Sum(U) = f[c] + (f[x] + rest) BY <1>5, <1>7, <1>9
<1>13. f[x] + Sum(U \ {x}) = f[x] + (f[c] + rest) BY <1>8
<1>14. f[c] + (f[x] + rest) = f[x] + (f[c] + rest)
  <2> HIDE DEF rest, c
  <2> QED BY <1>10, <1>11 DEF rest
<1> QED BY <1>4, <1>12, <1>13, <1>14

LEMMA SumAdd ==
    ASSUME NEW f, NEW S, IsFiniteSet(S), NEW y, y \notin S, \A x \in S \union {y} : f[x] \in Nat
    PROVE  SumFunctionOnSet(f, S \union {y}) = f[y] + SumFunctionOnSet(f, S)
<1>1. IsFiniteSet(S \union {y}) BY FS_AddElement
<1>2. (S \union {y}) \ {y} = S OBVIOUS
<1> QED BY <1>1, <1>2, SumRemove

\* Only the values at the elements that are added up count.
LEMMA SumSame ==
    ASSUME NEW f, NEW g, NEW S, IsFiniteSet(S), \A x \in S : f[x] = g[x]
    PROVE  SumFunctionOnSet(f, S) = SumFunctionOnSet(g, S)
<1> DEFINE Bad == {U \in SUBSET S : SumFunctionOnSet(f, U) # SumFunctionOnSet(g, U)}
<1>1. SUFFICES ASSUME Bad # {} PROVE FALSE OBVIOUS
<1>2. PICK U \in Bad : \A W \in Bad : W \subseteq U => W = U
  <2>1. \A W \in Bad : IsFiniteSet(W) BY FS_Subset
  <2> HIDE DEF Bad
  <2> QED BY <1>1, <2>1, SmallestSet
<1>3. U \subseteq S /\ IsFiniteSet(U) /\ SumFunctionOnSet(f, U) # SumFunctionOnSet(g, U)
  BY FS_Subset
<1>4. U # {} BY <1>3, SumEmpty
<1>5. Pick(U) \in U /\ U \ {Pick(U)} \in SUBSET S /\ U \ {Pick(U)} # U BY <1>3, <1>4, PickIn
<1>6. SumFunctionOnSet(f, U \ {Pick(U)}) = SumFunctionOnSet(g, U \ {Pick(U)}) BY <1>2, <1>5
<1>7. f[Pick(U)] = g[Pick(U)] BY <1>3, <1>5
<1> QED BY <1>3, <1>4, <1>6, <1>7, SumStep
----------------------------------------------------------------------------
(* Counting and adding up the entries of a log *)

\* Where in the log an entry of S stands, how many do, and what f makes of them.
Where(l, S) == {i \in DOMAIN l : l[i] \in S}
Num(l, S) == Cardinality(Where(l, S))
AddUp(f, l, S) == SumFunctionOnSet([i \in Where(l, S) |-> f[l[i]]], Where(l, S))

LEMMA WhereFinite ==
    ASSUME NEW E, NEW l \in Seq(E), NEW S PROVE IsFiniteSet(Where(l, S)) /\ Num(l, S) \in Nat
<1>1. DOMAIN l = 1..Len(l) /\ Len(l) \in Nat
  OBVIOUS
<1>2. IsFiniteSet(1..Len(l))
  BY <1>1, FS_Interval
<1>3. Where(l, S) \subseteq 1..Len(l)
  BY <1>1 DEF Where
<1>4. IsFiniteSet(Where(l, S))
  BY <1>2, <1>3, FS_Subset
<1> QED BY <1>4, FS_CardinalityType DEF Num

\* One more entry at the end stands nowhere else.
LEMMA WhereLonger ==
    ASSUME NEW E, NEW l \in Seq(E), NEW k \in Seq(E), NEW S,
           Len(k) = Len(l) + 1, \A i \in 1..Len(l) : k[i] = l[i]
    PROVE  /\ Len(k) \notin Where(l, S)
           /\ Where(k, S) = IF k[Len(k)] \in S THEN Where(l, S) \union {Len(k)} ELSE Where(l, S)
           /\ \A i \in Where(l, S) : k[i] = l[i]
<1> DEFINE n == Len(k)
<1>1. /\ DOMAIN l = 1..Len(l) /\ Len(l) \in Nat /\ DOMAIN k = 1..n /\ n \in Nat
      /\ n = Len(l) + 1
  OBVIOUS
<1>2. n \notin Where(l, S) /\ \A i \in Where(l, S) : k[i] = l[i]
  BY <1>1 DEF Where
<1>3. \A i : i \in 1..n <=> i \in 1..Len(l) \/ i = n
  BY <1>1
<1>4. CASE k[n] \in S
  <2>1. Where(k, S) = Where(l, S) \union {n}
    BY <1>1, <1>3, <1>4 DEF Where
  <2> QED BY <1>2, <1>4, <2>1
<1>5. CASE k[n] \notin S
  <2>1. Where(k, S) = Where(l, S)
    BY <1>1, <1>3, <1>5 DEF Where
  <2> QED BY <1>2, <1>5, <2>1
<1> QED BY <1>4, <1>5

\* One more entry at the end is one more where it belongs.
LEMMA NumLonger ==
    ASSUME NEW E, NEW l \in Seq(E), NEW k \in Seq(E), NEW S,
           Len(k) = Len(l) + 1, \A i \in 1..Len(l) : k[i] = l[i]
    PROVE  Num(k, S) = Num(l, S) + IF k[Len(k)] \in S THEN 1 ELSE 0
<1>1. IsFiniteSet(Where(l, S)) /\ Num(l, S) \in Nat
  BY WhereFinite
<1>2. /\ Len(k) \notin Where(l, S)
      /\ Where(k, S) = IF k[Len(k)] \in S THEN Where(l, S) \union {Len(k)} ELSE Where(l, S)
  BY WhereLonger
<1>3. Cardinality(Where(l, S) \union {Len(k)}) = Cardinality(Where(l, S)) + 1
  BY <1>1, <1>2, FS_AddElement
<1> QED BY <1>1, <1>2, <1>3 DEF Num

\* One more entry at the end adds what it is worth where it belongs.
LEMMA AddUpLonger ==
    ASSUME NEW E, NEW l \in Seq(E), NEW k \in Seq(E), NEW S, NEW f \in [E -> Nat],
           Len(k) = Len(l) + 1, \A i \in 1..Len(l) : k[i] = l[i]
    PROVE  /\ AddUp(f, l, S) \in Nat
           /\ AddUp(f, k, S) = AddUp(f, l, S) + IF k[Len(k)] \in S THEN f[k[Len(k)]] ELSE 0
<1> DEFINE n == Len(k)
           A == Where(l, S)
           B == Where(k, S)
           g == [i \in A |-> f[l[i]]]
           h == [i \in B |-> f[k[i]]]
<1>1. IsFiniteSet(A) /\ IsFiniteSet(B)
  BY WhereFinite
<1>2. n \notin A /\ (B = IF k[n] \in S THEN A \union {n} ELSE A) /\ \A i \in A : k[i] = l[i]
  BY WhereLonger
<1>3. (\A i \in A : l[i] \in E) /\ \A i \in B : k[i] \in E
  BY DEF Where
<1>4. (\A i \in A : g[i] \in Nat) /\ \A i \in B : h[i] \in Nat
  BY <1>3
<1>5. \A i \in A : g[i] = h[i]
  BY <1>2
<1>6. SumFunctionOnSet(g, A) \in Nat
  <2> HIDE DEF g, A
  <2> QED BY <1>1, <1>4, SumTyped
<1>7. SumFunctionOnSet(h, A) = SumFunctionOnSet(g, A)
  <2> HIDE DEF g, h, A
  <2> QED BY <1>1, <1>5, SumSame
<1>8. CASE k[n] \in S
  <2>1. B = A \union {n}
    BY <1>2, <1>8
  <2>2. SumFunctionOnSet(h, A \union {n}) = h[n] + SumFunctionOnSet(h, A)
    <3> HIDE DEF g, h, A, B, n
    <3> QED BY <1>1, <1>2, <1>4, <2>1, SumAdd
  <2>3. h[n] = f[k[n]] /\ h[n] \in Nat
    BY <1>4, <2>1
  <2>4. AddUp(f, l, S) = SumFunctionOnSet(g, A) /\ AddUp(f, k, S) = SumFunctionOnSet(h, B)
    BY DEF AddUp
  <2> HIDE DEF g, h, A, B, n
  <2>5. SumFunctionOnSet(h, B) = SumFunctionOnSet(g, A) + f[k[n]]
    BY <1>6, <1>7, <2>1, <2>2, <2>3
  <2> QED BY <1>6, <1>8, <2>4, <2>5 DEF n
<1>9. CASE k[n] \notin S
  <2>1. B = A
    BY <1>2, <1>9
  <2>2. AddUp(f, l, S) = SumFunctionOnSet(g, A) /\ AddUp(f, k, S) = SumFunctionOnSet(h, B)
    BY DEF AddUp
  <2> HIDE DEF g, h, A, B, n
  <2> QED BY <1>6, <1>7, <1>9, <2>1, <2>2 DEF n
<1> QED BY <1>8, <1>9

\* Nothing has been entered yet.
LEMMA NothingLogged ==
    ASSUME NEW f, NEW S PROVE Num(<<>>, S) = 0 /\ AddUp(f, <<>>, S) = 0
<1>1. Where(<<>>, S) = {}
  BY DEF Where
<1> QED BY <1>1, FS_EmptySet, SumEmpty DEF Num, AddUp
----------------------------------------------------------------------------
(* Orders *)

\* The members of S that come before p in the order R.
Earlier(S, R, p) == {q \in S : <<q, p>> \in R}

\* R is a strict total order on S.
StrictOrder(S, R) ==
    /\ \A p \in S : <<p, p>> \notin R
    /\ \A p, q, r \in S : <<p, q>> \in R /\ <<q, r>> \in R => <<p, r>> \in R
    /\ \A p, q \in S : p # q => <<p, q>> \in R \/ <<q, p>> \in R

\* In a strict total order on a finite set every place is taken, by one member each.
LEMMA EveryPlaceTaken ==
    ASSUME NEW S, IsFiniteSet(S), NEW R, StrictOrder(S, R)
    PROVE  /\ Cardinality(S) \in Nat
           /\ \A p \in S : Cardinality(Earlier(S, R, p)) + 1 \in 1..Cardinality(S)
           /\ \A p, r \in S : Cardinality(Earlier(S, R, p)) = Cardinality(Earlier(S, R, r)) => p = r
           /\ \A k \in 1..Cardinality(S) : \E p \in S : k = Cardinality(Earlier(S, R, p)) + 1
<1> DEFINE n == Cardinality(S)
           before(p) == Earlier(S, R, p)
           T == 1..n
           rank == [p \in S |-> Cardinality(before(p)) + 1]
<1>1. n \in Nat
  BY FS_CardinalityType
<1>2. ASSUME NEW p \in S
      PROVE  /\ IsFiniteSet(before(p)) /\ Cardinality(before(p)) \in Nat
             /\ Cardinality(before(p)) + 1 \in T
  <2>1. before(p) \in SUBSET S /\ before(p) # S
    <3>1. p \notin before(p)
      BY DEF Earlier, StrictOrder
    <3> QED BY <3>1 DEF Earlier
  <2> HIDE DEF before
  <2>2. /\ IsFiniteSet(before(p)) /\ Cardinality(before(p)) <= n /\ Cardinality(before(p)) # n
    BY <2>1, FS_Subset
  <2>3. Cardinality(before(p)) \in Nat
    BY <2>2, FS_CardinalityType
  <2> QED BY <1>1, <2>2, <2>3
<1>3. ASSUME NEW p \in S, NEW r \in S, <<p, r>> \in R
      PROVE  Cardinality(before(p)) # Cardinality(before(r))
  <2>1. before(p) \in SUBSET before(r) /\ p \in before(r) /\ p \notin before(p)
    BY <1>3 DEF Earlier, StrictOrder
  <2> HIDE DEF before
  <2>2. before(p) # before(r) /\ IsFiniteSet(before(r))
    BY <1>2, <2>1
  <2> QED BY <2>1, <2>2, FS_Subset
<1>4. ASSUME NEW p \in S, NEW r \in S, p # r
      PROVE  Cardinality(before(p)) # Cardinality(before(r))
  <2>1. <<p, r>> \in R \/ <<r, p>> \in R
    BY <1>4 DEF StrictOrder
  <2> HIDE DEF before
  <2> QED BY <1>3, <2>1
<1>5. rank \in Injection(S, T)
  <2> HIDE DEF before
  <2>1. rank \in [S -> T]
    BY <1>2
  <2>2. \A p, r \in S : p # r => rank[p] # rank[r]
    BY <1>2, <1>4
  <2> QED BY <2>1, <2>2 DEF Injection, IsInjective
<1>6. IsFiniteSet(T) /\ Cardinality(T) = n
  BY <1>1, FS_Interval
<1>7. rank \in Surjection(S, T)
  <2> HIDE DEF rank, T, n
  <2> QED BY <1>5, <1>6, FS_Injection DEF n
<1>8. ASSUME NEW k \in T
      PROVE  \E p \in S : k = Cardinality(before(p)) + 1
  <2>1. PICK p \in S : rank[p] = k
    BY <1>7 DEF Surjection
  <2> QED BY <2>1
<1>9. \A p \in S : Cardinality(before(p)) + 1 \in 1..Cardinality(S)
  BY <1>2
<1>10. \A p, r \in S : Cardinality(before(p)) = Cardinality(before(r)) => p = r
  BY <1>4
<1> QED BY <1>1, <1>8, <1>9, <1>10

LEMMA PlaceTaken ==
    ASSUME NEW S, IsFiniteSet(S), NEW R, StrictOrder(S, R), NEW k \in 1..Cardinality(S)
    PROVE  \E p \in S : Cardinality(Earlier(S, R, p)) = k - 1
<1>1. PICK p \in S : k = Cardinality(Earlier(S, R, p)) + 1
  <2> DEFINE n == Cardinality(S)
             card(p) == Cardinality(Earlier(S, R, p))
  <2>1. \A i \in 1..n : \E p \in S : i = card(p) + 1
    BY EveryPlaceTaken
  <2> HIDE DEF n, card
  <2> QED BY <2>1 DEF n, card
<1>2. Cardinality(Earlier(S, R, p)) \in Nat
  <2>1. Earlier(S, R, p) \subseteq S
    BY DEF Earlier
  <2> QED BY <2>1, FS_Subset, FS_CardinalityType
<1> QED BY <1>1, <1>2

\* A function takes no more values than it has arguments.
LEMMA ValuesFinite ==
    ASSUME NEW S, IsFiniteSet(S), NEW f
    PROVE  IsFiniteSet({f[x] : x \in S}) /\ Cardinality({f[x] : x \in S}) <= Cardinality(S)
<1> DEFINE T == {f[x] : x \in S}
           g == [x \in S |-> f[x]]
<1>1. g \in Surjection(S, T)
  BY DEF Surjection
<1> HIDE DEF T, g
<1> QED BY <1>1, FS_Surjection DEF T

\* Step by step from x: the first n values of a recursive function.
Stepped(f, g, x, n) == f = [k \in 0..n |-> IF k = 0 THEN x ELSE g[<<k, f[k - 1]>>]]

\* As far as one likes, they exist.
LEMMA SteppedExist ==
    ASSUME NEW g, NEW x, NEW n \in Nat
    PROVE  \E f : Stepped(f, g, x, n)
<1> DEFINE Bad == {m \in Nat : ~ \E f : Stepped(f, g, x, m)}
<1>1. SUFFICES ASSUME Bad # {} PROVE FALSE
  OBVIOUS
<1>2. PICK m \in Bad : \A k \in Bad : m <= k
  <2>1. Bad \in SUBSET Nat
    OBVIOUS
  <2> HIDE DEF Bad
  <2> QED BY <1>1, <2>1, SmallestNumber
<1>3. m \in Nat /\ ~ \E f : Stepped(f, g, x, m)
  OBVIOUS
<1>4. CASE m = 0
  <2> DEFINE f == [k \in 0..0 |-> x]
  <2>1. \A k \in 0..0 : k = 0
    OBVIOUS
  <2>2. Stepped(f, g, x, 0)
    BY <2>1 DEF Stepped
  <2> QED BY <1>3, <1>4, <2>2
<1>5. CASE m # 0
  <2>1. m - 1 \in Nat /\ m - 1 \notin Bad
    BY <1>2, <1>3, <1>5
  <2>2. PICK e : Stepped(e, g, x, m - 1)
    BY <2>1
  <2> DEFINE f == [k \in 0..m |-> IF k = m THEN g[<<m, e[m - 1]>>] ELSE e[k]]
  <2>3. ASSUME NEW k \in 0..m PROVE f[k] = IF k = 0 THEN x ELSE g[<<k, f[k - 1]>>]
    <3>1. CASE k = m
      <4>1. f[m - 1] = e[m - 1] /\ f[k] = g[<<m, e[m - 1]>>]
        BY <1>3, <1>5, <3>1
      <4> QED BY <1>5, <3>1, <4>1
    <3>2. CASE k # m
      <4>1. k \in 0..(m - 1) /\ f[k] = e[k] /\ (k # 0 => k - 1 \in 0..m /\ k - 1 # m /\ f[k - 1] = e[k - 1])
        BY <1>3, <3>2
      <4>2. e[k] = IF k = 0 THEN x ELSE g[<<k, e[k - 1]>>]
        BY <2>2, <4>1 DEF Stepped
      <4> QED BY <4>1, <4>2
    <3> QED BY <3>1, <3>2
  <2>4. Stepped(f, g, x, m)
    <3>1. f = [k \in 0..m |-> f[k]]
      OBVIOUS
    <3> HIDE DEF f
    <3> QED BY <2>3, <3>1 DEF Stepped
  <2> QED BY <1>3, <2>4
<1> QED BY <1>4, <1>5

\* Where two of them are defined, they agree.
LEMMA SteppedAgree ==
    ASSUME NEW g, NEW x, NEW n \in Nat, NEW m \in Nat, NEW e, NEW f,
           Stepped(e, g, x, n), Stepped(f, g, x, m), NEW k \in Nat, k <= n, k <= m
    PROVE  e[k] = f[k]
<1> DEFINE Bad == {i \in Nat : i <= n /\ i <= m /\ e[i] # f[i]}
<1>1. SUFFICES ASSUME Bad # {} PROVE FALSE
  OBVIOUS
<1>2. PICK i \in Bad : \A j \in Bad : i <= j
  <2>1. Bad \in SUBSET Nat
    OBVIOUS
  <2> HIDE DEF Bad
  <2> QED BY <1>1, <2>1, SmallestNumber
<1>3. i \in 0..n /\ i \in 0..m /\ e[i] # f[i]
  OBVIOUS
<1>4. /\ e[i] = IF i = 0 THEN x ELSE g[<<i, e[i - 1]>>]
      /\ f[i] = IF i = 0 THEN x ELSE g[<<i, f[i - 1]>>]
  BY <1>3 DEF Stepped
<1>5. i # 0 => i - 1 \in Nat /\ i - 1 \notin Bad /\ i - 1 <= n /\ i - 1 <= m
  BY <1>2, <1>3
<1>6. i # 0 => e[i - 1] = f[i - 1]
  BY <1>5
<1> QED BY <1>3, <1>4, <1>6

\* A function of the numbers, by its first value and its steps.
Steps(f, D, x, g) == f \in [Nat -> D] /\ f[0] = x /\ \A k \in Nat \ {0} : f[k] = g[<<k, f[k - 1]>>]

\* There is such a function: its value at n is the last of the first n.
LEMMA RecursionExists ==
    ASSUME NEW D, NEW x \in D, NEW g \in [Nat \X D -> D]
    PROVE  \E f : Steps(f, D, x, g)
<1> DEFINE F(n) == CHOOSE f : Stepped(f, g, x, n)
           f == [n \in Nat |-> F(n)[n]]
<1>1. \A n \in Nat : Stepped(F(n), g, x, n)
  BY SteppedExist
<1> HIDE DEF F
<1>2. \A k \in Nat : f[k] = IF k = 0 THEN x ELSE g[<<k, f[k - 1]>>]
  <2> TAKE k \in Nat
  <2>1. F(k)[k] = IF k = 0 THEN x ELSE g[<<k, F(k)[k - 1]>>]
    BY <1>1 DEF Stepped
  <2>2. k # 0 => F(k)[k - 1] = F(k - 1)[k - 1]
    BY <1>1, SteppedAgree
  <2> QED BY <2>1, <2>2
<1>3. f = [n \in Nat |-> f[n]]
  OBVIOUS
<1> HIDE DEF f
<1> DEFINE Bad == {n \in Nat : f[n] \notin D}
<1>4. Bad = {}
  <2>1. SUFFICES ASSUME Bad # {} PROVE FALSE
    OBVIOUS
  <2>2. PICK n \in Bad : \A j \in Bad : n <= j
    <3>1. Bad \in SUBSET Nat
      OBVIOUS
    <3> HIDE DEF Bad
    <3> QED BY <2>1, <3>1, SmallestNumber
  <2>3. n # 0 => n - 1 \in Nat /\ f[n - 1] \in D
    BY <2>2
  <2>4. n = 0 => f[n] \in D
    BY <1>2
  <2>5. n # 0 => f[n] \in D
    <3>1. n # 0 => <<n, f[n - 1]>> \in Nat \X D /\ f[n] = g[<<n, f[n - 1]>>]
      BY <1>2, <2>3
    <3> QED BY <3>1
  <2> QED BY <2>4, <2>5
<1>5. f \in [Nat -> D]
  BY <1>3, <1>4
<1>6. Steps(f, D, x, g)
  BY <1>2, <1>5 DEF Steps
<1> QED BY <1>6

\* Two sequences joined.
LEMMA JoinAt ==
    ASSUME NEW S, NEW a \in Seq(S), NEW b \in Seq(S)
    PROVE  /\ a \o b \in Seq(S) /\ Len(a \o b) = Len(a) + Len(b)
           /\ \A k \in 1..(Len(a) + Len(b)) : (a \o b)[k] = IF k <= Len(a) THEN a[k] ELSE b[k - Len(a)]
OBVIOUS
=============================================================================
