------------------------- MODULE LintHistoryProofs -------------------------
(***************************************************************************)
(* Proofs about LintHistory: its types, and the invariant they rest on.    *)
(*                                                                         *)
(* The first part is about operators: sums over finite functions, which    *)
(* the count of bytes is made of, and the sequence of the elements of a    *)
(* set in ascending order, which a rewritten history is made of.  Both are *)
(* shown by minimal counterexample: of the subsets of a finite set for     *)
(* which a fact fails one would be minimal.                                *)
(*                                                                         *)
(* The second part is the invariant HInv: the types, that the number of a  *)
(* run is in the hands of one project only and nowhere twice (Numbered),   *)
(* and what a worker holds at each of its steps (Local).                   *)
(***************************************************************************)
EXTENDS LintHistory, FiniteSetTheorems, FunctionTheorems, SequenceTheorems, TLAPS

\* Of the sets of a non-empty set of subsets of a finite set one is minimal.
LEMMA MinimalSubset ==
  ASSUME NEW S, IsFiniteSet(S), NEW B \in SUBSET SUBSET S, B # {}
  PROVE  \E m \in B : \A s \in SUBSET m : s # m => s \notin B
<1>1. IsWellFoundedOn(StrictSubsetOrdering(S), SUBSET S)
  BY FS_StrictSubsetOrderingWellFounded, FS_FiniteSubsetsOfFinite
<1>2. PICK m \in B : \A s \in B : ~(<<s, m>> \in StrictSubsetOrdering(S))
  BY <1>1, WFMin
<1>3. \A s \in SUBSET m : s # m => s \notin B
  <2> SUFFICES ASSUME NEW s \in SUBSET m, s # m, s \in B PROVE FALSE
    OBVIOUS
  <2>1. <<s, m>> \in (SUBSET S) \X (SUBSET S)
    OBVIOUS
  <2>2. <<s, m>> \in StrictSubsetOrdering(S)
    BY <2>1 DEF StrictSubsetOrdering
  <2>3. QED BY <1>2, <2>2
<1>4. QED BY <1>3

Chosen(s) == CHOOSE x \in s : TRUE
Sums(f, h, S) ==
  h = [s \in SUBSET S |-> IF s = {} THEN 0 ELSE f[Chosen(s)] + h[s \ {Chosen(s)}]]

\* The sum of f over S by the recursive function the community modules define it with.
LEMMA SumIsIter == ASSUME NEW f, NEW S PROVE SumFunctionOnSet(f, S) = (CHOOSE h : Sums(f, h, S))[S]
  BY DEF SumFunctionOnSet, FoldFunctionOnSet, MapThenFoldSet, Sums, Chosen

\* Two such functions agree on the sets both are defined for, ...
LEMMA SumsUnique ==
  ASSUME NEW f, NEW g, NEW h, NEW S, NEW T \in SUBSET S, IsFiniteSet(S),
         Sums(f, h, S), Sums(f, g, T)
  PROVE  \A s \in SUBSET T : g[s] = h[s]
<1> DEFINE B == {s \in SUBSET T : g[s] # h[s]}
<1>1. SUFFICES ASSUME B # {} PROVE FALSE
  OBVIOUS
<1>2. IsFiniteSet(T)
  BY FS_Subset
<1>3. PICK m \in B : \A s \in SUBSET m : s # m => s \notin B
  <2>1. B \in SUBSET SUBSET T
    OBVIOUS
  <2> HIDE DEF B
  <2>2. QED BY <1>1, <1>2, <2>1, MinimalSubset
<1>4. m \in SUBSET S /\ m \in SUBSET T
  OBVIOUS
<1>5. g[m] = (IF m = {} THEN 0 ELSE f[Chosen(m)] + g[m \ {Chosen(m)}])
  BY <1>4 DEF Sums
<1>6. h[m] = (IF m = {} THEN 0 ELSE f[Chosen(m)] + h[m \ {Chosen(m)}])
  <2> HIDE DEF B
  <2>1. h = [s \in SUBSET S |-> IF s = {} THEN 0 ELSE f[Chosen(s)] + h[s \ {Chosen(s)}]]
    BY DEF Sums
  <2>2. QED BY <1>4, <2>1
<1>7. m # {} => Chosen(m) \in m
  BY DEF Chosen
<1>8. m # {} => g[m \ {Chosen(m)}] = h[m \ {Chosen(m)}]
  BY <1>3, <1>7
<1>9. QED BY <1>5, <1>6, <1>8

\* ... one for a set is one for its subsets, ...
LEMMA SumsRestrict ==
  ASSUME NEW f, NEW h, NEW S, NEW T \in SUBSET S, Sums(f, h, S)
  PROVE  Sums(f, [s \in SUBSET T |-> h[s]], T)
<1> DEFINE g == [s \in SUBSET T |-> h[s]]
<1>1. ASSUME NEW s \in SUBSET T
      PROVE  g[s] = (IF s = {} THEN 0 ELSE f[Chosen(s)] + g[s \ {Chosen(s)}])
  <2>1. s \in SUBSET S
    OBVIOUS
  <2>2. h[s] = (IF s = {} THEN 0 ELSE f[Chosen(s)] + h[s \ {Chosen(s)}])
    BY <2>1 DEF Sums
  <2>3. s \ {Chosen(s)} \in SUBSET T
    OBVIOUS
  <2>4. QED BY <2>2, <2>3
<1> HIDE DEF g
<1>2. g = [s \in SUBSET T |-> IF s = {} THEN 0 ELSE f[Chosen(s)] + g[s \ {Chosen(s)}]]
  BY <1>1 DEF g
<1>3. Sums(f, g, T)
  BY <1>2 DEF Sums
<1>4. QED BY <1>3 DEF g

\* ... and every finite set has one.
LEMMA SumsExists ==
  ASSUME NEW f, NEW S, IsFiniteSet(S)
  PROVE  \E h : Sums(f, h, S)
<1> DEFINE B == {s \in SUBSET S : ~\E h : Sums(f, h, s)}
           G(s) == CHOOSE h : Sums(f, h, s)
<1>1. SUFFICES ASSUME B # {} PROVE FALSE
  OBVIOUS
<1>2. PICK m \in B : \A s \in SUBSET m : s # m => s \notin B
  <2>1. B \in SUBSET SUBSET S
    OBVIOUS
  <2> HIDE DEF B
  <2>2. QED BY <1>1, <2>1, MinimalSubset
<1>3. ASSUME NEW s \in SUBSET m, s # m PROVE Sums(f, G(s), s)
  <2>1. \E h : Sums(f, h, s)
    BY <1>2, <1>3
  <2>2. QED BY <2>1
<1> DEFINE step(s) == IF s = {} THEN 0 ELSE f[Chosen(s)] + G(s \ {Chosen(s)})[s \ {Chosen(s)}]
           k == [s \in SUBSET m |-> step(s)]
<1>4. \A s \in SUBSET m : s # {} => Chosen(s) \in s
  BY DEF Chosen
<1>5. ASSUME NEW s \in SUBSET m, s # m PROVE k[s] = G(s)[s]
  <2>1. CASE s = {}
    <3>1. Sums(f, G(s), s)
      BY <1>3, <1>5
    <3>2. G(s)[s] = 0
      BY <3>1, <2>1 DEF Sums
    <3>3. QED BY <3>2, <2>1
  <2>2. CASE s # {}
    <3> DEFINE u == s \ {Chosen(s)}
    <3>1. Sums(f, G(s), s)
      BY <1>3, <1>5
    <3>2. u \in SUBSET m /\ u # m /\ u \in SUBSET s
      BY <1>4, <2>2
    <3>3. Sums(f, G(u), u)
      BY <1>3, <3>2
    <3>4. IsFiniteSet(s)
      <4>1. s \in SUBSET S
        OBVIOUS
      <4>2. QED BY <4>1, FS_Subset
    <3>5. G(u)[u] = G(s)[u]
      <4> HIDE DEF G, u
      <4>1. QED BY <3>1, <3>2, <3>3, <3>4, SumsUnique
    <3>6. G(s)[s] = f[Chosen(s)] + G(s)[u]
      <4> HIDE DEF G
      <4>1. QED BY <3>1, <2>2 DEF Sums
    <3>7. k[s] = f[Chosen(s)] + G(u)[u]
      BY <2>2
    <3>8. QED BY <3>5, <3>6, <3>7
  <2>3. QED BY <2>1, <2>2
<1>6. ASSUME NEW s \in SUBSET m
      PROVE  k[s] = IF s = {} THEN 0 ELSE f[Chosen(s)] + k[s \ {Chosen(s)}]
  <2>1. CASE s = {}
    BY <2>1
  <2>2. CASE s # {}
    <3>1. s \ {Chosen(s)} \in SUBSET m /\ s \ {Chosen(s)} # m
      BY <1>4, <2>2
    <3>2. k[s \ {Chosen(s)}] = G(s \ {Chosen(s)})[s \ {Chosen(s)}]
      BY <3>1, <1>5
    <3>3. QED BY <2>2, <3>2
  <2>3. QED BY <2>1, <2>2
<1> HIDE DEF G, step
<1>7. k = [s \in SUBSET m |-> IF s = {} THEN 0 ELSE f[Chosen(s)] + k[s \ {Chosen(s)}]]
  <2>1. DOMAIN k = SUBSET m /\ k = [s \in SUBSET m |-> k[s]]
    OBVIOUS
  <2> HIDE DEF k
  <2>2. QED BY <1>6, <2>1
<1>8. Sums(f, k, m)
  <2> HIDE DEF k
  <2>1. QED BY <1>7 DEF Sums
<1>9. QED BY <1>2, <1>8

LEMMA SumFacts ==
  ASSUME NEW f, NEW S, IsFiniteSet(S)
  PROVE  \E h : Sums(f, h, S) /\ SumFunctionOnSet(f, S) = h[S]
<1>1. \E h : Sums(f, h, S)
  BY SumsExists
<1>2. QED BY <1>1, SumIsIter

LEMMA SumEmpty ==
  ASSUME NEW f
  PROVE  SumFunctionOnSet(f, {}) = 0
<1>1. PICK h : Sums(f, h, {}) /\ SumFunctionOnSet(f, {}) = h[{}]
  BY SumFacts, FS_EmptySet
<1>2. QED BY <1>1 DEF Sums

\* Sums of naturals are naturals, and any element can be taken out first.
LEMMA SumsRemove ==
  ASSUME NEW f, NEW h, NEW S, IsFiniteSet(S), Sums(f, h, S), \A x \in S : f[x] \in Nat
  PROVE  /\ \A s \in SUBSET S : h[s] \in Nat
         /\ \A s \in SUBSET S : \A x \in s : h[s] = f[x] + h[s \ {x}]
<1>0. ASSUME NEW s \in SUBSET S
      PROVE  h[s] = IF s = {} THEN 0 ELSE f[Chosen(s)] + h[s \ {Chosen(s)}]
  BY DEF Sums
<1>a. \A s \in SUBSET S : s # {} => Chosen(s) \in s
  BY DEF Chosen
<1>1. \A s \in SUBSET S : h[s] \in Nat
  <2> DEFINE B == {s \in SUBSET S : h[s] \notin Nat}
  <2>1. SUFFICES ASSUME B # {} PROVE FALSE
    OBVIOUS
  <2>2. B \in SUBSET SUBSET S
    OBVIOUS
  <2>3. PICK m \in B : \A s \in SUBSET m : s # m => s \notin B
    <3> HIDE DEF B
    <3>1. QED BY <2>1, <2>2, MinimalSubset
  <2>4. m # {}
    BY <1>0
  <2>5. h[m \ {Chosen(m)}] \in Nat
    BY <2>3, <2>4, <1>a
  <2>6. f[Chosen(m)] \in Nat
    BY <2>4, <1>a
  <2>7. h[m] = f[Chosen(m)] + h[m \ {Chosen(m)}]
    BY <1>0, <2>4
  <2>8. QED BY <2>5, <2>6, <2>7
<1>2. \A s \in SUBSET S : \A x \in s : h[s] = f[x] + h[s \ {x}]
  <2> DEFINE B == {s \in SUBSET S : \E x \in s : h[s] # f[x] + h[s \ {x}]}
  <2>1. SUFFICES ASSUME B # {} PROVE FALSE
    OBVIOUS
  <2>2. B \in SUBSET SUBSET S
    OBVIOUS
  <2>3. PICK m \in B : \A s \in SUBSET m : s # m => s \notin B
    <3> HIDE DEF B
    <3>1. QED BY <2>1, <2>2, MinimalSubset
  <2>4. PICK x \in m : h[m] # f[x] + h[m \ {x}]
    OBVIOUS
  <2> DEFINE c == Chosen(m)
  <2>5. m \in SUBSET S /\ m # {}
    OBVIOUS
  <2>6. c \in m
    BY <2>5, <1>a
  <2>7. h[m] = f[c] + h[m \ {c}]
    BY <1>0, <2>5
  <2> HIDE DEF c
  <2>8. c # x
    BY <2>4, <2>7
  <2>9. h[m \ {c}] = f[x] + h[(m \ {c}) \ {x}]
    <3>1. m \ {c} \in SUBSET m /\ m \ {c} # m
      BY <2>6
    <3>2. x \in m \ {c}
      BY <2>8
    <3>3. m \ {c} \notin B
      BY <3>1, <2>3
    <3>4. QED BY <3>1, <3>2, <3>3, <2>5
  <2>10. h[m \ {x}] = f[c] + h[(m \ {x}) \ {c}]
    <3>1. m \ {x} \in SUBSET m /\ m \ {x} # m
      BY <2>6
    <3>2. c \in m \ {x}
      BY <2>8, <2>6
    <3>3. m \ {x} \notin B
      BY <3>1, <2>3
    <3>4. QED BY <3>1, <3>2, <3>3, <2>5
  <2>11. (m \ {x}) \ {c} = (m \ {c}) \ {x}
    OBVIOUS
  <2>12. /\ f[x] \in Nat /\ f[c] \in Nat
         /\ h[(m \ {c}) \ {x}] \in Nat
    <3>1. (m \ {c}) \ {x} \in SUBSET S
      BY <2>5
    <3>2. QED BY <1>1, <2>5, <2>6, <3>1
  <2>13. \A i, j, n \in Nat : i + (j + n) = j + (i + n)
    OBVIOUS
  <2>14. f[c] + (f[x] + h[(m \ {c}) \ {x}]) = f[x] + (f[c] + h[(m \ {c}) \ {x}])
    BY <2>12, <2>13
  <2>15. h[m] = f[x] + h[m \ {x}]
    BY <2>7, <2>9, <2>10, <2>11, <2>14
  <2>16. QED BY <2>4, <2>15
<1>3. QED BY <1>1, <1>2

\* The same of the sum itself.
LEMMA SumRemove ==
  ASSUME NEW f, NEW S, IsFiniteSet(S), \A x \in S : f[x] \in Nat
  PROVE  /\ SumFunctionOnSet(f, S) \in Nat
         /\ \A x \in S : SumFunctionOnSet(f, S) = f[x] + SumFunctionOnSet(f, S \ {x})
<1>1. PICK h : Sums(f, h, S) /\ SumFunctionOnSet(f, S) = h[S]
  BY SumFacts
<1>2. /\ \A s \in SUBSET S : h[s] \in Nat
      /\ \A s \in SUBSET S : \A x \in s : h[s] = f[x] + h[s \ {x}]
  BY <1>1, SumsRemove
<1>3. ASSUME NEW x \in S
      PROVE  SumFunctionOnSet(f, S) = f[x] + SumFunctionOnSet(f, S \ {x})
  <2> DEFINE T == S \ {x}
  <2>1. IsFiniteSet(T) /\ T \in SUBSET S
    BY FS_RemoveElement
  <2> HIDE DEF T
  <2>2. PICK g : Sums(f, g, T) /\ SumFunctionOnSet(f, T) = g[T]
    BY <2>1, SumFacts
  <2>3. g[T] = h[T]
    BY <2>1, <2>2, <1>1, SumsUnique
  <2>4. h[S] = f[x] + h[T]
    BY <1>2 DEF T
  <2>5. QED BY <2>2, <2>3, <2>4, <1>1 DEF T
<1>4. QED BY <1>1, <1>2, <1>3

\* Functions that agree on a set have the same sum over it.
LEMMA SumAgree ==
  ASSUME NEW f, NEW g, NEW S, IsFiniteSet(S), \A x \in S : f[x] = g[x]
  PROVE  SumFunctionOnSet(f, S) = SumFunctionOnSet(g, S)
<1>1. PICK h : Sums(f, h, S) /\ SumFunctionOnSet(f, S) = h[S]
  BY SumFacts
<1>2. PICK k : Sums(g, k, S) /\ SumFunctionOnSet(g, S) = k[S]
  BY SumFacts
<1>3. \A s \in SUBSET S : s # {} => Chosen(s) \in S
  BY DEF Chosen
<1>4. Sums(f, k, S)
  <2>1. k = [s \in SUBSET S |-> IF s = {} THEN 0 ELSE g[Chosen(s)] + k[s \ {Chosen(s)}]]
    BY <1>2 DEF Sums
  <2>2. ASSUME NEW s \in SUBSET S
        PROVE  (IF s = {} THEN 0 ELSE g[Chosen(s)] + k[s \ {Chosen(s)}])
               = IF s = {} THEN 0 ELSE f[Chosen(s)] + k[s \ {Chosen(s)}]
    <3>1. CASE s = {}
      BY <3>1
    <3>2. CASE s # {}
      <4>1. f[Chosen(s)] = g[Chosen(s)]
        BY <1>3, <3>2
      <4>2. QED BY <4>1
    <3>3. QED BY <3>1, <3>2
  <2>3. [s \in SUBSET S |-> IF s = {} THEN 0 ELSE g[Chosen(s)] + k[s \ {Chosen(s)}]]
        = [s \in SUBSET S |-> IF s = {} THEN 0 ELSE f[Chosen(s)] + k[s \ {Chosen(s)}]]
    BY <2>2, Zenon
  <2>4. QED BY <2>1, <2>3 DEF Sums
<1>5. h[S] = k[S]
  BY <1>1, <1>4, SumsUnique
<1>6. QED BY <1>1, <1>2, <1>5
LEMMA Greatest ==
  ASSUME NEW S \in SUBSET Nat, IsFiniteSet(S), S # {}
  PROVE  \E x \in S : \A y \in S : y <= x
<1> DEFINE B == {s \in SUBSET S : s # {} /\ ~\E x \in s : \A y \in s : y <= x}
<1>1. SUFFICES ASSUME B # {} PROVE FALSE
  OBVIOUS
<1>2. B \in SUBSET SUBSET S
  OBVIOUS
<1>3. PICK m \in B : \A s \in SUBSET m : s # m => s \notin B
  <2> HIDE DEF B
  <2>1. QED BY <1>1, <1>2, MinimalSubset
<1>4. PICK y \in m : TRUE
  OBVIOUS
<1>5. m \ {y} \notin B /\ m \ {y} \in SUBSET S
  BY <1>3
<1>6. m \in SUBSET Nat
  OBVIOUS
<1>7. CASE m \ {y} = {}
  <2>1. \A z \in m : z <= y
    BY <1>6, <1>7
  <2>2. QED BY <2>1
<1>8. CASE m \ {y} # {}
  <2>1. PICK x \in m \ {y} : \A z \in m \ {y} : z <= x
    BY <1>5, <1>8
  <2>2. \E u \in m : \A z \in m : z <= u
    <3>1. CASE x <= y
      <4>1. \A z \in m : z <= y
        BY <2>1, <3>1, <1>6
      <4>2. QED BY <4>1
    <3>2. CASE ~(x <= y)
      <4>1. \A z \in m : z <= x
        BY <2>1, <3>2, <1>6
      <4>2. QED BY <4>1
    <3>3. QED BY <3>1, <3>2
  <2>3. QED BY <2>2
<1>9. QED BY <1>7, <1>8

Ascends(ix, S) ==
  /\ ix \in [1..Cardinality(S) -> S]
  /\ \A i, j \in 1..Cardinality(S) : i < j => ix[i] < ix[j]

\* A finite set of naturals can be put in ascending order: the greatest last.
LEMMA AscendingExists ==
  ASSUME NEW S \in SUBSET Nat, IsFiniteSet(S)
  PROVE  \E ix : Ascends(ix, S)
<1> DEFINE B == {s \in SUBSET S : ~\E ix : Ascends(ix, s)}
<1>1. SUFFICES ASSUME B # {} PROVE FALSE
  OBVIOUS
<1>2. B \in SUBSET SUBSET S
  OBVIOUS
<1>3. PICK m \in B : \A s \in SUBSET m : s # m => s \notin B
  <2> HIDE DEF B
  <2>1. QED BY <1>1, <1>2, MinimalSubset
<1>4. m \in SUBSET Nat /\ m \in SUBSET S /\ ~\E ix : Ascends(ix, m)
  OBVIOUS
<1>5. \A s \in SUBSET m : s # m => \E ix : Ascends(ix, s)
  BY <1>3
<1> HIDE DEF B
<1>6. IsFiniteSet(m)
  BY <1>4, FS_Subset
<1>7. CASE m = {}
  <2>1. Cardinality(m) = 0
    BY <1>7, FS_EmptySet
  <2>2. [i \in 1..0 |-> 0] \in [1..Cardinality(m) -> m]
    BY <2>1
  <2>3. Ascends([i \in 1..0 |-> 0], m)
    BY <2>1, <2>2 DEF Ascends
  <2>4. QED BY <2>3, <1>4
<1>8. CASE m # {}
  <2>1. PICK x \in m : \A y \in m : y <= x
    <3>1. m \in SUBSET Nat
      BY <1>4
    <3>2. QED BY <3>1, <1>6, <1>8, Greatest
  <2> DEFINE k == m \ {x}
             n == Cardinality(k)
  <2>2. /\ IsFiniteSet(k) /\ n \in Nat /\ Cardinality(m) = n + 1
    <3>1. IsFiniteSet(m \ {x})
      BY <1>6, FS_RemoveElement
    <3>2. Cardinality(m \ {x}) = Cardinality(m) - 1
      BY <1>6, <2>1, FS_RemoveElement
    <3>3. Cardinality(m) \in Nat /\ Cardinality(m \ {x}) \in Nat
      BY <1>6, <3>1, FS_CardinalityType
    <3>4. QED BY <3>1, <3>2, <3>3
  <2>3. k \in SUBSET m /\ k # m
    OBVIOUS
  <2>4. PICK ix : Ascends(ix, k)
    BY <1>5, <2>3
  <2> DEFINE jx == [i \in 1..(n + 1) |-> IF i <= n THEN ix[i] ELSE x]
  <2>5. ix \in [1..n -> k] /\ \A i, j \in 1..n : i < j => ix[i] < ix[j]
    BY <2>4 DEF Ascends
  <2>6. \A y \in k : y < x
    BY <2>1, <1>4
  <2> HIDE DEF n, k
  <2>7. jx \in [1..(n + 1) -> m]
    BY <2>2, <2>3, <2>5
  <2>8. ASSUME NEW i \in 1..(n + 1), NEW j \in 1..(n + 1), i < j
        PROVE  jx[i] < jx[j]
    <3>1. i \in 1..n
      BY <2>2, <2>8
    <3>2. CASE j <= n
      BY <3>1, <3>2, <2>2, <2>5, <2>8
    <3>3. CASE ~(j <= n)
      BY <3>1, <3>3, <2>2, <2>5, <2>6, <2>8
    <3>4. QED BY <3>2, <3>3
  <2> HIDE DEF jx
  <2>9. Ascends(jx, m)
    BY <2>2, <2>7, <2>8 DEF Ascends
  <2>10. QED BY <2>9, <1>4
<1>9. QED BY <1>7, <1>8

\* Ascending enumerates its set, every element once.
LEMMA AscendingFacts ==
  ASSUME NEW S \in SUBSET Nat, IsFiniteSet(S)
  PROVE  /\ Cardinality(S) \in Nat
         /\ Ascending(S) \in [1..Cardinality(S) -> S]
         /\ \A i, j \in 1..Cardinality(S) : Ascending(S)[i] = Ascending(S)[j] => i = j
         /\ \A x \in S : \E i \in 1..Cardinality(S) : Ascending(S)[i] = x
<1>1. Cardinality(S) \in Nat
  BY FS_CardinalityType
<1> DEFINE n == Cardinality(S)
           ix == Ascending(S)
<1>2. PICK jx : Ascends(jx, S)
  BY AscendingExists
<1>3. ix \in [1..n -> S] /\ \A i, j \in 1..n : i < j => ix[i] < ix[j]
  BY <1>2 DEF Ascends, Ascending
<1> HIDE DEF ix
<1>4. \A i, j \in 1..n : ix[i] = ix[j] => i = j
  <2> SUFFICES ASSUME NEW i \in 1..n, NEW j \in 1..n, ix[i] = ix[j], i # j PROVE FALSE
    OBVIOUS
  <2>1. ix[i] \in Nat /\ ix[j] \in Nat
    BY <1>3
  <2>2. i < j \/ j < i
    BY <1>1
  <2>3. QED BY <1>3, <2>1, <2>2
<1>5. ix \in Injection(1..n, S)
  BY <1>3, <1>4 DEF Injection, IsInjective
<1>6. Cardinality(1..n) = Cardinality(S)
  BY <1>1, FS_Interval
<1>7. ix \in Surjection(1..n, S)
  BY <1>5, <1>6, FS_Injection
<1>8. \A x \in S : \E i \in 1..n : ix[i] = x
  BY <1>7 DEF Surjection
<1>9. QED BY <1>1, <1>3, <1>4, <1>8 DEF ix

\* What Keep keeps are the chosen lines, each as often as it was there.
LEMMA KeepFacts ==
  ASSUME NEW T, NEW lines \in Seq(T), NEW those
  PROVE  /\ Keep(lines, those) \in Seq(T)
         /\ Len(Keep(lines, those)) <= Len(lines)
         /\ \A n \in DOMAIN Keep(lines, those) : \E i \in those \cap DOMAIN lines : Keep(lines, those)[n] = lines[i]
         /\ \A i \in those \cap DOMAIN lines : \E n \in DOMAIN Keep(lines, those) : Keep(lines, those)[n] = lines[i]
         /\ (\A i, j \in DOMAIN lines : lines[i] = lines[j] => i = j) =>
              \A i, j \in DOMAIN Keep(lines, those) : Keep(lines, those)[i] = Keep(lines, those)[j] => i = j
<1> DEFINE S == those \cap DOMAIN lines
           ix == Ascending(S)
           n == Cardinality(S)
           new == Keep(lines, those)
<1>1. /\ Len(lines) \in Nat /\ DOMAIN lines = 1..Len(lines) /\ S \in SUBSET (1..Len(lines))
      /\ \A i \in DOMAIN lines : lines[i] \in T
  OBVIOUS
<1>2. /\ IsFiniteSet(1..Len(lines)) /\ Cardinality(1..Len(lines)) = Len(lines)
  <2> DEFINE k == Len(lines)
  <2>1. 1 \in Int /\ k \in Int /\ k \in Nat
    BY <1>1
  <2> HIDE DEF k
  <2>2. IsFiniteSet(1..k) /\ Cardinality(1..k) = IF 1 > k THEN 0 ELSE k - 1 + 1
    BY <2>1, FS_Interval
  <2>3. Cardinality(1..k) = k
    BY <2>1, <2>2
  <2>4. QED BY <2>2, <2>3 DEF k
<1>3. IsFiniteSet(S) /\ n <= Len(lines) /\ S \in SUBSET Nat
  <2>1. IsFiniteSet(S) /\ Cardinality(S) <= Cardinality(1..Len(lines))
    <3> HIDE DEF S
    <3>1. QED BY <1>1, <1>2, FS_Subset
  <2>2. 1..Len(lines) \in SUBSET Nat
    BY <1>1
  <2>3. S \in SUBSET Nat
    BY <1>1, <2>2
  <2>4. QED BY <1>2, <2>1, <2>3
<1>4. /\ n \in Nat /\ ix \in [1..n -> S]
      /\ \A i, j \in 1..n : ix[i] = ix[j] => i = j
      /\ \A x \in S : \E i \in 1..n : ix[i] = x
  <2> HIDE DEF S
  <2>1. QED BY <1>3, AscendingFacts
<1>5. new = [i \in DOMAIN ix |-> lines[ix[i]]]
  BY DEF Keep
<1> HIDE DEF new, ix, n
<1>6. DOMAIN ix = 1..n
  BY <1>4
<1>7. new \in [1..n -> T]
  BY <1>1, <1>4, <1>5, <1>6
<1>8. new \in Seq(T) /\ Len(new) = n /\ DOMAIN new = 1..n
  BY <1>4, <1>7
<1>9. \A i \in 1..n : new[i] = lines[ix[i]] /\ ix[i] \in S
  BY <1>4, <1>5, <1>6
<1>10. \A i \in S : \E k \in 1..n : new[k] = lines[i]
  BY <1>4, <1>9
<1>11. (\A i, j \in DOMAIN lines : lines[i] = lines[j] => i = j) => \A i, j \in 1..n : new[i] = new[j] => i = j
  BY <1>4, <1>9
<1>12. QED BY <1>3, <1>8, <1>9, <1>10, <1>11 DEF new
-----------------------------------------------------------------------------
LineSum(h) == SumFunction([p \in DOMAIN h |-> LineBytes * Len(h[p])])

\* The assumption on the constants, taken apart.
LEMMA ConstantTypes ==
  /\ IsFiniteSet(Projects) /\ None \notin Nat /\ None \notin Projects /\ ArchiveBytes \subseteq Nat
  /\ LineBytes \in Nat /\ CacheSize \in Nat /\ Earlier \in Nat /\ MaxRuns \in Nat /\ MaxClears \in Nat
  /\ Earlier <= MaxRuns
  BY HistoryAssumption

LEMMA RunsFinite == IsFiniteSet(Runs)
<1>1. IsFiniteSet(1..MaxRuns)
  BY ConstantTypes, FS_Interval
<1>2. QED BY <1>1, ConstantTypes, FS_Product DEF Runs

\* The bytes are those of the archives and those of the histories.
LEMMA TotalIs ==
  TotalBytes = SumFunction(archive) + LineSum(history)
<1>1. [p \in DOMAIN history |-> SizeOf(p)] = [p \in DOMAIN history |-> LineBytes * Len(history[p])]
  BY DEF SizeOf
<1>2. QED BY <1>1 DEF TotalBytes, LineSum

\* A sum over a finite function without one of its points, and with another value at it.
LEMMA SumWithout ==
  ASSUME NEW f, IsFiniteSet(DOMAIN f), \A x \in DOMAIN f : f[x] \in Nat, NEW x
  PROVE  /\ SumFunction(f) \in Nat
         /\ SumFunction(Restrict(f, DOMAIN f \ {x})) \in Nat
         /\ SumFunction(f) = SumFunction(Restrict(f, DOMAIN f \ {x}))
                             + IF x \in DOMAIN f THEN f[x] ELSE 0
<1> DEFINE S == DOMAIN f
           T == S \ {x}
           g == Restrict(f, T)
<1>1. DOMAIN g = T /\ \A y \in T : g[y] = f[y]
  BY DEF Restrict
<1>2. IsFiniteSet(T)
  BY FS_RemoveElement
<1>3. SumFunction(f) = SumFunctionOnSet(f, S) /\ SumFunction(g) = SumFunctionOnSet(g, T)
  BY <1>1 DEF SumFunction
<1>4. SumFunctionOnSet(g, T) = SumFunctionOnSet(f, T)
  <2> HIDE DEF T, g
  <2>1. QED BY <1>1, <1>2, SumAgree
<1>5. SumFunctionOnSet(f, S) \in Nat /\ \A y \in S : SumFunctionOnSet(f, S) = f[y] + SumFunctionOnSet(f, S \ {y})
  <2> HIDE DEF S
  <2>1. QED BY SumRemove DEF S
<1>6. SumFunctionOnSet(f, T) \in Nat
  <2>1. \A y \in T : f[y] \in Nat
    OBVIOUS
  <2> HIDE DEF T
  <2>2. QED BY <1>2, <2>1, SumRemove
<1>7. CASE x \in S
  <2>1. SumFunctionOnSet(f, S) = f[x] + SumFunctionOnSet(f, T)
    BY <1>5, <1>7
  <2>2. f[x] \in Nat
    BY <1>7
  <2> HIDE DEF S, T, g
  <2>3. QED BY <1>3, <1>4, <1>5, <1>6, <1>7, <2>1, <2>2 DEF S, T, g
<1>8. CASE x \notin S
  <2>1. T = S
    BY <1>8
  <2> HIDE DEF S, T, g
  <2>2. QED BY <1>3, <1>4, <1>5, <1>6, <1>8, <2>1 DEF S, T, g
<1>9. QED BY <1>7, <1>8

\* A sum with another value at a point.
LEMMA SumPut ==
  ASSUME NEW f, IsFiniteSet(DOMAIN f), \A y \in DOMAIN f : f[y] \in Nat, NEW x \in DOMAIN f, NEW v \in Nat
  PROVE  /\ SumFunction(Put(f, x, v)) \in Nat
         /\ SumFunction(Put(f, x, v)) + f[x] = SumFunction(f) + v
<1> DEFINE g == Put(f, x, v)
           S == DOMAIN f
<1>1. DOMAIN g = S /\ g[x] = v /\ \A y \in S \ {x} : g[y] = f[y]
  BY DEF Put
<1>2. \A y \in S : g[y] \in Nat
  BY <1>1
<1>3. Restrict(g, S \ {x}) = Restrict(f, S \ {x})
  <2> HIDE DEF g, S
  <2>1. QED BY <1>1 DEF Restrict
<1> HIDE DEF g
<1>4. SumFunction(g) \in Nat /\ SumFunction(g) = SumFunction(Restrict(g, S \ {x})) + v
  BY <1>1, <1>2, SumWithout
<1>5. /\ SumFunction(f) \in Nat /\ SumFunction(Restrict(f, S \ {x})) \in Nat
      /\ SumFunction(f) = SumFunction(Restrict(f, S \ {x})) + f[x]
  BY SumWithout
<1>6. f[x] \in Nat
  OBVIOUS
<1>7. QED BY <1>3, <1>4, <1>5, <1>6 DEF g

\* The bytes of all histories without one of them, and with one replaced.
LEMMA LineSumFacts ==
  ASSUME NEW h, IsFiniteSet(DOMAIN h), NEW T, \A p \in DOMAIN h : h[p] \in Seq(T)
  PROVE  /\ LineSum(h) \in Nat
         /\ \A p \in DOMAIN h :
              /\ LineSum(Restrict(h, DOMAIN h \ {p})) \in Nat
              /\ LineSum(h) = LineSum(Restrict(h, DOMAIN h \ {p})) + LineBytes * Len(h[p])
         /\ \A p \in DOMAIN h : \A new \in Seq(T) :
              LineSum(Put(h, p, new)) + LineBytes * Len(h[p]) = LineSum(h) + LineBytes * Len(new)
<1> DEFINE f == [p \in DOMAIN h |-> LineBytes * Len(h[p])]
<1>1. DOMAIN f = DOMAIN h /\ \A p \in DOMAIN f : f[p] = LineBytes * Len(h[p])
  OBVIOUS
<1>2. \A s \in Seq(T) : LineBytes * Len(s) \in Nat
  <2>1. \A s \in Seq(T) : Len(s) \in Nat
    OBVIOUS
  <2>2. \A i, j \in Nat : i * j \in Nat
    OBVIOUS
  <2>3. QED BY <2>1, <2>2, ConstantTypes
<1>3. \A p \in DOMAIN f : f[p] \in Nat
  BY <1>1, <1>2
<1>4. LineSum(h) = SumFunction(f)
  BY DEF LineSum
<1>5. ASSUME NEW p \in DOMAIN h
      PROVE  LineSum(Restrict(h, DOMAIN h \ {p})) = SumFunction(Restrict(f, DOMAIN f \ {p}))
  <2> DEFINE g == Restrict(h, DOMAIN h \ {p})
  <2>1. [q \in DOMAIN g |-> LineBytes * Len(g[q])] = Restrict(f, DOMAIN f \ {p})
    BY <1>1 DEF Restrict
  <2>2. QED BY <2>1 DEF LineSum
<1>6. ASSUME NEW p \in DOMAIN h, NEW new \in Seq(T)
      PROVE  LineSum(Put(h, p, new)) = SumFunction(Put(f, p, LineBytes * Len(new)))
  <2> DEFINE g == Put(h, p, new)
  <2>1. [q \in DOMAIN g |-> LineBytes * Len(g[q])] = Put(f, p, LineBytes * Len(new))
    BY <1>1 DEF Put
  <2>2. QED BY <2>1 DEF LineSum
<1> HIDE DEF f
<1>7. IsFiniteSet(DOMAIN f)
  BY <1>1
<1>8. LineSum(h) \in Nat
  BY <1>3, <1>4, <1>7, SumWithout
<1>9. ASSUME NEW p \in DOMAIN h
      PROVE  /\ LineSum(Restrict(h, DOMAIN h \ {p})) \in Nat
             /\ LineSum(h) = LineSum(Restrict(h, DOMAIN h \ {p})) + LineBytes * Len(h[p])
  BY <1>1, <1>3, <1>4, <1>5, <1>7, SumWithout
<1>10. ASSUME NEW p \in DOMAIN h, NEW new \in Seq(T)
       PROVE  LineSum(Put(h, p, new)) + LineBytes * Len(h[p]) = LineSum(h) + LineBytes * Len(new)
  <2>1. LineBytes * Len(new) \in Nat
    BY <1>2
  <2>2. SumFunction(Put(f, p, LineBytes * Len(new))) + f[p] = SumFunction(f) + LineBytes * Len(new)
    BY <1>1, <1>3, <1>7, <2>1, SumPut
  <2>3. QED BY <1>1, <1>4, <1>6, <2>2
<1>11. QED BY <1>8, <1>9, <1>10
-----------------------------------------------------------------------------
InHistory(p, r) == p \in DOMAIN history /\ \E i \in DOMAIN history[p] : history[p][i] = r
InHand(p, r) == \E w \in Projects :
  worker[w].file = p /\ \E i \in DOMAIN worker[w].lines : worker[w].lines[i] = r
Wrote(p, r) == InHistory(p, r) \/ InHand(p, r) \/ worker[p].run = r
Once(s) == \A i, j \in DOMAIN s : s[i] = s[j] => i = j
NoneGone == [p \in Projects |-> {}]

Numbered ==
  /\ \A p \in DOMAIN history : Once(history[p])
  /\ \A w \in Projects : Once(worker[w].lines)
  /\ \A p \in Projects, r \in 1..MaxRuns : Wrote(p, r) => r <= lastRun
  /\ \A p, q \in Projects, r \in 1..MaxRuns : Wrote(p, r) /\ Wrote(q, r) => p = q
  /\ \A w \in Projects : worker[w].at \in {"archived", "addArchive", "write"} =>
       ~InHistory(w, worker[w].run) /\ ~InHand(w, worker[w].run)

Local(w) ==
  /\ worker[w].at # "rest" => worker[w].run \in 1..MaxRuns
  /\ worker[w].file # None <=> worker[w].at \in {"read", "replace"}
  /\ worker[w].at # "replace" => worker[w].lines = << >>
  /\ worker[w].at \notin {"evict", "read", "replace", "store", "pruned"} =>
       worker[w].evicted = {} /\ worker[w].gone = NoneGone
  /\ \A x, y \in worker[w].found : x.run = y.run => x = y

HInv == TypeOK /\ Numbered /\ \A w \in Projects : Local(w)

FoundType == [of : Projects, line : Nat, run : 1..MaxRuns]

\* The types of a worker, field by field.
LEMMA Fields ==
  ASSUME TypeOK, NEW w \in Projects
  PROVE  /\ worker[w].at \in {"rest", "archived", "addArchive", "write", "appended", "addLine", "walk",
                              "collect", "evict", "read", "replace", "store", "pruned"}
         /\ worker[w].run \in 0..MaxRuns /\ worker[w].bytes \in Nat /\ worker[w].total \in Nat
         /\ worker[w].reclaimed \in Nat /\ worker[w].target \in Nat
         /\ worker[w].found \in SUBSET FoundType
         /\ worker[w].gone \in [Projects -> SUBSET Nat] /\ worker[w].evicted \in SUBSET Runs
         /\ worker[w].file \in Projects \cup {None} /\ worker[w].kept \in SUBSET Nat
         /\ worker[w].lines \in Seq(1..MaxRuns)
<1>1. worker[w] \in Pruning
  BY DEF TypeOK
<1>2. QED BY <1>1 DEF Pruning, FoundType

LEMMA Rest == AtRest \in Pruning
<1>1. << >> \in Seq(1..MaxRuns)
  OBVIOUS
<1>2. [p \in Projects |-> {}] \in [Projects -> SUBSET Nat]
  OBVIOUS
<1>3. 0 \in 0..MaxRuns /\ 0 \in Nat
  BY ConstantTypes
<1>4. QED BY <1>1, <1>2, <1>3 DEF AtRest, Pruning

\* All counts of bytes are naturals.
LEMMA BytesNat ==
  ASSUME TypeOK
  PROVE  /\ TotalBytes \in Nat
         /\ \A p \in Projects : ProjectBytes(p) \in Nat /\ SizeOf(p) \in Nat
         /\ \A e \in DOMAIN archive : archive[e] \in Nat
<1>1. IsFiniteSet(DOMAIN archive) /\ IsFiniteSet(DOMAIN history)
  BY RunsFinite, ConstantTypes, FS_Subset DEF TypeOK
<1>2. \A e \in DOMAIN archive : archive[e] \in Nat
  BY ConstantTypes DEF TypeOK
<1>3. \A p \in DOMAIN history : history[p] \in Seq(1..MaxRuns)
  BY DEF TypeOK
<1>4. TotalBytes \in Nat
  <2>1. SumFunction(archive) \in Nat
    BY <1>1, <1>2, SumWithout
  <2>2. LineSum(history) \in Nat
    BY <1>1, <1>3, LineSumFacts
  <2>3. QED BY <2>1, <2>2, TotalIs
<1>5. ASSUME NEW p \in Projects PROVE SizeOf(p) \in Nat
  <2>1. CASE p \in DOMAIN history
    <3>1. Len(history[p]) \in Nat
      BY <2>1, <1>3
    <3>2. \A i, j \in Nat : i * j \in Nat
      OBVIOUS
    <3>3. QED BY <2>1, <3>1, <3>2, ConstantTypes DEF SizeOf
  <2>2. CASE p \notin DOMAIN history
    BY <2>2 DEF SizeOf
  <2>3. QED BY <2>1, <2>2
<1>6. ASSUME NEW p \in Projects PROVE ArchivesOf(p) \in Nat
  <2> DEFINE S == {e \in DOMAIN archive : e[1] = p}
  <2>1. S \in SUBSET DOMAIN archive /\ \A e \in S : archive[e] \in Nat
    BY <1>2
  <2>2. IsFiniteSet(S)
    BY <1>1, <2>1, FS_Subset
  <2> HIDE DEF S
  <2>3. SumFunctionOnSet(archive, S) \in Nat
    BY <2>1, <2>2, SumRemove
  <2>4. QED BY <2>3 DEF ArchivesOf, S
<1>7. QED BY <1>2, <1>4, <1>5, <1>6 DEF ProjectBytes

\* Subtraction saturates.
LEMMA MinusNat ==
  ASSUME NEW n \in Nat, NEW m \in Nat
  PROVE  Minus(n, m) \in Nat /\ Minus(n, m) <= n
  BY DEF Minus

LEMMA BatchNat == Batch \in Nat /\ Batch > 0
  BY ConstantTypes DEF Batch

\* The oldest of some runs with different numbers is one of them, and older than the others.
LEMMA OldestIn ==
  ASSUME NEW S \in SUBSET FoundType, S # {}, \A x, y \in S : x.run = y.run => x = y
  PROVE  Oldest(S) \in S /\ \A y \in S \ {Oldest(S)} : Before(Oldest(S), y)
<1> DEFINE N == {x.run : x \in S}
           R == {ij \in Nat \X Nat : ij[1] < ij[2]}
<1>1. N \subseteq Nat /\ N # {}
  BY ConstantTypes DEF FoundType
<1>2. IsWellFoundedOn(R, Nat)
  BY NatLessThanWellFounded DEF OpToRel
<1>3. PICK n \in N : \A m \in N : ~(<<m, n>> \in R)
  <2> HIDE DEF N, R
  <2>1. QED BY <1>1, <1>2, WFMin
<1>4. ASSUME NEW m \in N PROVE n <= m
  <2>1. m \in Nat /\ n \in Nat
    BY <1>1
  <2>2. <<m, n>> \in Nat \X Nat /\ ~(m < n)
    BY <1>3, <2>1
  <2>3. QED BY <2>1, <2>2
<1>5. PICK x \in S : x.run = n
  OBVIOUS
<1>6. ASSUME NEW y \in S \ {x} PROVE Before(x, y)
  <2>1. y.run # x.run
    BY <1>6
  <2>2. x.run \in Nat /\ y.run \in Nat /\ x.run <= y.run
    BY <1>1, <1>4, <1>5
  <2>3. QED BY <2>1, <2>2 DEF Before
<1>7. QED BY <1>6 DEF Oldest
-----------------------------------------------------------------------------
\* A step that changes one worker only.
OnlyWorker(w) == /\ DOMAIN worker' = Projects
                 /\ \A v \in Projects \ {w} : worker'[v] = worker[v]

\* A worker's fields may change, as long as they keep their types.
LEMMA UpdateTyped ==
  ASSUME TypeOK, NEW w \in Projects, NEW r \in Pruning, worker' = [worker EXCEPT ![w] = r]
  PROVE  worker' \in [Projects -> Pruning]
  BY DEF TypeOK

\* Numbers of runs stay within their bound.
LEMMA NextRun ==
  ASSUME TypeOK, NEW w \in Projects, ArchiveRun(w)
  PROVE  lastRun' = lastRun + 1 /\ lastRun' \in 1..MaxRuns /\ lastRun' \in 0..MaxRuns /\ lastRun \in Nat
<1>1. lastRun \in 0..MaxRuns /\ MaxRuns \in Nat
  BY ConstantTypes DEF TypeOK
<1>2. lastRun' = lastRun + 1 /\ lastRun < MaxRuns
  BY DEF ArchiveRun
<1>3. QED BY <1>1, <1>2

\* Every step keeps the types: those that end a run, ...
LEMMA ArchiveRunTyped ==
  ASSUME HInv, NEW w \in Projects, ArchiveRun(w)
  PROVE  TypeOK'
<1>1. TypeOK /\ lastRun \in 0..MaxRuns /\ MaxRuns \in Nat
  BY ConstantTypes DEF HInv, TypeOK
<1>2. lastRun' = lastRun + 1 /\ lastRun' \in 1..MaxRuns /\ lastRun' \in 0..MaxRuns
  BY <1>1, NextRun
<1>3. PICK b \in ArchiveBytes :
        /\ archive' = IF b > 0 THEN Put(archive, <<w, lastRun'>>, b) ELSE archive
        /\ worker' = [worker EXCEPT ![w].at = IF b > 0 THEN "archived" ELSE "write",
                                    ![w].run = lastRun', ![w].bytes = b]
  BY DEF ArchiveRun
<1>4. b \in Nat
  BY ConstantTypes
<1>5. worker' \in [Projects -> Pruning]
  <2> DEFINE r == [worker[w] EXCEPT !.at = IF b > 0 THEN "archived" ELSE "write",
                                    !.run = lastRun', !.bytes = b]
  <2>1. worker[w] \in Pruning
    BY <1>1 DEF TypeOK
  <2>2. r \in Pruning
    BY <1>2, <1>4, <2>1 DEF Pruning
  <2>3. worker' = [worker EXCEPT ![w] = r]
    BY <1>3
  <2> HIDE DEF r
  <2>4. QED BY <1>1, <2>2, <2>3, UpdateTyped
<1>6. DOMAIN archive' \subseteq Runs /\ \A e \in DOMAIN archive' : archive'[e] \in ArchiveBytes \ {0}
  <2>1. CASE b > 0
    <3>1. <<w, lastRun'>> \in Runs
      BY <1>2 DEF Runs
    <3>2. b \in ArchiveBytes \ {0}
      BY <2>1, <1>4
    <3>3. QED BY <1>1, <1>3, <2>1, <3>1, <3>2 DEF TypeOK, Put
  <2>2. CASE ~(b > 0)
    BY <1>1, <1>3, <2>2 DEF TypeOK
  <2>3. QED BY <2>1, <2>2
<1>7. UNCHANGED <<history, index, torn, app, clears>> /\ calm' \subseteq Projects
  BY <1>1 DEF ArchiveRun, Disturb, TypeOK
<1>8. QED BY <1>1, <1>2, <1>5, <1>6, <1>7 DEF TypeOK

LEMMA AtTyped ==
  ASSUME TypeOK, NEW w \in Projects,
         NEW a \in {"rest", "archived", "addArchive", "write", "appended", "addLine", "walk",
                    "collect", "evict", "read", "replace", "store", "pruned"},
         worker' = [worker EXCEPT ![w].at = a]
  PROVE  worker' \in [Projects -> Pruning]
<1>1. worker[w] \in Pruning
  BY DEF TypeOK
<1>2. [worker[w] EXCEPT !.at = a] \in Pruning
  BY <1>1 DEF Pruning
<1>3. worker' = [worker EXCEPT ![w] = [worker[w] EXCEPT !.at = a]]
  OBVIOUS
<1>4. QED BY <1>2, <1>3, UpdateTyped

LEMMA AppendTyped ==
  ASSUME HInv, NEW w \in Projects, AppendLine(w)
  PROVE  TypeOK'
<1>1. TypeOK /\ worker[w].run \in 1..MaxRuns
  BY DEF HInv, Local, AppendLine
<1> DEFINE old == IF w \in DOMAIN history THEN history[w] ELSE << >>
<1>2. old \in Seq(1..MaxRuns)
  <2>1. << >> \in Seq(1..MaxRuns)
    OBVIOUS
  <2>2. w \in DOMAIN history => history[w] \in Seq(1..MaxRuns)
    BY <1>1 DEF TypeOK
  <2>3. QED BY <2>1, <2>2
<1> HIDE DEF old
<1>3. Append(old, worker[w].run) \in Seq(1..MaxRuns)
  BY <1>1, <1>2
<1>4. history' = Put(history, w, Append(old, worker[w].run))
  BY DEF AppendLine, old
<1>5. DOMAIN history' \subseteq Projects /\ \A p \in DOMAIN history' : history'[p] \in Seq(1..MaxRuns)
  BY <1>1, <1>3, <1>4 DEF TypeOK, Put
<1>6. worker' \in [Projects -> Pruning]
  BY <1>1, AtTyped DEF AppendLine, Step
<1>7. UNCHANGED <<archive, index, torn, lastRun, app, clears>> /\ calm' \subseteq Projects
  BY <1>1 DEF AppendLine, TypeOK, Disturb
<1>8. QED BY <1>1, <1>5, <1>6, <1>7 DEF TypeOK

LEMMA ReturnTyped ==
  ASSUME TypeOK, NEW w \in Projects, worker' = [worker EXCEPT ![w] = AtRest]
  PROVE  worker' \in [Projects -> Pruning]
  BY Rest DEF TypeOK

\* However a write of the count begins or ends, the count is a number, drifted or none.
LEMMA IndexTyped ==
  ASSUME TypeOK, NEW n \in Nat \cup {Drifted},
         BeginWrite \/ EndWrite(n) \/ UNCHANGED <<index, torn>>
  PROVE  index' \in Nat \cup {None, Drifted} /\ torn' \in BOOLEAN
<1>1. index \in Nat \cup {None, Drifted} /\ torn \in BOOLEAN
  BY DEF TypeOK
<1>2. CASE BeginWrite
  <2>1. index' = index /\ torn' = (torn \/ Writing)
    BY <1>2 DEF BeginWrite
  <2> HIDE DEF Writing
  <2>2. torn' \in BOOLEAN
    BY <2>1
  <2>3. QED BY <1>1, <2>1, <2>2
<1>3. CASE EndWrite(n)
  <2> DEFINE busy == Writing'
  <2>1. index' \in {n, None, Drifted}
    BY <1>3 DEF EndWrite
  <2>2. torn' = (torn /\ busy)
    BY <1>3 DEF EndWrite
  <2> HIDE DEF busy
  <2>3. torn' \in BOOLEAN
    BY <2>2
  <2>4. QED BY <2>1, <2>3
<1>4. CASE UNCHANGED <<index, torn>>
  BY <1>1, <1>4
<1>5. QED BY <1>2, <1>3, <1>4

LEMMA CountTyped ==
  ASSUME HInv, NEW w \in Projects, AddArchive(w) \/ AppendFails(w) \/ AddLine(w)
  PROVE  TypeOK'
<1>1. TypeOK
  BY DEF HInv
<1>2. worker' \in [Projects -> Pruning]
  <2>1. CASE AppendFails(w)
    BY <1>1, <2>1, ReturnTyped DEF AppendFails
  <2>2. CASE AddArchive(w) \/ AddLine(w)
    <3>1. PICK a \in {"addArchive", "write", "addLine", "walk"} : worker' = [worker EXCEPT ![w].at = a]
      BY <2>2 DEF AddArchive, AddLine, Step
    <3>2. QED BY <1>1, <3>1, AtTyped
  <2>3. QED BY <2>1, <2>2
<1>3. BeginWrite \/ EndWrite(Drifted) \/ UNCHANGED <<index, torn>>
  BY DEF AddArchive, AppendFails, AddLine, BeginAdjust, SkipAdjust, EndAdjust
<1>4. index' \in Nat \cup {None, Drifted} /\ torn' \in BOOLEAN
  <2>1. \A n : n = Drifted => n \in Nat \cup {Drifted}
    OBVIOUS
  <2>2. QED BY <1>1, <1>3, <2>1, IndexTyped
<1>5. UNCHANGED <<history, archive, calm, lastRun, app, clears>>
  BY DEF AddArchive, AppendFails, AddLine, Files
<1>6. QED BY <1>1, <1>2, <1>4, <1>5 DEF TypeOK

\* ... those of a prune, ...
LEMMA WalkTyped ==
  ASSUME HInv, NEW w \in Projects, Walk(w)
  PROVE  TypeOK'
<1>1. TypeOK /\ TotalBytes \in Nat
  BY BytesNat DEF HInv
<1>2. worker' \in [Projects -> Pruning]
  <2>1. CASE Return(w)
    BY <1>1, <2>1, ReturnTyped DEF Return
  <2>2. CASE worker' = [worker EXCEPT ![w].at = "collect", ![w].total = TotalBytes]
    <3> DEFINE r == [worker[w] EXCEPT !.at = "collect", !.total = TotalBytes]
    <3>1. worker[w] \in Pruning
      BY <1>1 DEF TypeOK
    <3>2. r \in Pruning
      BY <1>1, <3>1 DEF Pruning
    <3>3. worker' = [worker EXCEPT ![w] = r]
      BY <2>2
    <3> HIDE DEF r
    <3>4. QED BY <1>1, <3>2, <3>3, UpdateTyped
  <2>3. QED BY <2>1, <2>2 DEF Walk
<1>3. UNCHANGED <<history, archive, index, torn, lastRun, app, clears>> /\ calm' \subseteq Projects
  BY <1>1 DEF Walk, Return, TypeOK
<1>4. QED BY <1>1, <1>2, <1>3 DEF TypeOK

LEMMA SeqParts ==
  ASSUME NEW S, NEW s \in Seq(S)
  PROVE  /\ Len(s) \in Nat /\ DOMAIN s = 1..Len(s) /\ DOMAIN s \in SUBSET Nat
         /\ \A i \in DOMAIN s : s[i] \in S
  OBVIOUS

FoundNow == {[of |-> x[1], line |-> x[2], run |-> history[x[1]][x[2]]] :
               x \in UNION {{p} \X DOMAIN history[p] : p \in DOMAIN history}}

\* What Collect finds are the lines of the histories.
LEMMA FoundNowFacts ==
  ASSUME TypeOK
  PROVE  /\ FoundNow \in SUBSET FoundType
         /\ \A x \in FoundNow : x.of \in DOMAIN history /\ x.line \in DOMAIN history[x.of]
                                /\ x.run = history[x.of][x.line]
         /\ \A p \in DOMAIN history : \A i \in DOMAIN history[p] :
              [of |-> p, line |-> i, run |-> history[p][i]] \in FoundNow
<1>1. ASSUME NEW x \in FoundNow
      PROVE  /\ x \in FoundType
             /\ x.of \in DOMAIN history /\ x.line \in DOMAIN history[x.of] /\ x.run = history[x.of][x.line]
  <2>1. PICK p \in DOMAIN history : \E i \in DOMAIN history[p] : x = [of |-> p, line |-> i, run |-> history[p][i]]
    BY DEF FoundNow
  <2> PICK i \in DOMAIN history[p] : x = [of |-> p, line |-> i, run |-> history[p][i]]
    BY <2>1
  <2>2. history[p] \in Seq(1..MaxRuns) /\ p \in Projects
    BY DEF TypeOK
  <2>3. i \in Nat /\ history[p][i] \in 1..MaxRuns
    <3> DEFINE S == 1..MaxRuns
    <3>1. history[p] \in Seq(S)
      BY <2>2
    <3> HIDE DEF S
    <3>2. i \in Nat /\ history[p][i] \in S
      BY <3>1, SeqParts
    <3>3. QED BY <3>2 DEF S
  <2>4. QED BY <2>1, <2>2, <2>3 DEF FoundType
<1>2. ASSUME NEW p \in DOMAIN history, NEW i \in DOMAIN history[p]
      PROVE  [of |-> p, line |-> i, run |-> history[p][i]] \in FoundNow
  <2>1. <<p, i>> \in UNION {{q} \X DOMAIN history[q] : q \in DOMAIN history}
    OBVIOUS
  <2>2. QED BY <2>1 DEF FoundNow
<1>3. QED BY <1>1, <1>2

LEMMA CollectTyped ==
  ASSUME HInv, NEW w \in Projects, Collect(w)
  PROVE  TypeOK'
<1>1. TypeOK /\ FoundNow \in SUBSET FoundType /\ Batch \in Nat
  BY FoundNowFacts, BatchNat DEF HInv
<1>2. \/ Return(w)
      \/ /\ worker' = [worker EXCEPT ![w].at = "evict", ![w].found = FoundNow, ![w].target = Batch]
         /\ UNCHANGED calm
  BY DEF Collect, FoundNow
<1>3. worker' \in [Projects -> Pruning]
  <2>1. CASE Return(w)
    BY <1>1, <2>1, ReturnTyped DEF Return
  <2>2. CASE worker' = [worker EXCEPT ![w].at = "evict", ![w].found = FoundNow, ![w].target = Batch]
    <3> DEFINE r == [worker[w] EXCEPT !.at = "evict", !.found = FoundNow, !.target = Batch]
    <3>1. worker[w] \in Pruning
      BY <1>1 DEF TypeOK
    <3>2. r \in Pruning
      BY <1>1, <3>1 DEF Pruning, FoundType
    <3>3. worker' = [worker EXCEPT ![w] = r]
      BY <2>2
    <3> HIDE DEF r
    <3>4. QED BY <1>1, <3>2, <3>3, UpdateTyped
  <2>3. QED BY <1>2, <2>1, <2>2
<1>4. UNCHANGED <<history, archive, index, torn, lastRun, app, clears>> /\ calm' \subseteq Projects
  BY <1>1, <1>2 DEF Collect, Return, TypeOK
<1>5. QED BY <1>1, <1>3, <1>4 DEF TypeOK

\* What one eviction does.
BytesOf(x) == IF <<x.of, x.run>> \in DOMAIN archive THEN archive[<<x.of, x.run>>] ELSE 0
EvictsRun(w, x) ==
  /\ \A y \in Evictable(w) \ {x} : x.run < y.run
  /\ x \in FoundType /\ BytesOf(x) \in Nat
  /\ archive' = Restrict(archive, DOMAIN archive \ {<<x.of, x.run>>})
  /\ worker' = [worker EXCEPT
       ![w].found = @ \ {x}, ![w].total = Minus(@, BytesOf(x)), ![w].reclaimed = @ + BytesOf(x),
       ![w].gone[x.of] = @ \cup {x.line}, ![w].evicted = @ \cup {<<x.of, x.run>>},
       ![w].target = worker'[w].target]
  /\ worker'[w].target \in Nat

LEMMA EvictFacts ==
  ASSUME HInv, NEW w \in Projects, Evict(w)
  PROVE  \E x \in Evictable(w) : EvictsRun(w, x)
<1>1. TypeOK /\ Evictable(w) # {} /\ Evictable(w) \subseteq worker[w].found
  BY DEF HInv, Evict, Evicting, Evictable
<1>2. worker[w].found \in SUBSET FoundType
  BY <1>1, Fields
<1> DEFINE x == Oldest(Evictable(w))
<1>3. x \in Evictable(w) /\ \A y \in Evictable(w) \ {x} : Before(x, y)
  <2>1. \A y, z \in Evictable(w) : y.run = z.run => y = z
    BY <1>1 DEF HInv, Local
  <2>2. QED BY <1>1, <1>2, <2>1, OldestIn
<1> HIDE DEF x
<1> DEFINE e == <<x.of, x.run>>
           b == IF e \in DOMAIN archive THEN archive[e] ELSE 0
<1>4. b \in Nat
  BY <1>1, BytesNat
<1> DEFINE left == Minus(worker[w].total, b)
           reclaimed == worker[w].reclaimed + b
           target == IF reclaimed >= worker[w].target /\ left > CacheSize
                     THEN (reclaimed \div Batch + 1) * Batch ELSE worker[w].target
<1>5. target \in Nat
  <2>1. worker[w].reclaimed \in Nat /\ worker[w].target \in Nat
    BY <1>1, Fields
  <2>2. reclaimed \in Nat
    BY <2>1, <1>4
  <2> HIDE DEF reclaimed, left, b
  <2>3. reclaimed \div Batch \in Nat
    BY <2>2, BatchNat
  <2>4. \A i, j \in Nat : (i + 1) * j \in Nat
    OBVIOUS
  <2>5. (reclaimed \div Batch + 1) * Batch \in Nat
    BY <2>3, <2>4, BatchNat
  <2>6. QED BY <2>1, <2>5
<1>6. /\ archive' = Restrict(archive, DOMAIN archive \ {e})
      /\ worker' = [worker EXCEPT
           ![w].found = @ \ {x}, ![w].total = left, ![w].reclaimed = reclaimed,
           ![w].gone[x.of] = @ \cup {x.line}, ![w].evicted = @ \cup {e}, ![w].target = target]
  BY DEF Evict, x
<1>7. worker'[w].target = target
  BY <1>1, <1>6 DEF TypeOK, Pruning
<1>8. \A y \in Evictable(w) \ {x} : x.run < y.run
  BY <1>3 DEF Before
<1>9. x \in FoundType
  BY <1>1, <1>2, <1>3
<1> HIDE DEF target
<1>10. EvictsRun(w, x)
  BY <1>4, <1>5, <1>6, <1>7, <1>8, <1>9 DEF EvictsRun, BytesOf
<1>11. QED BY <1>3, <1>10

LEMMA EvictTyped ==
  ASSUME HInv, NEW w \in Projects, Evict(w)
  PROVE  TypeOK'
<1>1. TypeOK
  BY DEF HInv
<1> PICK x \in Evictable(w) : EvictsRun(w, x)
  BY EvictFacts
<1> DEFINE b == BytesOf(x)
<1>2. /\ x \in FoundType /\ b \in Nat
      /\ archive' = Restrict(archive, DOMAIN archive \ {<<x.of, x.run>>})
      /\ worker' = [worker EXCEPT
           ![w].found = @ \ {x}, ![w].total = Minus(@, b), ![w].reclaimed = @ + b,
           ![w].gone[x.of] = @ \cup {x.line}, ![w].evicted = @ \cup {<<x.of, x.run>>},
           ![w].target = worker'[w].target]
      /\ worker'[w].target \in Nat
  BY DEF EvictsRun
<1> HIDE DEF b
<1>3. worker' \in [Projects -> Pruning]
  <2> DEFINE me == worker[w]
             r == [me EXCEPT
                !.found = @ \ {x}, !.total = Minus(@, b), !.reclaimed = @ + b,
                !.gone[x.of] = @ \cup {x.line}, !.evicted = @ \cup {<<x.of, x.run>>},
                !.target = worker'[w].target]
  <2>1. me \in Pruning /\ me.reclaimed \in Nat /\ me.total \in Nat
    BY <1>1, Fields DEF TypeOK
  <2>2. Minus(me.total, b) \in Nat /\ me.reclaimed + b \in Nat
    <3> HIDE DEF me
    <3>1. Minus(me.total, b) \in Nat
      BY <1>2, <2>1, MinusNat
    <3>2. QED BY <1>2, <2>1, <3>1
  <2>3. <<x.of, x.run>> \in Runs /\ x.of \in Projects /\ x.line \in Nat
    BY <1>2 DEF FoundType, Runs
  <2> HIDE DEF me
  <2>4. r \in Pruning
    BY <1>2, <2>1, <2>2, <2>3 DEF Pruning
  <2>5. worker' = [worker EXCEPT ![w] = r]
    BY <1>2 DEF me
  <2> HIDE DEF r
  <2>6. QED BY <1>1, <2>4, <2>5, UpdateTyped
<1>4. DOMAIN archive' \subseteq Runs /\ \A e \in DOMAIN archive' : archive'[e] \in ArchiveBytes \ {0}
  BY <1>1, <1>2 DEF TypeOK, Restrict
<1>5. UNCHANGED <<history, index, torn, lastRun, app, clears>> /\ calm' \subseteq Projects
  BY <1>1 DEF Evict, TypeOK, Disturb
<1>6. QED BY <1>1, <1>3, <1>4, <1>5 DEF TypeOK

LEMMA CountLinesTyped ==
  ASSUME HInv, NEW w \in Projects, NEW p \in Projects, CountLines(w, p)
  PROVE  TypeOK'
<1>1. TypeOK /\ worker[w] \in Pruning
  BY DEF HInv, TypeOK
<1> DEFINE kept == Remaining(history[p], w, p)
           r == [worker[w] EXCEPT !.at = "read", !.file = p, !.kept = kept]
<1>2. \/ Return(w)
      \/ /\ p \in DOMAIN history
         /\ worker' = [worker EXCEPT ![w].at = "read", ![w].file = p, ![w].kept = kept]
         /\ UNCHANGED calm
  BY DEF CountLines
<1>3. p \in DOMAIN history => kept \in SUBSET Nat
  <2>1. p \in DOMAIN history => history[p] \in Seq(1..MaxRuns)
    BY <1>1 DEF TypeOK
  <2>2. p \in DOMAIN history => DOMAIN history[p] \in SUBSET Nat
    BY <2>1, SeqParts
  <2>3. QED BY <2>2 DEF Remaining
<1>4. p \in DOMAIN history => r \in Pruning
  <2> HIDE DEF kept
  <2>1. QED BY <1>1, <1>3 DEF Pruning
<1>5. worker' \in [Projects -> Pruning]
  <2>1. CASE Return(w)
    BY <1>1, <2>1, ReturnTyped DEF Return
  <2>2. CASE p \in DOMAIN history /\ worker' = [worker EXCEPT ![w].at = "read", ![w].file = p, ![w].kept = kept]
    <3>1. worker' = [worker EXCEPT ![w] = r]
      BY <2>2
    <3> HIDE DEF r
    <3>2. QED BY <1>1, <1>4, <2>2, <3>1, UpdateTyped
  <2>3. QED BY <1>2, <2>1, <2>2
<1>6. UNCHANGED <<history, archive, index, torn, lastRun, app, clears>> /\ calm' \subseteq Projects
  BY <1>1, <1>2 DEF CountLines, TypeOK, Return
<1>7. QED BY <1>1, <1>5, <1>6 DEF TypeOK

\* What a rewritten file leaves of what a worker holds.
LEMMA RewrittenFacts ==
  ASSUME TypeOK, NEW w \in Projects, NEW p \in Projects, p = worker[w].file,
         NEW b \in Nat, Rewritten(w, b)
  PROVE  /\ worker' \in [Projects -> Pruning] /\ OnlyWorker(w)
         /\ worker'[w].at = "evict" /\ worker'[w].file = None /\ worker'[w].lines = << >>
         /\ worker'[w].total = Minus(worker[w].total, b) /\ worker'[w].run = worker[w].run
         /\ worker'[w].found = worker[w].found /\ worker'[w].evicted = worker[w].evicted
         /\ worker'[w].gone = [worker[w].gone EXCEPT ![p] = {}]
         /\ worker'[w].reclaimed = worker[w].reclaimed /\ worker'[w].target = worker[w].target
<1> DEFINE me == worker[w]
           total == Minus(me.total, b)
           r == [me EXCEPT !.gone[p] = {}, !.at = "evict", !.file = None, !.kept = {},
                   !.lines = << >>, !.total = total]
<1>1. me \in Pruning /\ me.total \in Nat /\ worker \in [Projects -> Pruning]
  BY Fields DEF TypeOK
<1>2. total \in Nat
  BY <1>1, MinusNat
<1>3. r \in Pruning
  <2>1. << >> \in Seq(1..MaxRuns)
    OBVIOUS
  <2> HIDE DEF me, total
  <2>2. QED BY <1>1, <1>2, <2>1 DEF Pruning
<1>4. worker' = [worker EXCEPT ![w] = r]
  BY DEF Rewritten
<1>5. /\ r.at = "evict" /\ r.file = None /\ r.lines = << >> /\ r.total = total /\ r.run = me.run
      /\ r.found = me.found /\ r.evicted = me.evicted /\ r.gone = [me.gone EXCEPT ![p] = {}]
      /\ r.reclaimed = me.reclaimed /\ r.target = me.target
  <2> HIDE DEF me, total
  <2>1. QED BY <1>1 DEF Pruning
<1> HIDE DEF r
<1>6. worker'[w] = r /\ OnlyWorker(w)
  BY <1>1, <1>4 DEF OnlyWorker
<1>7. worker' \in [Projects -> Pruning]
  BY <1>3, <1>4, UpdateTyped
<1>8. QED BY <1>5, <1>6, <1>7

\* A file that is removed.
LEMMA RemoveFacts ==
  ASSUME HInv, NEW w \in Projects, RemoveFile(w)
  PROVE  /\ worker[w].at = "read" /\ worker[w].kept = {} /\ worker[w].file \in Projects
         /\ SizeOf(worker[w].file) \in Nat /\ Rewritten(w, SizeOf(worker[w].file)) /\ Disturb(w)
         /\ history' = Restrict(history, DOMAIN history \ {worker[w].file})
         /\ UNCHANGED <<archive, index, torn, lastRun, app, clears>>
<1>1. worker[w].file \in Projects
  BY Fields DEF HInv, Local, RemoveFile
<1>2. SizeOf(worker[w].file) \in Nat
  BY <1>1, BytesNat DEF HInv
<1>3. QED BY <1>1, <1>2 DEF RemoveFile

LEMMA RemoveFileTyped ==
  ASSUME HInv, NEW w \in Projects, RemoveFile(w)
  PROVE  TypeOK'
<1> DEFINE p == worker[w].file
<1>1. /\ TypeOK /\ p \in Projects /\ SizeOf(p) \in Nat /\ Rewritten(w, SizeOf(p)) /\ Disturb(w)
      /\ history' = Restrict(history, DOMAIN history \ {p})
      /\ UNCHANGED <<archive, index, torn, lastRun, app, clears>>
  BY RemoveFacts DEF HInv
<1>2. worker' \in [Projects -> Pruning]
  BY <1>1, RewrittenFacts
<1> HIDE DEF p
<1>3. calm' \subseteq Projects
  BY <1>1 DEF Disturb, TypeOK
<1>4. DOMAIN history' \subseteq Projects /\ \A q \in DOMAIN history' : history'[q] \in Seq(1..MaxRuns)
  BY <1>1 DEF TypeOK, Restrict
<1>5. QED BY <1>1, <1>2, <1>3, <1>4 DEF TypeOK

LEMMA ReadLinesTyped ==
  ASSUME HInv, NEW w \in Projects, ReadLines(w)
  PROVE  TypeOK'
<1>1. TypeOK /\ worker[w] \in Pruning
  BY DEF HInv, TypeOK
<1> DEFINE p == worker[w].file
           r == [worker[w] EXCEPT !.at = "replace", !.lines = history[p]]
<1>2. \/ Return(w)
      \/ /\ p \in DOMAIN history
         /\ worker' = [worker EXCEPT ![w].at = "replace", ![w].lines = history[p]]
         /\ UNCHANGED calm
  BY DEF ReadLines
<1>3. worker' \in [Projects -> Pruning]
  <2>1. CASE Return(w)
    BY <1>1, <2>1, ReturnTyped DEF Return
  <2>2. CASE p \in DOMAIN history /\ worker' = [worker EXCEPT ![w].at = "replace", ![w].lines = history[p]]
    <3>1. history[p] \in Seq(1..MaxRuns)
      BY <1>1, <2>2 DEF TypeOK
    <3>2. r \in Pruning
      <4> HIDE DEF p
      <4>1. QED BY <1>1, <3>1 DEF Pruning
    <3>3. worker' = [worker EXCEPT ![w] = r]
      BY <2>2
    <3> HIDE DEF r
    <3>4. QED BY <1>1, <3>2, <3>3, UpdateTyped
  <2>3. QED BY <1>2, <2>1, <2>2
<1>4. UNCHANGED <<history, archive, index, torn, lastRun, app, clears>> /\ calm' \subseteq Projects
  BY <1>1, <1>2 DEF ReadLines, TypeOK, Return
<1>5. QED BY <1>1, <1>3, <1>4 DEF TypeOK

\* What a replacement does.
LEMMA ReplaceFacts ==
  ASSUME HInv, NEW w \in Projects, Replace(w)
  PROVE  LET me == worker[w]
             new == Keep(me.lines, me.kept)
         IN /\ me.at = "replace" /\ me.file \in Projects /\ new \in Seq(1..MaxRuns) /\ Once(new)
            /\ Len(new) <= Len(me.lines) /\ Shrunk(me.lines, new) \in Nat
            /\ Shrunk(me.lines, new) = LineBytes * Len(me.lines) - LineBytes * Len(new)
            /\ \A n \in DOMAIN new : \E i \in me.kept \cap DOMAIN me.lines : new[n] = me.lines[i]
            /\ \A i \in me.kept \cap DOMAIN me.lines : \E n \in DOMAIN new : new[n] = me.lines[i]
            /\ \/ Return(w) /\ UNCHANGED history /\ ~HasDir(me.file)
               \/ /\ history' = Put(history, me.file, new)
                  /\ Rewritten(w, Shrunk(me.lines, new))
                  /\ Disturb(w)
<1> DEFINE me == worker[w]
           new == Keep(me.lines, me.kept)
<1>1. me.at = "replace" /\ me.file \in Projects /\ me.lines \in Seq(1..MaxRuns)
  BY Fields DEF HInv, Local, Replace
<1>2. Once(me.lines)
  BY DEF HInv, Numbered
<1> HIDE DEF me
<1>3. /\ new \in Seq(1..MaxRuns) /\ Len(new) <= Len(me.lines)
      /\ \A n \in DOMAIN new : \E i \in me.kept \cap DOMAIN me.lines : new[n] = me.lines[i]
      /\ \A i \in me.kept \cap DOMAIN me.lines : \E n \in DOMAIN new : new[n] = me.lines[i]
      /\ Once(new)
  BY <1>1, <1>2, KeepFacts DEF Once
<1> HIDE DEF new
<1>4. Len(new) \in Nat /\ Len(me.lines) \in Nat
  BY <1>1, <1>3, SeqParts
<1>5. /\ LineBytes * Len(new) \in Nat /\ LineBytes * Len(me.lines) \in Nat
      /\ LineBytes * Len(new) <= LineBytes * Len(me.lines)
  <2>1. \A i, j, k \in Nat : j <= k => i * j \in Nat /\ i * k \in Nat /\ i * j <= i * k
    OBVIOUS
  <2>2. QED BY <1>3, <1>4, <2>1, ConstantTypes
<1>6. Shrunk(me.lines, new) \in Nat /\ Shrunk(me.lines, new) = LineBytes * Len(me.lines) - LineBytes * Len(new)
  <2>1. \A i, j \in Nat : i <= j => Minus(j, i) \in Nat /\ Minus(j, i) = j - i
    BY DEF Minus
  <2>2. QED BY <1>5, <2>1 DEF Shrunk
<1>7. \/ Return(w) /\ UNCHANGED history /\ ~HasDir(me.file)
      \/ /\ history' = Put(history, me.file, new)
         /\ Rewritten(w, Shrunk(me.lines, new))
         /\ Disturb(w)
  BY DEF Replace, me, new
<1>8. QED BY <1>1, <1>3, <1>6, <1>7 DEF me, new

LEMMA ReplaceTyped ==
  ASSUME HInv, NEW w \in Projects, Replace(w)
  PROVE  TypeOK'
<1> DEFINE me == worker[w]
           p == me.file
           new == Keep(me.lines, me.kept)
           b == Shrunk(me.lines, new)
<1>1. TypeOK
  BY DEF HInv
<1>2. /\ p \in Projects /\ new \in Seq(1..MaxRuns) /\ b \in Nat
      /\ \/ Return(w) /\ UNCHANGED history
         \/ history' = Put(history, p, new) /\ Rewritten(w, b) /\ Disturb(w)
  BY ReplaceFacts
<1> HIDE DEF b
<1>3. worker' \in [Projects -> Pruning]
  <2>1. CASE Return(w)
    BY <1>1, <2>1, ReturnTyped DEF Return
  <2>2. CASE Rewritten(w, b)
    BY <1>1, <1>2, <2>2, RewrittenFacts
  <2>3. QED BY <1>2, <2>1, <2>2
<1> HIDE DEF p, me, new
<1>4. DOMAIN history' \subseteq Projects /\ \A q \in DOMAIN history' : history'[q] \in Seq(1..MaxRuns)
  BY <1>1, <1>2 DEF TypeOK, Put
<1>5. UNCHANGED <<archive, index, torn, lastRun, app, clears>> /\ calm' \subseteq Projects
  BY <1>1, <1>2 DEF Replace, TypeOK, Disturb, Return
<1>6. QED BY <1>1, <1>3, <1>4, <1>5 DEF TypeOK

LEMMA StoreTyped ==
  ASSUME HInv, NEW w \in Projects, StoreTotal(w) \/ Pruned(w)
  PROVE  TypeOK'
<1>1. TypeOK /\ worker[w].total \in Nat
  BY Fields DEF HInv
<1>2. worker' \in [Projects -> Pruning]
  <2>1. CASE Pruned(w)
    BY <1>1, <2>1, ReturnTyped DEF Pruned, Return
  <2>2. CASE StoreTotal(w)
    <3>1. PICK a \in {"store", "pruned"} : worker' = [worker EXCEPT ![w].at = a]
      BY <2>2 DEF StoreTotal, Step
    <3>2. QED BY <1>1, <3>1, AtTyped
  <2>3. QED BY <2>1, <2>2
<1>3. BeginWrite \/ EndWrite(worker[w].total) \/ UNCHANGED <<index, torn>>
  BY DEF StoreTotal, Pruned
<1>4. index' \in Nat \cup {None, Drifted} /\ torn' \in BOOLEAN
  BY <1>1, <1>3, IndexTyped
<1>5. UNCHANGED <<history, archive, lastRun, app, clears>> /\ calm' \subseteq Projects
  BY <1>1 DEF StoreTotal, Pruned, Files, Return, TypeOK
<1>6. QED BY <1>1, <1>2, <1>4, <1>5 DEF TypeOK

\* ... and those of the application.
LEMMA ApplicationTyped ==
  ASSUME HInv, Seed \/ StoreSeed \/ Clear \/ SubtractCleared \/ \E p \in Projects : Measure(p)
  PROVE  TypeOK'
<1> DEFINE App == [at : {"rest", "seed", "clear", "cleared", "subtract"}, of : Projects \cup {None}, bytes : Nat]
<1>1. TypeOK /\ TotalBytes \in Nat /\ app \in App /\ app.bytes \in Nat /\ AppAtRest \in App
  BY BytesNat DEF HInv, TypeOK, AppAtRest
<1>2. CASE Seed \/ StoreSeed \/ SubtractCleared
  <2>1. BeginWrite \/ EndWrite(app.bytes) \/ EndWrite(Drifted) \/ UNCHANGED <<index, torn>>
    BY <1>2 DEF Seed, StoreSeed, SubtractCleared, BeginAdjust, SkipAdjust, EndAdjust
  <2>2. index' \in Nat \cup {None, Drifted} /\ torn' \in BOOLEAN
    <3>1. \A n : n = Drifted \/ n = app.bytes => n \in Nat \cup {Drifted}
      BY <1>1
    <3>2. QED BY <1>1, <2>1, <3>1, IndexTyped
  <2>3. app' \in App
    BY <1>1, <1>2 DEF Seed, StoreSeed, SubtractCleared
  <2>4. UNCHANGED <<history, archive, calm, lastRun, worker, clears>>
    BY <1>2 DEF Seed, StoreSeed, SubtractCleared, Files
  <2>5. QED BY <1>1, <2>2, <2>3, <2>4 DEF TypeOK
<1>3. CASE Clear
  <2>1. /\ history' = history \/ \E S : history' = Restrict(history, DOMAIN history \ S)
        /\ archive' = archive \/ \E S : archive' = Restrict(archive, DOMAIN archive \ S)
        /\ calm' \subseteq calm
    BY <1>3 DEF Clear, Files
  <2>2. DOMAIN history' \subseteq Projects /\ \A p \in DOMAIN history' : history'[p] \in Seq(1..MaxRuns)
    BY <1>1, <2>1 DEF TypeOK, Restrict
  <2>3. DOMAIN archive' \subseteq Runs /\ \A e \in DOMAIN archive' : archive'[e] \in ArchiveBytes \ {0}
    BY <1>1, <2>1 DEF TypeOK, Restrict
  <2>4. app' \in App
    BY <1>1, <1>3 DEF Clear
  <2>5. UNCHANGED <<index, torn, lastRun, worker, clears>>
    BY <1>3 DEF Clear
  <2>6. QED BY <1>1, <2>1, <2>2, <2>3, <2>4, <2>5 DEF TypeOK
<1>4. ASSUME NEW p \in Projects, Measure(p) PROVE TypeOK'
  <2>1. ProjectBytes(p) \in Nat
    BY <1>1, BytesNat
  <2>2. app' \in App /\ clears' \in Nat
    BY <1>1, <1>4, <2>1 DEF Measure, TypeOK
  <2>3. QED BY <1>1, <1>4, <2>2 DEF Measure, TypeOK, Files
<1>5. QED BY <1>2, <1>3, <1>4

LEMMA TypeStep ==
  ASSUME HInv, [Next]_vars
  PROVE  TypeOK'
<1>1. CASE UNCHANGED vars
  BY <1>1 DEF HInv, vars, TypeOK
<1>2. CASE Seed \/ StoreSeed \/ Clear \/ SubtractCleared \/ \E p \in Projects : Measure(p)
  BY <1>2, ApplicationTyped
<1>3. ASSUME NEW w \in Projects,
             ArchiveRun(w) \/ AddArchive(w) \/ AppendLine(w) \/ AppendFails(w) \/ AddLine(w) \/ Prune(w)
      PROVE  TypeOK'
  BY <1>3, ArchiveRunTyped, AppendTyped, CountTyped, WalkTyped, CollectTyped, EvictTyped, CountLinesTyped,
     RemoveFileTyped, ReadLinesTyped, ReplaceTyped, StoreTyped DEF Prune
<1>4. QED BY <1>1, <1>2, <1>3 DEF Next
-----------------------------------------------------------------------------
\* A step of a worker leaves the others alone.
LEMMA StepOfOne ==
  ASSUME HInv, NEW w \in Projects,
         ArchiveRun(w) \/ AddArchive(w) \/ AppendLine(w) \/ AppendFails(w) \/ AddLine(w) \/ Prune(w)
  PROVE  OnlyWorker(w)
<1>1. worker \in [Projects -> Pruning]
  BY DEF HInv, TypeOK
<1>2. CASE ArchiveRun(w) \/ AddArchive(w) \/ AppendLine(w) \/ AppendFails(w) \/ AddLine(w)
  BY <1>1, <1>2 DEF ArchiveRun, AddArchive, AppendLine, AppendFails, AddLine, Step, OnlyWorker
<1>3. CASE Walk(w) \/ Collect(w) \/ ReadLines(w) \/ StoreTotal(w) \/ Pruned(w)
  BY <1>1, <1>3 DEF Walk, Collect, ReadLines, StoreTotal, Pruned, Return, Step, OnlyWorker
<1>4. CASE Evict(w)
  BY <1>1, <1>4 DEF Evict, OnlyWorker
<1>5. CASE Replace(w)
  BY <1>1, <1>5 DEF Replace, Rewritten, Return, OnlyWorker
<1>6. CASE RemoveFile(w)
  BY <1>1, <1>6 DEF RemoveFile, Rewritten, OnlyWorker
<1>7. ASSUME NEW p \in Projects, CountLines(w, p) PROVE OnlyWorker(w)
  BY <1>1, <1>7 DEF CountLines, Return, OnlyWorker
<1>8. QED BY <1>2, <1>3, <1>4, <1>5, <1>6, <1>7 DEF Prune

\* Local is about the worker alone, and every step of a worker keeps it.
LEMMA LocalOfOthers ==
  ASSUME HInv, NEW v \in Projects, worker'[v] = worker[v]
  PROVE  Local(v)'
<1>1. Local(v)
  BY DEF HInv
<1>2. QED BY <1>1 DEF Local, NoneGone

LEMMA LocalOfReturn ==
  ASSUME NEW w \in Projects, worker'[w] = AtRest
  PROVE  Local(w)'
  BY DEF Local, AtRest, NoneGone

LEMMA LocalOfRun ==
  ASSUME HInv, NEW w \in Projects,
         ArchiveRun(w) \/ AddArchive(w) \/ AppendLine(w) \/ AppendFails(w) \/ AddLine(w)
  PROVE  Local(w)'
<1>1. TypeOK /\ Local(w) /\ worker \in [Projects -> Pruning] /\ worker[w] \in Pruning
  BY DEF HInv, TypeOK
<1>2. CASE ArchiveRun(w)
  <2>1. lastRun' \in 1..MaxRuns /\ worker[w].at = "rest"
    <3>1. lastRun' \in 1..MaxRuns
      BY <1>1, <1>2, NextRun
    <3>2. QED BY <1>2, <3>1 DEF ArchiveRun
  <2>2. PICK b \in ArchiveBytes :
          worker' = [worker EXCEPT ![w].at = IF b > 0 THEN "archived" ELSE "write",
                                  ![w].run = lastRun', ![w].bytes = b]
    BY <1>2 DEF ArchiveRun
  <2>3. /\ worker'[w].at \in {"archived", "addArchive", "write"} /\ worker'[w].run = lastRun'
        /\ worker'[w].file = worker[w].file /\ worker'[w].lines = worker[w].lines
        /\ worker'[w].evicted = worker[w].evicted /\ worker'[w].gone = worker[w].gone
        /\ worker'[w].found = worker[w].found
    BY <1>1, <2>2 DEF Pruning
  <2>4. QED BY <1>1, <2>1, <2>3 DEF Local, NoneGone
<1>3. CASE AddArchive(w) \/ AppendLine(w) \/ AddLine(w)
  <2>1. /\ worker[w].at \in {"archived", "addArchive", "write", "appended", "addLine"}
        /\ worker'[w].at \in {"addArchive", "write", "appended", "addLine", "walk"} /\ worker'[w].run = worker[w].run
        /\ worker'[w].file = worker[w].file /\ worker'[w].lines = worker[w].lines
        /\ worker'[w].evicted = worker[w].evicted /\ worker'[w].gone = worker[w].gone
        /\ worker'[w].found = worker[w].found
    BY <1>1, <1>3 DEF AddArchive, AppendLine, AddLine, Step, Pruning
  <2>2. QED BY <1>1, <2>1 DEF Local, NoneGone
<1>4. CASE AppendFails(w)
  BY <1>1, <1>4, LocalOfReturn DEF AppendFails
<1>5. QED BY <1>2, <1>3, <1>4

LEMMA LocalOfSearch ==
  ASSUME HInv, NEW w \in Projects, Walk(w) \/ Collect(w) \/ Evict(w)
  PROVE  Local(w)'
<1>1. TypeOK /\ Local(w) /\ worker \in [Projects -> Pruning] /\ worker[w] \in Pruning
  BY DEF HInv, TypeOK
<1>2. CASE Return(w)
  BY <1>1, <1>2, LocalOfReturn DEF Return
<1>3. CASE Walk(w) /\ ~Return(w)
  <2>1. /\ worker[w].at = "walk" /\ worker'[w].at = "collect" /\ worker'[w].run = worker[w].run
        /\ worker'[w].file = worker[w].file /\ worker'[w].lines = worker[w].lines
        /\ worker'[w].evicted = worker[w].evicted /\ worker'[w].gone = worker[w].gone
        /\ worker'[w].found = worker[w].found
    BY <1>1, <1>3 DEF Walk, Pruning
  <2>2. QED BY <1>1, <2>1 DEF Local, NoneGone
<1>4. CASE Collect(w) /\ ~Return(w)
  <2>1. /\ worker[w].at = "collect" /\ worker'[w].at = "evict" /\ worker'[w].run = worker[w].run
        /\ worker'[w].file = worker[w].file /\ worker'[w].lines = worker[w].lines
        /\ worker'[w].found = FoundNow
    <3>1. /\ worker[w].at = "collect"
          /\ worker' = [worker EXCEPT ![w].at = "evict", ![w].found = FoundNow, ![w].target = Batch]
      BY <1>4 DEF Collect, FoundNow
    <3>2. QED BY <1>1, <3>1 DEF Pruning
  <2>2. ASSUME NEW x \in FoundNow, NEW y \in FoundNow, x.run = y.run PROVE x = y
    <3>1. /\ x.of \in DOMAIN history /\ x.line \in DOMAIN history[x.of] /\ x.run = history[x.of][x.line]
          /\ y.of \in DOMAIN history /\ y.line \in DOMAIN history[y.of] /\ y.run = history[y.of][y.line]
          /\ x \in FoundType /\ y \in FoundType
      BY <1>1, FoundNowFacts
    <3>2. InHistory(x.of, x.run) /\ InHistory(y.of, x.run)
      BY <2>2, <3>1 DEF InHistory
    <3>3. x.of \in Projects /\ y.of \in Projects /\ x.run \in 1..MaxRuns
      BY <3>1 DEF FoundType
    <3>4. x.of = y.of
      BY <3>2, <3>3 DEF HInv, Numbered, Wrote
    <3>5. x.line = y.line
      BY <2>2, <3>1, <3>4 DEF HInv, Numbered, Once
    <3>6. QED BY <2>2, <3>1, <3>4, <3>5 DEF FoundType
  <2>3. QED BY <1>1, <2>1, <2>2 DEF Local
<1>5. CASE Evict(w)
  <2>1. PICK x \in Evictable(w) : EvictsRun(w, x)
    BY <1>5, EvictFacts
  <2>2. /\ worker[w].at = "evict" /\ worker'[w].at = "evict" /\ worker'[w].run = worker[w].run
        /\ worker'[w].file = worker[w].file /\ worker'[w].lines = worker[w].lines
        /\ worker'[w].found = worker[w].found \ {x}
    <3> DEFINE b == BytesOf(x)
               t == worker'[w].target
    <3>1. /\ worker[w].at = "evict"
          /\ worker' = [worker EXCEPT
               ![w].found = @ \ {x}, ![w].total = Minus(@, b), ![w].reclaimed = @ + b,
               ![w].gone[x.of] = @ \cup {x.line}, ![w].evicted = @ \cup {<<x.of, x.run>>},
               ![w].target = t]
      BY <1>5, <2>1 DEF EvictsRun, Evict, Evicting
    <3> HIDE DEF b, t
    <3>2. QED BY <1>1, <3>1 DEF Pruning
  <2>3. QED BY <1>1, <2>2 DEF Local
<1>6. QED BY <1>2, <1>3, <1>4, <1>5

LEMMA LocalOfRewrite ==
  ASSUME HInv, NEW w \in Projects,
         \/ RemoveFile(w) \/ ReadLines(w) \/ Replace(w) \/ StoreTotal(w) \/ Pruned(w)
         \/ \E p \in Projects : CountLines(w, p)
  PROVE  Local(w)'
<1>1. TypeOK /\ Local(w) /\ worker \in [Projects -> Pruning] /\ worker[w] \in Pruning
  BY DEF HInv, TypeOK
<1>2. CASE Return(w)
  BY <1>1, <1>2, LocalOfReturn DEF Return
<1>3. CASE ReadLines(w) /\ ~Return(w)
  <2>1. /\ worker[w].at = "read" /\ worker'[w].at = "replace" /\ worker'[w].run = worker[w].run
        /\ worker'[w].file = worker[w].file /\ worker'[w].found = worker[w].found
    BY <1>1, <1>3 DEF ReadLines, Pruning
  <2>2. QED BY <1>1, <2>1 DEF Local
<1>4. ASSUME NEW p \in Projects, p = worker[w].file, NEW b \in Nat, Rewritten(w, b) PROVE Local(w)'
  <2>1. /\ worker'[w].at = "evict" /\ worker'[w].run = worker[w].run /\ worker'[w].file = None
        /\ worker'[w].lines = << >> /\ worker'[w].found = worker[w].found
    BY <1>1, <1>4, RewrittenFacts
  <2>2. worker[w].file # None
    BY <1>4, ConstantTypes
  <2>3. QED BY <1>1, <2>1, <2>2 DEF Local
<1>5. CASE (Replace(w) \/ RemoveFile(w)) /\ ~Return(w)
  <2>1. \E b \in Nat : worker[w].file \in Projects /\ Rewritten(w, b)
    BY <1>5, ReplaceFacts, RemoveFacts
  <2>2. QED BY <1>4, <2>1
<1>6. CASE StoreTotal(w)
  <2>1. /\ worker[w].at \in {"evict", "store"} /\ worker'[w].at \in {"store", "pruned"}
        /\ worker'[w].run = worker[w].run
        /\ worker'[w].file = worker[w].file /\ worker'[w].lines = worker[w].lines
        /\ worker'[w].found = worker[w].found
    BY <1>1, <1>6 DEF StoreTotal, Step, Rewriting, Pruning
  <2>2. QED BY <1>1, <2>1 DEF Local
<1>7. CASE Pruned(w)
  BY <1>2, <1>7 DEF Pruned
<1>8. ASSUME NEW p \in Projects, CountLines(w, p), ~Return(w) PROVE Local(w)'
  <2> DEFINE kept == Remaining(history[p], w, p)
  <2>1. worker' = [worker EXCEPT ![w].at = "read", ![w].file = p, ![w].kept = kept]
    BY <1>8 DEF CountLines
  <2>2. worker[w].at = "evict"
    BY <1>8 DEF CountLines, Rewriting
  <2> HIDE DEF kept
  <2>3. /\ worker'[w].at = "read" /\ worker'[w].run = worker[w].run
        /\ worker'[w].file = p /\ worker'[w].lines = worker[w].lines
        /\ worker'[w].found = worker[w].found
    BY <1>1, <2>1 DEF Pruning
  <2>4. QED BY <1>1, <2>2, <2>3, ConstantTypes DEF Local
<1>9. QED BY <1>2, <1>3, <1>5, <1>6, <1>7, <1>8

LEMMA LocalStep ==
  ASSUME HInv, [Next]_vars
  PROVE  \A v \in Projects : Local(v)'
<1> SUFFICES ASSUME NEW v \in Projects PROVE Local(v)'
  OBVIOUS
<1>1. CASE UNCHANGED vars
  BY <1>1, LocalOfOthers DEF vars
<1>2. CASE Seed \/ StoreSeed \/ Clear \/ SubtractCleared \/ \E p \in Projects : Measure(p)
  <2>1. worker' = worker
    BY <1>2 DEF Seed, StoreSeed, Clear, SubtractCleared, Measure
  <2>2. QED BY <2>1, LocalOfOthers
<1>3. ASSUME NEW w \in Projects,
             ArchiveRun(w) \/ AddArchive(w) \/ AppendLine(w) \/ AppendFails(w) \/ AddLine(w) \/ Prune(w)
      PROVE  Local(v)'
  <2>1. CASE v = w
    BY <1>3, <2>1, LocalOfRun, LocalOfSearch, LocalOfRewrite DEF Prune
  <2>2. CASE v # w
    BY <1>3, <2>2, StepOfOne, LocalOfOthers DEF OnlyWorker
  <2>3. QED BY <2>1, <2>2
<1>4. QED BY <1>1, <1>2, <1>3 DEF Next
-----------------------------------------------------------------------------
\* Numbers of runs: every project has its own, and no run is there twice.
WroteLess ==
  /\ \A p \in Projects, r \in 1..MaxRuns : Wrote(p, r)' => Wrote(p, r)
  /\ \A p \in DOMAIN history' : Once(history'[p])
  /\ \A w \in Projects : Once(worker'[w].lines)
  /\ \A w \in Projects : worker'[w].at \in {"archived", "addArchive", "write"} =>
       ~InHistory(w, worker[w].run)' /\ ~InHand(w, worker[w].run)'

\* No new number in any hand, no number twice.
LEMMA NumberedOfLess ==
  ASSUME HInv, lastRun' = lastRun, WroteLess
  PROVE  Numbered'
  BY DEF HInv, Numbered, WroteLess

\* What is in hand or in the histories may only become less when nothing is read or
\* written.
Lessened ==
  /\ \A p \in DOMAIN history' : p \in DOMAIN history /\ history'[p] = history[p]
  /\ \A w \in Projects :
       /\ worker'[w].lines # << >> =>
            worker'[w].lines = worker[w].lines /\ worker'[w].file = worker[w].file
       /\ worker'[w].run = 0 \/ worker'[w].run = worker[w].run
       /\ worker'[w].at \in {"archived", "addArchive", "write"} =>
            worker[w].at \in {"archived", "addArchive", "write"} /\ worker'[w].run = worker[w].run

\* Dropping lines, histories or runs in hand cannot break the numbering.
LEMMA NumberedOfLessened ==
  ASSUME HInv, TypeOK', lastRun' = lastRun, Lessened
  PROVE  Numbered'
<1>1. \A p, r : InHistory(p, r)' => InHistory(p, r)
  BY DEF InHistory, Lessened
<1>2. \A p, r : InHand(p, r)' => InHand(p, r)
  <2> SUFFICES ASSUME NEW p, NEW r, InHand(p, r)' PROVE InHand(p, r)
    OBVIOUS
  <2>1. PICK w \in Projects :
          worker'[w].file = p /\ \E i \in DOMAIN worker'[w].lines : worker'[w].lines[i] = r
    BY DEF InHand
  <2>2. worker'[w].lines # << >>
    <3>1. DOMAIN << >> = {}
      OBVIOUS
    <3>2. QED BY <2>1, <3>1
  <2>3. QED BY <2>1, <2>2 DEF InHand, Lessened
<1>3. \A p \in Projects, r \in 1..MaxRuns : Wrote(p, r)' => Wrote(p, r)
  <2> SUFFICES ASSUME NEW p \in Projects, NEW r \in 1..MaxRuns, Wrote(p, r)' PROVE Wrote(p, r)
    OBVIOUS
  <2>1. worker'[p].run = r => worker[p].run = r
    <3>1. r # 0
      BY ConstantTypes
    <3>2. QED BY <3>1 DEF Lessened
  <2>2. QED BY <1>1, <1>2, <2>1 DEF Wrote
<1>4. \A p \in DOMAIN history' : Once(history'[p])
  BY DEF HInv, Numbered, Lessened
<1>5. ASSUME NEW w \in Projects PROVE Once(worker'[w].lines)
  <2>1. CASE worker'[w].lines = << >>
    <3>1. DOMAIN << >> = {}
      OBVIOUS
    <3>2. QED BY <2>1, <3>1 DEF Once
  <2>2. CASE worker'[w].lines # << >>
    BY <2>2 DEF HInv, Numbered, Lessened
  <2>3. QED BY <2>1, <2>2
<1>6. ASSUME NEW w \in Projects, worker'[w].at \in {"archived", "addArchive", "write"}
      PROVE  ~InHistory(w, worker[w].run)' /\ ~InHand(w, worker[w].run)'
  <2>1. worker[w].at \in {"archived", "addArchive", "write"} /\ worker'[w].run = worker[w].run
    BY <1>6 DEF Lessened
  <2>2. ~InHistory(w, worker[w].run) /\ ~InHand(w, worker[w].run)
    BY <2>1 DEF HInv, Numbered
  <2>3. QED BY <1>1, <1>2, <2>1, <2>2 DEF InHistory, InHand
<1>7. WroteLess
  BY <1>3, <1>4, <1>5, <1>6 DEF WroteLess
<1>8. QED BY <1>7, NumberedOfLess

LEMMA RestFields ==
  AtRest.at = "rest" /\ AtRest.lines = << >> /\ AtRest.run = 0
  BY DEF AtRest

\* Most steps only drop, ...
LEMMA LessenedByMost ==
  ASSUME HInv, NEW w \in Projects,
         \/ AddArchive(w) \/ AppendFails(w) \/ AddLine(w) \/ Walk(w) \/ Collect(w) \/ Evict(w)
         \/ RemoveFile(w) \/ StoreTotal(w) \/ Pruned(w) \/ \E p \in Projects : CountLines(w, p)
         \/ (Return(w) /\ UNCHANGED <<history, lastRun>>)
  PROVE  lastRun' = lastRun /\ Lessened
<1>1. TypeOK /\ worker \in [Projects -> Pruning] /\ worker[w] \in Pruning
  BY DEF HInv, TypeOK
<1> DEFINE Worker ==
      /\ \A v \in Projects \ {w} : worker'[v] = worker[v]
      /\ worker'[w].lines # << >> =>
           worker'[w].lines = worker[w].lines /\ worker'[w].file = worker[w].file
      /\ worker'[w].run = 0 \/ worker'[w].run = worker[w].run
      /\ worker'[w].at \in {"archived", "addArchive", "write"} =>
           worker[w].at \in {"archived", "addArchive", "write"} /\ worker'[w].run = worker[w].run
<1>2. Worker /\ (\A p \in DOMAIN history' : p \in DOMAIN history /\ history'[p] = history[p]) => Lessened
  BY DEF Lessened
<1>3. CASE Return(w) /\ UNCHANGED <<history, lastRun>>
  <2>1. worker'[w] = AtRest /\ \A v \in Projects \ {w} : worker'[v] = worker[v]
    BY <1>1, <1>3 DEF Return
  <2>2. Worker
    BY <2>1, RestFields
  <2>3. QED BY <1>2, <1>3, <2>2
<1>4. CASE AppendFails(w)
  <2>1. worker'[w] = AtRest /\ \A v \in Projects \ {w} : worker'[v] = worker[v]
    BY <1>1, <1>4 DEF AppendFails
  <2>2. Worker
    BY <2>1, RestFields
  <2>3. QED BY <1>2, <1>4, <2>2 DEF AppendFails, Files
<1>5. CASE AddArchive(w) \/ AddLine(w) \/ StoreTotal(w)
  <2>1. Worker
    BY <1>1, <1>5 DEF AddArchive, AddLine, StoreTotal, Step, Rewriting, Pruning
  <2>2. UNCHANGED <<history, lastRun>>
    BY <1>5 DEF AddArchive, AddLine, StoreTotal, Files
  <2>3. QED BY <1>2, <2>1, <2>2
<1>6. CASE Walk(w) /\ ~Return(w)
  <2>1. Worker
    BY <1>1, <1>6 DEF Walk, Pruning
  <2>2. QED BY <1>2, <1>6, <2>1 DEF Walk
<1>7. CASE Collect(w) /\ ~Return(w)
  <2>1. worker' = [worker EXCEPT ![w].at = "evict", ![w].found = FoundNow, ![w].target = Batch]
    BY <1>7 DEF Collect, FoundNow
  <2>2. Worker
    BY <1>1, <2>1 DEF Pruning
  <2>3. QED BY <1>2, <1>7, <2>2 DEF Collect
<1>8. CASE Evict(w)
  <2>1. PICK x \in Evictable(w) : EvictsRun(w, x)
    BY <1>8, EvictFacts
  <2> DEFINE b == BytesOf(x)
             t == worker'[w].target
  <2>2. worker' = [worker EXCEPT
           ![w].found = @ \ {x}, ![w].total = Minus(@, b), ![w].reclaimed = @ + b,
           ![w].gone[x.of] = @ \cup {x.line}, ![w].evicted = @ \cup {<<x.of, x.run>>},
           ![w].target = t]
    BY <2>1 DEF EvictsRun
  <2> HIDE DEF b, t
  <2>3. worker[w].at = "evict"
    BY <1>8 DEF Evict, Evicting
  <2>4. Worker
    BY <1>1, <2>2, <2>3 DEF Pruning
  <2>5. QED BY <1>2, <1>8, <2>4 DEF Evict
<1>9. CASE Pruned(w)
  BY <1>3, <1>9 DEF Pruned
<1>10. CASE RemoveFile(w)
  <2>1. /\ worker'[w].at = "evict" /\ worker'[w].lines = << >> /\ worker'[w].run = worker[w].run
        /\ \A v \in Projects \ {w} : worker'[v] = worker[v]
    BY <1>1, <1>10, RemoveFacts, RewrittenFacts DEF OnlyWorker
  <2>2. Worker
    BY <2>1
  <2>3. lastRun' = lastRun /\ \A q \in DOMAIN history' : q \in DOMAIN history /\ history'[q] = history[q]
    BY <1>10, RemoveFacts DEF Restrict
  <2>4. QED BY <1>2, <2>2, <2>3
<1>11. ASSUME NEW p \in Projects, CountLines(w, p) PROVE lastRun' = lastRun /\ Lessened
  <2> DEFINE kept == Remaining(history[p], w, p)
  <2>1. UNCHANGED <<history, lastRun>>
    BY <1>11 DEF CountLines
  <2>2. CASE Return(w)
    BY <1>3, <2>1, <2>2
  <2>3. CASE worker' = [worker EXCEPT ![w].at = "read", ![w].file = p, ![w].kept = kept]
    <3>1. worker[w].lines = << >>
      BY <1>11 DEF CountLines, Rewriting, HInv, Local
    <3> HIDE DEF kept
    <3>2. /\ \A v \in Projects \ {w} : worker'[v] = worker[v]
          /\ worker'[w].lines = worker[w].lines /\ worker'[w].run = worker[w].run
          /\ worker'[w].at = "read"
      BY <1>1, <2>3 DEF Pruning
    <3>3. Worker
      BY <3>1, <3>2
    <3>4. QED BY <1>2, <2>1, <3>3
  <2>4. QED BY <1>11, <2>2, <2>3 DEF CountLines
<1>12. (Walk(w) \/ Collect(w)) /\ Return(w) => UNCHANGED <<history, lastRun>>
  BY DEF Walk, Collect, Return
<1>13. QED BY <1>3, <1>4, <1>5, <1>6, <1>7, <1>8, <1>9, <1>10, <1>11, <1>12

\* ... but a run that is archived gets a number of its own, ...
LEMMA NumberedByArchive ==
  ASSUME HInv, NEW w \in Projects, ArchiveRun(w)
  PROVE  Numbered'
<1>1. TypeOK /\ worker \in [Projects -> Pruning] /\ worker[w] \in Pruning
  BY DEF HInv, TypeOK
<1>2. lastRun' = lastRun + 1 /\ lastRun' \in 1..MaxRuns /\ lastRun \in Nat
  BY <1>1, NextRun
<1>3. history' = history
  BY DEF ArchiveRun
<1>4. /\ \A v \in Projects \ {w} : worker'[v] = worker[v]
      /\ worker'[w].lines = worker[w].lines /\ worker'[w].file = worker[w].file
      /\ worker'[w].run = lastRun'
  <2>1. PICK b \in ArchiveBytes :
          worker' = [worker EXCEPT ![w].at = IF b > 0 THEN "archived" ELSE "write",
                                  ![w].run = lastRun', ![w].bytes = b]
    BY DEF ArchiveRun
  <2>2. QED BY <1>1, <2>1 DEF Pruning
<1>5. \A v \in Projects : worker'[v].lines = worker[v].lines /\ worker'[v].file = worker[v].file
  BY <1>4
<1>6. \A p, r : (InHistory(p, r)' <=> InHistory(p, r)) /\ (InHand(p, r)' <=> InHand(p, r))
  BY <1>3, <1>5 DEF InHistory, InHand
<1>7. ASSUME NEW p \in Projects, NEW r \in 1..MaxRuns, Wrote(p, r)'
      PROVE  \/ (Wrote(p, r) /\ r <= lastRun)
             \/ (p = w /\ r = lastRun')
  <2>1. CASE Wrote(p, r)
    BY <2>1 DEF HInv, Numbered
  <2>2. CASE ~Wrote(p, r)
    <3>1. worker'[p].run = r /\ worker[p].run # r
      BY <1>6, <1>7, <2>2 DEF Wrote
    <3>2. QED BY <1>4, <3>1
  <2>3. QED BY <2>1, <2>2
<1>8. \A p \in Projects, r \in 1..MaxRuns : Wrote(p, r)' => r <= lastRun'
  BY <1>2, <1>7
<1>9. ASSUME NEW p \in Projects, NEW q \in Projects, NEW r \in 1..MaxRuns, Wrote(p, r)', Wrote(q, r)'
      PROVE  p = q
  <2>1. r = lastRun' => ~(r <= lastRun)
    BY <1>2
  <2>2. \/ (Wrote(p, r) /\ Wrote(q, r))
        \/ (p = w /\ q = w)
    BY <1>7, <1>9, <2>1
  <2>3. QED BY <2>2 DEF HInv, Numbered
<1>10. (\A p \in DOMAIN history' : Once(history'[p])) /\ \A v \in Projects : Once(worker'[v].lines)
  BY <1>3, <1>5 DEF HInv, Numbered
<1>11. ASSUME NEW v \in Projects, worker'[v].at \in {"archived", "addArchive", "write"}
       PROVE  ~InHistory(v, worker[v].run)' /\ ~InHand(v, worker[v].run)'
  <2>1. CASE v = w
    <3>1. ~InHistory(w, lastRun') /\ ~InHand(w, lastRun')
      <4>1. ~Wrote(w, lastRun')
        BY <1>2 DEF HInv, Numbered
      <4>2. QED BY <4>1 DEF Wrote
    <3>2. QED BY <1>3, <1>4, <1>5, <2>1, <3>1 DEF InHistory, InHand
  <2>2. CASE v # w
    <3>1. worker'[v] = worker[v]
      BY <1>4, <2>2
    <3>2. ~InHistory(v, worker[v].run) /\ ~InHand(v, worker[v].run)
      BY <1>11, <3>1 DEF HInv, Numbered
    <3>3. QED BY <1>3, <1>5, <3>1, <3>2 DEF InHistory, InHand
  <2>3. QED BY <2>1, <2>2
<1>12. QED BY <1>8, <1>9, <1>10, <1>11 DEF Numbered

\* ... appending moves it to the history of its project, ...
LEMMA NumberedByAppend ==
  ASSUME HInv, NEW w \in Projects, AppendLine(w)
  PROVE  Numbered'
<1> DEFINE old == IF w \in DOMAIN history THEN history[w] ELSE << >>
           run == worker[w].run
           new == Append(old, run)
<1>1. TypeOK /\ worker \in [Projects -> Pruning] /\ worker[w] \in Pruning /\ worker[w].at = "write"
  BY DEF HInv, TypeOK, AppendLine
<1>2. run \in 1..MaxRuns /\ ~InHistory(w, run) /\ ~InHand(w, run)
  BY <1>1 DEF HInv, Local, Numbered
<1>3. old \in Seq(1..MaxRuns)
  <2>1. << >> \in Seq(1..MaxRuns)
    OBVIOUS
  <2>2. w \in DOMAIN history => history[w] \in Seq(1..MaxRuns)
    BY <1>1 DEF TypeOK
  <2>3. QED BY <2>1, <2>2
<1>4. history' = Put(history, w, new) /\ lastRun' = lastRun
  BY DEF AppendLine
<1>5. \A v \in Projects : /\ worker'[v].lines = worker[v].lines /\ worker'[v].file = worker[v].file
                          /\ worker'[v].run = worker[v].run
  BY <1>1 DEF AppendLine, Step, Pruning
<1>6. worker'[w].at = "appended" /\ \A v \in Projects \ {w} : worker'[v] = worker[v]
  BY <1>1 DEF AppendLine, Step, Pruning
<1>7. \A i \in DOMAIN old : InHistory(w, old[i])
  <2>1. DOMAIN << >> = {}
    OBVIOUS
  <2>2. QED BY <2>1 DEF InHistory
<1> HIDE DEF old, run
<1>8. /\ Len(old) \in Nat /\ DOMAIN old = 1..Len(old) /\ DOMAIN new = 1..(Len(old) + 1)
      /\ \A i \in 1..Len(old) : new[i] = old[i]
      /\ new[Len(old) + 1] = run
  BY <1>2, <1>3
<1> HIDE DEF new
<1>9. Once(new)
  <2>1. Once(old)
    <3>1. DOMAIN << >> = {}
      OBVIOUS
    <3>2. QED BY <3>1 DEF HInv, Numbered, Once, old
  <2>2. \A i \in 1..Len(old) : old[i] # run
    BY <1>2, <1>7, <1>8
  <2>3. QED BY <1>8, <2>1, <2>2 DEF Once
<1>10. \A p \in DOMAIN history' : Once(history'[p])
  BY <1>4, <1>9 DEF HInv, Numbered, Put
<1>11. \A p, r : InHistory(p, r)' => InHistory(p, r) \/ (p = w /\ r = run)
  <2> SUFFICES ASSUME NEW p, NEW r, InHistory(p, r)', ~(p = w /\ r = run) PROVE InHistory(p, r)
    OBVIOUS
  <2>1. CASE p # w
    BY <1>4, <2>1 DEF InHistory, Put
  <2>2. CASE p = w
    <3>1. PICK i \in DOMAIN new : new[i] = r
      BY <1>4, <2>2 DEF InHistory, Put
    <3>2. i \in 1..Len(old)
      BY <1>8, <2>2, <3>1
    <3>3. QED BY <1>7, <1>8, <2>2, <3>1, <3>2
  <2>3. QED BY <2>1, <2>2
<1>12. \A p, r : InHand(p, r)' <=> InHand(p, r)
  BY <1>5 DEF InHand
<1>13. \A p \in Projects, r \in 1..MaxRuns : Wrote(p, r)' => Wrote(p, r)
  BY <1>5, <1>11, <1>12 DEF Wrote, run
<1>14. \A v \in Projects : Once(worker'[v].lines)
  BY <1>5 DEF HInv, Numbered
<1>15. ASSUME NEW v \in Projects, worker'[v].at \in {"archived", "addArchive", "write"}
       PROVE  ~InHistory(v, worker[v].run)' /\ ~InHand(v, worker[v].run)'
  <2>1. v # w /\ worker'[v] = worker[v]
    BY <1>6, <1>15
  <2>2. ~InHistory(v, worker[v].run) /\ ~InHand(v, worker[v].run)
    BY <1>15, <2>1 DEF HInv, Numbered
  <2>3. worker'[v].run = worker[v].run
    BY <2>1
  <2>4. \A r : r = worker[v].run => ~InHistory(v, r)' /\ ~InHand(v, r)'
    BY <1>11, <1>12, <2>1, <2>2
  <2>5. QED BY <2>3, <2>4 DEF InHistory, InHand
<1>16. WroteLess
  BY <1>10, <1>13, <1>14, <1>15 DEF WroteLess
<1>17. QED BY <1>4, <1>16, NumberedOfLess

\* ... and lines go to a worker that reads them and back when it replaces them.
LEMMA NumberedByRead ==
  ASSUME HInv, TypeOK', NEW w \in Projects, ReadLines(w)
  PROVE  Numbered'
<1>1. TypeOK /\ worker \in [Projects -> Pruning] /\ worker[w] \in Pruning
  BY DEF HInv, TypeOK
<1> DEFINE p == worker[w].file
<1>2. history' = history /\ lastRun' = lastRun
  BY DEF ReadLines
<1>3. CASE Return(w)
  BY <1>2, <1>3, LessenedByMost, NumberedOfLessened
<1>4. CASE ~Return(w)
  <2>1. /\ worker[w].at = "read" /\ p \in DOMAIN history
        /\ worker' = [worker EXCEPT ![w].at = "replace", ![w].lines = history[p]]
    BY <1>4 DEF ReadLines
  <2> DEFINE lines == history[p]
  <2>2. p \in Projects
    BY <1>1, <2>1 DEF TypeOK
  <2>3. /\ worker'[w].at = "replace" /\ worker'[w].lines = lines /\ worker'[w].file = p
        /\ worker'[w].run = worker[w].run /\ \A v \in Projects \ {w} : worker'[v] = worker[v]
    <3> HIDE DEF lines
    <3>1. worker' = [worker EXCEPT ![w].at = "replace", ![w].lines = lines]
      BY <2>1 DEF lines
    <3>2. QED BY <1>1, <3>1 DEF Pruning
  <2>4. Once(lines)
    BY <2>1 DEF HInv, Numbered
  <2> HIDE DEF p
  <2>5. \A q, r : InHistory(q, r)' <=> InHistory(q, r)
    BY <1>2 DEF InHistory
  <2>6. \A q, r : InHand(q, r)' => InHand(q, r) \/ InHistory(q, r)
    <3> SUFFICES ASSUME NEW q, NEW r, InHand(q, r)' PROVE InHand(q, r) \/ InHistory(q, r)
      OBVIOUS
    <3>1. PICK v \in Projects :
            worker'[v].file = q /\ \E i \in DOMAIN worker'[v].lines : worker'[v].lines[i] = r
      BY DEF InHand
    <3>2. CASE v = w
      BY <2>1, <2>3, <3>1, <3>2 DEF InHistory
    <3>3. CASE v # w
      <4>1. worker'[v] = worker[v]
        BY <2>3, <3>3
      <4>2. QED BY <3>1, <4>1 DEF InHand
    <3>4. QED BY <3>2, <3>3
  <2> HIDE DEF lines
  <2>7. \A q \in Projects : worker'[q].run = worker[q].run
    BY <2>3
  <2>8. \A q \in Projects, r \in 1..MaxRuns : Wrote(q, r)' => Wrote(q, r)
    BY <2>5, <2>6, <2>7 DEF Wrote
  <2>9. \A q \in DOMAIN history' : Once(history'[q])
    BY <1>2 DEF HInv, Numbered
  <2>10. \A v \in Projects : Once(worker'[v].lines)
    <3> SUFFICES ASSUME NEW v \in Projects PROVE Once(worker'[v].lines)
      OBVIOUS
    <3>1. CASE v = w
      BY <2>3, <2>4, <3>1
    <3>2. CASE v # w
      BY <2>3, <3>2 DEF HInv, Numbered
    <3>3. QED BY <3>1, <3>2
  <2>11. ASSUME NEW v \in Projects, worker'[v].at \in {"archived", "addArchive", "write"}
         PROVE  ~InHistory(v, worker[v].run)' /\ ~InHand(v, worker[v].run)'
    <3>1. v # w /\ worker'[v] = worker[v]
      BY <2>3, <2>11
    <3>2. ~InHistory(v, worker[v].run) /\ ~InHand(v, worker[v].run)
      BY <2>11, <3>1 DEF HInv, Numbered
    <3>3. \A r : r = worker[v].run => ~InHistory(v, r)' /\ ~InHand(v, r)'
      BY <2>5, <2>6, <3>2
    <3>4. QED BY <3>1, <3>3 DEF InHistory, InHand
  <2>12. WroteLess
    BY <2>8, <2>9, <2>10, <2>11 DEF WroteLess
  <2>13. QED BY <1>2, <2>12, NumberedOfLess
<1>5. QED BY <1>3, <1>4

LEMMA NumberedByReplace ==
  ASSUME HInv, TypeOK', NEW w \in Projects, Replace(w)
  PROVE  Numbered'
<1>1. TypeOK /\ worker \in [Projects -> Pruning] /\ worker[w] \in Pruning
  BY DEF HInv, TypeOK
<1> DEFINE me == worker[w]
           p == me.file
           new == Keep(me.lines, me.kept)
           b == Shrunk(me.lines, new)
<1>2. /\ me.at = "replace" /\ p \in Projects /\ Once(new) /\ b \in Nat
      /\ \A n \in DOMAIN new : \E i \in me.kept \cap DOMAIN me.lines : new[n] = me.lines[i]
      /\ \/ Return(w) /\ UNCHANGED history
         \/ history' = Put(history, p, new) /\ Rewritten(w, b)
  BY ReplaceFacts
<1>3. lastRun' = lastRun
  BY DEF Replace
<1>4. CASE Return(w) /\ UNCHANGED history
  BY <1>3, <1>4, LessenedByMost, NumberedOfLessened
<1>5. CASE history' = Put(history, p, new) /\ Rewritten(w, b)
  <2>1. /\ worker'[w].at = "evict" /\ worker'[w].lines = << >> /\ worker'[w].file = None
        /\ worker'[w].run = worker[w].run /\ \A v \in Projects \ {w} : worker'[v] = worker[v]
    <3> HIDE DEF b
    <3>1. QED BY <1>1, <1>2, <1>5, RewrittenFacts DEF OnlyWorker
  <2> HIDE DEF b, new, p
  <2>2. DOMAIN << >> = {}
    OBVIOUS
  <2>3. \A q, r : InHand(q, r)' => InHand(q, r)
    <3> SUFFICES ASSUME NEW q, NEW r, InHand(q, r)' PROVE InHand(q, r)
      OBVIOUS
    <3>1. PICK v \in Projects :
            worker'[v].file = q /\ \E i \in DOMAIN worker'[v].lines : worker'[v].lines[i] = r
      BY DEF InHand
    <3>2. v # w
      BY <2>1, <2>2, <3>1
    <3>3. worker'[v] = worker[v]
      BY <2>1, <3>2
    <3>4. QED BY <3>1, <3>3 DEF InHand
  <2>4. \A n \in DOMAIN new : InHand(p, new[n])
    BY <1>2 DEF InHand, p
  <2>5. \A q, r : InHistory(q, r)' => InHistory(q, r) \/ InHand(q, r)
    <3> SUFFICES ASSUME NEW q, NEW r, InHistory(q, r)' PROVE InHistory(q, r) \/ InHand(q, r)
      OBVIOUS
    <3>1. CASE q # p
      BY <1>5, <3>1 DEF InHistory, Put
    <3>2. CASE q = p
      <4>1. PICK n \in DOMAIN new : new[n] = r
        BY <1>5, <3>2 DEF InHistory, Put
      <4>2. QED BY <2>4, <3>2, <4>1
    <3>3. QED BY <3>1, <3>2
  <2>6. \A q \in Projects : worker'[q].run = worker[q].run
    BY <2>1
  <2>7. \A q \in Projects, r \in 1..MaxRuns : Wrote(q, r)' => Wrote(q, r)
    BY <2>3, <2>5, <2>6 DEF Wrote
  <2>8. \A q \in DOMAIN history' : Once(history'[q])
    BY <1>2, <1>5 DEF HInv, Numbered, Put
  <2>9. \A v \in Projects : Once(worker'[v].lines)
    <3> SUFFICES ASSUME NEW v \in Projects PROVE Once(worker'[v].lines)
      OBVIOUS
    <3>1. CASE v = w
      BY <2>1, <2>2, <3>1 DEF Once
    <3>2. CASE v # w
      BY <2>1, <3>2 DEF HInv, Numbered
    <3>3. QED BY <3>1, <3>2
  <2>10. ASSUME NEW v \in Projects, worker'[v].at \in {"archived", "addArchive", "write"}
         PROVE  ~InHistory(v, worker[v].run)' /\ ~InHand(v, worker[v].run)'
    <3>1. v # w /\ worker'[v] = worker[v]
      BY <2>1, <2>10
    <3>2. ~InHistory(v, worker[v].run) /\ ~InHand(v, worker[v].run)
      BY <2>10, <3>1 DEF HInv, Numbered
    <3>3. \A r : r = worker[v].run => ~InHistory(v, r)' /\ ~InHand(v, r)'
      BY <2>3, <2>5, <3>2
    <3>4. QED BY <3>1, <3>3 DEF InHistory, InHand
  <2>11. WroteLess
    BY <2>7, <2>8, <2>9, <2>10 DEF WroteLess
  <2>12. QED BY <1>3, <2>11, NumberedOfLess
<1>6. QED BY <1>2, <1>4, <1>5

LEMMA LessenedByApplication ==
  ASSUME HInv, Seed \/ StoreSeed \/ Clear \/ SubtractCleared \/ \E p \in Projects : Measure(p)
  PROVE  lastRun' = lastRun /\ Lessened
<1>1. worker' = worker /\ lastRun' = lastRun
  BY DEF Seed, StoreSeed, Clear, SubtractCleared, Measure
<1>2. \A p \in DOMAIN history' : p \in DOMAIN history /\ history'[p] = history[p]
  BY DEF Seed, StoreSeed, Clear, SubtractCleared, Measure, Files, Restrict
<1>3. QED BY <1>1, <1>2 DEF Lessened

LEMMA NumberedStep ==
  ASSUME HInv, [Next]_vars, TypeOK'
  PROVE  Numbered'
<1>1. CASE UNCHANGED vars
  <2>1. Lessened /\ lastRun' = lastRun
    BY <1>1 DEF vars, Lessened
  <2>2. QED BY <2>1, NumberedOfLessened
<1>2. CASE Seed \/ StoreSeed \/ Clear \/ SubtractCleared \/ \E p \in Projects : Measure(p)
  BY <1>2, LessenedByApplication, NumberedOfLessened
<1>3. ASSUME NEW w \in Projects,
             ArchiveRun(w) \/ AddArchive(w) \/ AppendLine(w) \/ AppendFails(w) \/ AddLine(w) \/ Prune(w)
      PROVE  Numbered'
  <2>1. CASE ArchiveRun(w) \/ AppendLine(w) \/ ReadLines(w) \/ Replace(w)
    BY <2>1, NumberedByArchive, NumberedByAppend, NumberedByRead, NumberedByReplace
  <2>2. CASE \/ AddArchive(w) \/ AppendFails(w) \/ AddLine(w) \/ Walk(w) \/ Collect(w) \/ Evict(w)
             \/ RemoveFile(w) \/ StoreTotal(w) \/ Pruned(w) \/ \E p \in Projects : CountLines(w, p)
    BY <2>2, LessenedByMost, NumberedOfLessened
  <2>3. QED BY <1>3, <2>1, <2>2 DEF Prune
<1>4. QED BY <1>1, <1>2, <1>3 DEF Next

LEMMA SeqOf ==
  ASSUME NEW T, NEW n \in Nat, NEW f \in [1..n -> T]
  PROVE  f \in Seq(T)
  OBVIOUS

\* The runs of earlier sessions are numbered, and all workers are at rest.
LEMMA HistoryInit ==
  ASSUME Init
  PROVE  HInv
<1>0. PICK of \in [1..Earlier -> Projects], b \in [1..Earlier -> ArchiveBytes] :
       /\ history = [p \in {of[r] : r \in 1..Earlier} |->
                       Ascending({r \in 1..Earlier : of[r] = p})]
       /\ archive = [e \in {<<of[r], r>> : r \in {q \in 1..Earlier : b[q] > 0}} |-> b[e[2]]]
  BY DEF Init
<1>1. /\ \A r \in 1..Earlier : r \in 1..MaxRuns /\ r \in Nat
      /\ (1..Earlier) \in SUBSET Nat /\ (1..Earlier) \in SUBSET (1..MaxRuns)
  BY ConstantTypes
<1>2. ASSUME NEW p \in DOMAIN history
      PROVE  /\ p \in Projects /\ history[p] \in Seq(1..MaxRuns) /\ Once(history[p])
             /\ \A i \in DOMAIN history[p] : history[p][i] \in 1..Earlier /\ of[history[p][i]] = p
  <2> DEFINE S == {r \in 1..Earlier : of[r] = p}
             n == Cardinality(S)
             T == 1..MaxRuns
  <2>1. IsFiniteSet(1..Earlier)
    BY ConstantTypes, FS_Interval
  <2>2. S \in SUBSET (1..Earlier) /\ \A r \in S : r \in 1..Earlier /\ of[r] = p
    OBVIOUS
  <2>3. history[p] = Ascending(S) /\ p \in Projects
    BY <1>0
  <2> HIDE DEF S
  <2>4. S \in SUBSET Nat /\ S \in SUBSET T /\ IsFiniteSet(S)
    BY <1>1, <2>1, <2>2, FS_Subset
  <2>5. /\ n \in Nat /\ Ascending(S) \in [1..n -> S]
        /\ \A i, j \in 1..n : Ascending(S)[i] = Ascending(S)[j] => i = j
    BY <2>4, AscendingFacts
  <2> HIDE DEF n, T
  <2>6. history[p] \in [1..n -> S] /\ DOMAIN history[p] = 1..n
    BY <2>3, <2>5
  <2>7. history[p] \in [1..n -> T]
    BY <2>4, <2>6
  <2>8. history[p] \in Seq(T)
    BY <2>5, <2>7, SeqOf
  <2>9. Once(history[p])
    <3> DEFINE s == Ascending(S)
    <3>1. history[p] = s /\ DOMAIN s = 1..n /\ \A i, j \in 1..n : s[i] = s[j] => i = j
      BY <2>3, <2>5
    <3> HIDE DEF s
    <3>2. QED BY <3>1 DEF Once
  <2>10. \A i \in DOMAIN history[p] : history[p][i] \in S
    BY <2>6
  <2>11. QED BY <2>2, <2>3, <2>8, <2>9, <2>10 DEF T
<1>3. /\ index = None /\ torn = FALSE /\ lastRun = Earlier /\ worker = [w \in Projects |-> AtRest] /\ app = AppAtRest
      /\ clears = 0 /\ calm = {}
  BY DEF Init
<1>4. TypeOK
  <2>1. worker \in [Projects -> Pruning]
    BY <1>3, Rest
  <2>2. DOMAIN archive \subseteq Runs /\ \A e \in DOMAIN archive : archive[e] \in ArchiveBytes \ {0}
    <3>1. \A q \in 1..Earlier : b[q] > 0 => b[q] # 0
      BY ConstantTypes
    <3>2. QED BY <1>0, <1>1, <3>1 DEF Runs
  <2>3. app \in [at : {"rest", "seed", "clear", "cleared", "subtract"}, of : Projects \cup {None}, bytes : Nat]
    BY <1>3 DEF AppAtRest
  <2>4. DOMAIN history \subseteq Projects /\ \A p \in DOMAIN history : history[p] \in Seq(1..MaxRuns)
    BY <1>2
  <2>5. lastRun \in 0..MaxRuns
    BY <1>3, ConstantTypes
  <2>6. QED BY <1>3, <2>1, <2>2, <2>3, <2>4, <2>5 DEF TypeOK
<1>5. \A w \in Projects : worker[w] = AtRest
  BY <1>3
<1>a. \A w \in Projects :
        /\ worker[w].at = "rest" /\ worker[w].file = None /\ worker[w].lines = << >>
        /\ worker[w].run = 0 /\ worker[w].evicted = {} /\ worker[w].gone = NoneGone /\ worker[w].found = {}
  <2>1. /\ AtRest.at = "rest" /\ AtRest.file = None /\ AtRest.lines = << >>
        /\ AtRest.run = 0 /\ AtRest.evicted = {} /\ AtRest.gone = NoneGone /\ AtRest.found = {}
    BY DEF AtRest, NoneGone
  <2>2. QED BY <1>5, <2>1
<1>6. \A w \in Projects : Local(w)
  BY <1>a DEF Local
<1>7. Numbered
  <2>1. \A p, r : ~InHand(p, r)
    <3>1. DOMAIN << >> = {}
      OBVIOUS
    <3>2. QED BY <1>a, <3>1 DEF InHand
  <2>2. ASSUME NEW p, NEW r, InHistory(p, r) PROVE p \in Projects /\ r \in 1..Earlier /\ of[r] = p
    <3>1. PICK i \in DOMAIN history[p] : p \in DOMAIN history /\ history[p][i] = r
      BY <2>2 DEF InHistory
    <3>2. QED BY <1>2, <3>1
  <2>3. \A p \in Projects, r \in 1..MaxRuns : Wrote(p, r) => r \in 1..Earlier /\ of[r] = p
    <3>1. \A r \in 1..MaxRuns : r # 0
      BY ConstantTypes
    <3>2. QED BY <1>a, <2>1, <2>2, <3>1 DEF Wrote
  <2>4. \A r \in 1..Earlier : r <= lastRun
    BY <1>3, ConstantTypes
  <2>5. \A w \in Projects : Once(worker[w].lines)
    <3>1. DOMAIN << >> = {}
      OBVIOUS
    <3>2. QED BY <1>a, <3>1 DEF Once
  <2>6. \A w \in Projects : worker[w].at \notin {"archived", "addArchive", "write"}
    BY <1>a
  <2>7. \A p \in DOMAIN history : Once(history[p])
    BY <1>2
  <2>8. \A p \in Projects, r \in 1..MaxRuns : Wrote(p, r) => r <= lastRun
    BY <2>3, <2>4
  <2>9. \A p, q \in Projects, r \in 1..MaxRuns : Wrote(p, r) /\ Wrote(q, r) => p = q
    BY <2>3
  <2>10. QED BY <2>5, <2>6, <2>7, <2>8, <2>9 DEF Numbered
<1>8. QED BY <1>4, <1>6, <1>7 DEF HInv

\* The invariant that types and prunes rest on.
LEMMA HistoryInvariant == Spec => []HInv
<1>1. Init => HInv
  BY HistoryInit
<1>2. HInv /\ [Next]_vars => HInv'
  BY TypeStep, NumberedStep, LocalStep DEF HInv
<1>3. QED BY <1>1, <1>2, PTL DEF Spec

\* What the files, the count and the workers are stays within its type.
THEOREM TypeCorrect == Spec => []TypeOK
<1>1. HInv => TypeOK
  BY DEF HInv
<1>2. QED BY <1>1, HistoryInvariant, PTL
=============================================================================
