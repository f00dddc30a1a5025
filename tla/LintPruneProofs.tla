-------------------------- MODULE LintPruneProofs --------------------------
(***************************************************************************)
(* Proofs about a prune nobody interferes with (a worker in calm): what it *)
(* evicts, where it ends and what it stores.                               *)
(*                                                                         *)
(* The invariant Calm says of such a worker that its total is the bytes on *)
(* disk, and that the runs it has in sight are those whose lines are left  *)
(* once it has rewritten the histories.  The numbers of lines it remembers *)
(* are good while it evicts, and only then: the first file it rewrites     *)
(* shifts them, and by then it is done evicting (Fresh or Done).  Sums     *)
(* come in where a file that goes or shrinks is taken off the total.       *)
(***************************************************************************)
EXTENDS LintHistoryProofs

\* A run stays in the history of p when w has rewritten it, and w has it still in sight.
Stays(w, p, r) == p \in DOMAIN history /\ \E i \in DOMAIN history[p] \ worker[w].gone[p] : history[p][i] = r
Seen(w, p, r) == \E x \in worker[w].found : x.of = p /\ x.run = r
Fresh(w) == \A x \in worker[w].found :
  /\ x.of \in DOMAIN history /\ x.line \in DOMAIN history[x.of] \ worker[w].gone[x.of]
  /\ history[x.of][x.line] = x.run
Done(w) == Enough(w) \/ Evictable(w) = {}
OldOnes(w) == \A e \in worker[w].evicted :
  /\ e \notin DOMAIN archive /\ e # <<w, worker[w].run>>
  /\ \A x \in worker[w].found : e[2] < x.run \/ Protected(w, x)
InRewrite(w) == worker[w].at \in {"read", "replace"} =>
  /\ worker[w].file \in DOMAIN history
  /\ worker[w].kept = DOMAIN history[worker[w].file] \ worker[w].gone[worker[w].file]
  /\ worker[w].at = "replace" => worker[w].lines = history[worker[w].file]

Collected(w) ==
  /\ \A p \in Projects : \A r \in 1..MaxRuns : Stays(w, p, r) <=> Seen(w, p, r)
  /\ Fresh(w) \/ Done(w)
  /\ worker[w].at # "evict" => Done(w)
  /\ OldOnes(w)
  /\ worker[w].at \in {"store", "pruned"} => worker[w].gone = NoneGone
  /\ InRewrite(w)
Calm(w) ==
  /\ worker[w].at \in {"collect", "evict", "read", "replace", "store", "pruned"}
  /\ worker[w].total = TotalBytes
  /\ worker[w].at # "collect" => Collected(w)

PInv == HInv /\ \A w \in calm : Calm(w)

\* Calm depends on the worker and on the files.
LEMMA CalmFrame ==
  ASSUME NEW w \in Projects, Calm(w), worker'[w] = worker[w], UNCHANGED <<history, archive>>
  PROVE  Calm(w)'
<1>1. TotalBytes' = TotalBytes
  BY DEF TotalBytes, SizeOf
<1>2. Enough(w)' = Enough(w) /\ Evictable(w)' = Evictable(w)
  BY DEF Enough, Evictable, Protected
<1>3. Done(w)' <=> Done(w)
  BY <1>2 DEF Done
<1>4. (Fresh(w)' <=> Fresh(w)) /\ (OldOnes(w)' <=> OldOnes(w)) /\ (InRewrite(w)' <=> InRewrite(w))
  BY DEF Fresh, OldOnes, InRewrite, Protected
<1>5. \A p, r : (Stays(w, p, r)' <=> Stays(w, p, r)) /\ (Seen(w, p, r)' <=> Seen(w, p, r))
  BY DEF Stays, Seen
<1>6. Collected(w) => Collected(w)'
  BY <1>3, <1>4, <1>5 DEF Collected, NoneGone
<1>7. QED BY <1>1, <1>6 DEF Calm

\* A prune starts with the bytes on disk as its total.
LEMMA CalmByWalk ==
  ASSUME PInv, NEW w \in Projects, Walk(w), ~Return(w)
  PROVE  Calm(w)'
<1>1. worker \in [Projects -> Pruning] /\ worker[w] \in Pruning
  BY DEF PInv, HInv, TypeOK
<1>2. worker'[w].at = "collect" /\ worker'[w].total = TotalBytes
  BY <1>1 DEF Walk, Pruning
<1>3. TotalBytes' = TotalBytes
  BY DEF Walk, TotalBytes, SizeOf
<1>4. QED BY <1>2, <1>3 DEF Calm

\* Collecting finds every run, at its line.
LEMMA CalmByCollect ==
  ASSUME PInv, NEW w \in calm, Collect(w), ~Return(w)
  PROVE  Calm(w)'
<1>1. TypeOK /\ worker \in [Projects -> Pruning] /\ w \in Projects /\ worker[w] \in Pruning /\ Local(w) /\ Calm(w)
  BY DEF PInv, HInv, TypeOK
<1>2. /\ worker[w].at = "collect" /\ UNCHANGED <<history, archive>>
      /\ worker' = [worker EXCEPT ![w].at = "evict", ![w].found = FoundNow, ![w].target = Batch]
  BY DEF Collect, FoundNow
<1>3. worker[w].evicted = {} /\ worker[w].gone = NoneGone /\ worker[w].total = TotalBytes
  BY <1>1, <1>2 DEF Local, Calm
<1>4. /\ worker'[w].at = "evict" /\ worker'[w].found = FoundNow /\ worker'[w].total = TotalBytes
      /\ worker'[w].evicted = {} /\ worker'[w].gone = NoneGone
  BY <1>1, <1>2, <1>3 DEF Pruning
<1>5. TotalBytes' = TotalBytes
  BY <1>2 DEF TotalBytes, SizeOf
<1>6. \A p \in Projects : NoneGone[p] = {}
  BY DEF NoneGone
<1>7. ASSUME NEW p \in Projects, NEW r \in 1..MaxRuns PROVE Stays(w, p, r)' <=> Seen(w, p, r)'
  <2>1. Stays(w, p, r)' <=> p \in DOMAIN history /\ \E i \in DOMAIN history[p] : history[p][i] = r
    BY <1>2, <1>4, <1>6 DEF Stays
  <2>2. Seen(w, p, r)' <=> \E x \in FoundNow : x.of = p /\ x.run = r
    BY <1>4 DEF Seen
  <2>3. ASSUME NEW x \in FoundNow, x.of = p, x.run = r
        PROVE  p \in DOMAIN history /\ \E i \in DOMAIN history[p] : history[p][i] = r
    BY <1>1, <2>3, FoundNowFacts
  <2>4. ASSUME p \in DOMAIN history, NEW i \in DOMAIN history[p], history[p][i] = r
        PROVE  \E x \in FoundNow : x.of = p /\ x.run = r
    <3>1. [of |-> p, line |-> i, run |-> history[p][i]] \in FoundNow
      BY <1>1, <2>4, FoundNowFacts
    <3>2. QED BY <2>4, <3>1
  <2>5. QED BY <2>1, <2>2, <2>3, <2>4
<1>8. Fresh(w)'
  <2> SUFFICES ASSUME NEW x \in FoundNow
               PROVE  /\ x.of \in DOMAIN history /\ x.line \in DOMAIN history[x.of] \ {}
                      /\ history[x.of][x.line] = x.run /\ NoneGone[x.of] = {}
    BY <1>2, <1>4 DEF Fresh
  <2>1. x.of \in DOMAIN history /\ x.line \in DOMAIN history[x.of] /\ x.run = history[x.of][x.line] /\ x \in FoundType
    BY <1>1, FoundNowFacts
  <2>2. QED BY <1>6, <2>1 DEF FoundType
<1>9. OldOnes(w)' /\ InRewrite(w)'
  BY <1>4 DEF OldOnes, InRewrite
<1>10. Collected(w)'
  BY <1>4, <1>7, <1>8, <1>9 DEF Collected
<1>11. QED BY <1>4, <1>5, <1>10 DEF Calm

\* The bytes without an archive, without the history of a project, and with a shorter one.
LEMMA TotalWithoutArchive ==
  ASSUME HInv, NEW e, history' = history, archive' = Restrict(archive, DOMAIN archive \ {e})
  PROVE  /\ TotalBytes \in Nat /\ TotalBytes' \in Nat
         /\ TotalBytes = TotalBytes' + IF e \in DOMAIN archive THEN archive[e] ELSE 0
<1>1. TypeOK /\ IsFiniteSet(DOMAIN archive) /\ IsFiniteSet(DOMAIN history)
  BY RunsFinite, ConstantTypes, FS_Subset DEF HInv, TypeOK
<1>2. \A d \in DOMAIN archive : archive[d] \in Nat
  BY <1>1, BytesNat
<1>3. /\ SumFunction(archive) \in Nat /\ SumFunction(archive') \in Nat
      /\ SumFunction(archive) = SumFunction(archive') + IF e \in DOMAIN archive THEN archive[e] ELSE 0
  BY <1>1, <1>2, SumWithout
<1>4. LineSum(history) \in Nat
  BY <1>1, LineSumFacts DEF TypeOK
<1>5. TotalBytes = SumFunction(archive) + LineSum(history)
  BY TotalIs
<1>6. TotalBytes' = SumFunction(archive') + LineSum(history)
  <2>1. (TotalBytes = SumFunction(archive) + LineSum(history))'
    BY TotalIs, PTL
  <2>2. QED BY <2>1 DEF LineSum
<1>7. (IF e \in DOMAIN archive THEN archive[e] ELSE 0) \in Nat
  BY <1>2
<1>8. QED BY <1>3, <1>4, <1>5, <1>6, <1>7

LEMMA TotalWithoutHistory ==
  ASSUME HInv, NEW p \in DOMAIN history, archive' = archive,
         history' = Restrict(history, DOMAIN history \ {p})
  PROVE  /\ TotalBytes \in Nat /\ TotalBytes' \in Nat /\ SizeOf(p) \in Nat
         /\ TotalBytes = TotalBytes' + SizeOf(p)
<1>1. TypeOK /\ IsFiniteSet(DOMAIN archive) /\ IsFiniteSet(DOMAIN history) /\ p \in Projects
  BY RunsFinite, ConstantTypes, FS_Subset DEF HInv, TypeOK
<1>2. SumFunction(archive) \in Nat
  <2>1. \A d \in DOMAIN archive : archive[d] \in Nat
    BY <1>1, BytesNat
  <2>2. QED BY <1>1, <2>1, SumWithout
<1>3. /\ LineSum(history) \in Nat /\ LineSum(Restrict(history, DOMAIN history \ {p})) \in Nat
      /\ LineSum(history) = LineSum(Restrict(history, DOMAIN history \ {p})) + LineBytes * Len(history[p])
  <2>1. \A q \in DOMAIN history : history[q] \in Seq(1..MaxRuns)
    BY <1>1 DEF TypeOK
  <2> DEFINE T == 1..MaxRuns
  <2>2. \A q \in DOMAIN history : history[q] \in Seq(T)
    BY <2>1
  <2> HIDE DEF T
  <2>3. QED BY <1>1, <2>2, LineSumFacts
<1>4. TotalBytes = SumFunction(archive) + LineSum(history)
  BY TotalIs
<1>5. TotalBytes' = SumFunction(archive) + LineSum(Restrict(history, DOMAIN history \ {p}))
  <2>1. (TotalBytes = SumFunction(archive) + LineSum(history))'
    BY TotalIs, PTL
  <2>2. QED BY <2>1 DEF LineSum
<1>6. SizeOf(p) = LineBytes * Len(history[p]) /\ SizeOf(p) \in Nat
  <2>1. SizeOf(p) = LineBytes * Len(history[p])
    BY DEF SizeOf
  <2>2. QED BY <1>1, <2>1, BytesNat
<1>7. QED BY <1>2, <1>3, <1>4, <1>5, <1>6

LEMMA TotalWithNew ==
  ASSUME HInv, NEW p \in DOMAIN history, archive' = archive,
         NEW new \in Seq(1..MaxRuns), history' = Put(history, p, new)
  PROVE  /\ TotalBytes \in Nat
         /\ TotalBytes' + LineBytes * Len(history[p]) = TotalBytes + LineBytes * Len(new)
<1>1. TypeOK /\ IsFiniteSet(DOMAIN archive) /\ IsFiniteSet(DOMAIN history) /\ p \in Projects
  BY RunsFinite, ConstantTypes, FS_Subset DEF HInv, TypeOK
<1>2. SumFunction(archive) \in Nat
  <2>1. \A d \in DOMAIN archive : archive[d] \in Nat
    BY <1>1, BytesNat
  <2>2. QED BY <1>1, <2>1, SumWithout
<1> DEFINE T == 1..MaxRuns
<1>a. \A q \in DOMAIN history : history[q] \in Seq(T)
  BY <1>1 DEF TypeOK
<1>b. new \in Seq(T)
  OBVIOUS
<1> HIDE DEF T
<1>3. LineSum(history) \in Nat
  BY <1>1, <1>a, LineSumFacts
<1>4. LineSum(Put(history, p, new)) + LineBytes * Len(history[p]) = LineSum(history) + LineBytes * Len(new)
  BY <1>1, <1>a, <1>b, LineSumFacts
<1>5. TotalBytes = SumFunction(archive) + LineSum(history)
  BY TotalIs
<1>6. TotalBytes' = SumFunction(archive) + LineSum(Put(history, p, new))
  <2>1. (TotalBytes = SumFunction(archive) + LineSum(history))'
    BY TotalIs, PTL
  <2>2. QED BY <2>1 DEF LineSum
<1>7. LineBytes * Len(history[p]) \in Nat /\ LineBytes * Len(new) \in Nat
  <2>1. Len(history[p]) \in Nat /\ Len(new) \in Nat
    BY <1>a, <1>b, SeqParts
  <2>2. \A i, j \in Nat : i * j \in Nat
    OBVIOUS
  <2>3. QED BY <2>1, <2>2, ConstantTypes
<1>8. \A h \in Nat : h + LineBytes * Len(history[p]) \in Nat
  BY <1>7
<1>9. LineSum(Put(history, p, new)) \in Nat
  <2>1. IsFiniteSet(DOMAIN Put(history, p, new)) /\ \A q \in DOMAIN Put(history, p, new) : Put(history, p, new)[q] \in Seq(T)
    <3>1. DOMAIN Put(history, p, new) = DOMAIN history
      BY DEF Put
    <3>2. QED BY <1>1, <1>a, <1>b, <3>1 DEF Put
  <2> DEFINE g == Put(history, p, new)
  <2> HIDE DEF g
  <2>2. LineSum(g) \in Nat
    BY <2>1, LineSumFacts DEF g
  <2>3. QED BY <2>2 DEF g
<1> DEFINE a == LineBytes * Len(history[p])
           b == LineBytes * Len(new)
           c == LineSum(Put(history, p, new))
           d == LineSum(history)
           s == SumFunction(archive)
<1>10. a \in Nat /\ b \in Nat /\ c \in Nat /\ d \in Nat /\ s \in Nat /\ c + a = d + b
  BY <1>2, <1>3, <1>4, <1>7, <1>9
<1>11. TotalBytes = s + d /\ TotalBytes' = s + c
  BY <1>5, <1>6
<1> HIDE DEF a, b, c, d, s
<1>12. TotalBytes \in Nat /\ TotalBytes' + a = TotalBytes + b
  BY <1>10, <1>11
<1>13. QED BY <1>12 DEF a, b

\* No subtraction saturates where the total is exact.
LEMMA MinusExact ==
  ASSUME NEW n \in Nat, NEW m \in Nat, NEW k \in Nat, n = k + m
  PROVE  Minus(n, m) = k
  BY DEF Minus

\* Evicting takes the oldest run with its archive: the line it remembers is still its
\* own.
LEMMA CalmByEvict ==
  ASSUME PInv, NEW w \in calm, Evict(w)
  PROVE  Calm(w)'
<1>1. HInv /\ TypeOK /\ worker \in [Projects -> Pruning] /\ w \in Projects /\ worker[w] \in Pruning /\ Local(w) /\ Calm(w)
  BY DEF PInv, HInv, TypeOK
<1>2. worker[w].at = "evict" /\ ~Enough(w) /\ Evictable(w) # {} /\ history' = history
  BY DEF Evict, Evicting
<1>3. Collected(w) /\ Fresh(w) /\ worker[w].total = TotalBytes
  BY <1>1, <1>2 DEF Calm, Collected, Done
<1>4. PICK x \in Evictable(w) : EvictsRun(w, x)
  BY <1>1, EvictFacts
<1> DEFINE b == BytesOf(x)
           e == <<x.of, x.run>>
           t == worker'[w].target
<1>5. /\ \A y \in Evictable(w) \ {x} : x.run < y.run
      /\ x \in FoundType /\ b \in Nat /\ t \in Nat
      /\ archive' = Restrict(archive, DOMAIN archive \ {e})
      /\ worker' = [worker EXCEPT
           ![w].found = @ \ {x}, ![w].total = Minus(@, b), ![w].reclaimed = @ + b,
           ![w].gone[x.of] = @ \cup {x.line}, ![w].evicted = @ \cup {e}, ![w].target = t]
  BY <1>4 DEF EvictsRun
<1>6. x \in worker[w].found /\ ~Protected(w, x)
  BY <1>4 DEF Evictable
<1>7. TotalBytes \in Nat /\ TotalBytes' \in Nat /\ TotalBytes = TotalBytes' + b
  BY <1>1, <1>2, <1>5, TotalWithoutArchive DEF BytesOf
<1> HIDE DEF b, t
<1>8. /\ worker'[w].at = "evict" /\ worker'[w].found = worker[w].found \ {x}
      /\ worker'[w].total = Minus(worker[w].total, b) /\ worker'[w].run = worker[w].run
      /\ worker'[w].evicted = worker[w].evicted \cup {e}
      /\ worker'[w].gone = [worker[w].gone EXCEPT ![x.of] = @ \cup {x.line}]
  BY <1>1, <1>2, <1>5 DEF Pruning
<1>9. worker'[w].total = TotalBytes'
  <2>1. \A n, m, k \in Nat : n = k + m => Minus(n, m) = k
    BY MinusExact
  <2>2. b \in Nat
    BY <1>5
  <2>3. Minus(TotalBytes, b) = TotalBytes'
    BY <1>7, <2>1, <2>2
  <2>4. QED BY <1>3, <1>8, <2>3
<1>10. x.of \in Projects /\ x.run \in 1..MaxRuns
  BY <1>5 DEF FoundType
<1>11. /\ x.of \in DOMAIN history /\ x.line \in DOMAIN history[x.of] \ worker[w].gone[x.of]
       /\ history[x.of][x.line] = x.run
  BY <1>3, <1>6 DEF Fresh
<1>12. \A y \in worker[w].found : y.run = x.run => y = x
  BY <1>1, <1>6 DEF Local
<1>13. worker[w].gone \in [Projects -> SUBSET Nat]
  BY <1>1, Fields
<1> DEFINE g == worker[w].gone
           h == worker'[w].gone
<1>14. /\ h[x.of] = g[x.of] \cup {x.line}
       /\ \A p \in Projects : p # x.of => h[p] = g[p]
  BY <1>8, <1>10, <1>13
<1> HIDE DEF g, h
<1>15. ASSUME NEW p \in Projects, NEW r \in 1..MaxRuns PROVE Stays(w, p, r)' <=> Seen(w, p, r)'
  <2>1. Stays(w, p, r)' <=> p \in DOMAIN history /\ \E i \in DOMAIN history[p] \ h[p] : history[p][i] = r
    BY <1>2 DEF Stays, h
  <2>2. Stays(w, p, r) <=> p \in DOMAIN history /\ \E i \in DOMAIN history[p] \ g[p] : history[p][i] = r
    BY DEF Stays, g
  <2>3. Seen(w, p, r)' <=> \E y \in worker[w].found \ {x} : y.of = p /\ y.run = r
    BY <1>8 DEF Seen
  <2>4. Seen(w, p, r) <=> \E y \in worker[w].found : y.of = p /\ y.run = r
    BY DEF Seen
  <2>5. Stays(w, p, r) <=> Seen(w, p, r)
    BY <1>3 DEF Collected
  <2>6. CASE p # x.of
    BY <1>14, <2>1, <2>2, <2>3, <2>4, <2>5, <2>6
  <2>7. CASE p = x.of
    <3>1. Once(history[p])
      BY <1>1, <1>11, <2>7 DEF HInv, Numbered
    <3>2. Stays(w, p, r)' <=> Stays(w, p, r) /\ r # x.run
      <4>1. ASSUME NEW i \in DOMAIN history[p] PROVE i = x.line <=> history[p][i] = x.run
        BY <1>11, <2>7, <3>1 DEF Once
      <4>2. h[p] = g[p] \cup {x.line}
        BY <1>14, <2>7
      <4>3. QED BY <2>1, <2>2, <4>1, <4>2
    <3>3. Seen(w, p, r)' <=> Seen(w, p, r) /\ r # x.run
      BY <1>12, <2>3, <2>4
    <3>4. QED BY <2>5, <3>2, <3>3
  <2>8. QED BY <2>6, <2>7
<1>16. Fresh(w)'
  <2> SUFFICES ASSUME NEW y \in worker[w].found \ {x}
               PROVE  /\ y.of \in DOMAIN history /\ y.line \in DOMAIN history[y.of] \ h[y.of]
                      /\ history[y.of][y.line] = y.run
    BY <1>2, <1>8 DEF Fresh, h
  <2>1. /\ y.of \in DOMAIN history /\ y.line \in DOMAIN history[y.of] \ g[y.of]
        /\ history[y.of][y.line] = y.run
    BY <1>3 DEF Fresh, g
  <2>2. y.of \in Projects
    BY <1>1, <2>1 DEF TypeOK
  <2>3. y.of = x.of => y.line # x.line
    BY <1>11, <1>12, <2>1
  <2>4. y.line \notin h[y.of]
    BY <1>14, <2>1, <2>2, <2>3
  <2>5. QED BY <2>1, <2>4
<1>17. OldOnes(w)'
  <2> SUFFICES ASSUME NEW d \in worker[w].evicted \cup {e}
               PROVE  /\ d \notin DOMAIN archive' /\ d # <<w, worker[w].run>>
                      /\ \A y \in worker[w].found \ {x} : d[2] < y.run \/ Protected(w, y)
    <3>1. \A y : Protected(w, y)' <=> Protected(w, y)
      BY <1>8 DEF Protected
    <3>2. QED BY <1>8, <3>1 DEF OldOnes
  <2>1. DOMAIN archive' = DOMAIN archive \ {e}
    BY <1>5 DEF Restrict
  <2>2. CASE d \in worker[w].evicted
    BY <1>3, <2>1, <2>2 DEF Collected, OldOnes
  <2>3. CASE d = e
    <3>1. d # <<w, worker[w].run>>
      BY <1>6, <2>3 DEF Protected
    <3>2. d[2] = x.run
      BY <2>3
    <3>3. \A y \in worker[w].found \ {x} : Protected(w, y) \/ x.run < y.run
      BY <1>5 DEF Evictable
    <3>4. QED BY <2>1, <2>3, <3>1, <3>2, <3>3
  <2>4. QED BY <2>2, <2>3
<1>18. InRewrite(w)'
  BY <1>8 DEF InRewrite
<1>19. Collected(w)'
  BY <1>8, <1>15, <1>16, <1>17, <1>18 DEF Collected
<1>20. QED BY <1>8, <1>9, <1>19 DEF Calm

\* A worker that is done stays so when its total falls.
LEMMA DoneStays ==
  ASSUME HInv, NEW w \in Projects, Done(w),
         worker'[w].reclaimed = worker[w].reclaimed, worker'[w].target = worker[w].target,
         worker'[w].total \in Nat, worker'[w].total <= worker[w].total,
         worker'[w].found = worker[w].found, worker'[w].run = worker[w].run
  PROVE  Done(w)'
<1>1. worker[w].total \in Nat
  BY Fields DEF HInv
<1>2. Evictable(w)' = Evictable(w)
  BY DEF Evictable, Protected
<1>3. Enough(w) => Enough(w)'
  BY <1>1, ConstantTypes DEF Enough
<1>4. QED BY <1>2, <1>3 DEF Done

LEMMA OldOnesStay ==
  ASSUME NEW w \in Projects, OldOnes(w), UNCHANGED archive,
         worker'[w].evicted = worker[w].evicted, worker'[w].found = worker[w].found,
         worker'[w].run = worker[w].run
  PROVE  OldOnes(w)'
<1>1. \A x : Protected(w, x)' <=> Protected(w, x)
  BY DEF Protected
<1>2. QED BY <1>1 DEF OldOnes

LEMMA RewritingIsDone ==
  ASSUME NEW w \in Projects, Rewriting(w)
  PROVE  worker[w].at = "evict" /\ Done(w)
  BY DEF Rewriting, Evicting, Done

\* Counting the lines to keep.
LEMMA CalmByCount ==
  ASSUME PInv, NEW w \in calm, NEW p \in Projects, CountLines(w, p), ~Return(w)
  PROVE  Calm(w)'
<1>1. HInv /\ TypeOK /\ worker \in [Projects -> Pruning] /\ w \in Projects /\ worker[w] \in Pruning /\ Calm(w)
  BY DEF PInv, HInv, TypeOK
<1>2. /\ worker[w].at = "evict" /\ Done(w) /\ archive' = archive /\ p \in DOMAIN history
      /\ worker[w].gone[p] # {}
  BY <1>1, RewritingIsDone DEF CountLines
<1>3. Collected(w) /\ worker[w].total = TotalBytes /\ worker[w].total \in Nat
  BY <1>1, <1>2, Fields DEF Calm
<1> DEFINE kept == Remaining(history[p], w, p)
<1>4. /\ history' = history
      /\ worker' = [worker EXCEPT ![w].at = "read", ![w].file = p, ![w].kept = kept]
  BY <1>2 DEF CountLines
<1>5. kept = DOMAIN history[p] \ worker[w].gone[p]
  BY DEF Remaining
<1> HIDE DEF kept
<1>6. /\ worker'[w].at = "read" /\ worker'[w].total = worker[w].total /\ worker'[w].found = worker[w].found
      /\ worker'[w].run = worker[w].run /\ worker'[w].evicted = worker[w].evicted
      /\ worker'[w].reclaimed = worker[w].reclaimed /\ worker'[w].target = worker[w].target
      /\ worker'[w].gone = worker[w].gone /\ worker'[w].file = p /\ worker'[w].kept = kept
  BY <1>1, <1>4 DEF Pruning
<1>7. Done(w)'
  BY <1>1, <1>2, <1>3, <1>6, DoneStays
<1>8. OldOnes(w)'
  BY <1>1, <1>2, <1>3, <1>6, OldOnesStay DEF Collected
<1>9. \A q \in Projects : \A r \in 1..MaxRuns : Stays(w, q, r)' <=> Seen(w, q, r)'
  <2>1. \A q, r : (Stays(w, q, r)' <=> Stays(w, q, r)) /\ (Seen(w, q, r)' <=> Seen(w, q, r))
    BY <1>4, <1>6 DEF Stays, Seen
  <2>2. QED BY <1>3, <2>1 DEF Collected
<1>10. InRewrite(w)'
  BY <1>2, <1>4, <1>5, <1>6 DEF InRewrite
<1>11. TotalBytes' = TotalBytes
  BY <1>2, <1>4 DEF TotalBytes, SizeOf
<1>12. Collected(w)'
  BY <1>6, <1>7, <1>8, <1>9, <1>10 DEF Collected
<1>13. QED BY <1>3, <1>6, <1>11, <1>12 DEF Calm

\* Removing a file none of whose lines is kept.
LEMMA CalmByRemove ==
  ASSUME PInv, NEW w \in calm, RemoveFile(w)
  PROVE  Calm(w)'
<1>1. HInv /\ TypeOK /\ w \in Projects /\ Calm(w)
  BY DEF PInv, HInv, TypeOK
<1> DEFINE p == worker[w].file
<1>2. /\ worker[w].at = "read" /\ worker[w].kept = {} /\ p \in Projects /\ SizeOf(p) \in Nat
      /\ Rewritten(w, SizeOf(p)) /\ archive' = archive
      /\ history' = Restrict(history, DOMAIN history \ {p})
  BY <1>1, RemoveFacts
<1>3. Collected(w) /\ worker[w].total = TotalBytes /\ worker[w].total \in Nat /\ Done(w)
  BY <1>1, <1>2, Fields DEF Calm, Collected
<1>4. p \in DOMAIN history /\ DOMAIN history[p] \ worker[w].gone[p] = {}
  BY <1>2, <1>3 DEF Collected, InRewrite
<1>5. /\ worker'[w].at = "evict" /\ worker'[w].total = Minus(worker[w].total, SizeOf(p))
      /\ worker'[w].found = worker[w].found
      /\ worker'[w].run = worker[w].run /\ worker'[w].evicted = worker[w].evicted
      /\ worker'[w].reclaimed = worker[w].reclaimed /\ worker'[w].target = worker[w].target
      /\ worker'[w].gone = [worker[w].gone EXCEPT ![p] = {}]
  BY <1>1, <1>2, RewrittenFacts
<1> HIDE DEF p
<1>6. TotalBytes \in Nat /\ TotalBytes' \in Nat /\ TotalBytes = TotalBytes' + SizeOf(p)
  BY <1>1, <1>2, <1>4, TotalWithoutHistory
<1>7. worker'[w].total = TotalBytes'
  <2>1. \A n, m, k \in Nat : n = k + m => Minus(n, m) = k
    BY MinusExact
  <2>2. Minus(TotalBytes, SizeOf(p)) = TotalBytes'
    BY <1>2, <1>6, <2>1
  <2>3. QED BY <1>3, <1>5, <2>2
<1>8. worker'[w].total <= worker[w].total /\ worker'[w].total \in Nat
  <2>1. \A n, m, k \in Nat : n = k + m => k <= n
    OBVIOUS
  <2>2. TotalBytes' <= TotalBytes
    BY <1>2, <1>6, <2>1
  <2>3. QED BY <1>3, <1>6, <1>7, <2>2
<1>9. Done(w)'
  BY <1>1, <1>3, <1>5, <1>8, DoneStays
<1>10. OldOnes(w)'
  BY <1>1, <1>2, <1>3, <1>5, OldOnesStay DEF Collected
<1>11. \A q \in Projects : q # p => worker'[w].gone[q] = worker[w].gone[q]
  <2>1. worker[w].gone \in [Projects -> SUBSET Nat]
    BY <1>1, Fields
  <2>2. QED BY <1>5, <2>1
<1>12. DOMAIN history' = DOMAIN history \ {p} /\ \A q \in DOMAIN history' : history'[q] = history[q]
  BY <1>2 DEF Restrict
<1>13. ASSUME NEW q \in Projects, NEW r \in 1..MaxRuns PROVE Stays(w, q, r)' <=> Seen(w, q, r)'
  <2>1. Stays(w, q, r)' <=> Stays(w, q, r)
    <3>1. CASE q = p
      <4>1. ~Stays(w, p, r)
        BY <1>4 DEF Stays
      <4>2. QED BY <1>12, <3>1, <4>1 DEF Stays
    <3>2. CASE q # p
      BY <1>11, <1>12, <3>2 DEF Stays
    <3>3. QED BY <3>1, <3>2
  <2>2. Seen(w, q, r)' <=> Seen(w, q, r)
    BY <1>5 DEF Seen
  <2>3. QED BY <1>3, <2>1, <2>2 DEF Collected
<1>14. InRewrite(w)'
  BY <1>5 DEF InRewrite
<1>15. Collected(w)'
  BY <1>5, <1>9, <1>10, <1>13, <1>14 DEF Collected
<1>16. QED BY <1>5, <1>7, <1>15 DEF Calm

\* A calm worker that goes on to its next step with what it has.
LEMMA CalmByRead ==
  ASSUME PInv, NEW w \in calm, ReadLines(w), ~Return(w)
  PROVE  Calm(w)'
<1>1. HInv /\ TypeOK /\ worker \in [Projects -> Pruning] /\ w \in Projects /\ worker[w] \in Pruning /\ Calm(w)
  BY DEF PInv, HInv, TypeOK
<1> DEFINE lines == history[worker[w].file]
<1>2. /\ worker[w].at = "read" /\ UNCHANGED <<history, archive>>
      /\ worker' = [worker EXCEPT ![w].at = "replace", ![w].lines = lines]
  BY DEF ReadLines
<1>3. Collected(w) /\ worker[w].total = TotalBytes /\ worker[w].total \in Nat /\ Done(w)
  BY <1>1, <1>2, Fields DEF Calm, Collected
<1>4. lines = history[worker[w].file]
  OBVIOUS
<1> HIDE DEF lines
<1>5. /\ worker'[w].at = "replace" /\ worker'[w].total = worker[w].total /\ worker'[w].found = worker[w].found
      /\ worker'[w].run = worker[w].run /\ worker'[w].evicted = worker[w].evicted
      /\ worker'[w].reclaimed = worker[w].reclaimed /\ worker'[w].target = worker[w].target
      /\ worker'[w].gone = worker[w].gone /\ worker'[w].file = worker[w].file
      /\ worker'[w].kept = worker[w].kept /\ worker'[w].lines = lines
  BY <1>1, <1>2 DEF Pruning
<1>6. Done(w)'
  BY <1>1, <1>3, <1>5, DoneStays
<1>7. OldOnes(w)'
  BY <1>1, <1>2, <1>3, <1>5, OldOnesStay DEF Collected
<1>8. \A q \in Projects : \A r \in 1..MaxRuns : Stays(w, q, r)' <=> Seen(w, q, r)'
  <2>1. \A q, r : (Stays(w, q, r)' <=> Stays(w, q, r)) /\ (Seen(w, q, r)' <=> Seen(w, q, r))
    BY <1>2, <1>5 DEF Stays, Seen
  <2>2. QED BY <1>3, <2>1 DEF Collected
<1>9. InRewrite(w)'
  BY <1>2, <1>3, <1>4, <1>5 DEF InRewrite, Collected
<1>10. TotalBytes' = TotalBytes
  BY <1>2 DEF TotalBytes, SizeOf
<1>11. Collected(w)'
  BY <1>5, <1>6, <1>7, <1>8, <1>9 DEF Collected
<1>12. QED BY <1>3, <1>5, <1>10, <1>11 DEF Calm

\* Storing the total when no file is left to rewrite: it is the bytes that are there.
LEMMA CalmByStore ==
  ASSUME PInv, NEW w \in calm, StoreTotal(w)
  PROVE  /\ Calm(w)' /\ TotalBytes' = TotalBytes
         /\ worker[w].at = "store" => index' \in {None, Drifted, TotalBytes}
<1>1. HInv /\ TypeOK /\ worker \in [Projects -> Pruning] /\ w \in Projects /\ worker[w] \in Pruning /\ Calm(w)
  BY DEF PInv, HInv, TypeOK
<1>2. /\ worker[w].at \in {"evict", "store"} /\ UNCHANGED <<history, archive>>
      /\ worker[w].at = "evict" => Done(w) /\ \A p \in Projects : worker[w].gone[p] = {}
      /\ worker[w].at = "store" => index' \in {None, Drifted, worker[w].total}
  BY <1>1, RewritingIsDone DEF StoreTotal, Files, Rewriting, EndWrite
<1>3. PICK a \in {"store", "pruned"} : worker' = [worker EXCEPT ![w].at = a]
  BY DEF StoreTotal, Step
<1>4. Collected(w) /\ worker[w].total = TotalBytes /\ worker[w].total \in Nat /\ Done(w)
  BY <1>1, <1>2, Fields DEF Calm, Collected
<1>5. /\ worker'[w].at = a /\ worker'[w].total = worker[w].total /\ worker'[w].found = worker[w].found
      /\ worker'[w].run = worker[w].run /\ worker'[w].evicted = worker[w].evicted
      /\ worker'[w].reclaimed = worker[w].reclaimed /\ worker'[w].target = worker[w].target
      /\ worker'[w].gone = worker[w].gone
  BY <1>1, <1>3 DEF Pruning
<1>6. Done(w)'
  BY <1>1, <1>4, <1>5, DoneStays
<1>7. OldOnes(w)'
  BY <1>1, <1>2, <1>4, <1>5, OldOnesStay DEF Collected
<1>8. \A q \in Projects : \A r \in 1..MaxRuns : Stays(w, q, r)' <=> Seen(w, q, r)'
  <2>1. \A q, r : (Stays(w, q, r)' <=> Stays(w, q, r)) /\ (Seen(w, q, r)' <=> Seen(w, q, r))
    BY <1>2, <1>5 DEF Stays, Seen
  <2>2. QED BY <1>4, <2>1 DEF Collected
<1>9. InRewrite(w)'
  BY <1>5 DEF InRewrite
<1>10. TotalBytes' = TotalBytes
  BY <1>2 DEF TotalBytes, SizeOf
<1>11. worker[w].gone = NoneGone
  <2>1. worker[w].gone \in [Projects -> SUBSET Nat]
    BY <1>1, Fields
  <2>2. CASE worker[w].at = "evict"
    BY <1>2, <2>1, <2>2 DEF NoneGone
  <2>3. CASE worker[w].at = "store"
    BY <1>4, <2>3 DEF Collected
  <2>4. QED BY <1>2, <2>2, <2>3
<1>12. Collected(w)'
  BY <1>5, <1>6, <1>7, <1>8, <1>9, <1>11 DEF Collected, NoneGone
<1>13. QED BY <1>2, <1>4, <1>5, <1>10, <1>12 DEF Calm

\* Replacing a file by the lines to keep leaves exactly the runs in sight.
LEMMA CalmByReplace ==
  ASSUME PInv, NEW w \in calm, Replace(w), ~Return(w)
  PROVE  Calm(w)'
<1>1. HInv /\ TypeOK /\ worker \in [Projects -> Pruning] /\ w \in Projects /\ worker[w] \in Pruning /\ Calm(w)
  BY DEF PInv, HInv, TypeOK
<1> DEFINE p == worker[w].file
           lines == worker[w].lines
           kept == worker[w].kept
           new == Keep(lines, kept)
           total == Minus(worker[w].total, Shrunk(lines, new))
<1>2. /\ worker[w].at = "replace" /\ p \in Projects /\ new \in Seq(1..MaxRuns)
      /\ Len(new) <= Len(lines) /\ Shrunk(lines, new) \in Nat
      /\ Shrunk(lines, new) = LineBytes * Len(lines) - LineBytes * Len(new)
      /\ \A n \in DOMAIN new : \E i \in kept \cap DOMAIN lines : new[n] = lines[i]
      /\ \A i \in kept \cap DOMAIN lines : \E n \in DOMAIN new : new[n] = lines[i]
      /\ history' = Put(history, p, new) /\ Rewritten(w, Shrunk(lines, new))
  BY <1>1, ReplaceFacts
<1>a. /\ p \in Projects
      /\ \A n \in DOMAIN new : \E i \in kept \cap DOMAIN lines : new[n] = lines[i]
      /\ \A i \in kept \cap DOMAIN lines : \E n \in DOMAIN new : new[n] = lines[i]
  BY <1>2
<1>3. archive' = archive
  BY DEF Replace
<1>4. Collected(w) /\ worker[w].total = TotalBytes /\ worker[w].total \in Nat /\ Done(w)
  BY <1>1, <1>2, Fields DEF Calm, Collected
<1>5. p \in DOMAIN history /\ kept = DOMAIN history[p] \ worker[w].gone[p] /\ lines = history[p]
  BY <1>2, <1>4 DEF Collected, InRewrite
<1>6. TotalBytes \in Nat /\ TotalBytes' + LineBytes * Len(lines) = TotalBytes + LineBytes * Len(new)
  BY <1>1, <1>2, <1>3, <1>5, TotalWithNew
<1>b. TotalBytes \in Nat
  BY <1>6
<1>7. LineBytes * Len(lines) \in Nat /\ LineBytes * Len(new) \in Nat
  <2> DEFINE T == 1..MaxRuns
  <2>1. lines \in Seq(T) /\ new \in Seq(T)
    BY <1>1, <1>2, Fields
  <2> HIDE DEF T, new, lines
  <2>2. Len(lines) \in Nat /\ Len(new) \in Nat
    BY <2>1, SeqParts
  <2>3. \A i, j \in Nat : i * j \in Nat
    OBVIOUS
  <2>4. QED BY <2>2, <2>3, ConstantTypes
<1> DEFINE a == LineBytes * Len(lines)
           b == LineBytes * Len(new)
           shrunk == Shrunk(lines, new)
<1>8. shrunk \in Nat /\ a = b + shrunk /\ a \in Nat /\ b \in Nat /\ TotalBytes' + a = TotalBytes + b
  <2>1. shrunk \in Nat /\ shrunk = a - b /\ a \in Nat /\ b \in Nat /\ TotalBytes' + a = TotalBytes + b
    BY <1>2, <1>6, <1>7
  <2>2. \A i, j, k \in Nat : k = i - j => i = j + k
    OBVIOUS
  <2> HIDE DEF a, b, shrunk
  <2>3. QED BY <2>1, <2>2
<1>9. TotalBytes' \in Nat
  <2>1. TypeOK'
    BY <1>1, ReplaceTyped
  <2>2. (TypeOK => TotalBytes \in Nat)'
    BY BytesNat, PTL
  <2>3. QED BY <2>1, <2>2
<1> HIDE DEF a, b, shrunk
<1>10. TotalBytes = TotalBytes' + shrunk /\ TotalBytes' <= TotalBytes
  <2>1. \A t, u, i, j, k \in Nat : i = j + k /\ u + i = t + j => t = u + k /\ u <= t
    OBVIOUS
  <2>2. QED BY <1>b, <1>8, <1>9, <2>1
<1>11. total = TotalBytes' /\ total <= worker[w].total /\ total \in Nat
  <2>1. \A n, m, k \in Nat : n = k + m => Minus(n, m) = k
    BY MinusExact
  <2>2. Minus(TotalBytes, shrunk) = TotalBytes'
    BY <1>b, <1>8, <1>9, <1>10, <2>1
  <2>3. total = TotalBytes'
    BY <1>4, <2>2 DEF shrunk
  <2> HIDE DEF total
  <2>4. QED BY <1>4, <1>9, <1>10, <2>3
<1>c. p = worker[w].file
  OBVIOUS
<1>d. Rewritten(w, shrunk)
  BY <1>2 DEF shrunk
<1>e. total = Minus(worker[w].total, shrunk)
  BY DEF shrunk
<1> HIDE DEF total, new, p
<1>12. /\ worker'[w].at = "evict" /\ worker'[w].total = total /\ worker'[w].found = worker[w].found
       /\ worker'[w].run = worker[w].run /\ worker'[w].evicted = worker[w].evicted
       /\ worker'[w].reclaimed = worker[w].reclaimed /\ worker'[w].target = worker[w].target
       /\ worker'[w].gone = [worker[w].gone EXCEPT ![p] = {}]
  BY <1>1, <1>8, <1>a, <1>c, <1>d, <1>e, RewrittenFacts
<1>13. Done(w)'
  BY <1>1, <1>4, <1>11, <1>12, DoneStays
<1>14. OldOnes(w)'
  BY <1>1, <1>3, <1>4, <1>12, OldOnesStay DEF Collected
<1>15. worker'[w].gone[p] = {} /\ \A q \in Projects : q # p => worker'[w].gone[q] = worker[w].gone[q]
  <2>1. worker[w].gone \in [Projects -> SUBSET Nat]
    BY <1>1, Fields
  <2>2. QED BY <1>a, <1>12, <2>1
<1>16. /\ DOMAIN history' = DOMAIN history /\ history'[p] = new
       /\ \A q \in DOMAIN history : q # p => history'[q] = history[q]
  BY <1>2, <1>5 DEF Put
<1>17. ASSUME NEW q \in Projects, NEW r \in 1..MaxRuns PROVE Stays(w, q, r)' <=> Seen(w, q, r)'
  <2>1. Stays(w, q, r)' <=> Stays(w, q, r)
    <3>1. CASE q = p
      <4>1. Stays(w, q, r)' <=> \E n \in DOMAIN new : new[n] = r
        <5>1. q \in DOMAIN history' /\ history'[q] = new /\ DOMAIN new \ worker'[w].gone[q] = DOMAIN new
          BY <1>5, <1>15, <1>16, <3>1
        <5>2. QED BY <5>1 DEF Stays
      <4>2. Stays(w, q, r) <=> \E i \in kept \cap DOMAIN lines : lines[i] = r
        BY <1>5, <3>1 DEF Stays
      <4>3. (\E n \in DOMAIN new : new[n] = r) <=> \E i \in kept \cap DOMAIN lines : lines[i] = r
        <5> HIDE DEF lines, kept
        <5>1. QED BY <1>a
      <4>4. QED BY <4>1, <4>2, <4>3
    <3>2. CASE q # p
      BY <1>15, <1>16, <3>2 DEF Stays
    <3>3. QED BY <3>1, <3>2
  <2>2. Seen(w, q, r)' <=> Seen(w, q, r)
    BY <1>12 DEF Seen
  <2>3. QED BY <1>4, <2>1, <2>2 DEF Collected
<1>18. InRewrite(w)'
  BY <1>12 DEF InRewrite
<1>19. Collected(w)'
  BY <1>12, <1>13, <1>14, <1>17, <1>18 DEF Collected
<1>20. QED BY <1>11, <1>12, <1>19 DEF Calm

\* A step of another worker either ends the calm or touches no file.
LEMMA CalmOfOther ==
  ASSUME PInv, NEW w \in Projects, NEW v \in calm', v \in Projects, v # w,
         ArchiveRun(w) \/ AddArchive(w) \/ AppendLine(w) \/ AppendFails(w) \/ AddLine(w) \/ Prune(w)
  PROVE  Calm(v)'
<1>1. OnlyWorker(w)
  BY StepOfOne DEF PInv
<1>2. v \in calm /\ UNCHANGED <<history, archive>>
  <2>1. CASE ArchiveRun(w) \/ AppendLine(w) \/ Evict(w)
    BY <2>1 DEF ArchiveRun, AppendLine, Evict, Disturb
  <2>2. CASE AddArchive(w) \/ AppendFails(w) \/ AddLine(w) \/ StoreTotal(w)
    BY <2>2 DEF AddArchive, AppendFails, AddLine, StoreTotal, Files
  <2>3. CASE Walk(w) \/ Collect(w) \/ ReadLines(w) \/ Pruned(w)
    BY <2>3 DEF Walk, Collect, ReadLines, Pruned, Return
  <2>4. CASE Replace(w) \/ RemoveFile(w)
    BY <2>4 DEF Replace, RemoveFile, Disturb, Return
  <2>5. ASSUME NEW p \in Projects, CountLines(w, p) PROVE v \in calm /\ UNCHANGED <<history, archive>>
    BY <2>5 DEF CountLines, Return
  <2>6. QED BY <2>1, <2>2, <2>3, <2>4, <2>5 DEF Prune
<1>3. worker'[v] = worker[v]
  BY <1>1 DEF OnlyWorker
<1>4. QED BY <1>2, <1>3, CalmFrame DEF PInv

\* The steps of a calm worker.
LEMMA CalmOfOne ==
  ASSUME PInv, NEW w \in Projects, w \in calm',
         ArchiveRun(w) \/ AddArchive(w) \/ AppendLine(w) \/ AppendFails(w) \/ AddLine(w) \/ Prune(w)
  PROVE  Calm(w)'
<1>1. ~Return(w)
  BY DEF Return
<1>2. CASE ArchiveRun(w) \/ AddArchive(w) \/ AppendLine(w) \/ AppendFails(w) \/ AddLine(w)
  <2>1. w \in calm /\ worker[w].at \in {"rest", "archived", "addArchive", "write", "appended", "addLine"}
    BY <1>2 DEF ArchiveRun, AddArchive, AppendLine, AppendFails, AddLine, Disturb, Files
  <2>2. QED BY <2>1 DEF PInv, Calm
<1>3. CASE Walk(w)
  BY <1>1, <1>3, CalmByWalk
<1>4. CASE Collect(w) \/ ReadLines(w) \/ Evict(w) \/ RemoveFile(w) \/ Replace(w) \/ StoreTotal(w)
  <2>1. w \in calm
    BY <1>1, <1>4 DEF Collect, ReadLines, Evict, RemoveFile, Replace, StoreTotal, Disturb, Files
  <2>2. QED BY <1>1, <1>4, <2>1, CalmByCollect, CalmByRead, CalmByEvict, CalmByRemove,
                CalmByReplace, CalmByStore
<1>5. ASSUME NEW p \in Projects, CountLines(w, p) PROVE Calm(w)'
  <2>1. w \in calm
    BY <1>1, <1>5 DEF CountLines
  <2>2. QED BY <1>1, <1>5, <2>1, CalmByCount
<1>6. CASE Pruned(w)
  BY <1>1, <1>6 DEF Pruned
<1>7. QED BY <1>2, <1>3, <1>4, <1>5, <1>6 DEF Prune

LEMMA CalmStep ==
  ASSUME PInv, [Next]_vars
  PROVE  \A v \in calm' : Calm(v)'
<1>1. HInv /\ TypeOK' /\ calm \subseteq Projects
  BY TypeStep DEF PInv, HInv, TypeOK
<1> SUFFICES ASSUME NEW v \in calm' PROVE Calm(v)'
  OBVIOUS
<1>2. v \in Projects
  BY <1>1 DEF TypeOK
<1>3. CASE UNCHANGED vars
  BY <1>2, <1>3, CalmFrame DEF vars, PInv
<1>4. CASE Seed \/ StoreSeed \/ Clear \/ SubtractCleared \/ \E p \in Projects : Measure(p)
  <2>1. v \in calm /\ UNCHANGED <<history, archive, worker>>
    BY <1>4 DEF Seed, StoreSeed, Clear, SubtractCleared, Measure, Files
  <2>2. QED BY <1>2, <2>1, CalmFrame DEF PInv
<1>5. ASSUME NEW w \in Projects,
             ArchiveRun(w) \/ AddArchive(w) \/ AppendLine(w) \/ AppendFails(w) \/ AddLine(w) \/ Prune(w)
      PROVE  Calm(v)'
  <2>1. CASE v = w
    BY <1>5, <2>1, CalmOfOne
  <2>2. CASE v # w
    BY <1>2, <1>5, <2>2, CalmOfOther
  <2>3. QED BY <2>1, <2>2
<1>6. QED BY <1>3, <1>4, <1>5 DEF Next

\* The invariant of prunes nobody interferes with.
LEMMA PruneInvariant == Spec => []PInv
<1>1. Init => PInv
  BY HistoryInit DEF PInv, Init
<1>2. PInv /\ [Next]_vars => PInv'
  <2> SUFFICES ASSUME PInv, [Next]_vars PROVE PInv'
    OBVIOUS
  <2>1. HInv'
    BY TypeStep, NumberedStep, LocalStep DEF PInv, HInv
  <2>2. QED BY <2>1, CalmStep DEF PInv
<1>3. QED BY <1>1, <1>2, PTL DEF Spec

\* What a calm worker that has pruned leaves: the lines are the runs it has in sight.
LEMMA LinesAreSeen ==
  ASSUME PInv, NEW w \in calm, worker[w].at = "pruned", NEW e \in Lines
  PROVE  \E x \in worker[w].found : e = <<x.of, x.run>>
<1>1. TypeOK /\ Collected(w) /\ w \in Projects /\ worker[w].gone = NoneGone
  BY DEF PInv, HInv, TypeOK, Calm, Collected
<1>2. PICK p \in DOMAIN history : e \in {<<p, history[p][i]>> : i \in DOMAIN history[p]}
  BY DEF Lines
<1>3. PICK i \in DOMAIN history[p] : e = <<p, history[p][i]>>
  BY <1>2
<1> DEFINE r == history[p][i]
<1>4. p \in Projects /\ r \in 1..MaxRuns
  <2>1. history[p] \in Seq(1..MaxRuns) /\ p \in Projects
    BY <1>1 DEF TypeOK
  <2> DEFINE T == 1..MaxRuns
  <2>2. history[p] \in Seq(T)
    BY <2>1
  <2> HIDE DEF T
  <2>3. r \in T
    BY <2>2, SeqParts
  <2>4. QED BY <2>1, <2>3 DEF T
<1>5. Stays(w, p, r)
  BY <1>1, <1>4 DEF Stays, NoneGone
<1> HIDE DEF r
<1>6. Seen(w, p, r)
  BY <1>1, <1>4, <1>5 DEF Collected
<1>7. e = <<p, r>>
  BY <1>3 DEF r
<1>8. QED BY <1>6, <1>7 DEF Seen

\* A prune nobody interferes with evicts the oldest runs first, and never the run just
\* appended: what it has evicted is gone, and is older than every line that is left.
THEOREM OldestEvicted == Spec => []EvictsOldest
<1>1. PInv => EvictsOldest
  <2> SUFFICES ASSUME PInv, NEW w \in calm, worker[w].at = "pruned", NEW e \in worker[w].evicted
               PROVE  /\ e # <<w, worker[w].run>> /\ e \notin Lines \cup DOMAIN archive
                      /\ \A x \in Lines : e[2] < x[2] \/ x = <<w, worker[w].run>>
    BY DEF EvictsOldest
  <2>1. OldOnes(w) /\ w \in Projects /\ TypeOK
    BY DEF PInv, HInv, TypeOK, Calm, Collected
  <2>2. /\ e \notin DOMAIN archive /\ e # <<w, worker[w].run>>
        /\ \A x \in worker[w].found : e[2] < x.run \/ Protected(w, x)
    BY <2>1 DEF OldOnes
  <2>3. ASSUME NEW x \in Lines PROVE e[2] < x[2] \/ x = <<w, worker[w].run>>
    <3>1. PICK y \in worker[w].found : x = <<y.of, y.run>>
      BY LinesAreSeen
    <3>2. QED BY <2>2, <3>1 DEF Protected
  <2>4. e \notin Lines
    <3>1. e \in Runs
      BY <2>1, Fields
    <3>2. e[2] \in Nat
      BY <3>1, ConstantTypes DEF Runs
    <3>3. QED BY <2>2, <2>3, <3>2
  <2>5. QED BY <2>2, <2>3, <2>4
<1>2. QED BY <1>1, PruneInvariant, PTL

\* A prune nobody interferes with ends within the limit, or with nothing left to evict but
\* the run just appended.
THEOREM LimitReached == Spec => []WithinLimit
<1>1. PInv => WithinLimit
  <2> SUFFICES ASSUME PInv, NEW w \in calm, worker[w].at = "pruned", ~(TotalBytes <= CacheSize)
               PROVE  Lines \subseteq {<<w, worker[w].run>>}
    BY DEF WithinLimit
  <2>1. Done(w) /\ worker[w].total = TotalBytes
    BY DEF PInv, Calm, Collected
  <2>2. Evictable(w) = {}
    BY <2>1 DEF Done, Enough
  <2>3. ASSUME NEW x \in Lines PROVE x = <<w, worker[w].run>>
    <3>1. PICK y \in worker[w].found : x = <<y.of, y.run>>
      BY LinesAreSeen
    <3>2. Protected(w, y)
      BY <2>2 DEF Evictable
    <3>3. QED BY <3>1, <3>2 DEF Protected
  <2>4. QED BY <2>3
<1>2. QED BY <1>1, PruneInvariant, PTL

\* Only storing the count takes a worker on from there.
LEMMA PrunedByStore ==
  ASSUME HInv, [Next]_vars, NEW w \in Projects, worker[w].at = "store", worker'[w].at = "pruned"
  PROVE  StoreTotal(w)
<1>1. CASE UNCHANGED vars
  BY <1>1 DEF vars
<1>2. CASE Seed \/ StoreSeed \/ Clear \/ SubtractCleared \/ \E p \in Projects : Measure(p)
  BY <1>2 DEF Seed, StoreSeed, Clear, SubtractCleared, Measure
<1>3. ASSUME NEW v \in Projects,
             ArchiveRun(v) \/ AddArchive(v) \/ AppendLine(v) \/ AppendFails(v) \/ AddLine(v) \/ Prune(v)
      PROVE  StoreTotal(w)
  <2>1. v = w
    BY <1>3, StepOfOne DEF OnlyWorker
  <2>2. QED BY <1>3, <2>1 DEF ArchiveRun, AddArchive, AppendLine, AppendFails, AddLine, Prune, Walk, Collect,
       Evict, Evicting, CountLines, Rewriting, RemoveFile, ReadLines, Replace, Pruned
<1>4. QED BY <1>1, <1>2, <1>3 DEF Next

\* Whatever the count has drifted to, the number a prune puts down is the bytes that are
\* there, if no one interferes with its files or with its write of the count.
THEOREM CountsCorrected == Spec => CountCorrected
<1>1. PInv /\ [Next]_vars =>
        [\A w \in calm : worker[w].at = "store" /\ worker'[w].at = "pruned"
                            => index' \in {None, Drifted, TotalBytes}]_vars
  <2> SUFFICES ASSUME PInv, [Next]_vars, NEW w \in calm, worker[w].at = "store", worker'[w].at = "pruned"
               PROVE  index' \in {None, Drifted, TotalBytes}
    OBVIOUS
  <2>1. w \in Projects
    BY DEF PInv, HInv, TypeOK
  <2>2. StoreTotal(w)
    BY <2>1, PrunedByStore DEF PInv
  <2>3. QED BY <2>2, CalmByStore
<1>2. QED BY <1>1, PruneInvariant, PTL DEF Spec, CountCorrected
=============================================================================
