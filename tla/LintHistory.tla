---------------------------- MODULE LintHistory ----------------------------
(***************************************************************************)
(* What the lint workers keep on disk for good: a history file and archived *)
(* logs per project, one stored count of all the bytes, and the pruning    *)
(* that holds those bytes below a limit.                                   *)
(*                                                                         *)
(* Every worker that ends a run archives its logs, appends a line to the   *)
(* history of its project and prunes the oldest runs of all projects.      *)
(* There is no lock but the one around adjustments of the count, so the    *)
(* steps below are cut at the accesses to files: workers of different      *)
(* projects, and the application clearing a history or seeding the count,  *)
(* go on in between.  Renames are atomic; a file being collected is read   *)
(* together with the others.  Runs are numbered by age.                    *)
(*                                                                         *)
(* The count is read and written in two steps.  Every write goes through   *)
(* one temporary file, and a prune or a seed writes without the lock: when *)
(* two writes overlap, or one fails, the file may hold either's number,    *)
(* the old one, a mixture, or nothing that can be read.                    *)
(***************************************************************************)
EXTENDS Naturals, Sequences, FiniteSets, TLC, Functions

CONSTANTS
  Projects,      \* the projects with a worker
  None,          \* no count is stored, or none that can be read
  Drifted,       \* a stored count that a race or an adjustment may have made any number
  LineBytes,     \* bytes of a history line
  ArchiveBytes,  \* bytes the logs of a run may have, 0 for none
  CacheSize,     \* lint.cache_size in bytes
  Earlier,       \* runs of earlier sessions
  MaxRuns,       \* bound: all runs, the earlier ones included
  MaxClears      \* bound: histories the user clears

ASSUME HistoryAssumption ==
  /\ IsFiniteSet(Projects) /\ None \notin Nat /\ None \notin Projects /\ Earlier <= MaxRuns
  /\ Drifted \notin Nat \cup {None}
  /\ ArchiveBytes \subseteq Nat /\ {LineBytes, CacheSize, Earlier, MaxRuns, MaxClears} \subseteq Nat

VARIABLES
  history,   \* history.jsonl of the projects that have one
  archive,   \* bytes of the runs/{run_id} directories that exist, by project and run
  index,     \* the stored count of bytes
  torn,      \* writes of it under way have overlapped
  lastRun,   \* the youngest run
  worker,    \* a worker between two accesses
  app,       \* the application between two accesses
  clears,    \* histories cleared so far
  calm       \* history variable: pruning workers no one has interfered with

vars == <<history, archive, index, torn, lastRun, worker, app, clears, calm>>

Runs == Projects \X (1..MaxRuns)
Lines == UNION {{<<p, history[p][i]>> : i \in DOMAIN history[p]} : p \in DOMAIN history}

SizeOf(p) == IF p \in DOMAIN history THEN LineBytes * Len(history[p]) ELSE 0
ArchivesOf(p) == SumFunctionOnSet(archive, {e \in DOMAIN archive : e[1] = p})
\* total_bytes_under, and project_dir_bytes of one project.
TotalBytes == SumFunction(archive) + SumFunction([p \in DOMAIN history |-> SizeOf(p)])
ProjectBytes(p) == SizeOf(p) + ArchivesOf(p)
HasDir(p) == p \in DOMAIN history \/ \E e \in DOMAIN archive : e[1] = p

\* f with the value v at x, and the elements of S in ascending order.
Put(f, x, v) == [y \in DOMAIN f \cup {x} |-> IF y = x THEN v ELSE f[y]]
Ascending(S) ==
  CHOOSE ix \in [1..Cardinality(S) -> S] : \A i, j \in 1..Cardinality(S) : i < j => ix[i] < ix[j]

AtRest == [at |-> "rest", run |-> 0, bytes |-> 0, total |-> 0, found |-> {}, reclaimed |-> 0,
           target |-> 0, gone |-> [p \in Projects |-> {}], evicted |-> {}, file |-> None,
           kept |-> {}, lines |-> <<>>]
AppAtRest == [at |-> "rest", of |-> None, bytes |-> 0]

\* Earlier sessions have left runs of any of the projects; the count is not seeded yet.
Init ==
  /\ \E of \in [1..Earlier -> Projects], b \in [1..Earlier -> ArchiveBytes] :
       /\ history = [p \in {of[r] : r \in 1..Earlier} |->
                       Ascending({r \in 1..Earlier : of[r] = p})]
       /\ archive = [e \in {<<of[r], r>> : r \in {q \in 1..Earlier : b[q] > 0}} |-> b[e[2]]]
  /\ index = None /\ torn = FALSE /\ lastRun = Earlier
  /\ worker = [w \in Projects |-> AtRest] /\ app = AppAtRest /\ clears = 0
  /\ calm = {}

\* saturating_sub.
Minus(n, m) == IF m <= n THEN n - m ELSE 0

\* Who holds ADJUST_LOCK, and who is between reading or measuring and the rename.
Adjusting == (\E w \in Projects : worker[w].at \in {"addArchive", "addLine"}) \/ app.at = "subtract"
Writing   == Adjusting \/ (\E w \in Projects : worker[w].at = "store") \/ app.at = "seed"

BeginWrite  == torn' = (torn \/ Writing) /\ UNCHANGED index
\* adjust: there is nothing to adjust while no count is stored.
BeginAdjust == ~Adjusting /\ index # None /\ BeginWrite
SkipAdjust  == ~Adjusting /\ index = None /\ UNCHANGED <<index, torn>>
\* A write alone that fails leaves the old number.
EndWrite(n) == /\ index' \in IF torn THEN {None, Drifted}
                             ELSE {n, IF index = None THEN None ELSE Drifted}
               /\ torn' = (torn /\ Writing')
\* An adjusted number is as right as the one it was read as: nobody can tell.
EndAdjust   == EndWrite(Drifted)

\* w changes a file: every other prune under way is interfered with.
Disturb(w) == calm' = calm \cap {w}
Files == <<history, archive, calm>>
-----------------------------------------------------------------------------
(* A worker ends a run.                                                    *)

\* The logs are copied to runs/{run_id}; copying may fail, and a run may have none.
ArchiveRun(w) ==
  /\ worker[w].at = "rest" /\ lastRun < MaxRuns
  /\ lastRun' = lastRun + 1
  /\ \E b \in ArchiveBytes :
       /\ archive' = IF b > 0 THEN Put(archive, <<w, lastRun'>>, b) ELSE archive
       /\ worker' = [worker EXCEPT ![w].at = IF b > 0 THEN "archived" ELSE "write",
                                   ![w].run = lastRun', ![w].bytes = b]
  /\ Disturb(w) /\ UNCHANGED <<history, index, torn, app, clears>>

Step(w, to) == worker' = [worker EXCEPT ![w].at = to]
AddArchive(w) ==
  /\ UNCHANGED <<Files, lastRun, app, clears>>
  /\ \/ worker[w].at = "archived" /\ BeginAdjust /\ Step(w, "addArchive")
     \/ worker[w].at = "archived" /\ SkipAdjust /\ Step(w, "write")
     \/ worker[w].at = "addArchive" /\ Step(w, "write") /\ EndAdjust

\* The history line is appended.  A failure is logged, and the archive stays.
AppendLine(w) ==
  /\ worker[w].at = "write"
  /\ history' = Put(history, w, Append(IF w \in DOMAIN history THEN history[w] ELSE << >>,
                                       worker[w].run))
  /\ Step(w, "appended") /\ Disturb(w)
  /\ UNCHANGED <<archive, index, torn, lastRun, app, clears>>

AppendFails(w) ==
  /\ worker[w].at = "write" /\ worker' = [worker EXCEPT ![w] = AtRest]
  /\ UNCHANGED <<Files, index, torn, lastRun, app, clears>>

AddLine(w) ==
  /\ UNCHANGED <<Files, lastRun, app, clears>>
  /\ \/ worker[w].at = "appended" /\ BeginAdjust /\ Step(w, "addLine")
     \/ worker[w].at = "appended" /\ SkipAdjust /\ Step(w, "walk")
     \/ worker[w].at = "addLine" /\ Step(w, "walk") /\ EndAdjust
-----------------------------------------------------------------------------
(* ... and prunes.                                                         *)

Return(w) == worker' = [worker EXCEPT ![w] = AtRest] /\ calm' = calm \ {w}

Walk(w) ==
  /\ worker[w].at = "walk"
  /\ IF TotalBytes <= CacheSize THEN Return(w)
     ELSE /\ worker' = [worker EXCEPT ![w].at = "collect", ![w].total = TotalBytes]
          /\ calm' = calm \cup {w}
  /\ UNCHANGED <<history, archive, index, torn, lastRun, app, clears>>

Batch == IF CacheSize \div 20 = 0 THEN 1 ELSE CacheSize \div 20

\* Every history file is read; a run is remembered with the number of its line.
Collect(w) ==
  /\ worker[w].at = "collect"
  /\ LET found == {[of |-> x[1], line |-> x[2], run |-> history[x[1]][x[2]]] :
                     x \in UNION {{p} \X DOMAIN history[p] : p \in DOMAIN history}}
     IN IF found = {} THEN Return(w)
        ELSE /\ worker' = [worker EXCEPT ![w].at = "evict", ![w].found = found, ![w].target = Batch]
             /\ UNCHANGED calm
  /\ UNCHANGED <<history, archive, index, torn, lastRun, app, clears>>

Unprotected(w, x) == FALSE
Protected(w, x) == x.of = w /\ x.run = worker[w].run
Before(x, y) == x.run < y.run
Oldest(S) == CHOOSE x \in S : \A y \in S \ {x} : Before(x, y)
Enough(w) == worker[w].reclaimed >= worker[w].target /\ worker[w].total <= CacheSize
OwnOnly(w) == {x \in worker[w].found : ~Protected(w, x) /\ x.of = w}
\* What is still to be looked at, oldest first.
Evictable(w) == {x \in worker[w].found : ~Protected(w, x)}
Evicting(w) == worker[w].at = "evict" /\ ~Enough(w) /\ Evictable(w) # {}
Rewriting(w) == worker[w].at = "evict" /\ ~Evicting(w)

\* The archive of the oldest run goes at once, its line later.  A batch that is reclaimed
\* without reaching the limit is followed by another.
Evict(w) ==
  /\ Evicting(w)
  /\ LET me == worker[w]
         x == Oldest(Evictable(w))
         e == <<x.of, x.run>>
         b == IF e \in DOMAIN archive THEN archive[e] ELSE 0
         left == Minus(me.total, b)
         reclaimed == me.reclaimed + b
     IN /\ archive' = Restrict(archive, DOMAIN archive \ {e})
        /\ worker' = [worker EXCEPT
             ![w].found = @ \ {x}, ![w].total = left, ![w].reclaimed = reclaimed,
             ![w].gone[x.of] = @ \cup {x.line}, ![w].evicted = @ \cup {e},
             ![w].target = IF reclaimed >= @ /\ left > CacheSize
                           THEN (reclaimed \div Batch + 1) * Batch ELSE @]
  /\ Disturb(w) /\ UNCHANGED <<history, index, torn, lastRun, app, clears>>

\* The lines of a file are counted, and the ones to keep chosen by their numbers.  A file
\* that is gone by now ends the prune.
Remaining(lines, w, p) == DOMAIN lines \ worker[w].gone[p]
CountLines(w, p) ==
  /\ Rewriting(w) /\ worker[w].gone[p] # {}
  /\ IF p \notin DOMAIN history THEN Return(w)
     ELSE /\ worker' = [worker EXCEPT ![w].at = "read", ![w].file = p,
                                      ![w].kept = Remaining(history[p], w, p)]
          /\ UNCHANGED calm
  /\ UNCHANGED <<history, archive, index, torn, lastRun, app, clears>>

\* With none to keep the file is removed, with a line appended meanwhile, if there is one.
Rewritten(w, bytes) ==
  worker' = [worker EXCEPT
    ![w].gone[worker[w].file] = {}, ![w].at = "evict", ![w].file = None, ![w].kept = {},
    ![w].lines = << >>, ![w].total = Minus(@, bytes)]
RemoveFile(w) ==
  /\ worker[w].at = "read" /\ worker[w].kept = {}
  /\ LET p == worker[w].file
     IN history' = Restrict(history, DOMAIN history \ {p}) /\ Rewritten(w, SizeOf(p))
  /\ Disturb(w) /\ UNCHANGED <<archive, index, torn, lastRun, app, clears>>

\* Otherwise it is opened again and read.
ReadLines(w) ==
  /\ worker[w].at = "read" /\ worker[w].kept # {}
  /\ IF worker[w].file \notin DOMAIN history THEN Return(w)
     ELSE /\ worker' = [worker EXCEPT ![w].at = "replace", ![w].lines = history[worker[w].file]]
          /\ UNCHANGED calm
  /\ UNCHANGED <<history, archive, index, torn, lastRun, app, clears>>

\* The lines with the chosen numbers, of those that were read, replace it.
KeepUnread(lines, those) ==  \* slip: a line that is not there any more becomes an empty one
  LET ix == Ascending(those) IN [n \in DOMAIN ix |-> IF ix[n] \in DOMAIN lines THEN lines[ix[n]] ELSE 0]
Keep(lines, those) ==
  LET ix == Ascending(those \cap DOMAIN lines) IN [n \in DOMAIN ix |-> lines[ix[n]]]
Uncounted(lines, new) == 0
Shrunk(lines, new) == Minus(LineBytes * Len(lines), LineBytes * Len(new))
Replace(w) ==
  /\ worker[w].at = "replace"
  /\ LET me == worker[w]
         new == Keep(me.lines, me.kept)
     IN IF HasDir(me.file)
        THEN history' = Put(history, me.file, new) /\ Rewritten(w, Shrunk(me.lines, new)) /\ Disturb(w)
        ELSE Return(w) /\ UNCHANGED history
  /\ UNCHANGED <<archive, index, torn, lastRun, app, clears>>

\* What is left is stored as the count, whatever others have added to it meanwhile.
StoreTotal(w) ==
  /\ UNCHANGED <<Files, lastRun, app, clears>>
  /\ \/ Rewriting(w) /\ (\A p \in Projects : worker[w].gone[p] = {}) /\ BeginWrite /\ Step(w, "store")
     \/ worker[w].at = "store" /\ Step(w, "pruned") /\ EndWrite(worker[w].total)

Pruned(w) ==
  /\ worker[w].at = "pruned" /\ Return(w)
  /\ UNCHANGED <<history, archive, index, torn, lastRun, app, clears>>
-----------------------------------------------------------------------------
(* The application.                                                        *)

\* retained_cache_usage: while no count is stored, the bytes are counted and stored.
Seed ==
  /\ app.at = "rest" /\ index = None /\ BeginWrite
  /\ app' = [app EXCEPT !.at = "seed", !.bytes = TotalBytes]
  /\ UNCHANGED <<Files, lastRun, worker, clears>>
StoreSeed ==
  /\ UNCHANGED <<Files, lastRun, worker, clears>>
  /\ app.at = "seed" /\ app' = AppAtRest /\ EndWrite(app.bytes)

\* reclaim_project_cache: the bytes of a project are counted, its directory removed, and
\* the count adjusted; a removal that fails half-way leaves some of its files, and the count as it was.
Measure(p) ==
  /\ app.at = "rest" /\ clears < MaxClears /\ clears' = clears + 1
  /\ app' = [at |-> "clear", of |-> p, bytes |-> ProjectBytes(p)]
  /\ UNCHANGED <<Files, index, torn, lastRun, worker>>
Clear ==
  /\ app.at = "clear" /\ LET p == app.of
                             own == {e \in DOMAIN archive : e[1] = p} IN
       IF ~HasDir(p) THEN app' = AppAtRest /\ UNCHANGED Files
       ELSE /\ calm' = {}
            /\ \/ /\ history' = Restrict(history, DOMAIN history \ {p})
                  /\ archive' = Restrict(archive, DOMAIN archive \ own)
                  /\ app' = IF app.bytes > 0 THEN [app EXCEPT !.at = "cleared"] ELSE AppAtRest
               \/ /\ history' \in {history, Restrict(history, DOMAIN history \ {p})}
                  /\ \E some \in SUBSET own : archive' = Restrict(archive, DOMAIN archive \ some)
                  /\ app' = AppAtRest
  /\ UNCHANGED <<index, torn, lastRun, worker, clears>>
SubtractCleared ==
  /\ UNCHANGED <<Files, lastRun, worker, clears>>
  /\ \/ app.at = "cleared" /\ BeginAdjust /\ app' = [app EXCEPT !.at = "subtract"]
     \/ app.at = "cleared" /\ SkipAdjust /\ app' = AppAtRest
     \/ app.at = "subtract" /\ app' = AppAtRest /\ EndAdjust
-----------------------------------------------------------------------------
Prune(w) == \/ Walk(w) \/ Collect(w) \/ Evict(w) \/ RemoveFile(w) \/ ReadLines(w) \/ Replace(w)
            \/ StoreTotal(w) \/ Pruned(w) \/ \E p \in Projects : CountLines(w, p)
Next == \/ \E w \in Projects : \/ ArchiveRun(w) \/ AddArchive(w) \/ AppendLine(w) \/ AppendFails(w)
                               \/ AddLine(w) \/ Prune(w)
        \/ Seed \/ StoreSeed \/ Clear \/ SubtractCleared \/ \E p \in Projects : Measure(p)
Spec == Init /\ [][Next]_vars
-----------------------------------------------------------------------------
(* Properties.                                                             *)

Pruning ==
  [at : {"rest", "archived", "addArchive", "write", "appended", "addLine", "walk", "collect",
         "evict", "read", "replace", "store", "pruned"},
   run : 0..MaxRuns, bytes : Nat, total : Nat, reclaimed : Nat, target : Nat,
   found : SUBSET [of : Projects, line : Nat, run : 1..MaxRuns],
   gone : [Projects -> SUBSET Nat], evicted : SUBSET Runs, file : Projects \cup {None},
   kept : SUBSET Nat, lines : Seq(1..MaxRuns)]

TypeOK ==
  /\ DOMAIN history \subseteq Projects /\ DOMAIN archive \subseteq Runs
  /\ \A p \in DOMAIN history : history[p] \in Seq(1..MaxRuns)
  /\ \A e \in DOMAIN archive : archive[e] \in ArchiveBytes \ {0}
  /\ index \in Nat \cup {None, Drifted} /\ torn \in BOOLEAN /\ lastRun \in 0..MaxRuns /\ clears \in Nat
  /\ calm \subseteq Projects
  /\ worker \in [Projects -> Pruning]
  /\ app \in [at : {"rest", "seed", "clear", "cleared", "subtract"}, of : Projects \cup {None}, bytes : Nat]

\* history.rs, prune_runs_under: "Remove the oldest complete runs (history line + archived
\* output directory)", and never the protected one.  A prune nobody interferes with evicts
\* no run that is younger than one it leaves, other than the run just appended.
EvictsOldest ==
  \A w \in calm : worker[w].at = "pruned" =>
    \A e \in worker[w].evicted :
      /\ e # <<w, worker[w].run>> /\ e \notin Lines \cup DOMAIN archive
      /\ \A x \in Lines : e[2] < x[2] \/ x = <<w, worker[w].run>>

\* "until total bytes fall within the limit": then, or when only the protected run is left.
WithinLimit ==
  \A w \in calm : worker[w].at = "pruned" =>
    TotalBytes <= CacheSize \/ Lines \subseteq {<<w, worker[w].run>>}

\* cache_size_index.rs: a stale count is one "that the next walk-and-rewrite or prune
\* corrects": whatever races before it have left behind, a number that a prune puts down
\* is the bytes on disk, if nobody interferes with the files, and no other write of the
\* count with its own.
CountCorrected ==
  [][\A w \in calm : worker[w].at = "store" /\ worker'[w].at = "pruned"
                        => index' \in {None, Drifted, TotalBytes}]_vars
=============================================================================
