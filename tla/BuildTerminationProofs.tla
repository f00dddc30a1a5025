----------------------- MODULE BuildTerminationProofs -----------------------
(***************************************************************************)
(* Proofs about BuildTermination, for any external builds and descendants, *)
(* with or without an owned run, any number of transactions, and threads   *)
(* that may break down.                                                    *)
(***************************************************************************)
EXTENDS BuildTermination, SequenceTheorems, TLAPS

\* The parts of TypeOK that have a record type.
TxType == [id : 0..MaxTx, frozen : SUBSET Sessions, pending : SUBSET (Procs \cup Owned),
           admitted : SUBSET Kids, above : Tree, top : Tree, ready : SUBSET Procs,
           pass : {"observe", "worker", "settled"}, request : Nat, batch : SUBSET Procs,
           progress : {"none", "outcome", "reap"}, results : SUBSET Results]
Record == [at : {"none", "terminating", "terminal"}, tx : 0..MaxTx,
           is : {"none", "RetryUnavailable"} \cup (Kinds \ {"Survived", "Refused"}),
           of : SUBSET Results]
ObsType == [at : {"none", "asked", "seen", "down"}, tx : 0..MaxTx, roots : SUBSET Roots,
            known : SUBSET Kids, gone : SUBSET Procs, here : SUBSET Roots,
            astray : SUBSET Roots, fresh : SUBSET Kids, above : Tree, top : Tree]
Plan == [req : Nat, tx : 1..MaxTx, left : SUBSET Procs, told : SUBSET Results]
Outcome == [req : Nat, told : SUBSET Results]
Mail == [kind : {"Sent", "Failed", "Reaped", "Finished"}, by : 0..MaxTx]
Aim == [at : {"idle", "admitted", "waiting"}, of : Procs \cup {None}]

WorldTypes ==
  /\ proc \in [Procs -> {"unborn", "live", "exited", "gone"}] /\ parent \in Tree
  /\ sent \in [1..MaxTx -> [Procs -> Nat]]
RunTypes ==
  /\ run \in {"running", "pending", "stopping", "over"} /\ child \in {"alive", "reaped"}
  /\ asked \in SUBSET (0..MaxTx) /\ mail \in Seq(Mail)
TxTypes ==
  /\ monitoring \in {"off", "pending", "fresh"} /\ entry \in [Sessions -> Record]
  /\ lastId \in 0..MaxTx /\ overdue \subseteq 1..MaxTx /\ requests \in Nat /\ tx \in TxType
WorkTypes ==
  /\ terminator \in {"up", "stopped", "unavailable"} /\ plans \in Seq(Plan) /\ aim \in Aim
  /\ outcomes \in Seq(Outcome)
Types == WorldTypes /\ RunTypes /\ TxTypes /\ WorkTypes /\ obs \in ObsType

LEMMA TypesAreTypeOK == TypeOK <=> Types
  BY DEF TypeOK, Types, WorldTypes, RunTypes, TxTypes, WorkTypes, TxType, Record, ObsType, Plan, Outcome,
         Mail, Aim
-----------------------------------------------------------------------------
(* Types of the operators.                                                 *)

LEMMA Constants ==
  /\ Roots \cap Kids = {} /\ Roots \cap Owned = {} /\ Kids \cap Owned = {}
  /\ MaxTx \in Nat /\ Procs = Roots \cup Kids /\ Sessions = Roots \cup Owned
  /\ None \notin Procs \cup Owned
  BY TerminationAssumption DEF TerminationAssumption, Procs, Sessions, None

LEMMA NoneInTree == [k \in Kids |-> None] \in Tree
  BY DEF Tree

LEMMA ConstantTypes == Idle \in TxType /\ NoEntry \in Record /\ NoObs \in ObsType /\ NoAim \in Aim
<1>1. Idle \in TxType
  BY Constants, NoneInTree DEF Idle, TxType
<1>2. NoEntry \in Record
  BY Constants DEF NoEntry, Record
<1>3. NoObs \in ObsType
  BY Constants, NoneInTree DEF NoObs, ObsType
<1>4. NoAim \in Aim
  BY DEF NoAim, Aim
<1>5. QED BY <1>1, <1>2, <1>3, <1>4

LEMMA ResultTypes ==
  \A p \in Procs \cup Owned, kind \in Kinds : <<p, kind>> \in Results
  BY DEF Results

\* What the operators on a transaction leave alone, all of them and the observations.
SameTx(t, u) == u.id = t.id /\ u.frozen = t.frozen /\ u.progress = t.progress
SamePass(t, u) == u.pass = t.pass /\ u.request = t.request /\ u.batch = t.batch

RootsGone(t, o) == o.gone \cap t.frozen \cap t.pending
RootsLost(t, o) == o.astray \cap t.frozen \cap t.ready
RootResults(t, o) == {<<r, SeenGone(t, r)>> : r \in RootsGone(t, o)}
                       \cup {<<r, "Refused">> : r \in RootsLost(t, o) \cap t.pending}

LEMMA SeenGoneKind == \A t, p : SeenGone(t, p) \in GoneKinds /\ SeenGone(t, p) \in Kinds
  BY DEF SeenGone, Kinds, GoneKinds

LEMMA ObservedRootsFields ==
  ASSUME NEW t \in TxType, NEW o \in ObsType
  PROVE  LET u == ObservedRoots(t, o) IN
         /\ u \in TxType /\ SameTx(t, u) /\ SamePass(t, u)
         /\ u.admitted = t.admitted /\ u.above = t.above /\ u.top = t.top
         /\ u.pending = t.pending \ RootsGone(t, o) /\ u.ready = t.ready \ RootsLost(t, o)
         /\ u.results = t.results \cup RootResults(t, o)
<1> DEFINE left == t.pending \ RootsGone(t, o)
           ready == t.ready \ RootsLost(t, o)
           results == t.results \cup RootResults(t, o)
<1>1. RootResults(t, o) \in SUBSET Results
  <2>1. "Refused" \in Kinds /\ RootsGone(t, o) \subseteq Procs \cup Owned
        /\ RootsLost(t, o) \cap t.pending \subseteq Procs \cup Owned
    BY DEF Kinds, TxType, ObsType, RootsGone, RootsLost
  <2>2. QED BY <2>1, SeenGoneKind, ResultTypes DEF RootResults
<1>2. left \in SUBSET (Procs \cup Owned) /\ ready \in SUBSET Procs /\ results \in SUBSET Results
  BY <1>1 DEF TxType
<1>3. ObservedRoots(t, o) = [t EXCEPT !.pending = left, !.ready = ready, !.results = results]
  BY DEF ObservedRoots, TxType, RootsGone, RootsLost, RootResults
<1>4. ObservedRoots(t, o).ready = ready /\ ObservedRoots(t, o).pending = left
      /\ ObservedRoots(t, o).results = results
  BY <1>3 DEF TxType
<1> HIDE DEF left, ready, results
<1>5. ObservedRoots(t, o) \in TxType
  BY <1>2, <1>3 DEF TxType
<1>6. SameTx(t, ObservedRoots(t, o)) /\ SamePass(t, ObservedRoots(t, o))
  BY <1>3 DEF TxType, SameTx, SamePass
<1>7. /\ ObservedRoots(t, o).admitted = t.admitted /\ ObservedRoots(t, o).above = t.above
      /\ ObservedRoots(t, o).top = t.top
  BY <1>3 DEF TxType
<1>8. QED BY <1>4, <1>5, <1>6, <1>7 DEF left, ready, results

KidsGone(t, o) == o.gone \cap t.admitted

LEMMA ObservedKidsFields ==
  ASSUME NEW t \in TxType, NEW o \in ObsType
  PROVE  LET u == ObservedKids(t, o) IN
         /\ u \in TxType /\ SameTx(t, u) /\ SamePass(t, u)
         /\ u.above = t.above /\ u.top = t.top /\ u.admitted = t.admitted \ KidsGone(t, o)
         /\ u.pending = t.pending \ KidsGone(t, o) /\ u.ready = t.ready \ KidsGone(t, o)
         /\ u.results = t.results \cup GoneResults(t, KidsGone(t, o))
<1> DEFINE gone == KidsGone(t, o)
           admitted == t.admitted \ gone
           left == t.pending \ gone
           ready == t.ready \ gone
           results == t.results \cup GoneResults(t, gone)
<1>1. GoneResults(t, gone) \in SUBSET Results
  <2>1. gone \cap t.pending \subseteq Procs \cup Owned
    BY DEF TxType
  <2>2. QED BY <2>1, SeenGoneKind, ResultTypes DEF GoneResults
<1>2. /\ admitted \in SUBSET Kids /\ left \in SUBSET (Procs \cup Owned)
      /\ ready \in SUBSET Procs /\ results \in SUBSET Results
  BY <1>1 DEF TxType
<1>3. ObservedKids(t, o) = [t EXCEPT !.admitted = admitted, !.pending = left, !.ready = ready,
                                      !.results = results]
  BY DEF ObservedKids, TxType, KidsGone
<1>4. ObservedKids(t, o).ready = ready /\ ObservedKids(t, o).pending = left
      /\ ObservedKids(t, o).results = results /\ ObservedKids(t, o).admitted = admitted
  BY <1>3 DEF TxType
<1> HIDE DEF admitted, left, ready, results
<1>5. ObservedKids(t, o) \in TxType
  BY <1>2, <1>3 DEF TxType
<1>6. SameTx(t, ObservedKids(t, o)) /\ SamePass(t, ObservedKids(t, o))
  BY <1>3 DEF TxType, SameTx, SamePass
<1>7. ObservedKids(t, o).above = t.above /\ ObservedKids(t, o).top = t.top
  BY <1>3 DEF TxType
<1>8. QED BY <1>4, <1>5, <1>6, <1>7 DEF admitted, left, ready, results, gone

New(t, o) == {k \in o.fresh \ t.admitted : o.top[k] \in t.pending}

LEMMA AdmitFields ==
  ASSUME NEW t \in TxType, NEW o \in ObsType
  PROVE  LET u == Admit(t, o) IN
         /\ u \in TxType /\ SameTx(t, u) /\ SamePass(t, u)
         /\ u.admitted = t.admitted \cup New(t, o) /\ u.pending = t.pending \cup New(t, o)
         /\ u.ready = t.ready \cup New(t, o) /\ u.results = t.results
         /\ \A k \in Kids : u.top[k] = IF k \in New(t, o) THEN o.top[k] ELSE t.top[k]
<1> DEFINE new == New(t, o)
           admitted == t.admitted \cup new
           left == t.pending \cup new
           ready == t.ready \cup new
           above == [k \in Kids |-> IF k \in new THEN o.above[k] ELSE t.above[k]]
           top == [k \in Kids |-> IF k \in new THEN o.top[k] ELSE t.top[k]]
<1>1. new \subseteq Kids /\ new \subseteq Procs
  BY Constants DEF New, ObsType
<1>2. above \in Tree /\ top \in Tree
  BY DEF TxType, ObsType, Tree
<1>3. /\ admitted \in SUBSET Kids /\ left \in SUBSET (Procs \cup Owned) /\ ready \in SUBSET Procs
  BY <1>1 DEF TxType
<1>4. Admit(t, o) = [t EXCEPT !.admitted = admitted, !.pending = left, !.ready = ready,
                              !.above = above, !.top = top]
  BY DEF Admit, TxType, New
<1>5. /\ Admit(t, o).admitted = admitted /\ Admit(t, o).pending = left
      /\ Admit(t, o).ready = ready /\ Admit(t, o).top = top
  <2> HIDE DEF admitted, left, ready, above, top
  <2>1. QED BY <1>4 DEF TxType
<1>6. \A k \in Kids : top[k] = IF k \in new THEN o.top[k] ELSE t.top[k]
  OBVIOUS
<1> HIDE DEF admitted, left, ready, above, top
<1>7. Admit(t, o) \in TxType
  <2>1. [t EXCEPT !.admitted = admitted, !.pending = left, !.ready = ready] \in TxType
    BY <1>3 DEF TxType
  <2>2. QED BY <2>1, <1>2, <1>4 DEF TxType
<1>8. /\ SameTx(t, Admit(t, o)) /\ SamePass(t, Admit(t, o)) /\ Admit(t, o).results = t.results
  BY <1>4 DEF TxType, SameTx, SamePass
<1>9. QED BY <1>5, <1>6, <1>7, <1>8 DEF admitted, left, ready

LEMMA TargetsType ==
  ASSUME NEW t \in TxType, NEW o \in ObsType
  PROVE  Targets(t, o) \subseteq t.ready /\ Targets(t, o) \in SUBSET Procs
  BY DEF Targets, TxType

OwnedResults(kind) == {<<o, kind>> : o \in Owned}

LEMMA EndOwnedFields ==
  ASSUME NEW t \in TxType, NEW kind \in Kinds
  PROVE  LET u == EndOwned(t, kind) IN
         /\ u \in TxType /\ u.id = t.id /\ u.frozen = t.frozen /\ u.progress = "none" /\ SamePass(t, u)
         /\ u.admitted = t.admitted /\ u.above = t.above /\ u.top = t.top /\ u.ready = t.ready
         /\ u.pending = t.pending \ Owned /\ u.results = t.results \cup OwnedResults(kind)
<1> DEFINE left == t.pending \ Owned
           results == t.results \cup OwnedResults(kind)
<1>1. left \in SUBSET (Procs \cup Owned) /\ results \in SUBSET Results
  BY ResultTypes DEF TxType, OwnedResults
<1>2. EndOwned(t, kind) = [t EXCEPT !.progress = "none", !.pending = left, !.results = results]
  BY DEF EndOwned, TxType, OwnedResults
<1> HIDE DEF left, results
<1>3. EndOwned(t, kind) \in TxType
  BY <1>1, <1>2 DEF TxType
<1>4. /\ EndOwned(t, kind).id = t.id /\ EndOwned(t, kind).frozen = t.frozen
      /\ EndOwned(t, kind).progress = "none" /\ SamePass(t, EndOwned(t, kind))
  BY <1>2 DEF TxType, SamePass
<1>5. /\ EndOwned(t, kind).admitted = t.admitted /\ EndOwned(t, kind).above = t.above
      /\ EndOwned(t, kind).top = t.top /\ EndOwned(t, kind).ready = t.ready
      /\ EndOwned(t, kind).pending = left /\ EndOwned(t, kind).results = results
  BY <1>2 DEF TxType
<1>6. QED BY <1>3, <1>4, <1>5 DEF left, results

\* The parts of Answered.
Known(t, told) == {x \in told : x[1] \in t.batch \cap t.pending}
Gone(t, told) == {x[1] : x \in {y \in Known(t, told) : y[2] \in GoneKinds}}
AnsweredPass(t, told) == IF (t.pending \ Gone(t, told)) \cap Procs # {} THEN "observe" ELSE "settled"

LEMMA AnsweredIs ==
  ASSUME NEW t \in TxType, NEW told
  PROVE  Answered(t, told) =
           [t EXCEPT !.results = t.results \cup Known(t, told), !.pending = t.pending \ Gone(t, told),
                     !.admitted = t.admitted \ Gone(t, told), !.request = 0, !.batch = {},
                     !.pass = AnsweredPass(t, told)]
<1> DEFINE left == [t EXCEPT !.results = t.results \cup Known(t, told),
                             !.pending = t.pending \ Gone(t, told),
                             !.admitted = t.admitted \ Gone(t, told), !.request = 0, !.batch = {}]
<1>1. Answered(t, told) = [left EXCEPT !.pass = PassOf(left)]
  BY DEF Answered, Known, Gone
<1>2. left.pending = t.pending \ Gone(t, told)
  BY DEF TxType
<1>3. PassOf(left) = AnsweredPass(t, told)
  BY <1>2 DEF PassOf, External, AnsweredPass
<1>4. QED BY <1>1, <1>3 DEF TxType

LEMMA AnsweredFields ==
  ASSUME NEW t \in TxType, NEW told \in SUBSET Results
  PROVE  LET u == Answered(t, told) IN
         /\ u \in TxType /\ SameTx(t, u) /\ u.pass \in {"observe", "settled"}
         /\ u.above = t.above /\ u.top = t.top /\ u.ready = t.ready
         /\ u.admitted = t.admitted \ Gone(t, told) /\ u.pending = t.pending \ Gone(t, told)
         /\ u.results = t.results \cup Known(t, told)
<1> DEFINE results == t.results \cup Known(t, told)
           left == t.pending \ Gone(t, told)
           admitted == t.admitted \ Gone(t, told)
           pass == AnsweredPass(t, told)
<1>1. /\ results \in SUBSET Results /\ left \in SUBSET (Procs \cup Owned)
      /\ admitted \in SUBSET Kids /\ pass \in {"observe", "settled"}
  BY DEF TxType, Known, AnsweredPass
<1>2. Answered(t, told) = [t EXCEPT !.results = results, !.pending = left, !.admitted = admitted,
                                    !.request = 0, !.batch = {}, !.pass = pass]
  BY AnsweredIs
<1> HIDE DEF results, left, admitted, pass
<1> DEFINE u == [t EXCEPT !.results = results, !.pending = left, !.admitted = admitted]
<1>3. u \in TxType
  BY <1>1 DEF TxType
<1>4. Answered(t, told) = [u EXCEPT !.request = 0, !.batch = {}, !.pass = pass]
  BY <1>2
<1>5. /\ u.id = t.id /\ u.frozen = t.frozen /\ u.progress = t.progress /\ u.above = t.above
      /\ u.top = t.top /\ u.ready = t.ready /\ u.admitted = admitted /\ u.pending = left
      /\ u.results = results
  BY DEF TxType
<1> HIDE DEF u
<1>6. [u EXCEPT !.request = 0] \in TxType
  BY <1>3 DEF TxType
<1>7. [u EXCEPT !.request = 0, !.batch = {}] \in TxType
  BY <1>6 DEF TxType
<1>8. Answered(t, told) \in TxType
  BY <1>1, <1>4, <1>7 DEF TxType
<1>9. LET v == Answered(t, told) IN
      /\ v.pass = pass /\ v.id = u.id /\ v.frozen = u.frozen /\ v.progress = u.progress
      /\ v.above = u.above /\ v.top = u.top /\ v.ready = u.ready /\ v.admitted = u.admitted
      /\ v.pending = u.pending /\ v.results = u.results
  BY <1>3, <1>4 DEF TxType
<1>10. QED BY <1>1, <1>5, <1>8, <1>9 DEF SameTx, results, left, admitted

Ended(t) == [t EXCEPT !.pending = @ \ GivenUp(t),
                      !.results = @ \cup {<<p, "DeadlineExpired">> : p \in GivenUp(t)}]

LEMMA EndedFields ==
  ASSUME NEW t \in TxType
  PROVE  LET u == Ended(t) IN
         /\ u \in TxType /\ SameTx(t, u) /\ u.top = t.top /\ u.pending = {}
         /\ u.results = t.results \cup {<<p, "DeadlineExpired">> : p \in t.pending}
<1> DEFINE results == t.results \cup {<<p, "DeadlineExpired">> : p \in t.pending}
<1>1. results \in SUBSET Results
  <2>1. "DeadlineExpired" \in Kinds /\ t.pending \subseteq Procs \cup Owned
    BY DEF Kinds, TxType
  <2>2. QED BY <2>1, ResultTypes DEF TxType
<1>2. t.pending \ t.pending = {}
  OBVIOUS
<1>3. Ended(t) = [t EXCEPT !.pending = {}, !.results = results]
  BY <1>2 DEF Ended, GivenUp, TxType
<1> HIDE DEF results
<1>4. QED BY <1>1, <1>3 DEF TxType, SameTx, results

LEMMA TerminalType ==
  ASSUME NEW t \in TxType, NEW s
  PROVE  Terminal(t, s) \in Record
<1>1. Completion(ResultsFor(t, s)) \in {"none", "RetryUnavailable"} \cup (Kinds \ {"Survived", "Refused"})
  BY DEF Completion, Kinds, GoneKinds
<1>2. ResultsFor(t, s) \in SUBSET Results
  BY DEF ResultsFor, TxType
<1>3. t.id \in 0..MaxTx
  BY DEF TxType
<1>4. QED BY <1>1, <1>2, <1>3 DEF Terminal, Record

\* A transaction that ends leaves no other behind than the one that is not there.
Rests(t) == t.id = 0 => t = Idle

LEMMA SettleTypes ==
  ASSUME NEW t \in TxType, NEW marked \in [Sessions -> Record], Settle(t, marked), Rests(t)
  PROVE  tx' \in TxType /\ entry' \in [Sessions -> Record] /\ Rests(tx') /\ tx'.id \in {0, t.id}
<1>1. CASE t.pending # {}
  BY <1>1 DEF Settle
<1>2. CASE t.pending = {}
  <2>1. tx' = Idle /\ Idle.id = 0
    BY <1>2 DEF Settle, Idle
  <2>2. \A s \in Sessions : Shown(Terminal(t, s)) \in Record
    BY ConstantTypes, TerminalType DEF Shown
  <2>3. QED BY <1>2, <2>1, <2>2, ConstantTypes DEF Settle, Rests
<1>3. QED BY <1>1, <1>2
-----------------------------------------------------------------------------
(* Every reachable state has its type.                                     *)

TInv == Types /\ Rests(tx)

LEMMA MailTypes ==
  /\ \A by \in 0..MaxTx : \A kind \in {"Sent", "Failed", "Reaped", "Finished"} :
       [kind |-> kind, by |-> by] \in Mail
  /\ [kind |-> "Finished", by |-> 0] \in Mail
  BY Constants DEF Mail

LEMMA InitTypes == Init => TInv
<1> SUFFICES ASSUME Init PROVE TInv
  OBVIOUS
<1>1. WorldTypes
  BY NoneInTree DEF Init, WorldTypes
<1>2. RunTypes
  BY Constants DEF Init, RunTypes
<1>3. TxTypes
  BY Constants, ConstantTypes DEF Init, TxTypes
<1>4. WorkTypes
  BY ConstantTypes DEF Init, WorkTypes
<1>5. obs \in ObsType /\ Rests(tx)
  BY ConstantTypes DEF Init, Rests
<1>6. QED BY <1>1, <1>2, <1>3, <1>4, <1>5 DEF TInv, Types

LEMMA ProcessesTypes ==
  ASSUME TInv, Processes
  PROVE  TInv'
<1> USE DEF TInv, Types
<1>1. WorldTypes'
  <2>1. ASSUME NEW p \in Procs, NEW k \in Kids, Fork(p, k) PROVE WorldTypes'
    <3>1. proc' = [proc EXCEPT ![k] = "live"] /\ parent' = [parent EXCEPT ![k] = p] /\ sent' = sent
      BY <2>1 DEF Fork
    <3>2. [parent EXCEPT ![k] = p] \in Tree
      BY DEF WorldTypes, Tree
    <3>3. QED BY <3>1, <3>2 DEF WorldTypes
  <2>2. CASE \E p \in Procs : Exit(p)
    <3>1. [k \in Kids |-> None] \in Tree
      BY NoneInTree
    <3>2. QED BY <2>2, <3>1 DEF Exit, WorldTypes, Tree
  <2>3. CASE \E p \in Procs : Reap(p)
    BY <2>3 DEF Reap, WorldTypes
  <2>4. QED BY <2>1, <2>2, <2>3 DEF Processes
<1>2. UNCHANGED <<sent, child, run, asked, mail, monitoring, entry, lastId, tx, overdue, workVars, requests, obs>>
  BY DEF Processes, Fork, Exit, Reap
<1>3. QED BY <1>1, <1>2 DEF RunTypes, TxTypes, WorkTypes, workVars

LEMMA MonitorTypes ==
  ASSUME TInv, Monitor
  PROVE  TInv'
<1> USE DEF TInv, Types
<1>1. ASSUME NEW those, Forget(those) PROVE entry' \in [Sessions -> Record]
  BY <1>1, ConstantTypes DEF Forget, TxTypes
<1>2. entry' \in [Sessions -> Record] /\ monitoring' \in {"off", "pending", "fresh"}
  <2>1. CASE SwitchOff
    BY <2>1, <1>1 DEF SwitchOff
  <2>2. CASE SwitchOn
    BY <2>2 DEF SwitchOn, TxTypes
  <2>3. CASE \E those \in SUBSET Sessions : Classify(those)
    BY <2>3, <1>1 DEF Classify
  <2>4. CASE \E those \in SUBSET Sessions : LoseSnapshot(those)
    BY <2>4, <1>1 DEF LoseSnapshot
  <2>5. QED BY <2>1, <2>2, <2>3, <2>4 DEF Monitor
<1>3. MonitorFrame
  BY DEF Monitor, SwitchOff, SwitchOn, Classify, LoseSnapshot
<1>4. QED BY <1>2, <1>3 DEF MonitorFrame, WorldTypes, RunTypes, TxTypes, WorkTypes, worldVars, workVars

\* What Settle needs of a transaction that is there and stays there.
LEMMA SettlesActive ==
  ASSUME TInv, NEW t \in TxType, t.id = tx.id, tx.id # 0, Settle(t, entry)
  PROVE  tx' \in TxType /\ entry' \in [Sessions -> Record] /\ Rests(tx')
  BY SettleTypes DEF TInv, Types, TxTypes, Rests

\* The transaction a submission of S starts.
Started(S) == [Idle EXCEPT !.id = NextId, !.frozen = S, !.pending = S, !.ready = S \cap Roots,
                           !.pass = IF S \cap Roots = {} THEN "settled" ELSE "observe"]
Marked(S) == [s \in Sessions |-> IF s \in S THEN Terminating(NextId) ELSE entry[s]]
Asking(t) == [t EXCEPT !.progress = "outcome"]

LEMMA StartedType ==
  ASSUME TInv, NEW S \in SUBSET Sessions, Free
  PROVE  /\ NextId \in 1..MaxTx /\ Started(S) \in TxType /\ Asking(Started(S)) \in TxType
         /\ Marked(S) \in [Sessions -> Record]
<1>1. NextId \in 1..MaxTx /\ NextId \in 0..MaxTx
  BY Constants DEF NextId, Free, TInv, Types, TxTypes
<1>2. S \in SUBSET (Procs \cup Owned) /\ S \cap Roots \in SUBSET Procs
  BY Constants
<1>3. Started(S) \in TxType
  <2>1. [Idle EXCEPT !.id = NextId] \in TxType
    BY <1>1, ConstantTypes DEF TxType
  <2>2. [Idle EXCEPT !.id = NextId, !.frozen = S, !.pending = S] \in TxType
    BY <2>1, <1>2 DEF TxType
  <2>3. QED BY <2>2, <1>2 DEF Started, TxType
<1>4. Asking(Started(S)) \in TxType
  BY <1>3 DEF Asking, TxType
<1>5. Marked(S) \in [Sessions -> Record]
  BY <1>1, ConstantTypes DEF Marked, Terminating, Record, TInv, Types, TxTypes
<1>6. QED BY <1>1, <1>3, <1>4, <1>5

\* What a submission does, in the words of this module.
LEMMA SubmitIs ==
  ASSUME NEW S \in SUBSET Sessions, Submit(S)
  PROVE  /\ monitoring = "fresh" /\ tx.id = 0 /\ Free /\ lastId' = NextId
         /\ UNCHANGED <<worldVars, mail, monitoring, overdue, workVars, requests, obs>>
         /\ \/ S \cap Owned = {} /\ Settle(Started(S), Marked(S)) /\ UNCHANGED <<run, asked>>
            \/ /\ Accepts /\ run' = "pending" /\ asked' = asked \cup {NextId}
               /\ Settle(Asking(Started(S)), Marked(S))
            \/ Settle(EndOwned(Started(S), "Refused"), Marked(S)) /\ UNCHANGED <<run, asked>>
<1>1. Started(S).id = NextId
  BY DEF Started, Idle
<1>2. Marked(S) = [s \in Sessions |-> IF s \in S THEN Terminating(Started(S).id) ELSE entry[s]]
  BY <1>1 DEF Marked
<1>3. QED BY <1>1, <1>2 DEF Submit, Started, Asking

LEMMA StartedFields ==
  ASSUME TInv, NEW S \in SUBSET Sessions, Free
  PROVE  LET t == Started(S) IN
         /\ t.id = NextId /\ t.frozen = S /\ t.pending = S /\ t.ready = S \cap Roots /\ t.admitted = {}
         /\ t.top = [k \in Kids |-> None] /\ t.results = {} /\ t.progress = "none"
         /\ t.pass \in {"settled", "observe"}
         /\ LET u == Asking(t) IN
            /\ u.id = NextId /\ u.frozen = S /\ u.pending = S /\ u.ready = S \cap Roots /\ u.admitted = {}
            /\ u.top = [k \in Kids |-> None] /\ u.results = {} /\ u.progress = "outcome"
            /\ u.pass \in {"settled", "observe"}
<1>1. DEFINE t == Started(S)
<1>2. /\ t.id = NextId /\ t.frozen = S /\ t.pending = S /\ t.ready = S \cap Roots /\ t.admitted = {}
      /\ t.top = [k \in Kids |-> None] /\ t.results = {} /\ t.progress = "none"
      /\ t.pass \in {"settled", "observe"}
  BY DEF Started, Idle
<1>3. t \in TxType
  BY StartedType
<1> HIDE DEF t
<1>4. LET u == Asking(t) IN
      /\ u.id = t.id /\ u.frozen = t.frozen /\ u.pending = t.pending /\ u.ready = t.ready
      /\ u.admitted = t.admitted /\ u.top = t.top /\ u.results = t.results /\ u.progress = "outcome"
      /\ u.pass = t.pass
  BY <1>3 DEF Asking, TxType
<1>5. QED BY <1>2, <1>4 DEF t

LEMMA SubmitTypes ==
  ASSUME TInv, NEW S \in SUBSET Sessions, Submit(S)
  PROVE  TInv'
<1>1. /\ Free /\ lastId' = NextId /\ UNCHANGED <<worldVars, mail, monitoring, overdue, workVars, requests, obs>>
      /\ \/ Settle(Started(S), Marked(S)) /\ UNCHANGED <<run, asked>>
         \/ /\ run' = "pending" /\ asked' = asked \cup {NextId} /\ Settle(Asking(Started(S)), Marked(S))
         \/ Settle(EndOwned(Started(S), "Refused"), Marked(S)) /\ UNCHANGED <<run, asked>>
  BY SubmitIs
<1>2. /\ NextId \in 1..MaxTx /\ Started(S) \in TxType /\ Asking(Started(S)) \in TxType
      /\ Marked(S) \in [Sessions -> Record] /\ Started(S).id = NextId /\ Asking(Started(S)).id = NextId
  BY <1>1, StartedType, StartedFields
<1>3. EndOwned(Started(S), "Refused") \in TxType /\ EndOwned(Started(S), "Refused").id = NextId
  <2>1. "Refused" \in Kinds
    BY DEF Kinds
  <2>2. QED BY <1>2, <2>1, EndOwnedFields
<1>4. NextId # 0 /\ NextId \in 0..MaxTx
  BY <1>2, Constants
<1>5. tx' \in TxType /\ entry' \in [Sessions -> Record] /\ Rests(tx')
  BY <1>1, <1>2, <1>3, <1>4, SettleTypes DEF Rests
<1>6. RunTypes'
  BY <1>1, <1>4 DEF TInv, Types, RunTypes, worldVars
<1>7. QED BY <1>1, <1>4, <1>5, <1>6 DEF TInv, Types, WorldTypes, TxTypes, WorkTypes, worldVars, workVars

\* One observation, taken up.
Observed(t, o) == Admit(ObservedKids(ObservedRoots(t, o), o), o)

LEMMA ObservedType ==
  ASSUME NEW t \in TxType, NEW o \in ObsType
  PROVE  Observed(t, o) \in TxType /\ SameTx(t, Observed(t, o)) /\ SamePass(t, Observed(t, o))
  BY ObservedRootsFields, ObservedKidsFields, AdmitFields DEF Observed, SameTx, SamePass

Working(t, batch) == [Spent(t, batch) EXCEPT !.pass = "worker", !.request = requests', !.batch = batch]
Refusing(t, batch) == [Spent(t, batch) EXCEPT !.pass = "observe",
                         !.results = @ \cup {<<p, "Refused">> : p \in batch \cap t.pending}]
Passing(t) == [t EXCEPT !.pass = PassOf(t)]

LEMMA PassingFields ==
  ASSUME NEW t \in TxType
  PROVE  LET u == Passing(t) IN
         /\ u \in TxType /\ SameTx(t, u) /\ u.pass \in {"observe", "settled"} /\ u.pending = t.pending
         /\ u.admitted = t.admitted /\ u.top = t.top /\ u.ready = t.ready /\ u.results = t.results
<1>1. PassOf(t) \in {"observe", "settled"}
  BY DEF PassOf
<1>2. QED BY <1>1 DEF Passing, TxType, SameTx

LEMMA WorkingFields ==
  ASSUME NEW t \in TxType, NEW batch \in SUBSET Procs, requests' \in Nat
  PROVE  LET u == Working(t, batch) IN
         /\ u \in TxType /\ SameTx(t, u) /\ u.pass = "worker" /\ u.request = requests' /\ u.batch = batch
         /\ u.ready = t.ready \ batch /\ u.pending = t.pending /\ u.admitted = t.admitted
         /\ u.top = t.top /\ u.above = t.above /\ u.results = t.results
<1> DEFINE v == Spent(t, batch)
           ready == t.ready \ batch
<1>1. ready \in SUBSET Procs
  BY DEF TxType
<1>2. v = [t EXCEPT !.ready = ready]
  BY DEF Spent, TxType
<1> HIDE DEF ready
<1>3. /\ v \in TxType /\ v.id = t.id /\ v.frozen = t.frozen /\ v.progress = t.progress /\ v.ready = ready
      /\ v.pending = t.pending /\ v.admitted = t.admitted /\ v.top = t.top /\ v.above = t.above
      /\ v.results = t.results
  BY <1>1, <1>2 DEF TxType
<1>4. Working(t, batch) = [v EXCEPT !.pass = "worker", !.request = requests', !.batch = batch]
  BY DEF Working
<1> HIDE DEF v
<1>5. [v EXCEPT !.pass = "worker", !.request = requests'] \in TxType
  BY <1>3 DEF TxType
<1>6. Working(t, batch) \in TxType
  BY <1>4, <1>5 DEF TxType
<1>7. LET u == Working(t, batch) IN
      /\ u.id = v.id /\ u.frozen = v.frozen /\ u.progress = v.progress /\ u.ready = v.ready
      /\ u.pending = v.pending /\ u.admitted = v.admitted /\ u.top = v.top /\ u.above = v.above
      /\ u.results = v.results /\ u.pass = "worker" /\ u.request = requests' /\ u.batch = batch
  BY <1>3, <1>4 DEF TxType
<1>8. QED BY <1>3, <1>6, <1>7 DEF SameTx, ready

LEMMA RefusingFields ==
  ASSUME NEW t \in TxType, NEW batch \in SUBSET Procs
  PROVE  LET u == Refusing(t, batch) IN
         /\ u \in TxType /\ SameTx(t, u) /\ u.pass = "observe" /\ u.ready = t.ready \ batch
         /\ u.pending = t.pending /\ u.admitted = t.admitted /\ u.top = t.top
         /\ u.results = t.results \cup {<<p, "Refused">> : p \in batch \cap t.pending}
<1> DEFINE ready == t.ready \ batch
           results == t.results \cup {<<p, "Refused">> : p \in batch \cap t.pending}
<1>1. ready \in SUBSET Procs /\ results \in SUBSET Results
  <2>1. "Refused" \in Kinds /\ batch \cap t.pending \subseteq Procs \cup Owned
    BY DEF Kinds
  <2>2. QED BY <2>1, ResultTypes DEF TxType
<1>2. Refusing(t, batch) = [t EXCEPT !.ready = ready, !.pass = "observe", !.results = results]
  BY DEF Refusing, Spent, TxType
<1> HIDE DEF ready, results
<1>3. Refusing(t, batch) \in TxType
  BY <1>1, <1>2 DEF TxType
<1>4. LET u == Refusing(t, batch) IN
      /\ SameTx(t, u) /\ u.pass = "observe" /\ u.ready = ready /\ u.pending = t.pending
      /\ u.admitted = t.admitted /\ u.top = t.top /\ u.results = results
  BY <1>2 DEF TxType, SameTx
<1>5. QED BY <1>3, <1>4 DEF ready, results

\* The three ways a pass goes on, in the words of this module.
LEMMA DispatchIs ==
  ASSUME NEW t, NEW batch, Dispatch(t, batch)
  PROVE  \/ Settle(Passing(t), entry) /\ UNCHANGED <<plans, requests>>
         \/ /\ batch # {} /\ requests' = requests + 1 /\ tx' = Working(t, batch) /\ UNCHANGED entry
            /\ plans' = Append(plans, [req |-> requests', tx |-> t.id, left |-> batch, told |-> {}])
         \/ requests' = requests + 1 /\ Settle(Refusing(t, batch), entry) /\ UNCHANGED plans
  BY DEF Dispatch, Passing, Working, Refusing

LEMMA DispatchTypes ==
  ASSUME TInv, NEW t \in TxType, t.id = tx.id, tx.id # 0, NEW batch \in SUBSET Procs, Dispatch(t, batch)
  PROVE  /\ tx' \in TxType /\ entry' \in [Sessions -> Record] /\ Rests(tx')
         /\ plans' \in Seq(Plan) /\ requests' \in Nat
<1>0. entry \in [Sessions -> Record] /\ plans \in Seq(Plan) /\ requests \in Nat /\ tx.id \in 1..MaxTx
  BY Constants DEF TInv, Types, TxTypes, WorkTypes, TxType
<1>1. CASE Settle(Passing(t), entry) /\ UNCHANGED <<plans, requests>>
  <2>1. Passing(t) \in TxType /\ Passing(t).id = tx.id
    BY PassingFields DEF SameTx
  <2>2. QED BY <1>0, <1>1, <2>1, SettlesActive
<1>2. CASE /\ batch # {} /\ requests' = requests + 1 /\ tx' = Working(t, batch) /\ UNCHANGED entry
           /\ plans' = Append(plans, [req |-> requests', tx |-> t.id, left |-> batch, told |-> {}])
  <2>1. requests' \in Nat
    BY <1>0, <1>2
  <2>2. tx' \in TxType /\ tx'.id = tx.id
    BY <1>2, <2>1, WorkingFields DEF SameTx
  <2>3. [req |-> requests', tx |-> t.id, left |-> batch, told |-> {}] \in Plan
    BY <1>0, <2>1 DEF Plan
  <2>4. QED BY <1>0, <1>2, <2>1, <2>2, <2>3 DEF Rests
<1>3. CASE requests' = requests + 1 /\ Settle(Refusing(t, batch), entry) /\ UNCHANGED plans
  <2>1. Refusing(t, batch) \in TxType /\ Refusing(t, batch).id = tx.id
    BY RefusingFields DEF SameTx
  <2>2. QED BY <1>0, <1>3, <2>1, SettlesActive
<1>4. QED BY <1>1, <1>2, <1>3, DispatchIs

\* What reconciles an observation.
LEMMA ReconcileIs ==
  ASSUME Reconcile
  PROVE  /\ obs.at = "seen" /\ obs' = NoObs
         /\ \/ /\ tx.id = obs.tx /\ tx.pass = "observe"
               /\ Dispatch(Observed(tx, obs), Targets(Observed(tx, obs), obs))
            \/ UNCHANGED <<tx, entry, plans, requests>>
         /\ UNCHANGED <<worldVars, run, asked, mail, monitoring, lastId, overdue, terminator, aim, outcomes>>
  BY DEF Reconcile, Awaited, Observed

\* A transaction that waits for something is there.
LEMMA WaitingIsThere ==
  ASSUME TInv, tx.pass # "settled" \/ tx.progress # "none" \/ tx.id \in overdue
  PROVE  tx.id # 0
  BY Constants DEF TInv, Types, TxTypes, Rests, Idle

LEMMA ReconcileTypes ==
  ASSUME TInv, Reconcile
  PROVE  TInv'
<1>0. tx \in TxType /\ obs \in ObsType
  BY DEF TInv, Types, TxTypes
<1>1. /\ tx' \in TxType /\ entry' \in [Sessions -> Record] /\ Rests(tx')
      /\ plans' \in Seq(Plan) /\ requests' \in Nat
  <2>1. CASE /\ tx.id = obs.tx /\ tx.pass = "observe"
             /\ Dispatch(Observed(tx, obs), Targets(Observed(tx, obs), obs))
    <3>1. Observed(tx, obs) \in TxType /\ Observed(tx, obs).id = tx.id
      BY <1>0, ObservedType DEF SameTx
    <3>2. Targets(Observed(tx, obs), obs) \in SUBSET Procs
      BY <1>0, <3>1, TargetsType
    <3>3. tx.id # 0
      BY <2>1, WaitingIsThere
    <3>4. QED BY <2>1, <3>1, <3>2, <3>3, DispatchTypes
  <2>2. CASE UNCHANGED <<tx, entry, plans, requests>>
    BY <2>2 DEF TInv, Types, TxTypes, WorkTypes
  <2>3. QED BY <2>1, <2>2, ReconcileIs
<1>2. obs' = NoObs /\ UNCHANGED <<worldVars, run, asked, mail, monitoring, lastId, overdue, terminator, aim, outcomes>>
  BY ReconcileIs
<1>3. QED BY <1>1, <1>2, ConstantTypes DEF TInv, Types, WorldTypes, RunTypes, TxTypes, WorkTypes, worldVars

LEMMA AskTypes == ASSUME TInv, Ask PROVE TInv'
<1>1. [NoObs EXCEPT !.at = "asked", !.tx = tx.id] \in ObsType
  BY ConstantTypes DEF TInv, Types, TxTypes, TxType, ObsType
<1>2. tx.frozen \cap Roots \in SUBSET Roots /\ tx.admitted \in SUBSET Kids
  BY DEF TInv, Types, TxTypes, TxType
<1>3. obs' \in ObsType
  BY <1>1, <1>2 DEF Ask, ObsType
<1>4. UNCHANGED <<worldVars, run, asked, mail, monitoring, entry, lastId, tx, overdue, workVars, requests>>
  BY DEF Ask
<1>5. QED BY <1>3, <1>4
      DEF TInv, Types, WorldTypes, RunTypes, TxTypes, WorkTypes, worldVars, workVars

LEMMA ExpireIs ==
  ASSUME TInv, Expire
  PROVE  /\ tx.id # 0 /\ Settle(Ended(tx), entry)
         /\ UNCHANGED <<worldVars, run, asked, mail, monitoring, lastId, overdue, workVars, requests, obs>>
  BY WaitingIsThere DEF Expire, Ended

LEMMA ExpireTypes == ASSUME TInv, Expire PROVE TInv'
<1>1. tx' \in TxType /\ entry' \in [Sessions -> Record] /\ Rests(tx')
  <2>1. Ended(tx) \in TxType /\ Ended(tx).id = tx.id
    BY EndedFields DEF SameTx, TInv, Types, TxTypes
  <2>2. QED BY <2>1, ExpireIs, SettlesActive
<1>2. QED BY <1>1, ExpireIs
      DEF TInv, Types, WorldTypes, RunTypes, TxTypes, WorkTypes, worldVars, workVars

LEMMA PollTypes == ASSUME TInv, PollOutcome PROVE TInv'
<1>1. outcomes # <<>> /\ outcomes \in Seq(Outcome) /\ outcomes' = Tail(outcomes)
  BY DEF PollOutcome, TInv, Types, WorkTypes
<1>2. Head(outcomes) \in Outcome /\ outcomes' \in Seq(Outcome)
  BY <1>1
<1>3. tx' \in TxType /\ entry' \in [Sessions -> Record] /\ Rests(tx')
  <2>1. CASE Expected(Head(outcomes).req)
    <3>1. Answered(tx, Head(outcomes).told) \in TxType /\ Answered(tx, Head(outcomes).told).id = tx.id
      BY <1>2, AnsweredFields DEF SameTx, TInv, Types, TxTypes, Outcome
    <3>2. tx.id # 0
      BY <2>1, WaitingIsThere DEF Expected
    <3>3. QED BY <2>1, <3>1, <3>2, SettlesActive DEF PollOutcome
  <2>2. CASE ~Expected(Head(outcomes).req)
    BY <2>2 DEF PollOutcome, TInv, Types, TxTypes
  <2>3. QED BY <2>1, <2>2
<1>4. QED BY <1>2, <1>3
      DEF PollOutcome, TInv, Types, WorldTypes, RunTypes, TxTypes, WorkTypes, worldVars

\* What an event of the owned run does to the transaction.
EndKind(kind) == IF kind = "Failed" THEN "Refused" ELSE "AlreadyGone"
Reaping(t) == [t EXCEPT !.progress = "reap"]

LEMMA ReceiveIs ==
  ASSUME ReceiveOwned
  PROVE  /\ mail # <<>> /\ mail' = Tail(mail) /\ run' = SlotAfter(Head(mail).kind)
         /\ \/ tx.progress = "outcome" /\ Head(mail).kind = "Sent" /\ tx' = Reaping(tx) /\ UNCHANGED entry
            \/ /\ tx.progress = "outcome" /\ Head(mail).kind \in {"Failed", "Reaped"}
               /\ Settle(EndOwned(tx, EndKind(Head(mail).kind)), entry)
            \/ /\ tx.progress = "reap" /\ Head(mail).kind = "Finished"
               /\ Settle(EndOwned(tx, "GoneAfterSignaling"), entry)
            \/ UNCHANGED <<tx, entry>>
         /\ UNCHANGED <<worldVars, asked, monitoring, lastId, overdue, workVars, requests, obs>>
  BY DEF ReceiveOwned, EndKind, Reaping

LEMMA ReapingFields ==
  ASSUME NEW t \in TxType
  PROVE  LET u == Reaping(t) IN
         /\ u \in TxType /\ u.id = t.id /\ u.frozen = t.frozen /\ SamePass(t, u) /\ u.pending = t.pending
         /\ u.admitted = t.admitted /\ u.above = t.above /\ u.top = t.top /\ u.ready = t.ready
         /\ u.results = t.results /\ u.progress = "reap"
  BY DEF Reaping, TxType, SamePass

LEMMA EndKinds == \A kind : EndKind(kind) \in Kinds /\ "GoneAfterSignaling" \in Kinds
  BY DEF EndKind, Kinds, GoneKinds

LEMMA ReceiveTypes == ASSUME TInv, ReceiveOwned PROVE TInv'
<1>0. tx \in TxType
  BY DEF TInv, Types, TxTypes
<1>1. tx' \in TxType /\ entry' \in [Sessions -> Record] /\ Rests(tx')
  <2>1. ASSUME tx.progress # "none", NEW kind \in Kinds, Settle(EndOwned(tx, kind), entry)
        PROVE  tx' \in TxType /\ entry' \in [Sessions -> Record] /\ Rests(tx')
    <3>1. EndOwned(tx, kind) \in TxType /\ EndOwned(tx, kind).id = tx.id
      BY <1>0, EndOwnedFields
    <3>2. QED BY <2>1, <3>1, WaitingIsThere, SettlesActive
  <2>2. CASE tx.progress = "outcome" /\ tx' = Reaping(tx) /\ UNCHANGED entry
    <3>1. tx.id # 0 /\ tx' \in TxType /\ tx'.id = tx.id
      BY <1>0, <2>2, WaitingIsThere, ReapingFields
    <3>2. QED BY <2>2, <3>1 DEF Rests, TInv, Types, TxTypes
  <2>3. CASE UNCHANGED <<tx, entry>>
    BY <2>3 DEF TInv, Types, TxTypes
  <2>4. QED BY <2>1, <2>2, <2>3, ReceiveIs, EndKinds
<1>2. mail' \in Seq(Mail) /\ run' \in {"running", "pending", "stopping", "over"}
  <2>1. mail' \in Seq(Mail)
    BY ReceiveIs DEF TInv, Types, RunTypes
  <2>2. run' \in {"running", "pending", "stopping", "over"}
    BY ReceiveIs DEF SlotAfter, TInv, Types, RunTypes
  <2>3. QED BY <2>1, <2>2
<1>3. QED BY <1>1, <1>2, ReceiveIs
      DEF TInv, Types, WorldTypes, RunTypes, TxTypes, WorkTypes, worldVars, workVars

LEMMA TransactionTypes == ASSUME TInv, Transaction PROVE TInv'
<1>1. CASE NoticeStopped
  BY <1>1 DEF NoticeStopped, TInv, Types, WorldTypes, RunTypes, TxTypes, WorkTypes, worldVars
<1>2. CASE DeadlinePasses
  <2>1. tx.id \in 1..MaxTx
    BY <1>2, Constants DEF DeadlinePasses, TInv, Types, TxTypes, TxType
  <2>2. QED BY <1>2, <2>1
        DEF DeadlinePasses, TInv, Types, WorldTypes, RunTypes, TxTypes, WorkTypes, worldVars, workVars
<1>3. QED BY <1>1, <1>2, SubmitTypes, AskTypes, ReconcileTypes, PollTypes, ExpireTypes, ReceiveTypes
      DEF Transaction

\* What the worker says of a target.
LEMMA TellIs ==
  ASSUME plans \in Seq(Plan), plans # <<>>, NEW p \in Procs, NEW kind \in Kinds, Tell(p, kind)
  PROVE  /\ plans' \in Seq(Plan) /\ Len(plans') = Len(plans) /\ 1 \in 1..Len(plans)
         /\ plans'[1].req = plans[1].req /\ plans'[1].tx = plans[1].tx
         /\ plans'[1].left = plans[1].left \ {p} /\ plans'[1].told = plans[1].told \cup {<<p, kind>>}
         /\ \A i \in 1..Len(plans) : i # 1 => plans'[i] = plans[i]
         /\ aim' = NoAim
<1>1. 1 \in 1..Len(plans) /\ plans[1] \in Plan
  OBVIOUS
<1> DEFINE left == plans[1].left \ {p}
           told == plans[1].told \cup {<<p, kind>>}
           new == [plans[1] EXCEPT !.left = left, !.told = told]
<1>2. left \in SUBSET Procs /\ told \in SUBSET Results
  BY <1>1, ResultTypes DEF Plan
<1>3. plans' = [plans EXCEPT ![1] = new]
  BY <1>1 DEF Tell, Plan
<1> HIDE DEF left, told
<1>4. /\ new \in Plan /\ new.req = plans[1].req /\ new.tx = plans[1].tx /\ new.left = left
      /\ new.told = told
  BY <1>1, <1>2 DEF Plan
<1> HIDE DEF new
<1>5. /\ plans' \in Seq(Plan) /\ Len(plans') = Len(plans) /\ plans'[1] = new
      /\ \A i \in 1..Len(plans) : i # 1 => plans'[i] = plans[i]
  BY <1>1, <1>3, <1>4, ExceptSeq
<1>6. QED BY <1>1, <1>4, <1>5 DEF left, told, Tell

\* The worker aims at a target of the plan it works on.
AimsAtPlan == aim.at # "idle" => plans # <<>> /\ aim.of \in plans[1].left /\ aim.of \in Procs

LEMMA ToldKinds ==
  /\ "DeadlineExpired" \in Kinds /\ "AlreadyGone" \in Kinds /\ "Refused" \in Kinds
  /\ "Survived" \in Kinds /\ "GoneAfterSignaling" \in Kinds
  BY DEF Kinds, GoneKinds

\* What the worker does, one line for each thing it can do.
TakeTells(p, kind) ==
  /\ plans # <<>> /\ p \in plans[1].left /\ Tell(p, kind) /\ UNCHANGED sent
  /\ kind \in {"DeadlineExpired", "AlreadyGone", "Refused"}
  /\ kind = "AlreadyGone" => ~Running(p)
TakeAims(p) ==
  /\ plans # <<>> /\ p \in plans[1].left /\ Running(p)
  /\ aim' = [at |-> "admitted", of |-> p] /\ UNCHANGED <<plans, sent>>

LEMMA TakeIs ==
  ASSUME NEW p, Take(p)
  PROVE  /\ aim = NoAim /\ WorkerFrame /\ UNCHANGED outcomes
         /\ (\E kind \in Kinds : TakeTells(p, kind)) \/ TakeAims(p)
<1>1. /\ aim = NoAim /\ WorkerFrame /\ UNCHANGED outcomes /\ UNCHANGED sent
      /\ plans # <<>> /\ p \in plans[1].left
  BY DEF Take, MayTake
<1>2. \/ Tell(p, "DeadlineExpired")
      \/ Tell(p, "AlreadyGone") /\ ~Running(p)
      \/ Tell(p, "Refused")
      \/ Running(p) /\ aim' = [at |-> "admitted", of |-> p] /\ UNCHANGED plans
  BY DEF Take
<1>3. QED BY <1>1, <1>2, ToldKinds DEF TakeTells, TakeAims

LEMMA WorkerTypes == ASSUME TInv, AimsAtPlan, Worker PROVE TInv'
<1> USE DEF TInv, Types
<1>0. plans \in Seq(Plan) /\ aim \in Aim /\ outcomes \in Seq(Outcome) /\ NoAim \in Aim
  BY ConstantTypes DEF WorkTypes
<1>1. ASSUME NEW p \in Procs, NEW kind \in Kinds, Tell(p, kind), plans # <<>>
      PROVE  plans' \in Seq(Plan) /\ aim' \in Aim
  BY <1>0, <1>1, TellIs
<1>2. ASSUME WorkerFrame, sent' \in [1..MaxTx -> [Procs -> Nat]], outcomes' \in Seq(Outcome),
             plans' \in Seq(Plan), aim' \in Aim
      PROVE  TInv'
  BY <1>2 DEF WorkerFrame, WorldTypes, RunTypes, TxTypes, WorkTypes
<1>3. sent \in [1..MaxTx -> [Procs -> Nat]]
  BY DEF WorldTypes
<1>4. ASSUME NEW p \in Procs, Take(p) PROVE TInv'
  <2>1. CASE TakeAims(p)
    <3>1. [at |-> "admitted", of |-> p] \in Aim
      BY DEF Aim
    <3>2. QED BY <1>0, <1>2, <1>3, <1>4, <2>1, <3>1, TakeIs DEF TakeAims
  <2>2. ASSUME NEW kind \in Kinds, TakeTells(p, kind) PROVE TInv'
    BY <1>0, <1>1, <1>2, <1>3, <1>4, <2>2, TakeIs DEF TakeTells
  <2>3. QED BY <1>4, <2>1, <2>2, TakeIs
<1>5. CASE Signal
  <2>1. plans # <<>> /\ aim.of \in Procs /\ WorkerFrame /\ UNCHANGED outcomes
    BY <1>5 DEF Signal, AimsAtPlan
  <2>2. CASE /\ sent' = [sent EXCEPT ![plans[1].tx][aim.of] = @ + 1]
             /\ aim' = [aim EXCEPT !.at = "waiting"] /\ UNCHANGED plans
    <3>1. plans[1].tx \in 1..MaxTx
      <4>1. plans[1] \in Plan
        BY <1>0, <2>1
      <4>2. QED BY <4>1 DEF Plan
    <3>2. aim' \in Aim
      BY <1>0, <2>2 DEF Aim
    <3>3. sent' \in [1..MaxTx -> [Procs -> Nat]]
      BY <1>3, <2>1, <2>2, <3>1
    <3>4. QED BY <1>0, <1>2, <2>1, <2>2, <3>2, <3>3
  <2>3. CASE Tell(aim.of, "AlreadyGone") /\ UNCHANGED sent
    BY <1>0, <1>1, <1>2, <1>3, <2>1, <2>3, ToldKinds
  <2>4. QED BY <1>5, <2>2, <2>3 DEF Signal
<1>6. CASE Confirm
  <2>1. PICK kind \in Kinds : Tell(aim.of, kind)
    BY <1>6, ToldKinds DEF Confirm
  <2>2. plans # <<>> /\ aim.of \in Procs /\ WorkerFrame /\ UNCHANGED <<sent, outcomes>>
    BY <1>6 DEF Confirm, AimsAtPlan
  <2>3. QED BY <1>0, <1>1, <1>2, <1>3, <2>1, <2>2
<1>7. CASE Report
  <2>1. plans # <<>> /\ WorkerFrame /\ UNCHANGED <<sent, aim>>
    BY <1>7 DEF Report
  <2>2. plans[1] \in Plan
    BY <1>0, <2>1
  <2>3. [req |-> plans[1].req, told |-> plans[1].told] \in Outcome
    BY <2>2 DEF Plan, Outcome
  <2>4. plans' \in Seq(Plan) /\ outcomes' \in Seq(Outcome)
    BY <1>0, <1>7, <2>1, <2>3 DEF Report
  <2>5. QED BY <1>0, <1>2, <1>3, <2>1, <2>4
<1>8. QED BY <1>4, <1>5, <1>6, <1>7 DEF Worker

LEMMA OtherTypes ==
  ASSUME TInv, WorkerStops \/ Look \/ ObserverStops \/ Actor
  PROVE  TInv'
<1> USE DEF TInv, Types
<1>1. CASE WorkerStops
  BY <1>1, ConstantTypes DEF WorkerStops, WorldTypes, RunTypes, TxTypes, WorkTypes, worldVars
<1>2. CASE ObserverStops
  <2>1. [NoObs EXCEPT !.at = "down"] \in ObsType
    BY ConstantTypes DEF ObsType
  <2>2. QED BY <1>2, <2>1
        DEF ObserverStops, WorldTypes, RunTypes, TxTypes, WorkTypes, worldVars, workVars
<1>3. CASE Look
  <2>1. obs \in ObsType
    OBVIOUS
  <2>2. PICK here \in SUBSET {r \in obs.roots : Running(r)} :
        LET below == [k \in Kids |-> IF Running(k) /\ k \notin obs.known THEN Below(k) \cap here ELSE {}]
        IN \E fresh \in SUBSET {k \in Kids : below[k] # {}} :
          obs' = [obs EXCEPT !.at = "seen", !.here = here,
                    !.astray = {r \in obs.roots : Present(r)} \ here,
                    !.gone = {p \in obs.roots \cup obs.known : proc[p] = "gone"},
                    !.fresh = fresh,
                    !.above = [k \in Kids |-> IF k \in fresh THEN parent[k] ELSE None],
                    !.top = [k \in Kids |-> IF k \in fresh THEN CHOOSE r \in below[k] : TRUE ELSE None]]
    BY <1>3 DEF Look
  <2> DEFINE below == [k \in Kids |-> IF Running(k) /\ k \notin obs.known THEN Below(k) \cap here ELSE {}]
  <2>3. PICK fresh \in SUBSET {k \in Kids : below[k] # {}} :
          obs' = [obs EXCEPT !.at = "seen", !.here = here,
                    !.astray = {r \in obs.roots : Present(r)} \ here,
                    !.gone = {p \in obs.roots \cup obs.known : proc[p] = "gone"},
                    !.fresh = fresh,
                    !.above = [k \in Kids |-> IF k \in fresh THEN parent[k] ELSE None],
                    !.top = [k \in Kids |-> IF k \in fresh THEN CHOOSE r \in below[k] : TRUE ELSE None]]
    BY <2>2
  <2> DEFINE astray == {r \in obs.roots : Present(r)} \ here
             gone == {p \in obs.roots \cup obs.known : proc[p] = "gone"}
             above == [k \in Kids |-> IF k \in fresh THEN parent[k] ELSE None]
             top == [k \in Kids |-> IF k \in fresh THEN CHOOSE r \in below[k] : TRUE ELSE None]
  <2>4. here \in SUBSET Roots /\ astray \in SUBSET Roots /\ gone \in SUBSET Procs /\ fresh \in SUBSET Kids
    BY <2>1, Constants DEF ObsType
  <2>5. above \in Tree
    BY DEF WorldTypes, Tree
  <2>6. top \in Tree
    <3>1. \A k \in fresh : (CHOOSE r \in below[k] : TRUE) \in below[k] /\ below[k] \subseteq here
      OBVIOUS
    <3>2. \A k \in Kids : top[k] \in Procs \cup {None}
      BY <2>4, <3>1, Constants
    <3>3. QED BY <3>2 DEF Tree
  <2>7. obs' = [obs EXCEPT !.at = "seen", !.here = here, !.astray = astray, !.gone = gone,
                           !.fresh = fresh, !.above = above, !.top = top]
    BY <2>3
  <2> HIDE DEF astray, gone, above, top
  <2>8. [obs EXCEPT !.at = "seen", !.here = here, !.astray = astray] \in ObsType
    BY <2>1, <2>4 DEF ObsType
  <2>9. [obs EXCEPT !.at = "seen", !.here = here, !.astray = astray, !.gone = gone, !.fresh = fresh] \in ObsType
    BY <2>4, <2>8 DEF ObsType
  <2>10. obs' \in ObsType
    BY <2>5, <2>6, <2>7, <2>9 DEF ObsType
  <2>11. QED BY <1>3, <2>10 DEF Look, WorldTypes, RunTypes, TxTypes, WorkTypes, worldVars, workVars
<1>4. ASSUME run' \in {"running", "pending", "stopping", "over"}, child' \in {"alive", "reaped"},
             asked' \in SUBSET (0..MaxTx), mail' \in Seq(Mail), OwnedFrame
      PROVE  TInv'
  BY <1>4 DEF OwnedFrame, WorldTypes, RunTypes, TxTypes, WorkTypes, workVars
<1>5. CASE StopOwned
  BY <1>4, <1>5, Constants DEF StopOwned, RunTypes
<1>6. CASE ActorSignals
  <2>1. mail' \in Seq(Mail)
    <3>1. PICK by \in asked, kind \in {"Sent", "Failed"} : mail' = Append(mail, [kind |-> kind, by |-> by])
      BY <1>6 DEF ActorSignals
    <3>2. by \in 0..MaxTx /\ mail \in Seq(Mail)
      BY DEF RunTypes
    <3>3. [kind |-> kind, by |-> by] \in Mail
      BY <3>2 DEF Mail
    <3>4. QED BY <3>1, <3>2, <3>3
  <2>2. QED BY <1>4, <1>6, <2>1 DEF ActorSignals, RunTypes
<1>7. CASE ActorReaps
  <2>1. PICK last \in IF asked = {} THEN {<<>>} ELSE {<<[kind |-> "Reaped", by |-> by]>> : by \in asked} :
        mail' = mail \o last \o <<[kind |-> "Finished", by |-> 0]>>
    BY <1>7 DEF ActorReaps
  <2>2. last \in Seq(Mail)
    <3>1. CASE asked = {}
      BY <3>1
    <3>2. CASE asked # {}
      <4>1. PICK by \in asked : last = <<[kind |-> "Reaped", by |-> by]>>
        BY <3>2
      <4>2. [kind |-> "Reaped", by |-> by] \in Mail
        BY DEF Mail, RunTypes
      <4>3. QED BY <4>1, <4>2
    <3>3. QED BY <3>1, <3>2
  <2>3. mail' \in Seq(Mail)
    BY <2>1, <2>2, MailTypes DEF RunTypes
  <2>4. QED BY <1>4, <1>7, <2>3 DEF ActorReaps, RunTypes
<1>8. QED BY <1>1, <1>2, <1>3, <1>5, <1>6, <1>7 DEF Actor

LEMMA StutterTypes == ASSUME TInv, UNCHANGED vars PROVE TInv'
  BY DEF vars, worldVars, workVars, TInv, Types, WorldTypes, RunTypes, TxTypes, WorkTypes

\* Who touches the worker's plans, and who the processes and the signals.
LEMMA PlansElsewhere ==
  ASSUME [Next]_vars, ~Reconcile, ~Worker, ~WorkerStops
  PROVE  UNCHANGED <<plans, aim, requests>>
<1>1. CASE Processes
  BY <1>1 DEF Processes, Fork, Exit, Reap, workVars
<1>2. CASE Monitor
  BY <1>2 DEF Monitor, SwitchOff, SwitchOn, Classify, LoseSnapshot, MonitorFrame, workVars
<1>3. CASE Transaction
  BY <1>3 DEF Transaction, Submit, Ask, PollOutcome, NoticeStopped, DeadlinePasses, Expire, ReceiveOwned, workVars
<1>4. CASE Look \/ ObserverStops \/ Actor \/ UNCHANGED vars
  BY <1>4 DEF Look, ObserverStops, Actor, StopOwned, ActorSignals, ActorReaps, OwnedFrame, workVars, vars
<1>5. QED BY <1>1, <1>2, <1>3, <1>4 DEF Next

LEMMA AimStep ==
  ASSUME TInv, AimsAtPlan, [Next]_vars
  PROVE  AimsAtPlan'
<1>0. plans \in Seq(Plan)
  BY DEF TInv, Types, WorkTypes
<1>1. CASE Reconcile
  <2>1. aim' = aim /\ (plans' = plans \/ \E e : plans' = Append(plans, e))
    BY <1>1, ReconcileIs, DispatchIs
  <2>2. ASSUME plans # <<>>, NEW e PROVE Append(plans, e) # <<>> /\ Append(plans, e)[1] = plans[1]
    BY <1>0, <2>2
  <2>3. QED BY <2>1, <2>2 DEF AimsAtPlan
<1>2. ASSUME NEW p \in Procs, Take(p) PROVE AimsAtPlan'
  <2>1. (\E kind \in Kinds : TakeTells(p, kind)) \/ TakeAims(p)
    BY <1>2, TakeIs
  <2>2. CASE TakeAims(p)
    BY <2>2 DEF TakeAims, AimsAtPlan
  <2>3. CASE \E kind \in Kinds : TakeTells(p, kind)
    BY <2>3 DEF TakeTells, Tell, NoAim, AimsAtPlan
  <2>4. QED BY <2>1, <2>2, <2>3
<1>3. CASE Signal
  <2>1. aim \in Aim
    BY DEF TInv, Types, WorkTypes
  <2>2. QED BY <1>3, <2>1 DEF Signal, Tell, NoAim, AimsAtPlan, Aim
<1>4. CASE Confirm
  BY <1>4 DEF Confirm, Tell, NoAim, AimsAtPlan
<1>5. CASE Report
  BY <1>5 DEF Report, AimsAtPlan
<1>6. CASE WorkerStops
  BY <1>6 DEF WorkerStops, NoAim, AimsAtPlan
<1>7. CASE ~Reconcile /\ ~Worker /\ ~WorkerStops
  BY <1>7, PlansElsewhere DEF AimsAtPlan
<1>8. QED BY <1>1, <1>2, <1>3, <1>4, <1>5, <1>6, <1>7 DEF Worker

LEMMA TypeStep ==
  ASSUME TInv, AimsAtPlan, [Next]_vars
  PROVE  TInv'
  BY ProcessesTypes, MonitorTypes, TransactionTypes, WorkerTypes, OtherTypes, StutterTypes DEF Next

LEMMA TypesAlways == Spec => [](TInv /\ AimsAtPlan)
<1>1. Init => TInv /\ AimsAtPlan
  BY InitTypes DEF Init, AimsAtPlan, NoAim
<1>2. TInv /\ AimsAtPlan /\ [Next]_vars => (TInv /\ AimsAtPlan)'
  BY TypeStep, AimStep
<1>3. QED BY <1>1, <1>2, PTL DEF Spec

\* Every variable keeps its type, whatever the processes, the threads and the owned run do.
THEOREM TypeCorrect == Spec => []TypeOK
<1>1. TInv => TypeOK
  BY TypesAreTypeOK DEF TInv
<1>2. QED BY <1>1, TypesAlways, PTL
-----------------------------------------------------------------------------
(* The registry: every frozen session is shown as terminating until its    *)
(* transaction has a result for it, and its record then holds that result. *)

ActiveIn(t, e) ==
  \A s \in Sessions : /\ e[s].at = "terminating" <=> s \in t.frozen
                      /\ e[s].at = "terminating" => e[s].tx = t.id
Targeted(t) == t.frozen \cup {k \in Kids : t.top[k] # None}
TrackedIn(t) == \A p \in Targeted(t) : p \in t.pending \/ \E x \in t.results : x[1] = p
RecordedIn(e) == \A s \in Sessions : e[s].at = "terminal" => \E x \in e[s].of : x[1] = s
CleanIn(m, e) == m = "off" => \A s \in Sessions : e[s].at # "terminal"

Registry(m, t, e) == ActiveIn(t, e) /\ TrackedIn(t) /\ RecordedIn(e) /\ CleanIn(m, e)
RegInv == Registry(monitoring, tx, entry)

LEMMA RegistryMeans ==
  ASSUME RegInv
  PROVE  TerminatingIsActive /\ NoTargetForgotten /\ OffKeepsNothing
<1>1. TerminatingIsActive
  BY DEF RegInv, Registry, ActiveIn, TerminatingIsActive
<1>2. NoTargetForgotten
  BY DEF RegInv, Registry, TrackedIn, Targeted, RecordedIn, NoTargetForgotten
<1>3. OffKeepsNothing
  BY DEF RegInv, Registry, CleanIn, OffKeepsNothing
<1>4. QED BY <1>1, <1>2, <1>3

LEMMA SettleKeepsRegistry ==
  ASSUME NEW t \in TxType, NEW marked \in [Sessions -> Record], Settle(t, marked),
         Registry(monitoring, t, marked), monitoring' = monitoring
  PROVE  RegInv'
<1>1. CASE t.pending # {}
  BY <1>1 DEF Settle, RegInv
<1>2. CASE t.pending = {}
  <2>1. /\ tx' = Idle
        /\ entry' = [s \in Sessions |-> IF marked[s].at = "terminating" /\ marked[s].tx = t.id
                                        THEN Shown(Terminal(t, s)) ELSE marked[s]]
    BY <1>2 DEF Settle
  <2>2. \A s \in Sessions : Shown(Terminal(t, s)).at # "terminating"
    BY DEF Shown, Terminal, NoEntry
  <2>3. Idle.frozen = {} /\ \A k \in Kids : Idle.top[k] = None
    BY DEF Idle
  <2>4. ActiveIn(Idle, entry')
    BY <2>1, <2>2, <2>3 DEF ActiveIn, Registry
  <2>5. TrackedIn(Idle)
    BY <2>3 DEF TrackedIn, Targeted
  <2>6. \A s \in Sessions : s \in t.frozen => \E x \in Terminal(t, s).of : x[1] = s
    <3>1. SUFFICES ASSUME NEW s \in Sessions, s \in t.frozen
                   PROVE  \E x \in Terminal(t, s).of : x[1] = s
      OBVIOUS
    <3>2. PICK x \in t.results : x[1] = s
      BY <1>2, <3>1 DEF Registry, TrackedIn, Targeted
    <3>3. s \notin Kids
      BY Constants
    <3>4. x \in ResultsFor(t, s)
      BY <3>2, <3>3 DEF ResultsFor, SessionOf
    <3>5. QED BY <3>2, <3>4 DEF Terminal
  <2>7. RecordedIn(entry')
    <3>1. SUFFICES ASSUME NEW s \in Sessions, entry'[s].at = "terminal"
                   PROVE  \E x \in entry'[s].of : x[1] = s
      BY DEF RecordedIn
    <3>2. CASE marked[s].at = "terminating" /\ marked[s].tx = t.id
      <4>1. entry'[s] = Terminal(t, s)
        BY <2>1, <3>1, <3>2 DEF Shown, NoEntry
      <4>2. s \in t.frozen
        BY <3>2 DEF Registry, ActiveIn
      <4>3. QED BY <2>6, <4>1, <4>2
    <3>3. CASE ~(marked[s].at = "terminating" /\ marked[s].tx = t.id)
      BY <2>1, <3>1, <3>3 DEF Registry, RecordedIn
    <3>4. QED BY <3>2, <3>3
  <2>8. CleanIn(monitoring, entry')
    BY <2>1 DEF CleanIn, Registry, Shown, NoEntry
  <2>9. QED BY <2>1, <2>4, <2>5, <2>7, <2>8 DEF RegInv, Registry
<1>3. QED BY <1>1, <1>2

\* What it takes for another state of the same transaction to be tracked as well.
LEMMA StaysTracked ==
  ASSUME NEW t, NEW u, TrackedIn(t),
         \A p \in Targeted(u) : p \in Targeted(t) \/ p \in u.pending,
         t.results \subseteq u.results,
         \A p \in t.pending \ u.pending : \E x \in u.results : x[1] = p
  PROVE  TrackedIn(u)
  BY DEF TrackedIn

LEMMA RegistryOf ==
  ASSUME RegInv, NEW u, TrackedIn(u), u.id = tx.id, u.frozen = tx.frozen
  PROVE  Registry(monitoring, u, entry)
  BY DEF RegInv, Registry, ActiveIn

LEMMA ForgetKeepsRegistry ==
  ASSUME RegInv, NEW those, Forget(those), tx' = tx
  PROVE  Registry(monitoring, tx, entry')
<1>1. \A s \in Sessions : entry'[s] = entry[s] \/ (entry[s].at = "terminal" /\ entry'[s] = NoEntry)
  BY DEF Forget, Forgettable
<1>2. NoEntry.at = "none"
  BY DEF NoEntry
<1>3. QED BY <1>1, <1>2 DEF RegInv, Registry, ActiveIn, RecordedIn, CleanIn

LEMMA MonitorRegistry == ASSUME RegInv, Monitor PROVE RegInv'
<1>1. tx' = tx
  BY DEF Monitor, SwitchOff, SwitchOn, Classify, LoseSnapshot, MonitorFrame
<1>2. CASE SwitchOff
  <2>1. Registry(monitoring, tx, entry')
    BY <1>1, <1>2, ForgetKeepsRegistry DEF SwitchOff
  <2>2. \A s \in Sessions : entry'[s].at # "terminal"
    BY <1>2 DEF SwitchOff, Forget, Forgettable, NoEntry
  <2>3. QED BY <1>1, <2>1, <2>2 DEF RegInv, Registry, CleanIn
<1>3. CASE SwitchOn
  BY <1>1, <1>3 DEF SwitchOn, RegInv, Registry, CleanIn
<1>4. ASSUME NEW those, Forget(those), monitoring' # "off" PROVE RegInv'
  BY <1>1, <1>4, ForgetKeepsRegistry DEF RegInv, Registry, CleanIn
<1>5. QED BY <1>2, <1>3, <1>4 DEF Monitor, Classify, LoseSnapshot

LEMMA SubmitRegistry ==
  ASSUME TInv, RegInv, NEW S \in SUBSET Sessions, Submit(S)
  PROVE  RegInv'
<1>1. /\ monitoring = "fresh" /\ tx = Idle /\ Free /\ monitoring' = monitoring
      /\ \/ S \cap Owned = {} /\ Settle(Started(S), Marked(S))
         \/ Settle(Asking(Started(S)), Marked(S))
         \/ Settle(EndOwned(Started(S), "Refused"), Marked(S))
  BY SubmitIs DEF TInv, Rests
<1>2. /\ Started(S) \in TxType /\ Asking(Started(S)) \in TxType /\ Marked(S) \in [Sessions -> Record]
      /\ "Refused" \in Kinds
  BY <1>1, StartedType, ToldKinds
<1>3. ASSUME NEW t \in TxType, t.id = NextId, t.frozen = S, TrackedIn(t)
      PROVE  Registry(monitoring, t, Marked(S))
  <2>1. \A s \in Sessions : entry[s].at # "terminating"
    BY <1>1 DEF RegInv, Registry, ActiveIn, Idle
  <2>2. \A s \in Sessions : Marked(S)[s] = IF s \in S THEN Terminating(NextId) ELSE entry[s]
    BY DEF Marked
  <2>3. Terminating(NextId).at = "terminating" /\ Terminating(NextId).tx = NextId
    BY DEF Terminating, NoEntry
  <2>4. QED BY <1>1, <1>3, <2>1, <2>2, <2>3 DEF RegInv, Registry, ActiveIn, RecordedIn, CleanIn
<1>4. TrackedIn(Started(S)) /\ TrackedIn(Asking(Started(S)))
  BY <1>1, StartedFields DEF TrackedIn, Targeted
<1>5. LET u == EndOwned(Started(S), "Refused") IN
      u \in TxType /\ u.id = NextId /\ u.frozen = S /\ TrackedIn(u)
  <2> DEFINE u == EndOwned(Started(S), "Refused")
  <2>1. /\ u \in TxType /\ u.id = NextId /\ u.frozen = S /\ u.top = Started(S).top
        /\ u.pending = S \ Owned /\ u.results = Started(S).results \cup OwnedResults("Refused")
    BY <1>1, <1>2, StartedFields, EndOwnedFields
  <2> HIDE DEF u
  <2>2. ASSUME NEW o \in Owned PROVE \E x \in u.results : x[1] = o
    <3>1. <<o, "Refused">> \in u.results /\ <<o, "Refused">>[1] = o
      BY <2>1 DEF OwnedResults
    <3>2. QED BY <3>1
  <2>3. Started(S).top = [k \in Kids |-> None]
    BY <1>1, StartedFields
  <2>4. TrackedIn(u)
    BY <2>1, <2>2, <2>3 DEF TrackedIn, Targeted
  <2>5. QED BY <2>1, <2>4 DEF u
<1>6. QED BY <1>1, <1>2, <1>3, <1>4, <1>5, StartedFields, SettleKeepsRegistry

\* A process with a result, and one that was found gone, refused or given up.
LEMMA ResultOf ==
  \A p, kind : <<p, kind>>[1] = p /\ <<p, kind>>[2] = kind
  OBVIOUS

LEMMA ObservedTracked ==
  ASSUME NEW t \in TxType, NEW o \in ObsType, TrackedIn(t)
  PROVE  TrackedIn(Observed(t, o))
<1> DEFINE u == ObservedRoots(t, o)
           v == ObservedKids(u, o)
           w == Admit(v, o)
<1>1. TrackedIn(u)
  <2>1. u.top = t.top /\ SameTx(t, u) /\ u.pending = t.pending \ RootsGone(t, o)
        /\ u.results = t.results \cup RootResults(t, o)
    BY ObservedRootsFields
  <2> HIDE DEF u
  <2>2. ASSUME NEW p \in t.pending \ u.pending PROVE \E x \in u.results : x[1] = p
    <3>1. <<p, SeenGone(t, p)>> \in u.results
      BY <2>1 DEF RootResults
    <3>2. QED BY <3>1, ResultOf
  <2>3. Targeted(u) = Targeted(t) /\ t.results \subseteq u.results
    BY <2>1 DEF Targeted, SameTx
  <2>4. QED BY <2>2, <2>3, StaysTracked
<1>2. u \in TxType
  BY ObservedRootsFields
<1> HIDE DEF u
<1>3. TrackedIn(v)
  <2>1. v.top = u.top /\ SameTx(u, v) /\ v.pending = u.pending \ KidsGone(u, o)
        /\ v.results = u.results \cup GoneResults(u, KidsGone(u, o))
    BY <1>2, ObservedKidsFields
  <2> HIDE DEF v
  <2>2. ASSUME NEW p \in u.pending \ v.pending PROVE \E x \in v.results : x[1] = p
    <3>1. <<p, SeenGone(u, p)>> \in v.results
      BY <2>1 DEF GoneResults
    <3>2. QED BY <3>1, ResultOf
  <2>3. Targeted(v) = Targeted(u) /\ u.results \subseteq v.results
    BY <2>1 DEF Targeted, SameTx
  <2>4. QED BY <1>1, <2>2, <2>3, StaysTracked
<1>4. v \in TxType
  BY <1>2, ObservedKidsFields
<1> HIDE DEF v
<1>5. TrackedIn(w)
  <2>1. /\ SameTx(v, w) /\ w.pending = v.pending \cup New(v, o) /\ w.results = v.results
        /\ \A k \in Kids : w.top[k] = IF k \in New(v, o) THEN o.top[k] ELSE v.top[k]
    BY <1>4, AdmitFields
  <2> HIDE DEF w
  <2>2. \A p \in Targeted(w) : p \in Targeted(v) \/ p \in w.pending
    BY <2>1 DEF Targeted, SameTx
  <2>3. QED BY <1>3, <2>1, <2>2, StaysTracked
<1>6. QED BY <1>5 DEF Observed, w, v, u

LEMMA SettlesRegistry ==
  ASSUME TInv, RegInv, NEW u \in TxType, u.id = tx.id, u.frozen = tx.frozen, TrackedIn(u),
         Settle(u, entry), monitoring' = monitoring
  PROVE  RegInv'
  BY RegistryOf, SettleKeepsRegistry DEF TInv, Types, TxTypes

LEMMA ReconcileRegistry == ASSUME TInv, RegInv, Reconcile PROVE RegInv'
<1>0. tx \in TxType /\ obs \in ObsType /\ requests \in Nat /\ monitoring' = monitoring
  BY ReconcileIs DEF TInv, Types, TxTypes
<1> DEFINE t == Observed(tx, obs)
           batch == Targets(t, obs)
<1>1. t \in TxType /\ t.id = tx.id /\ t.frozen = tx.frozen /\ TrackedIn(t)
  BY <1>0, ObservedType, ObservedTracked DEF SameTx, RegInv, Registry
<1>2. batch \in SUBSET Procs
  BY <1>0, <1>1, TargetsType
<1> HIDE DEF t, batch
<1>3. CASE Dispatch(t, batch)
  <2>1. CASE Settle(Passing(t), entry)
    <3> DEFINE u == Passing(t)
    <3>1. u \in TxType /\ SameTx(t, u) /\ u.pending = t.pending /\ u.top = t.top /\ u.results = t.results
      BY <1>1, PassingFields
    <3> HIDE DEF u
    <3>2. u.id = tx.id /\ u.frozen = tx.frozen /\ TrackedIn(u)
      BY <1>1, <3>1 DEF SameTx, TrackedIn, Targeted
    <3>3. QED BY <1>0, <2>1, <3>1, <3>2, SettlesRegistry DEF u
  <2>2. CASE requests' = requests + 1 /\ tx' = Working(t, batch) /\ UNCHANGED entry
    <3> DEFINE u == Working(t, batch)
    <3>1. u \in TxType /\ SameTx(t, u) /\ u.pending = t.pending /\ u.top = t.top /\ u.results = t.results
      BY <1>0, <1>1, <1>2, <2>2, WorkingFields
    <3> HIDE DEF u
    <3>2. u.id = tx.id /\ u.frozen = tx.frozen /\ TrackedIn(u)
      BY <1>1, <3>1 DEF SameTx, TrackedIn, Targeted
    <3>3. Registry(monitoring, u, entry)
      BY <3>2, RegistryOf
    <3>4. QED BY <1>0, <2>2, <3>3 DEF RegInv, u
  <2>3. CASE Settle(Refusing(t, batch), entry)
    <3> DEFINE u == Refusing(t, batch)
    <3>1. u \in TxType /\ SameTx(t, u) /\ u.pending = t.pending /\ u.top = t.top
          /\ t.results \subseteq u.results
      BY <1>1, <1>2, RefusingFields
    <3> HIDE DEF u
    <3>2. u.id = tx.id /\ u.frozen = tx.frozen /\ TrackedIn(u)
      BY <1>1, <3>1 DEF SameTx, TrackedIn, Targeted
    <3>3. QED BY <1>0, <2>3, <3>1, <3>2, SettlesRegistry DEF u
  <2>4. QED BY <1>3, <2>1, <2>2, <2>3, DispatchIs
<1>4. CASE UNCHANGED <<tx, entry>>
  BY <1>0, <1>4 DEF RegInv
<1>5. QED BY <1>3, <1>4, ReconcileIs DEF t, batch

LEMMA PollRegistry == ASSUME TInv, RegInv, PollOutcome PROVE RegInv'
<1>0. tx \in TxType /\ monitoring' = monitoring
  BY DEF TInv, Types, TxTypes, PollOutcome
<1>1. CASE Expected(Head(outcomes).req)
  <2> DEFINE told == Head(outcomes).told
             u == Answered(tx, told)
  <2>1. told \in SUBSET Results
    <3>1. Head(outcomes) \in Outcome
      BY DEF PollOutcome, TInv, Types, WorkTypes
    <3>2. QED BY <3>1 DEF Outcome
  <2> HIDE DEF told
  <2>2. /\ u \in TxType /\ SameTx(tx, u) /\ u.top = tx.top /\ u.pending = tx.pending \ Gone(tx, told)
        /\ u.results = tx.results \cup Known(tx, told)
    BY <1>0, <2>1, AnsweredFields
  <2>3. ASSUME NEW p \in Gone(tx, told) PROVE \E x \in Known(tx, told) : x[1] = p
    BY <2>3 DEF Gone
  <2>4. Settle(u, entry)
    BY <1>1 DEF PollOutcome, told
  <2> HIDE DEF u
  <2>5. TrackedIn(tx)
    BY DEF RegInv, Registry
  <2>6. TrackedIn(u)
    <3>1. Targeted(u) = Targeted(tx)
      BY <2>2 DEF Targeted, SameTx
    <3>2. \A p \in tx.pending \ u.pending : \E x \in u.results : x[1] = p
      BY <2>2, <2>3
    <3>3. QED BY <2>2, <2>5, <3>1, <3>2, StaysTracked
  <2>7. QED BY <1>0, <2>2, <2>4, <2>6, SettlesRegistry DEF SameTx
<1>2. CASE ~Expected(Head(outcomes).req)
  BY <1>0, <1>2 DEF PollOutcome, RegInv
<1>3. QED BY <1>1, <1>2

LEMMA ExpireRegistry == ASSUME TInv, RegInv, Expire PROVE RegInv'
<1> DEFINE u == Ended(tx)
<1>1. /\ u \in TxType /\ SameTx(tx, u) /\ u.top = tx.top
      /\ u.results = tx.results \cup {<<p, "DeadlineExpired">> : p \in tx.pending}
  BY EndedFields DEF TInv, Types, TxTypes
<1>2. Settle(u, entry) /\ monitoring' = monitoring
  BY ExpireIs
<1> HIDE DEF u
<1>3. ASSUME NEW p \in tx.pending \ u.pending PROVE \E x \in u.results : x[1] = p
  <2>1. <<p, "DeadlineExpired">> \in u.results
    BY <1>1
  <2>2. QED BY <2>1, ResultOf
<1>4. TrackedIn(u)
  <2>1. Targeted(u) = Targeted(tx) /\ TrackedIn(tx)
    BY <1>1 DEF Targeted, SameTx, RegInv, Registry
  <2>2. QED BY <1>1, <1>3, <2>1, StaysTracked
<1>5. QED BY <1>1, <1>2, <1>4, SettlesRegistry DEF SameTx

LEMMA ReceiveRegistry == ASSUME TInv, RegInv, ReceiveOwned PROVE RegInv'
<1>0. tx \in TxType /\ monitoring' = monitoring
  BY ReceiveIs DEF TInv, Types, TxTypes
<1>1. ASSUME NEW kind \in Kinds, Settle(EndOwned(tx, kind), entry) PROVE RegInv'
  <2> DEFINE u == EndOwned(tx, kind)
  <2>1. /\ u \in TxType /\ u.id = tx.id /\ u.frozen = tx.frozen /\ u.top = tx.top
        /\ u.pending = tx.pending \ Owned /\ u.results = tx.results \cup OwnedResults(kind)
    BY <1>0, EndOwnedFields
  <2> HIDE DEF u
  <2>2. ASSUME NEW p \in tx.pending \ u.pending PROVE \E x \in u.results : x[1] = p
    <3>1. <<p, kind>> \in u.results
      BY <2>1 DEF OwnedResults
    <3>2. QED BY <3>1, ResultOf
  <2>3. TrackedIn(u)
    <3>1. Targeted(u) = Targeted(tx) /\ TrackedIn(tx)
      BY <2>1 DEF Targeted, RegInv, Registry
    <3>2. QED BY <2>1, <2>2, <3>1, StaysTracked
  <2>4. QED BY <1>0, <1>1, <2>1, <2>3, SettlesRegistry DEF u
<1>2. CASE tx' = Reaping(tx) /\ UNCHANGED entry
  <2>1. /\ tx'.id = tx.id /\ tx'.frozen = tx.frozen /\ tx'.pending = tx.pending /\ tx'.top = tx.top
        /\ tx'.results = tx.results
    BY <1>0, <1>2, ReapingFields
  <2>2. TrackedIn(tx')
    BY <2>1 DEF TrackedIn, Targeted, RegInv, Registry
  <2>3. QED BY <1>0, <1>2, <2>1, <2>2, RegistryOf DEF RegInv
<1>3. CASE UNCHANGED <<tx, entry>>
  BY <1>0, <1>3 DEF RegInv
<1>4. QED BY <1>1, <1>2, <1>3, ReceiveIs, EndKinds

\* Every other step leaves the transaction and its records as they are.
LEMMA TxElsewhere ==
  ASSUME [Next]_vars, ~Monitor, \A S \in SUBSET Sessions : ~Submit(S), ~Reconcile, ~PollOutcome, ~Expire,
         ~ReceiveOwned
  PROVE  UNCHANGED <<monitoring, tx, entry, lastId>>
<1>1. CASE Processes
  BY <1>1 DEF Processes, Fork, Exit, Reap
<1>2. CASE Ask \/ NoticeStopped \/ DeadlinePasses
  BY <1>2 DEF Ask, NoticeStopped, DeadlinePasses
<1>3. CASE Worker
  BY <1>3 DEF Worker, Take, Signal, Confirm, Report, WorkerFrame
<1>4. CASE WorkerStops \/ Look \/ ObserverStops
  BY <1>4 DEF WorkerStops, Look, ObserverStops
<1>5. CASE Actor
  BY <1>5 DEF Actor, StopOwned, ActorSignals, ActorReaps, OwnedFrame
<1>6. CASE UNCHANGED vars
  BY <1>6 DEF vars
<1>7. QED BY <1>1, <1>2, <1>3, <1>4, <1>5, <1>6 DEF Next, Transaction

LEMMA RegistryStep == ASSUME TInv, RegInv, [Next]_vars PROVE RegInv'
<1>1. CASE UNCHANGED <<monitoring, tx, entry>>
  BY <1>1 DEF RegInv
<1>2. QED BY <1>1, MonitorRegistry, SubmitRegistry, ReconcileRegistry, PollRegistry, ExpireRegistry,
             ReceiveRegistry, TxElsewhere

LEMMA RegistryInit == Init => RegInv
<1> SUFFICES ASSUME Init PROVE RegInv
  OBVIOUS
<1>1. \A s \in Sessions : entry[s].at = "none"
  BY DEF Init, NoEntry
<1>2. Idle.frozen = {} /\ \A k \in Kids : Idle.top[k] = None
  BY DEF Idle
<1>3. tx = Idle
  BY DEF Init
<1>4. QED BY <1>1, <1>2, <1>3 DEF RegInv, Registry, ActiveIn, TrackedIn, Targeted, RecordedIn, CleanIn

LEMMA RegistryAlways == Spec => []RegInv
<1>1. TInv /\ RegInv /\ [Next]_vars => RegInv'
  BY RegistryStep
<1>2. QED BY <1>1, RegistryInit, TypesAlways, PTL DEF Spec

\* The registry shows as terminating the sessions of the active transaction and no other.
THEOREM ActiveShown == Spec => []TerminatingIsActive
BY RegistryAlways, RegistryMeans, PTL

\* No target is lost track of, and every terminal record has a result of its session.
THEOREM TargetsKept == Spec => []NoTargetForgotten
BY RegistryAlways, RegistryMeans, PTL

\* With monitoring off no terminal record is kept, whenever the transaction ends.
THEOREM OffIsClean == Spec => []OffKeepsNothing
BY RegistryAlways, RegistryMeans, PTL
-----------------------------------------------------------------------------
(* What a step can do to the transaction, seen from the worker's side.     *)

SameWork(t, u) ==
  /\ u.id = t.id /\ u.frozen = t.frozen /\ SamePass(t, u) /\ u.admitted = t.admitted
  /\ u.above = t.above /\ u.top = t.top /\ u.ready = t.ready
  /\ u.pending \cap Procs = t.pending \cap Procs

Begins ==
  /\ tx.id = 0 /\ lastId' = lastId + 1 /\ tx'.id = lastId' /\ tx'.pass \in {"settled", "observe"}
  /\ tx'.ready \subseteq Roots \cap tx'.frozen /\ tx'.admitted = {} /\ tx'.top = [k \in Kids |-> None]
  /\ UNCHANGED <<worldVars, workVars, requests, obs>>

Looks ==
  /\ Reconcile /\ tx.id # 0 /\ obs.at = "seen" /\ obs.tx = tx.id /\ tx.pass = "observe" /\ lastId' = lastId
  /\ LET t == Observed(tx, obs)
         batch == Targets(t, obs)
     IN  \/ tx' = Passing(t) /\ UNCHANGED <<plans, requests>>
         \/ tx' = Refusing(t, batch) /\ UNCHANGED plans /\ requests' = requests + 1
         \/ /\ tx' = Working(t, batch) /\ requests' = requests + 1
            /\ plans' = Append(plans, [req |-> requests', tx |-> tx.id, left |-> batch, told |-> {}])

Answers ==
  /\ PollOutcome /\ tx.id # 0 /\ tx.pass = "worker" /\ Head(outcomes).req = tx.request /\ lastId' = lastId
  /\ tx' = Answered(tx, Head(outcomes).told)

LEMMA SettleEnds ==
  ASSUME NEW t, NEW marked, Settle(t, marked)
  PROVE  tx' = t \/ tx' = Idle
  BY DEF Settle

LEMMA SubmitCases ==
  ASSUME TInv, NEW S \in SUBSET Sessions, Submit(S)
  PROVE  (tx' = Idle /\ lastId' = lastId + 1) \/ Begins
<1>1. /\ tx.id = 0 /\ Free /\ lastId' = lastId + 1 /\ NextId = lastId + 1
      /\ UNCHANGED <<worldVars, workVars, requests, obs>>
  BY SubmitIs DEF NextId
<1>2. /\ Started(S) \in TxType /\ Asking(Started(S)) \in TxType /\ "Refused" \in Kinds
  BY <1>1, StartedType, ToldKinds
<1>3. ASSUME NEW u, tx' = u, u.id = NextId, u.frozen = S, u.ready = S \cap Roots, u.admitted = {},
             u.top = [k \in Kids |-> None], u.pass \in {"settled", "observe"}
      PROVE  Begins
  BY <1>1, <1>3 DEF Begins
<1>4. tx' = Started(S) => Begins
  BY <1>1, <1>3, StartedFields
<1>5. tx' = Asking(Started(S)) => Begins
  BY <1>1, <1>3, StartedFields
<1>6. tx' = EndOwned(Started(S), "Refused") => Begins
  <2> DEFINE u == EndOwned(Started(S), "Refused")
  <2>1. /\ u.id = NextId /\ u.frozen = S /\ u.ready = S \cap Roots /\ u.admitted = {}
        /\ u.top = [k \in Kids |-> None] /\ u.pass \in {"settled", "observe"}
    BY <1>1, <1>2, StartedFields, EndOwnedFields DEF SamePass
  <2> HIDE DEF u
  <2>2. tx' = u => Begins
    BY <1>3, <2>1
  <2>3. QED BY <2>2 DEF u
<1>7. QED BY <1>1, <1>4, <1>5, <1>6, SubmitIs, SettleEnds

LEMMA SameWorkReflexive == \A t : SameWork(t, t)
  BY DEF SameWork, SamePass

LEMMA ReceiveCases ==
  ASSUME TInv, ReceiveOwned
  PROVE  SameWork(tx, tx') \/ tx' = Idle
<1>0. tx \in TxType
  BY DEF TInv, Types, TxTypes
<1>1. ASSUME NEW kind \in Kinds, Settle(EndOwned(tx, kind), entry) PROVE SameWork(tx, tx') \/ tx' = Idle
  <2> DEFINE u == EndOwned(tx, kind)
  <2>1. /\ u.id = tx.id /\ u.frozen = tx.frozen /\ SamePass(tx, u) /\ u.admitted = tx.admitted
        /\ u.above = tx.above /\ u.top = tx.top /\ u.ready = tx.ready /\ u.pending = tx.pending \ Owned
    BY <1>0, EndOwnedFields
  <2>2. tx' = u \/ tx' = Idle
    BY <1>1, SettleEnds
  <2> HIDE DEF u
  <2>3. u.pending \cap Procs = tx.pending \cap Procs
    BY <2>1, Constants
  <2>4. QED BY <2>1, <2>2, <2>3 DEF SameWork
<1>2. CASE tx' = Reaping(tx)
  BY <1>0, <1>2, ReapingFields DEF SameWork
<1>3. CASE tx' = tx
  BY <1>3, SameWorkReflexive
<1>4. QED BY <1>1, <1>2, <1>3, ReceiveIs, EndKinds

LEMMA TxCases ==
  ASSUME TInv, [Next]_vars
  PROVE  \/ SameWork(tx, tx') /\ lastId' = lastId
         \/ tx' = Idle /\ lastId' \in {lastId, lastId + 1}
         \/ Begins
         \/ Looks
         \/ Answers
<1>1. CASE \E S \in SUBSET Sessions : Submit(S)
  BY <1>1, SubmitCases
<1>2. CASE Reconcile
  <2>1. lastId' = lastId /\ obs.at = "seen"
    BY <1>2, ReconcileIs
  <2>2. CASE UNCHANGED tx
    BY <2>1, <2>2, SameWorkReflexive
  <2> DEFINE t == Observed(tx, obs)
             batch == Targets(t, obs)
  <2>3. CASE tx.id = obs.tx /\ tx.pass = "observe" /\ Dispatch(t, batch)
    <3>1. tx.id # 0
      BY <2>3, WaitingIsThere
    <3>2. t.id = tx.id
      BY ObservedType DEF SameTx, TInv, Types, TxTypes
    <3> HIDE DEF t, batch
    <3>3. \/ tx' = Passing(t) /\ UNCHANGED <<plans, requests>>
          \/ tx' = Refusing(t, batch) /\ UNCHANGED plans /\ requests' = requests + 1
          \/ /\ tx' = Working(t, batch) /\ requests' = requests + 1
             /\ plans' = Append(plans, [req |-> requests', tx |-> tx.id, left |-> batch, told |-> {}])
          \/ tx' = Idle
      BY <2>3, <3>2, DispatchIs, SettleEnds
    <3>4. QED BY <1>2, <2>1, <2>3, <3>1, <3>3 DEF Looks, t, batch
  <2>4. QED BY <1>2, <2>2, <2>3, ReconcileIs
<1>3. CASE PollOutcome
  <2>1. CASE Expected(Head(outcomes).req)
    <3>1. tx.id # 0
      BY <2>1, WaitingIsThere DEF Expected
    <3>2. lastId' = lastId /\ (tx' = Answered(tx, Head(outcomes).told) \/ tx' = Idle)
      BY <1>3, <2>1, SettleEnds DEF PollOutcome
    <3>3. QED BY <1>3, <2>1, <3>1, <3>2 DEF Answers, Expected
  <2>2. CASE ~Expected(Head(outcomes).req)
    BY <1>3, <2>2, SameWorkReflexive DEF PollOutcome
  <2>3. QED BY <2>1, <2>2
<1>4. CASE Expire
  <2>1. Settle(Ended(tx), entry) /\ Ended(tx).pending = {} /\ lastId' = lastId
    BY <1>4, ExpireIs, EndedFields DEF TInv, Types, TxTypes
  <2>2. tx' = Idle
    BY <2>1 DEF Settle
  <2>3. QED BY <2>1, <2>2
<1>5. CASE ReceiveOwned
  BY <1>5, ReceiveCases, ReceiveIs
<1>6. CASE Monitor
  BY <1>6, SameWorkReflexive DEF Monitor, SwitchOff, SwitchOn, Classify, LoseSnapshot, MonitorFrame
<1>7. CASE UNCHANGED <<tx, lastId>>
  BY <1>7, SameWorkReflexive
<1>8. QED BY <1>1, <1>2, <1>3, <1>4, <1>5, <1>6, <1>7, TxElsewhere
-----------------------------------------------------------------------------
(* What a step can do to the worker's plans and its outcomes.              *)

LEMMA Appended ==
  ASSUME NEW T, NEW q \in Seq(T), NEW e \in T
  PROVE  /\ Append(q, e) \in Seq(T) /\ Len(Append(q, e)) = Len(q) + 1
         /\ \A i \in 1..Len(q) : Append(q, e)[i] = q[i]
         /\ Append(q, e)[Len(q) + 1] = e
  BY AppendProperties

LEMMA Taken ==
  ASSUME NEW T, NEW q \in Seq(T), q # <<>>
  PROVE  /\ Tail(q) \in Seq(T) /\ Head(q) \in T /\ Head(q) = q[1] /\ 1 \in 1..Len(q)
         /\ Len(q) \in Nat /\ Len(Tail(q)) = Len(q) - 1
         /\ \A i \in 1..Len(Tail(q)) : i + 1 \in 1..Len(q) /\ Tail(q)[i] = q[i + 1]
  OBVIOUS

Waits ==
  /\ aim.at = "admitted" /\ plans # <<>> /\ aim.of \in plans[1].left /\ aim.of \in Procs
  /\ sent' = [sent EXCEPT ![plans[1].tx][aim.of] = @ + 1]
  /\ aim' = [aim EXCEPT !.at = "waiting"] /\ UNCHANGED plans
  /\ WorkerFrame /\ UNCHANGED outcomes
Tells(p, kind) ==
  /\ plans # <<>> /\ p \in plans[1].left /\ Tell(p, kind)
  /\ aim.at = "idle" \/ aim.of = p
  /\ kind \in GoneKinds => ~Running(p)
  /\ kind = "Survived" => aim.at = "waiting" /\ aim.of = p
  /\ WorkerFrame /\ UNCHANGED <<sent, outcomes>>

LEMMA WorkerCases ==
  ASSUME TInv, AimsAtPlan, Worker
  PROVE  \/ \E p \in Procs : TakeAims(p) /\ aim.at = "idle" /\ WorkerFrame /\ UNCHANGED outcomes
         \/ \E p \in Procs, kind \in Kinds : Tells(p, kind)
         \/ Waits
         \/ Report
<1>1. ASSUME NEW p \in Procs, Take(p)
      PROVE  \/ TakeAims(p) /\ aim.at = "idle" /\ WorkerFrame /\ UNCHANGED outcomes
             \/ \E kind \in Kinds : Tells(p, kind)
  <2>1. aim.at = "idle" /\ WorkerFrame /\ UNCHANGED outcomes
    BY <1>1, TakeIs DEF NoAim
  <2>2. ASSUME NEW kind \in Kinds, TakeTells(p, kind) PROVE Tells(p, kind)
    BY <2>1, <2>2 DEF TakeTells, Tells, GoneKinds
  <2>3. QED BY <1>1, <2>1, <2>2, TakeIs
<1>2. CASE Signal
  <2>1. /\ aim.at = "admitted" /\ plans # <<>> /\ aim.of \in plans[1].left /\ aim.of \in Procs
        /\ WorkerFrame /\ UNCHANGED outcomes
    BY <1>2 DEF Signal, AimsAtPlan
  <2>2. CASE /\ sent' = [sent EXCEPT ![plans[1].tx][aim.of] = @ + 1]
             /\ aim' = [aim EXCEPT !.at = "waiting"] /\ UNCHANGED plans
    BY <2>1, <2>2 DEF Waits
  <2>3. CASE ~Present(aim.of) /\ Tell(aim.of, "AlreadyGone") /\ UNCHANGED sent
    <3>1. Tells(aim.of, "AlreadyGone")
      BY <2>1, <2>3 DEF Tells, Present, Running
    <3>2. QED BY <2>1, <3>1, ToldKinds
  <2>4. QED BY <1>2, <2>2, <2>3 DEF Signal
<1>3. CASE Confirm
  <2>1. /\ aim.at = "waiting" /\ plans # <<>> /\ aim.of \in plans[1].left /\ aim.of \in Procs
        /\ WorkerFrame /\ UNCHANGED <<sent, outcomes>>
    BY <1>3 DEF Confirm, AimsAtPlan
  <2>2. PICK kind \in {"Survived"} \cup (IF Running(aim.of) THEN {} ELSE {"GoneAfterSignaling"}) :
        Tell(aim.of, kind)
    BY <1>3 DEF Confirm
  <2>3. kind \in GoneKinds => ~Running(aim.of)
    BY <2>2 DEF GoneKinds
  <2>4. Tells(aim.of, kind)
    BY <2>1, <2>2, <2>3 DEF Tells
  <2>5. kind \in Kinds
    BY <2>2, ToldKinds
  <2>6. QED BY <2>1, <2>4, <2>5
<1>4. QED BY <1>1, <1>2, <1>3 DEF Worker

\* A plan of the next state is one of this state, at the same place or one further
\* back, or the one a look has just made.
Continues(i, j) ==
  /\ j \in 1..Len(plans) /\ plans'[i].req = plans[j].req /\ plans'[i].tx = plans[j].tx
  /\ plans'[i].left \subseteq plans[j].left
NewPlan == [req |-> requests', tx |-> tx.id, left |-> Targets(Observed(tx, obs), obs), told |-> {}]
Planned(i) ==
  /\ i = Len(plans) + 1 /\ plans' = Append(plans, NewPlan) /\ plans'[i] = NewPlan
  /\ Looks /\ aim' = aim /\ requests' = requests + 1
  /\ tx' = Working(Observed(tx, obs), Targets(Observed(tx, obs), obs))

LEMMA PlanOrigins ==
  ASSUME TInv, AimsAtPlan, [Next]_vars
  PROVE  \/ \A i \in 1..Len(plans') : Continues(i, i) \/ Planned(i)
         \/ Report /\ \A i \in 1..Len(plans') : Continues(i, i + 1)
<1>0. plans \in Seq(Plan) /\ Len(plans) \in Nat
  BY DEF TInv, Types, WorkTypes
<1>1. CASE plans' = plans
  BY <1>0, <1>1 DEF Continues
<1>2. CASE Looks /\ plans' = Append(plans, NewPlan) /\ requests' = requests + 1
           /\ tx' = Working(Observed(tx, obs), Targets(Observed(tx, obs), obs))
  <2>0. aim' = aim
    BY <1>2, ReconcileIs DEF Looks
  <2>1. NewPlan \in Plan
    <3>1. tx \in TxType /\ obs \in ObsType /\ requests \in Nat
      BY DEF TInv, Types, TxTypes
    <3>2. Targets(Observed(tx, obs), obs) \in SUBSET Procs
      BY <3>1, ObservedType, TargetsType
    <3>3. tx.id \in 1..MaxTx /\ requests' \in Nat
      BY <1>2, <3>1, Constants DEF Looks, TxType
    <3>4. QED BY <3>2, <3>3 DEF NewPlan, Plan
  <2>2. /\ Len(plans') = Len(plans) + 1 /\ plans'[Len(plans) + 1] = NewPlan
        /\ \A i \in 1..Len(plans) : plans'[i] = plans[i]
    BY <1>0, <1>2, <2>1, Appended
  <2>3. ASSUME NEW i \in 1..Len(plans') PROVE Continues(i, i) \/ Planned(i)
    <3>1. CASE i \in 1..Len(plans)
      BY <2>2, <3>1 DEF Continues
    <3>2. CASE i = Len(plans) + 1
      BY <1>2, <2>0, <2>2, <3>2 DEF Planned
    <3>3. QED BY <1>0, <2>2, <2>3, <3>1, <3>2
  <2>4. QED BY <2>3
<1>3. ASSUME NEW p \in Procs, NEW kind \in Kinds, Tells(p, kind)
      PROVE  \A i \in 1..Len(plans') : Continues(i, i)
  <2>1. plans # <<>> /\ Tell(p, kind)
    BY <1>3 DEF Tells
  <2>2. /\ Len(plans') = Len(plans) /\ 1 \in 1..Len(plans)
        /\ plans'[1].req = plans[1].req /\ plans'[1].tx = plans[1].tx
        /\ plans'[1].left = plans[1].left \ {p}
        /\ \A i \in 1..Len(plans) : i # 1 => plans'[i] = plans[i]
    BY <1>0, <2>1, TellIs
  <2>3. QED BY <2>2 DEF Continues
<1>4. CASE Report
  <2>1. plans # <<>> /\ plans' = Tail(plans)
    BY <1>4 DEF Report
  <2>2. \A i \in 1..Len(plans') : i + 1 \in 1..Len(plans) /\ plans'[i] = plans[i + 1]
    BY <1>0, <2>1, Taken
  <2>3. QED BY <1>4, <2>2 DEF Continues
<1>5. CASE WorkerStops
  <2>1. Len(plans') = 0
    BY <1>5 DEF WorkerStops
  <2>2. QED BY <2>1
<1>6. CASE Reconcile
  <2>1. UNCHANGED plans \/ Dispatch(Observed(tx, obs), Targets(Observed(tx, obs), obs))
    BY <1>6, ReconcileIs
  <2> DEFINE t == Observed(tx, obs)
             batch == Targets(t, obs)
  <2>2. t.id = tx.id
    BY ObservedType DEF SameTx, TInv, Types, TxTypes
  <2>3. CASE Dispatch(t, batch) /\ tx.id = obs.tx /\ tx.pass = "observe"
    <3> HIDE DEF t, batch
    <3>1. \/ UNCHANGED plans
          \/ /\ requests' = requests + 1 /\ tx' = Working(t, batch)
             /\ plans' = Append(plans, [req |-> requests', tx |-> tx.id, left |-> batch, told |-> {}])
      BY <2>2, <2>3, DispatchIs
    <3>2. CASE /\ requests' = requests + 1 /\ tx' = Working(t, batch)
               /\ plans' = Append(plans, [req |-> requests', tx |-> tx.id, left |-> batch, told |-> {}])
      <4>1. tx.id # 0 /\ obs.at = "seen" /\ lastId' = lastId
        BY <1>6, <2>3, WaitingIsThere, ReconcileIs
      <4>2. Looks
        BY <1>6, <2>3, <3>2, <4>1 DEF Looks, t, batch
      <4>3. QED BY <1>2, <3>2, <4>2 DEF NewPlan, t, batch
    <3>3. QED BY <1>1, <3>1, <3>2
  <2>4. QED BY <1>1, <1>6, <2>1, <2>3, ReconcileIs
<1>7. CASE Worker
  <2>1. CASE \E p \in Procs : TakeAims(p)
    BY <1>1, <2>1 DEF TakeAims
  <2>2. CASE Waits
    BY <1>1, <2>2 DEF Waits
  <2>3. QED BY <1>3, <1>4, <1>7, <2>1, <2>2, WorkerCases
<1>8. QED BY <1>1, <1>5, <1>6, <1>7, PlansElsewhere

\* An outcome of the next state is one of this state, or the worker's report.
Reported == [req |-> plans[1].req, told |-> plans[1].told]
Holding(e) == \E j \in 1..Len(outcomes) : e = outcomes[j]

LEMMA OutcomeOrigins ==
  ASSUME TInv, [Next]_vars
  PROVE  \A i \in 1..Len(outcomes') : Holding(outcomes'[i])
                                      \/ (Report /\ plans # <<>> /\ outcomes'[i] = Reported)
<1>0. outcomes \in Seq(Outcome) /\ Len(outcomes) \in Nat /\ plans \in Seq(Plan)
  BY DEF TInv, Types, WorkTypes
<1>1. CASE outcomes' = outcomes
  BY <1>1 DEF Holding
<1>2. CASE Report
  <2>1. plans # <<>> /\ outcomes' = Append(outcomes, Reported)
    BY <1>2 DEF Report, Reported
  <2>2. Reported \in Outcome
    <3>1. plans[1] \in Plan
      BY <1>0, <2>1
    <3>2. QED BY <3>1 DEF Reported, Plan, Outcome
  <2>3. /\ Len(outcomes') = Len(outcomes) + 1 /\ outcomes'[Len(outcomes) + 1] = Reported
        /\ \A i \in 1..Len(outcomes) : outcomes'[i] = outcomes[i]
    BY <1>0, <2>1, <2>2, Appended
  <2>4. ASSUME NEW i \in 1..Len(outcomes')
        PROVE  Holding(outcomes'[i]) \/ (Report /\ plans # <<>> /\ outcomes'[i] = Reported)
    <3>1. i \in 1..Len(outcomes) \/ i = Len(outcomes) + 1
      BY <1>0, <2>3
    <3>2. QED BY <1>2, <2>1, <2>3, <3>1 DEF Holding
  <2>5. QED BY <2>4
<1>3. CASE PollOutcome
  <2>1. outcomes # <<>> /\ outcomes' = Tail(outcomes)
    BY <1>3 DEF PollOutcome
  <2>2. \A i \in 1..Len(outcomes') : i + 1 \in 1..Len(outcomes) /\ outcomes'[i] = outcomes[i + 1]
    BY <1>0, <2>1, Taken
  <2>3. QED BY <2>2 DEF Holding
<1>4. CASE Processes
  BY <1>1, <1>4 DEF Processes, Fork, Exit, Reap, workVars
<1>5. CASE Monitor
  BY <1>1, <1>5 DEF Monitor, SwitchOff, SwitchOn, Classify, LoseSnapshot, MonitorFrame, workVars
<1>6. CASE Transaction /\ ~PollOutcome
  BY <1>1, <1>6 DEF Transaction, Submit, Ask, Reconcile, NoticeStopped, DeadlinePasses, Expire, ReceiveOwned, workVars
<1>7. CASE Worker /\ ~Report
  BY <1>1, <1>7 DEF Worker, Take, Signal, Confirm
<1>8. CASE WorkerStops \/ Look \/ ObserverStops \/ Actor \/ UNCHANGED vars
  BY <1>1, <1>8 DEF WorkerStops, Look, ObserverStops, Actor, StopOwned, ActorSignals, ActorReaps,
                    OwnedFrame, workVars, vars
<1>9. QED BY <1>2, <1>3, <1>4, <1>5, <1>6, <1>7, <1>8 DEF Next

LEMMA SentCases ==
  ASSUME TInv, AimsAtPlan, [Next]_vars
  PROVE  UNCHANGED sent \/ Waits
<1>1. CASE Processes
  BY <1>1 DEF Processes, Fork, Exit, Reap
<1>2. CASE Monitor
  BY <1>2 DEF Monitor, SwitchOff, SwitchOn, Classify, LoseSnapshot, MonitorFrame, worldVars
<1>3. CASE Transaction
  BY <1>3 DEF Transaction, Submit, Ask, Reconcile, PollOutcome, NoticeStopped, DeadlinePasses, Expire,
              ReceiveOwned, worldVars
<1>4. CASE Worker
  <2>1. \A p \in Procs : TakeAims(p) => UNCHANGED sent
    BY DEF TakeAims
  <2>2. \A p \in Procs, kind \in Kinds : Tells(p, kind) => UNCHANGED sent
    BY DEF Tells
  <2>3. Report => UNCHANGED sent
    BY DEF Report
  <2>4. QED BY <1>4, <2>1, <2>2, <2>3, WorkerCases
<1>5. CASE WorkerStops \/ Look \/ ObserverStops \/ Actor \/ UNCHANGED vars
  BY <1>5 DEF WorkerStops, Look, ObserverStops, Actor, StopOwned, ActorSignals, ActorReaps, OwnedFrame,
              worldVars, vars
<1>6. QED BY <1>1, <1>2, <1>3, <1>4, <1>5 DEF Next

LEMMA ObsCases ==
  ASSUME [Next]_vars
  PROVE  UNCHANGED obs \/ Ask \/ Look \/ obs' = NoObs \/ obs' = [NoObs EXCEPT !.at = "down"]
<1>1. CASE Processes
  BY <1>1 DEF Processes, Fork, Exit, Reap
<1>2. CASE Monitor
  BY <1>2 DEF Monitor, SwitchOff, SwitchOn, Classify, LoseSnapshot, MonitorFrame
<1>3. CASE Transaction
  BY <1>3 DEF Transaction, Submit, Reconcile, PollOutcome, NoticeStopped, DeadlinePasses, Expire, ReceiveOwned
<1>4. CASE Worker
  BY <1>4 DEF Worker, Take, Signal, Confirm, Report, WorkerFrame
<1>5. CASE WorkerStops \/ ObserverStops \/ Actor \/ UNCHANGED vars
  BY <1>5 DEF WorkerStops, ObserverStops, Actor, StopOwned, ActorSignals, ActorReaps, OwnedFrame, vars
<1>6. QED BY <1>1, <1>2, <1>3, <1>4, <1>5 DEF Next

LEMMA RequestsGrow ==
  ASSUME TInv, [Next]_vars
  PROVE  requests' \in {requests, requests + 1}
<1>1. CASE Reconcile
  BY <1>1, ReconcileIs, DispatchIs
<1>2. CASE Worker
  BY <1>2 DEF Worker, Take, Signal, Confirm, Report, WorkerFrame
<1>3. CASE WorkerStops
  BY <1>3 DEF WorkerStops
<1>4. QED BY <1>1, <1>2, <1>3, PlansElsewhere

LEMMA IdleFields ==
  /\ Idle.id = 0 /\ Idle.frozen = {} /\ Idle.pass = "settled" /\ Idle.ready = {} /\ Idle.admitted = {}
  /\ Idle.batch = {} /\ Idle.top = [k \in Kids |-> None] /\ Idle.results = {} /\ Idle.progress = "none"
  BY DEF Idle

LEMMA ObsAtRest ==
  /\ NoObs.at = "none" /\ NoObs.tx = 0
  /\ [NoObs EXCEPT !.at = "down"].at = "down" /\ [NoObs EXCEPT !.at = "down"].tx = 0
  BY DEF NoObs
-----------------------------------------------------------------------------
(* Identities only grow.                                                   *)

Numbers ==
  /\ tx.id \in {0, lastId}
  /\ \A i \in 1..Len(plans) : plans[i].tx <= lastId /\ plans[i].req <= requests
  /\ \A i \in 1..Len(outcomes) : outcomes[i].req <= requests
  /\ obs.tx <= lastId /\ (obs.at \in {"asked", "seen"} => obs.tx # 0)
  /\ \A T \in 1..MaxTx, p \in Procs : T > lastId => sent[T][p] = 0

LEMMA NumbersStep ==
  ASSUME TInv, AimsAtPlan, Numbers, [Next]_vars
  PROVE  Numbers'
<1>0. /\ lastId \in Nat /\ requests \in Nat /\ plans \in Seq(Plan) /\ outcomes \in Seq(Outcome)
      /\ tx.id \in Nat /\ obs \in ObsType /\ sent \in [1..MaxTx -> [Procs -> Nat]]
  BY Constants DEF TInv, Types, TxTypes, WorkTypes, WorldTypes, TxType
<1>1. tx'.id \in {0, lastId'} /\ lastId' \in {lastId, lastId + 1}
  <2>1. CASE SameWork(tx, tx') /\ lastId' = lastId
    BY <2>1 DEF SameWork, Numbers
  <2>2. CASE tx' = Idle /\ lastId' \in {lastId, lastId + 1}
    BY <2>2, IdleFields
  <2>3. CASE Begins
    BY <2>3 DEF Begins
  <2>4. CASE Looks
    <3> DEFINE t == Observed(tx, obs)
               batch == Targets(t, obs)
    <3>1. t \in TxType /\ t.id = tx.id
      BY ObservedType DEF SameTx, TInv, Types, TxTypes
    <3>2. batch \in SUBSET Procs
      BY <1>0, <3>1, TargetsType
    <3> HIDE DEF t, batch
    <3>3. /\ Passing(t).id = t.id /\ Refusing(t, batch).id = t.id
          /\ requests' \in Nat => Working(t, batch).id = t.id
      BY <3>1, <3>2, PassingFields, RefusingFields, WorkingFields DEF SameTx
    <3>4. requests' \in Nat
      BY <1>0, RequestsGrow
    <3>5. tx'.id = tx.id /\ lastId' = lastId
      BY <2>4, <3>1, <3>3, <3>4 DEF Looks, t, batch
    <3>6. QED BY <3>5 DEF Numbers
  <2>5. CASE Answers
    <3>1. Head(outcomes).told \in SUBSET Results
      <4>1. Head(outcomes) \in Outcome
        BY <1>0, <2>5 DEF Answers, PollOutcome
      <4>2. QED BY <4>1 DEF Outcome
    <3>2. tx'.id = tx.id /\ lastId' = lastId
      BY <2>5, <3>1, AnsweredFields DEF Answers, SameTx, TInv, Types, TxTypes
    <3>3. QED BY <3>2 DEF Numbers
  <2>6. QED BY <2>1, <2>2, <2>3, <2>4, <2>5, TxCases
<1>2. requests' \in Nat /\ requests' >= requests /\ lastId' \in Nat /\ lastId' >= lastId
  BY <1>0, <1>1, RequestsGrow
<1>3. ASSUME NEW i \in 1..Len(plans') PROVE plans'[i].tx <= lastId' /\ plans'[i].req <= requests'
  <2>1. ASSUME NEW j \in 1..Len(plans), Continues(i, j) PROVE plans'[i].tx <= lastId' /\ plans'[i].req <= requests'
    <3>1. plans[j] \in Plan
      BY <1>0
    <3>2. plans[j].tx \in Nat /\ plans[j].req \in Nat
      BY <3>1, Constants DEF Plan
    <3>3. plans[j].tx <= lastId /\ plans[j].req <= requests
      BY DEF Numbers
    <3>4. plans'[i].tx = plans[j].tx /\ plans'[i].req = plans[j].req
      BY <2>1 DEF Continues
    <3>5. QED BY <1>0, <1>2, <3>2, <3>3, <3>4
  <2>2. CASE Planned(i)
    <3>1. plans'[i].tx = tx.id /\ plans'[i].req = requests'
      BY <2>2 DEF Planned, NewPlan
    <3>2. tx.id <= lastId
      BY <1>0 DEF Numbers
    <3>3. QED BY <1>0, <1>2, <3>1, <3>2
  <2>3. (\E j \in 1..Len(plans) : Continues(i, j)) \/ Planned(i)
    BY PlanOrigins DEF Continues
  <2>4. QED BY <2>1, <2>2, <2>3
<1>4. ASSUME NEW i \in 1..Len(outcomes') PROVE outcomes'[i].req <= requests'
  <2>1. ASSUME NEW j \in 1..Len(outcomes), outcomes'[i] = outcomes[j] PROVE outcomes'[i].req <= requests'
    <3>1. outcomes[j] \in Outcome
      BY <1>0
    <3>2. outcomes[j].req \in Nat /\ outcomes[j].req <= requests
      BY <3>1 DEF Outcome, Numbers
    <3>3. QED BY <1>0, <1>2, <2>1, <3>2
  <2>2. CASE plans # <<>> /\ outcomes'[i] = Reported
    <3>1. 1 \in 1..Len(plans) /\ plans[1] \in Plan
      BY <1>0, <2>2
    <3>2. plans[1].req \in Nat /\ plans[1].req <= requests
      BY <3>1 DEF Plan, Numbers
    <3>3. outcomes'[i].req = plans[1].req
      BY <2>2 DEF Reported
    <3>4. QED BY <1>0, <1>2, <3>2, <3>3
  <2>3. QED BY <2>1, <2>2, OutcomeOrigins DEF Holding
<1>5. obs'.tx <= lastId' /\ (obs'.at \in {"asked", "seen"} => obs'.tx # 0)
  <2>0. obs.tx \in Nat /\ obs.tx <= lastId'
    BY <1>0, <1>2, Constants DEF ObsType, Numbers
  <2>1. CASE obs' = obs
    BY <2>0, <2>1 DEF Numbers
  <2>2. CASE Ask
    <3>1. obs'.tx = tx.id /\ tx.pass = "observe"
      BY <2>2 DEF Ask, NoObs
    <3>2. tx.id # 0 /\ tx.id <= lastId
      BY <1>0, <3>1, WaitingIsThere DEF Numbers
    <3>3. QED BY <1>0, <1>2, <3>1, <3>2
  <2>3. CASE Look
    <3>1. obs'.tx = obs.tx /\ obs.at = "asked"
      BY <1>0, <2>3 DEF Look, ObsType
    <3>2. QED BY <2>0, <3>1 DEF Numbers
  <2>4. CASE obs' = NoObs \/ obs' = [NoObs EXCEPT !.at = "down"]
    <3>1. obs'.tx = 0 /\ obs'.at \in {"none", "down"}
      BY <2>4, ObsAtRest
    <3>2. QED BY <1>2, <3>1
  <2>5. QED BY <2>1, <2>2, <2>3, <2>4, ObsCases
<1>6. ASSUME NEW T \in 1..MaxTx, NEW p \in Procs, T > lastId' PROVE sent'[T][p] = 0
  <2>1. T > lastId /\ sent[T][p] = 0
    <3>1. T \in Nat
      BY Constants
    <3>2. T > lastId
      BY <1>0, <1>2, <1>6, <3>1
    <3>3. QED BY <3>2 DEF Numbers
  <2>2. CASE Waits
    <3>1. 1 \in 1..Len(plans) /\ plans[1] \in Plan
      BY <1>0, <2>2 DEF Waits
    <3>2. plans[1].tx \in Nat /\ plans[1].tx <= lastId
      BY <3>1, Constants DEF Plan, Numbers
    <3>3. T # plans[1].tx
      BY <1>0, <2>1, <3>2
    <3>4. sent' = [sent EXCEPT ![plans[1].tx][aim.of] = @ + 1]
      BY <2>2 DEF Waits
    <3>5. sent'[T] = sent[T]
      BY <1>0, <3>3, <3>4
    <3>6. QED BY <2>1, <3>5
  <2>3. QED BY <2>1, <2>2, SentCases
<1>7. QED BY <1>1, <1>3, <1>4, <1>5, <1>6 DEF Numbers

\* What an observation leaves of a transaction.
LEMMA ObservedFields ==
  ASSUME NEW t \in TxType, NEW o \in ObsType
  PROVE  LET w == Observed(t, o) IN
         /\ \A p \in w.ready : p \in t.ready \/ (p \in o.fresh /\ p \in w.admitted /\ w.top[p] = o.top[p])
         /\ \A k \in Kids : \/ w.top[k] = t.top[k]
                            \/ k \in o.fresh /\ k \in w.admitted /\ w.top[k] = o.top[k]
         /\ \A k \in t.admitted : k \in w.admitted \/ k \in o.gone
<1> DEFINE u == ObservedRoots(t, o)
           v == ObservedKids(u, o)
           w == Admit(v, o)
<1>1. /\ u \in TxType /\ u.admitted = t.admitted /\ u.top = t.top /\ u.ready \subseteq t.ready
  BY ObservedRootsFields
<1> HIDE DEF u
<1>2. /\ v \in TxType /\ v.top = u.top /\ v.admitted = u.admitted \ KidsGone(u, o) /\ v.ready \subseteq u.ready
  BY <1>1, ObservedKidsFields
<1> HIDE DEF v
<1>3. /\ w.admitted = v.admitted \cup New(v, o) /\ w.ready = v.ready \cup New(v, o)
      /\ \A k \in Kids : w.top[k] = IF k \in New(v, o) THEN o.top[k] ELSE v.top[k]
  BY <1>2, AdmitFields
<1> HIDE DEF w
<1>4. New(v, o) \subseteq o.fresh /\ New(v, o) \subseteq Kids /\ KidsGone(u, o) \subseteq o.gone
  BY DEF New, KidsGone, ObsType
<1>5. /\ \A p \in w.ready : p \in t.ready \/ (p \in o.fresh /\ p \in w.admitted /\ w.top[p] = o.top[p])
      /\ \A k \in Kids : \/ w.top[k] = t.top[k]
                         \/ k \in o.fresh /\ k \in w.admitted /\ w.top[k] = o.top[k]
      /\ \A k \in t.admitted : k \in w.admitted \/ k \in o.gone
  BY <1>1, <1>2, <1>3, <1>4
<1>6. QED BY <1>5 DEF Observed, w, v, u

LEMMA LooksFields ==
  ASSUME TInv, Looks
  PROVE  LET t == Observed(tx, obs)
             batch == Targets(t, obs)
         IN  /\ t \in TxType /\ batch \subseteq t.ready
             /\ tx'.id = tx.id /\ tx'.frozen = tx.frozen /\ tx'.admitted = t.admitted
             /\ tx'.pending = t.pending /\ tx'.top = t.top
             /\ \/ tx'.pass \in {"observe", "settled"} /\ tx'.ready \subseteq t.ready /\ UNCHANGED plans
                \/ /\ tx'.pass = "worker" /\ tx'.request = requests' /\ tx'.batch = batch
                   /\ requests' = requests + 1
                   /\ tx'.ready = t.ready \ batch /\ tx'.above = t.above /\ plans' = Append(plans, NewPlan)
             /\ obs' = NoObs /\ UNCHANGED <<worldVars, aim, outcomes>>
<1> DEFINE t == Observed(tx, obs)
           batch == Targets(t, obs)
<1>1. t \in TxType /\ t.id = tx.id /\ t.frozen = tx.frozen
  BY ObservedType DEF SameTx, TInv, Types, TxTypes
<1>2. batch \subseteq t.ready /\ batch \in SUBSET Procs
  BY <1>1, TargetsType DEF TInv, Types
<1>3. obs' = NoObs /\ UNCHANGED <<worldVars, aim, outcomes>>
  BY ReconcileIs DEF Looks
<1>4. requests' \in Nat
  BY RequestsGrow DEF TInv, Types, TxTypes, Looks, Next, Transaction
<1>5. \/ tx' = Passing(t) /\ UNCHANGED <<plans, requests>>
      \/ tx' = Refusing(t, batch) /\ UNCHANGED plans /\ requests' = requests + 1
      \/ /\ tx' = Working(t, batch) /\ requests' = requests + 1
         /\ plans' = Append(plans, NewPlan)
  BY DEF Looks, NewPlan
<1> HIDE DEF t, batch
<1>6. CASE tx' = Passing(t) /\ UNCHANGED <<plans, requests>>
  <2>1. LET u == Passing(t) IN
        /\ SameTx(t, u) /\ u.pass \in {"observe", "settled"} /\ u.pending = t.pending
        /\ u.admitted = t.admitted /\ u.top = t.top /\ u.ready = t.ready
    BY <1>1, PassingFields
  <2>2. QED BY <1>1, <1>2, <1>3, <1>6, <2>1 DEF SameTx, t, batch
<1>7. CASE tx' = Refusing(t, batch) /\ UNCHANGED plans /\ requests' = requests + 1
  <2>1. LET u == Refusing(t, batch) IN
        /\ SameTx(t, u) /\ u.pass = "observe" /\ u.pending = t.pending
        /\ u.admitted = t.admitted /\ u.top = t.top /\ u.ready = t.ready \ batch
    BY <1>1, <1>2, RefusingFields
  <2>2. QED BY <1>1, <1>2, <1>3, <1>7, <2>1 DEF SameTx, t, batch
<1>8. CASE tx' = Working(t, batch) /\ requests' = requests + 1 /\ plans' = Append(plans, NewPlan)
  <2>1. LET u == Working(t, batch) IN
        /\ SameTx(t, u) /\ u.pass = "worker" /\ u.request = requests' /\ u.batch = batch
        /\ u.ready = t.ready \ batch /\ u.pending = t.pending /\ u.admitted = t.admitted
        /\ u.top = t.top /\ u.above = t.above
    BY <1>1, <1>2, <1>4, WorkingFields
  <2>2. QED BY <1>1, <1>2, <1>3, <1>8, <2>1 DEF SameTx, t, batch
<1>9. QED BY <1>5, <1>6, <1>7, <1>8

LEMMA AnswersFields ==
  ASSUME TInv, Answers
  PROVE  LET told == Head(outcomes).told IN
         /\ 1 \in 1..Len(outcomes) /\ outcomes[1].req = tx.request /\ outcomes[1].told = told
         /\ told \in SUBSET Results /\ tx.pass = "worker"
         /\ tx'.id = tx.id /\ tx'.frozen = tx.frozen /\ tx'.pass \in {"observe", "settled"}
         /\ tx'.top = tx.top /\ tx'.ready = tx.ready /\ tx'.admitted = tx.admitted \ Gone(tx, told)
         /\ tx'.results = tx.results \cup Known(tx, told)
         /\ UNCHANGED <<worldVars, plans, aim, requests, obs>>
<1>1. outcomes \in Seq(Outcome) /\ outcomes # <<>> /\ tx \in TxType
  BY DEF Answers, PollOutcome, TInv, Types, TxTypes, WorkTypes
<1>2. Head(outcomes) \in Outcome /\ Head(outcomes) = outcomes[1] /\ 1 \in 1..Len(outcomes)
  BY <1>1
<1>3. Head(outcomes).told \in SUBSET Results
  BY <1>2 DEF Outcome
<1>4. UNCHANGED <<worldVars, plans, aim, requests, obs>>
  BY DEF Answers, PollOutcome
<1>5. QED BY <1>1, <1>2, <1>3, <1>4, AnsweredFields DEF Answers, SameTx
-----------------------------------------------------------------------------
(* The worker's plans and the transaction that waits for one of them.      *)

Waiting == tx.pass = "worker"
PlansMatch ==
  /\ \A i \in 1..Len(plans) : /\ plans[i].tx = tx.id => /\ Waiting /\ plans[i].req = tx.request
                                                        /\ plans[i].left \subseteq tx.batch
                              /\ Waiting /\ plans[i].req = tx.request => plans[i].tx = tx.id
PlansApart ==
  /\ \A i, j \in 1..Len(plans) : i # j => plans[i].tx # plans[j].tx /\ plans[i].req # plans[j].req
  /\ \A i \in 1..Len(plans), j \in 1..Len(outcomes) : outcomes[j].req # plans[i].req
BatchSpent == Waiting => tx.ready \cap tx.batch = {}
ObsMatches == obs.at \in {"asked", "seen"} /\ obs.tx = tx.id => tx.pass = "observe" /\ obs.known = tx.admitted

Matches == PlansMatch /\ PlansApart /\ BatchSpent /\ ObsMatches

\* No plan is left of a transaction that is not waiting for the worker.
LEMMA NoPlanLeft ==
  ASSUME PlansMatch, ~Waiting
  PROVE  \A i \in 1..Len(plans) : plans[i].tx # tx.id
  BY DEF PlansMatch

LEMMA PlanTypes ==
  ASSUME TInv
  PROVE  /\ plans \in Seq(Plan) /\ Len(plans) \in Nat /\ outcomes \in Seq(Outcome) /\ Len(outcomes) \in Nat
         /\ \A i \in 1..Len(plans) : /\ plans[i] \in Plan /\ plans[i].tx \in 1..MaxTx /\ plans[i].tx \in Nat
                                     /\ plans[i].tx # 0 /\ plans[i].req \in Nat
                                     /\ plans[i].left \in SUBSET Procs /\ plans[i].told \in SUBSET Results
         /\ \A i \in 1..Len(outcomes) : /\ outcomes[i].req \in Nat /\ outcomes[i].told \in SUBSET Results
<1>1. plans \in Seq(Plan) /\ outcomes \in Seq(Outcome)
  BY DEF TInv, Types, WorkTypes
<1>2. \A i \in 1..Len(plans) : plans[i] \in Plan
  BY <1>1
<1>3. \A i \in 1..Len(outcomes) : outcomes[i] \in Outcome
  BY <1>1
<1>4. \A i \in 1..Len(plans) : /\ plans[i].tx \in 1..MaxTx /\ plans[i].req \in Nat
                               /\ plans[i].left \in SUBSET Procs /\ plans[i].told \in SUBSET Results
  BY <1>2 DEF Plan
<1>5. \A n \in 1..MaxTx : n \in Nat /\ n # 0
  BY Constants
<1>6. QED BY <1>1, <1>2, <1>3, <1>4, <1>5 DEF Outcome

\* A step of the worker, or of nobody, while the transaction stays as it is to it.
LEMMA PlansApartStep ==
  ASSUME TInv, AimsAtPlan, Numbers, PlansMatch, PlansApart, [Next]_vars
  PROVE  PlansApart'
<1>0. requests \in Nat /\ tx.id \in Nat
  BY Constants DEF TInv, Types, TxTypes, TxType
<1>1. ASSUME NEW i \in 1..Len(plans), Planned(Len(plans) + 1)
      PROVE  /\ plans[i].tx # plans'[Len(plans) + 1].tx /\ plans[i].req # plans'[Len(plans) + 1].req
  <2>1. plans'[Len(plans) + 1].tx = tx.id /\ plans'[Len(plans) + 1].req = requests + 1 /\ ~Waiting
    BY <1>1 DEF Planned, NewPlan, Looks, Waiting
  <2>2. plans[i].tx # tx.id
    BY <2>1, NoPlanLeft
  <2>3. plans[i].req <= requests /\ plans[i].req \in Nat
    BY PlanTypes DEF Numbers
  <2>4. QED BY <1>0, <2>1, <2>2, <2>3
<1>2. ASSUME NEW i \in 1..Len(plans'), NEW j \in 1..Len(plans'), i # j
      PROVE  plans'[i].tx # plans'[j].tx /\ plans'[i].req # plans'[j].req
  <2>1. CASE \A n \in 1..Len(plans') : Continues(n, n) \/ Planned(n)
    <3>1. CASE Continues(i, i) /\ Continues(j, j)
      BY <1>2, <3>1 DEF Continues, PlansApart
    <3>2. CASE Planned(i) /\ Continues(j, j)
      BY <1>1, <3>2 DEF Continues, Planned
    <3>3. CASE Planned(j) /\ Continues(i, i)
      BY <1>1, <3>3 DEF Continues, Planned
    <3>4. CASE Planned(i) /\ Planned(j)
      BY <1>2, <3>4 DEF Planned
    <3>5. QED BY <2>1, <3>1, <3>2, <3>3, <3>4
  <2>2. CASE \A n \in 1..Len(plans') : Continues(n, n + 1)
    <3>1. Continues(i, i + 1) /\ Continues(j, j + 1) /\ i + 1 # j + 1
      BY <1>2, <2>2
    <3>2. QED BY <3>1 DEF Continues, PlansApart
  <2>3. QED BY <2>1, <2>2, PlanOrigins
<1>3. ASSUME NEW i \in 1..Len(plans'), NEW j \in 1..Len(outcomes')
      PROVE  outcomes'[j].req # plans'[i].req
  <2>1. CASE Holding(outcomes'[j])
    <3>1. PICK n \in 1..Len(outcomes) : outcomes'[j] = outcomes[n]
      BY <2>1 DEF Holding
    <3>2. outcomes[n].req <= requests /\ outcomes[n].req \in Nat
      BY PlanTypes DEF Numbers
    <3>3. CASE Planned(i)
      <4>1. plans'[i].req = requests + 1
        BY <3>3 DEF Planned, NewPlan
      <4>2. QED BY <1>0, <3>1, <3>2, <4>1
    <3>4. CASE \E m \in 1..Len(plans) : Continues(i, m)
      BY <3>1, <3>4 DEF Continues, PlansApart
    <3>5. QED BY <3>3, <3>4, PlanOrigins DEF Continues
  <2>2. CASE Report /\ plans # <<>> /\ outcomes'[j] = Reported
    <3>1. plans' = Tail(plans) /\ 1 \in 1..Len(plans)
      BY <2>2, PlanTypes DEF Report
    <3>2. i + 1 \in 1..Len(plans) /\ plans'[i] = plans[i + 1] /\ i + 1 # 1
      BY <2>2, <3>1, PlanTypes, Taken
    <3>3. QED BY <2>2, <3>1, <3>2 DEF Reported, PlansApart
  <2>3. QED BY <2>1, <2>2, OutcomeOrigins
<1>4. QED BY <1>2, <1>3 DEF PlansApart

\* After an answer there is no plan of the transaction left.
LEMMA AnsweredHasNoPlan ==
  ASSUME TInv, PlansMatch, PlansApart, Answers
  PROVE  \A j \in 1..Len(plans) : plans[j].tx # tx.id
<1> SUFFICES ASSUME NEW j \in 1..Len(plans), plans[j].tx = tx.id PROVE FALSE
  OBVIOUS
<1>1. plans[j].req = tx.request
  BY DEF PlansMatch
<1>2. 1 \in 1..Len(outcomes) /\ outcomes[1].req = tx.request
  BY AnswersFields
<1>3. QED BY <1>1, <1>2 DEF PlansApart

LEMMA PlansMatchStep ==
  ASSUME TInv, AimsAtPlan, Numbers, PlansMatch, PlansApart, [Next]_vars
  PROVE  PlansMatch'
<1>0. requests \in Nat /\ tx.id \in Nat /\ lastId \in Nat
  BY Constants DEF TInv, Types, TxTypes, TxType
<1> DEFINE Match(i) == /\ plans'[i].tx = tx'.id => /\ Waiting' /\ plans'[i].req = tx'.request
                                                   /\ plans'[i].left \subseteq tx'.batch
                       /\ Waiting' /\ plans'[i].req = tx'.request => plans'[i].tx = tx'.id
<1>1. SUFFICES ASSUME NEW i \in 1..Len(plans') PROVE Match(i)
  BY DEF PlansMatch
<1>2. CASE Planned(i)
  <2>1. plans'[i] = NewPlan /\ Looks /\ plans' = Append(plans, NewPlan)
    BY <1>2 DEF Planned
  <2>2. plans' # plans
    BY <2>1, PlanTypes
  <2>3. /\ tx'.id = tx.id /\ tx'.pass = "worker" /\ tx'.request = requests'
        /\ tx'.batch = Targets(Observed(tx, obs), obs)
    BY <2>1, <2>2, LooksFields
  <2>4. QED BY <2>1, <2>3 DEF NewPlan, Waiting
<1>3. ASSUME NEW j \in 1..Len(plans), Continues(i, j) PROVE Match(i)
  <2>0. /\ plans'[i].req = plans[j].req /\ plans'[i].tx = plans[j].tx
        /\ plans'[i].left \subseteq plans[j].left
    BY <1>3 DEF Continues
  <2>1. /\ plans[j].tx <= lastId /\ plans[j].req <= requests /\ plans[j].tx \in Nat /\ plans[j].tx # 0
        /\ plans[j].req \in Nat
    BY PlanTypes DEF Numbers
  <2>2. CASE SameWork(tx, tx')
    <3>1. /\ tx'.id = tx.id /\ tx'.pass = tx.pass /\ tx'.request = tx.request /\ tx'.batch = tx.batch
      BY <2>2 DEF SameWork, SamePass
    <3>2. QED BY <2>0, <3>1 DEF PlansMatch, Waiting
  <2>3. CASE tx' = Idle
    BY <2>0, <2>1, <2>3, IdleFields DEF Waiting
  <2>4. CASE Begins
    <3>1. tx'.id = lastId + 1 /\ tx'.pass # "worker"
      BY <2>4 DEF Begins
    <3>2. plans'[i].tx # tx'.id
      BY <1>0, <2>0, <2>1, <3>1
    <3>3. QED BY <3>1, <3>2 DEF Waiting
  <2>5. CASE Looks
    <3>1. tx'.id = tx.id /\ (tx'.pass # "worker" \/ (tx'.request = requests' /\ requests' = requests + 1))
      BY <2>5, LooksFields
    <3>2. plans[j].tx # tx.id
      BY <2>5, NoPlanLeft DEF Looks, Waiting
    <3>3. plans'[i].req # requests + 1
      BY <1>0, <2>0, <2>1
    <3>4. QED BY <2>0, <3>1, <3>2, <3>3 DEF Waiting
  <2>6. CASE Answers
    <3>1. tx'.id = tx.id /\ tx'.pass # "worker"
      BY <2>6, AnswersFields
    <3>2. QED BY <2>0, <2>6, <3>1, AnsweredHasNoPlan DEF Waiting
  <2>7. QED BY <2>2, <2>3, <2>4, <2>5, <2>6, TxCases
<1>4. QED BY <1>2, <1>3, PlanOrigins DEF Continues

LEMMA BatchSpentStep ==
  ASSUME TInv, BatchSpent, [Next]_vars
  PROVE  BatchSpent'
<1>1. CASE SameWork(tx, tx')
  BY <1>1 DEF SameWork, SamePass, BatchSpent, Waiting
<1>2. CASE tx' = Idle \/ Begins
  <2>1. tx'.pass # "worker"
    BY <1>2, IdleFields DEF Begins
  <2>2. QED BY <2>1 DEF BatchSpent, Waiting
<1>3. CASE Looks
  <2>1. tx'.pass # "worker" \/ tx'.ready \cap tx'.batch = {}
    BY <1>3, LooksFields
  <2>2. QED BY <2>1 DEF BatchSpent, Waiting
<1>4. CASE Answers
  <2>1. tx'.pass # "worker"
    BY <1>4, AnswersFields
  <2>2. QED BY <2>1 DEF BatchSpent, Waiting
<1>5. QED BY <1>1, <1>2, <1>3, <1>4, TxCases

\* What a look finds.
LEMMA LookFinds ==
  ASSUME TInv, Look
  PROVE  /\ obs.at = "asked" /\ obs'.at = "seen" /\ obs'.tx = obs.tx /\ obs'.known = obs.known
         /\ \A p \in obs'.gone : proc[p] = "gone"
         /\ \A k \in obs'.fresh : k \in Kids /\ Running(k) /\ k \notin obs.known /\ obs'.top[k] # None
         /\ UNCHANGED <<worldVars, tx, plans, aim, outcomes>>
<1>1. obs \in ObsType /\ obs.at = "asked" /\ UNCHANGED <<worldVars, tx, plans, aim, outcomes>>
  BY DEF Look, TInv, Types, workVars
<1>2. PICK here \in SUBSET {r \in obs.roots : Running(r)} :
      LET below == [k \in Kids |-> IF Running(k) /\ k \notin obs.known THEN Below(k) \cap here ELSE {}]
      IN \E fresh \in SUBSET {k \in Kids : below[k] # {}} :
        obs' = [obs EXCEPT !.at = "seen", !.here = here,
                  !.astray = {r \in obs.roots : Present(r)} \ here,
                  !.gone = {p \in obs.roots \cup obs.known : proc[p] = "gone"},
                  !.fresh = fresh,
                  !.above = [k \in Kids |-> IF k \in fresh THEN parent[k] ELSE None],
                  !.top = [k \in Kids |-> IF k \in fresh THEN CHOOSE r \in below[k] : TRUE ELSE None]]
  BY DEF Look
<1> DEFINE below == [k \in Kids |-> IF Running(k) /\ k \notin obs.known THEN Below(k) \cap here ELSE {}]
<1>3. PICK fresh \in SUBSET {k \in Kids : below[k] # {}} :
        obs' = [obs EXCEPT !.at = "seen", !.here = here,
                  !.astray = {r \in obs.roots : Present(r)} \ here,
                  !.gone = {p \in obs.roots \cup obs.known : proc[p] = "gone"},
                  !.fresh = fresh,
                  !.above = [k \in Kids |-> IF k \in fresh THEN parent[k] ELSE None],
                  !.top = [k \in Kids |-> IF k \in fresh THEN CHOOSE r \in below[k] : TRUE ELSE None]]
  BY <1>2
<1> DEFINE astray == {r \in obs.roots : Present(r)} \ here
           gone == {p \in obs.roots \cup obs.known : proc[p] = "gone"}
           above == [k \in Kids |-> IF k \in fresh THEN parent[k] ELSE None]
           top == [k \in Kids |-> IF k \in fresh THEN CHOOSE r \in below[k] : TRUE ELSE None]
<1>4. \A k \in fresh : k \in Kids /\ Running(k) /\ k \notin obs.known /\ top[k] # None
  <2>1. SUFFICES ASSUME NEW k \in fresh
                 PROVE  k \in Kids /\ Running(k) /\ k \notin obs.known /\ top[k] # None
    OBVIOUS
  <2>2. k \in Kids /\ below[k] # {}
    OBVIOUS
  <2>3. Running(k) /\ k \notin obs.known
    BY <2>2
  <2>4. (CHOOSE r \in below[k] : TRUE) \in below[k] /\ below[k] \subseteq Roots
    BY <1>1, <2>2 DEF ObsType
  <2>5. top[k] \in Roots
    BY <2>2, <2>4
  <2>6. QED BY <2>2, <2>3, <2>5, Constants
<1>5. \A p \in gone : proc[p] = "gone"
  OBVIOUS
<1>6. obs' = [obs EXCEPT !.at = "seen", !.here = here, !.astray = astray, !.gone = gone,
                         !.fresh = fresh, !.above = above, !.top = top]
  BY <1>3
<1> HIDE DEF astray, gone, above, top
<1>7. /\ obs'.at = "seen" /\ obs'.tx = obs.tx /\ obs'.known = obs.known /\ obs'.gone = gone
      /\ obs'.fresh = fresh /\ obs'.top = top
  BY <1>1, <1>6 DEF ObsType
<1>8. QED BY <1>1, <1>4, <1>5, <1>7

LEMMA AskAsks ==
  ASSUME TInv, Ask
  PROVE  /\ obs'.at = "asked" /\ obs'.tx = tx.id /\ obs'.known = tx.admitted /\ tx.pass = "observe"
         /\ UNCHANGED <<worldVars, tx, plans, aim, outcomes>>
  BY DEF Ask, NoObs, workVars

LEMMA ObsMatchesStep ==
  ASSUME TInv, Numbers, ObsMatches, [Next]_vars
  PROVE  ObsMatches'
<1>0. obs.tx \in Nat /\ lastId \in Nat
  BY Constants DEF TInv, Types, TxTypes, ObsType
<1>1. CASE Ask
  BY <1>1, AskAsks DEF ObsMatches
<1>2. CASE Look
  BY <1>2, LookFinds DEF ObsMatches
<1>3. CASE obs' = NoObs \/ obs' = [NoObs EXCEPT !.at = "down"]
  <2>1. obs'.at \notin {"asked", "seen"}
    BY <1>3, ObsAtRest
  <2>2. QED BY <2>1 DEF ObsMatches
<1>4. CASE UNCHANGED obs
  <2>1. CASE SameWork(tx, tx')
    BY <1>4, <2>1 DEF SameWork, SamePass, ObsMatches
  <2>2. CASE tx' = Idle
    BY <1>4, <2>2, IdleFields DEF ObsMatches, Numbers
  <2>3. CASE Begins
    <3>1. tx'.id = lastId + 1 /\ obs.tx <= lastId
      BY <2>3 DEF Begins, Numbers
    <3>2. obs.tx # tx'.id
      BY <1>0, <3>1
    <3>3. QED BY <1>4, <3>2 DEF ObsMatches
  <2>4. CASE Looks
    <3>1. obs'.at = "none" /\ obs.at = "seen"
      BY <2>4, LooksFields, ObsAtRest DEF Looks
    <3>2. QED BY <1>4, <3>1
  <2>5. CASE Answers
    <3>1. tx.pass = "worker" /\ tx'.id = tx.id
      BY <2>5, AnswersFields
    <3>2. QED BY <1>4, <3>1 DEF ObsMatches
  <2>6. QED BY <2>1, <2>2, <2>3, <2>4, <2>5, TxCases
<1>5. QED BY <1>1, <1>2, <1>3, <1>4, ObsCases

LEMMA MatchesStep ==
  ASSUME TInv, AimsAtPlan, Numbers, Matches, [Next]_vars
  PROVE  Matches'
  BY PlansMatchStep, PlansApartStep, BatchSpentStep, ObsMatchesStep DEF Matches
-----------------------------------------------------------------------------
(* The processes: what was born stays born, what has exited stays so.      *)

Departed(p) == proc[p] \in {"exited", "gone"}
Born(p) == proc[p] # "unborn"
DepartedNext(p) == proc'[p] \in {"exited", "gone"}
BornNext(p) == proc'[p] # "unborn"

LEMMA ProcSteps ==
  ASSUME TInv, [Next]_vars
  PROVE  \A p \in Procs : /\ Born(p) => BornNext(p)
                          /\ Departed(p) => DepartedNext(p)
                          /\ proc[p] = "gone" => proc'[p] = "gone"
<1>1. CASE Processes
  <2>0. proc \in [Procs -> {"unborn", "live", "exited", "gone"}]
    BY DEF TInv, Types, WorldTypes
  <2>1. CASE \E p \in Procs, k \in Kids : Fork(p, k)
    BY <2>0, <2>1, Constants DEF Fork, Born, Departed, BornNext, DepartedNext
  <2>2. CASE \E p \in Procs : Exit(p)
    BY <2>0, <2>2 DEF Exit, Running, Born, Departed, BornNext, DepartedNext
  <2>3. CASE \E p \in Procs : Reap(p)
    BY <2>0, <2>3 DEF Reap, Born, Departed, BornNext, DepartedNext
  <2>4. QED BY <1>1, <2>1, <2>2, <2>3 DEF Processes
<1>2. CASE UNCHANGED proc
  BY <1>2 DEF Born, Departed, BornNext, DepartedNext
<1>3. ~Processes => UNCHANGED proc
  <2>1. CASE Monitor
    BY <2>1 DEF Monitor, SwitchOff, SwitchOn, Classify, LoseSnapshot, MonitorFrame, worldVars
  <2>2. CASE Transaction
    BY <2>2 DEF Transaction, Submit, Ask, Reconcile, PollOutcome, NoticeStopped, DeadlinePasses, Expire,
                ReceiveOwned, worldVars
  <2>3. CASE Worker
    BY <2>3 DEF Worker, Take, Signal, Confirm, Report, WorkerFrame
  <2>4. CASE WorkerStops \/ Look \/ ObserverStops \/ Actor \/ UNCHANGED vars
    BY <2>4 DEF WorkerStops, Look, ObserverStops, Actor, StopOwned, ActorSignals, ActorReaps, OwnedFrame,
                worldVars, vars
  <2>5. QED BY <2>1, <2>2, <2>3, <2>4 DEF Next
<1>4. QED BY <1>1, <1>2, <1>3

\* What is told of a target was told before, or the worker has just found it out.
Found(x) == \E p \in Procs, kind \in Kinds : Tells(p, kind) /\ x = <<p, kind>>

LEMMA ToldOrigins ==
  ASSUME TInv, AimsAtPlan, [Next]_vars
  PROVE  \A i \in 1..Len(plans') : \A x \in plans'[i].told :
           \/ \E j \in 1..Len(plans) : Continues(i, j) /\ x \in plans[j].told
           \/ i = 1 /\ Continues(1, 1) /\ Found(x)
<1> SUFFICES ASSUME NEW i \in 1..Len(plans'), NEW x \in plans'[i].told
             PROVE  \/ \E j \in 1..Len(plans) : Continues(i, j) /\ x \in plans[j].told
                    \/ i = 1 /\ Continues(1, 1) /\ Found(x)
  OBVIOUS
<1>1. CASE Planned(i)
  BY <1>1 DEF Planned, NewPlan
<1>2. CASE plans' = plans
  BY <1>2 DEF Continues
<1>3. ASSUME NEW p \in Procs, NEW kind \in Kinds, Tells(p, kind)
      PROVE  \/ \E j \in 1..Len(plans) : Continues(i, j) /\ x \in plans[j].told
             \/ i = 1 /\ Continues(1, 1) /\ Found(x)
  <2>1. plans # <<>> /\ Tell(p, kind)
    BY <1>3 DEF Tells
  <2>2. /\ Len(plans') = Len(plans) /\ 1 \in 1..Len(plans)
        /\ plans'[1].req = plans[1].req /\ plans'[1].tx = plans[1].tx
        /\ plans'[1].left = plans[1].left \ {p} /\ plans'[1].told = plans[1].told \cup {<<p, kind>>}
        /\ \A n \in 1..Len(plans) : n # 1 => plans'[n] = plans[n]
    BY <2>1, TellIs, PlanTypes
  <2>3. Continues(1, 1)
    BY <2>2 DEF Continues
  <2>4. CASE i = 1
    <3>1. x \in plans[1].told \/ x = <<p, kind>>
      BY <2>2, <2>4
    <3>2. QED BY <1>3, <2>2, <2>3, <2>4, <3>1 DEF Found
  <2>5. CASE i # 1
    BY <2>2, <2>5 DEF Continues
  <2>6. QED BY <2>4, <2>5
<1>4. CASE Report
  <2>1. plans # <<>> /\ plans' = Tail(plans)
    BY <1>4 DEF Report
  <2>2. i + 1 \in 1..Len(plans) /\ plans'[i] = plans[i + 1]
    BY <2>1, PlanTypes, Taken
  <2>3. QED BY <2>2 DEF Continues
<1>5. CASE Worker
  <2>1. CASE \E p \in Procs : TakeAims(p)
    BY <1>2, <2>1 DEF TakeAims
  <2>2. CASE Waits
    BY <1>2, <2>2 DEF Waits
  <2>3. QED BY <1>3, <1>4, <1>5, <2>1, <2>2, WorkerCases
<1>6. CASE WorkerStops
  <2>1. Len(plans') = 0
    BY <1>6 DEF WorkerStops
  <2>2. QED BY <2>1
<1>7. CASE Reconcile
  <2>1. CASE Continues(i, i)
    <3>1. plans' = plans \/ (\E e : plans' = Append(plans, e))
      BY <1>7, ReconcileIs, DispatchIs
    <3>2. i \in 1..Len(plans)
      BY <2>1 DEF Continues
    <3>3. plans'[i] = plans[i]
      <4>1. \A e : Append(plans, e)[i] = plans[i]
        BY <3>2, PlanTypes
      <4>2. QED BY <3>1, <4>1
    <3>4. QED BY <2>1, <3>2, <3>3
  <2>2. ~Report
    BY <1>7, PlanTypes DEF Reconcile, Report, NoObs, WorkerFrame
  <2>3. QED BY <1>1, <2>1, <2>2, PlanOrigins
<1>8. QED BY <1>2, <1>5, <1>6, <1>7, PlansElsewhere

\* The plan of the active transaction was so before the step, which the transaction
\* has not noticed.
LEMMA CurrentPlanStays ==
  ASSUME TInv, AimsAtPlan, Numbers, PlansMatch, PlansApart, [Next]_vars,
         NEW i, NEW j \in 1..Len(plans), Continues(i, j), plans'[i].tx = tx'.id
  PROVE  SameWork(tx, tx') /\ plans[j].tx = tx.id
<1>0. lastId \in Nat
  BY DEF TInv, Types, TxTypes
<1>1. plans'[i].tx = plans[j].tx /\ plans[j].tx # 0 /\ plans[j].tx <= lastId /\ plans[j].tx \in Nat
  BY PlanTypes DEF Continues, Numbers
<1>2. CASE SameWork(tx, tx')
  BY <1>1, <1>2 DEF SameWork
<1>3. CASE tx' = Idle
  BY <1>1, <1>3, IdleFields
<1>4. CASE Begins
  <2>1. tx'.id = lastId + 1
    BY <1>4 DEF Begins
  <2>2. plans[j].tx # lastId + 1
    BY <1>0, <1>1
  <2>3. QED BY <1>1, <2>1, <2>2
<1>5. CASE Looks
  <2>1. tx'.id = tx.id /\ plans[j].tx # tx.id
    BY <1>5, LooksFields, NoPlanLeft DEF Looks, Waiting
  <2>2. QED BY <1>1, <2>1
<1>6. CASE Answers
  <2>1. tx'.id = tx.id /\ plans[j].tx # tx.id
    BY <1>6, AnswersFields, AnsweredHasNoPlan
  <2>2. QED BY <1>1, <2>1
<1>7. QED BY <1>2, <1>3, <1>4, <1>5, <1>6, TxCases

RootsBorn == \A r \in Roots : Born(r)
ReadyBorn == \A p \in tx.ready : p \in Targeted(tx) /\ Born(p)
PlannedBorn == \A i \in 1..Len(plans) : \A p \in plans[i].left :
                 Born(p) /\ (plans[i].tx = tx.id => p \in Targeted(tx))
ObsBorn == obs.at = "seen" => /\ \A p \in obs.gone : proc[p] = "gone"
                              /\ \A k \in obs.fresh : k \in Kids /\ Born(k) /\ obs.top[k] # None
Truthful(told) == \A x \in told : x[1] \in Procs /\ (x[2] \in GoneKinds => Departed(x[1]))
ToldTrue == /\ \A i \in 1..Len(plans) : Truthful(plans[i].told)
            /\ \A i \in 1..Len(outcomes) : Truthful(outcomes[i].told)
Shed == \A k \in Kids : tx.top[k] # None /\ k \notin tx.admitted => Departed(k)

Births == RootsBorn /\ ReadyBorn /\ PlannedBorn /\ ObsBorn /\ ToldTrue /\ Shed

\* Targets stay targets, and what a look makes ready is one.
LEMMA LookTargets ==
  ASSUME TInv, ReadyBorn, ObsBorn, Looks
  PROVE  /\ Targeted(tx) \subseteq Targeted(tx')
         /\ \A p \in Observed(tx, obs).ready : p \in Targeted(tx') /\ Born(p)
<1> DEFINE t == Observed(tx, obs)
<1>1. /\ tx'.frozen = tx.frozen /\ tx'.top = t.top /\ t \in TxType
  BY LooksFields
<1>2. /\ \A p \in t.ready : p \in tx.ready \/ (p \in obs.fresh /\ p \in t.admitted /\ t.top[p] = obs.top[p])
      /\ \A k \in Kids : \/ t.top[k] = tx.top[k]
                         \/ k \in obs.fresh /\ k \in t.admitted /\ t.top[k] = obs.top[k]
  BY ObservedFields DEF TInv, Types, TxTypes
<1>3. \A k \in obs.fresh : k \in Kids /\ Born(k) /\ obs.top[k] # None
  BY DEF ObsBorn, Looks
<1> HIDE DEF t
<1>4. Targeted(tx) \subseteq Targeted(tx')
  BY <1>1, <1>2, <1>3 DEF Targeted
<1>5. \A p \in t.ready : p \in Targeted(tx') /\ Born(p)
  BY <1>1, <1>2, <1>3, <1>4 DEF ReadyBorn, Targeted
<1>6. QED BY <1>4, <1>5 DEF t

LEMMA SameTargets ==
  ASSUME NEW t, NEW u, SameWork(t, u)
  PROVE  Targeted(u) = Targeted(t)
  BY DEF SameWork, Targeted

LEMMA BornStays ==
  ASSUME TInv, [Next]_vars, NEW p, p \in Procs, Born(p)
  PROVE  BornNext(p)
  BY ProcSteps

LEMMA ReadyBornStep ==
  ASSUME TInv, RootsBorn, ReadyBorn, ObsBorn, [Next]_vars
  PROVE  ReadyBorn'
<1>0. tx.ready \subseteq Procs /\ \A r \in Roots : r \in Procs
  BY Constants DEF TInv, Types, TxTypes, TxType
<1>1. SUFFICES ASSUME NEW p \in tx'.ready PROVE p \in Targeted(tx') /\ BornNext(p)
  BY DEF ReadyBorn, Born, BornNext
<1>2. CASE SameWork(tx, tx')
  <2>1. p \in tx.ready
    BY <1>2 DEF SameWork
  <2>2. QED BY <1>0, <1>2, <2>1, SameTargets, BornStays DEF ReadyBorn
<1>3. CASE tx' = Idle
  BY <1>3, IdleFields
<1>4. CASE Begins
  <2>1. p \in Roots /\ p \in tx'.frozen
    BY <1>4 DEF Begins
  <2>2. BornNext(p)
    BY <1>0, <2>1, BornStays DEF RootsBorn
  <2>3. QED BY <2>1, <2>2 DEF Targeted
<1>5. CASE Looks
  <2>1. p \in Observed(tx, obs).ready /\ Observed(tx, obs) \in TxType
    BY <1>5, LooksFields
  <2>2. p \in Targeted(tx') /\ Born(p) /\ p \in Procs
    BY <1>5, <2>1, LookTargets DEF TxType
  <2>3. QED BY <2>2, BornStays
<1>6. CASE Answers
  <2>1. tx'.ready = tx.ready /\ tx'.frozen = tx.frozen /\ tx'.top = tx.top
    BY <1>6, AnswersFields
  <2>2. QED BY <1>0, <2>1, BornStays DEF ReadyBorn, Targeted
<1>7. QED BY <1>2, <1>3, <1>4, <1>5, <1>6, TxCases

LEMMA PlannedBornStep ==
  ASSUME TInv, AimsAtPlan, Numbers, Matches, ReadyBorn, PlannedBorn, ObsBorn, [Next]_vars
  PROVE  PlannedBorn'
<1>1. SUFFICES ASSUME NEW i \in 1..Len(plans'), NEW p \in plans'[i].left
               PROVE  BornNext(p) /\ (plans'[i].tx = tx'.id => p \in Targeted(tx'))
  BY DEF PlannedBorn, Born, BornNext
<1>2. CASE Planned(i)
  <2>1. Looks /\ p \in Targets(Observed(tx, obs), obs)
    BY <1>2 DEF Planned, NewPlan
  <2>2. p \in Observed(tx, obs).ready /\ Observed(tx, obs) \in TxType
    BY <2>1, LooksFields
  <2>3. p \in Targeted(tx') /\ Born(p) /\ p \in Procs
    BY <2>1, <2>2, LookTargets DEF TxType
  <2>4. QED BY <2>3, BornStays
<1>3. ASSUME NEW j \in 1..Len(plans), Continues(i, j)
      PROVE  BornNext(p) /\ (plans'[i].tx = tx'.id => p \in Targeted(tx'))
  <2>1. p \in plans[j].left /\ p \in Procs
    BY <1>3, PlanTypes DEF Continues
  <2>2. BornNext(p)
    BY <2>1, BornStays DEF PlannedBorn
  <2>3. ASSUME plans'[i].tx = tx'.id PROVE p \in Targeted(tx')
    <3>1. SameWork(tx, tx') /\ plans[j].tx = tx.id
      BY <1>3, <2>3, CurrentPlanStays DEF Matches
    <3>2. QED BY <2>1, <3>1, SameTargets DEF PlannedBorn
  <2>4. QED BY <2>2, <2>3
<1>4. QED BY <1>2, <1>3, PlanOrigins DEF Continues

LEMMA ObsBornStep ==
  ASSUME TInv, ObsBorn, [Next]_vars
  PROVE  ObsBorn'
<1>0. obs.gone \subseteq Procs /\ \A k \in Kids : k \in Procs
  BY Constants DEF TInv, Types, ObsType
<1>1. CASE Ask
  <2>1. obs'.at = "asked"
    BY <1>1, AskAsks
  <2>2. QED BY <2>1 DEF ObsBorn
<1>2. CASE Look
  <2>1. proc' = proc
    BY <1>2, LookFinds DEF worldVars
  <2>2. QED BY <1>2, <2>1, LookFinds DEF ObsBorn, Born, Running
<1>3. CASE obs' = NoObs \/ obs' = [NoObs EXCEPT !.at = "down"]
  <2>1. obs'.at # "seen"
    BY <1>3, ObsAtRest
  <2>2. QED BY <2>1 DEF ObsBorn
<1>4. CASE UNCHANGED obs
  <2>1. \A k \in Kids : Born(k) => BornNext(k)
    BY <1>0, ProcSteps
  <2>2. \A p \in obs.gone : proc[p] = "gone" => proc'[p] = "gone"
    BY <1>0, ProcSteps
  <2>3. QED BY <1>4, <2>1, <2>2 DEF ObsBorn, Born, BornNext
<1>5. QED BY <1>1, <1>2, <1>3, <1>4, ObsCases

LEMMA TruthStays ==
  ASSUME TInv, [Next]_vars, NEW x, x[1] \in Procs, x[2] \in GoneKinds => Departed(x[1])
  PROVE  x[2] \in GoneKinds => DepartedNext(x[1])
  BY ProcSteps

LEMMA ToldTrueStep ==
  ASSUME TInv, AimsAtPlan, PlannedBorn, ToldTrue, [Next]_vars
  PROVE  ToldTrue'
<1>1. ASSUME NEW x, Found(x), 1 \in 1..Len(plans)
      PROVE  x[1] \in Procs /\ (x[2] \in GoneKinds => DepartedNext(x[1]))
  <2>1. PICK p \in Procs, kind \in Kinds : Tells(p, kind) /\ x = <<p, kind>>
    BY <1>1 DEF Found
  <2>2. p \in plans[1].left /\ (kind \in GoneKinds => ~Running(p))
    BY <2>1 DEF Tells
  <2>3. Born(p)
    BY <1>1, <2>2 DEF PlannedBorn
  <2>4. proc[p] \in {"unborn", "live", "exited", "gone"}
    BY DEF TInv, Types, WorldTypes
  <2>5. kind \in GoneKinds => Departed(p)
    BY <2>2, <2>3, <2>4 DEF Born, Running, Departed
  <2>6. QED BY <2>1, <2>5, ProcSteps
<1>2. ASSUME NEW i \in 1..Len(plans'), NEW x \in plans'[i].told
      PROVE  x[1] \in Procs /\ (x[2] \in GoneKinds => DepartedNext(x[1]))
  <2>1. CASE \E j \in 1..Len(plans) : x \in plans[j].told
    BY <2>1, TruthStays DEF ToldTrue, Truthful
  <2>2. CASE Continues(1, 1) /\ Found(x)
    BY <1>1, <2>2 DEF Continues
  <2>3. QED BY <2>1, <2>2, ToldOrigins
<1>3. ASSUME NEW i \in 1..Len(outcomes'), NEW x \in outcomes'[i].told
      PROVE  x[1] \in Procs /\ (x[2] \in GoneKinds => DepartedNext(x[1]))
  <2>1. CASE Holding(outcomes'[i])
    BY <1>3, <2>1, TruthStays DEF Holding, ToldTrue, Truthful
  <2>2. CASE plans # <<>> /\ outcomes'[i] = Reported
    <3>1. x \in plans[1].told /\ 1 \in 1..Len(plans)
      BY <1>3, <2>2, PlanTypes DEF Reported
    <3>2. QED BY <3>1, TruthStays DEF ToldTrue, Truthful
  <2>3. QED BY <2>1, <2>2, OutcomeOrigins
<1>4. QED BY <1>2, <1>3 DEF ToldTrue, Truthful, Departed, DepartedNext

LEMMA ShedStep ==
  ASSUME TInv, ObsBorn, ToldTrue, Shed, [Next]_vars
  PROVE  Shed'
<1>1. SUFFICES ASSUME NEW k \in Kids, tx'.top[k] # None, k \notin tx'.admitted PROVE DepartedNext(k)
  BY DEF Shed, Departed, DepartedNext
<1>0. k \in Procs
  BY Constants
<1>2. ASSUME Departed(k) PROVE DepartedNext(k)
  BY <1>0, <1>2, ProcSteps
<1>3. CASE SameWork(tx, tx')
  BY <1>1, <1>2, <1>3 DEF SameWork, Shed
<1>4. CASE tx' = Idle \/ Begins
  BY <1>1, <1>4, IdleFields DEF Begins
<1>5. CASE Looks
  <2> DEFINE t == Observed(tx, obs)
  <2>1. tx'.admitted = t.admitted /\ tx'.top = t.top
    BY <1>5, LooksFields
  <2>2. /\ t.top[k] = tx.top[k] \/ (k \in obs.fresh /\ k \in t.admitted)
        /\ k \in tx.admitted => k \in t.admitted \/ k \in obs.gone
    BY ObservedFields DEF TInv, Types, TxTypes
  <2>3. k \in obs.gone => Departed(k)
    BY <1>5 DEF Looks, ObsBorn, Departed
  <2> HIDE DEF t
  <2>4. QED BY <1>1, <1>2, <2>1, <2>2, <2>3 DEF Shed
<1>6. CASE Answers
  <2> DEFINE told == Head(outcomes).told
  <2>1. /\ tx'.top = tx.top /\ tx'.admitted = tx.admitted \ Gone(tx, told)
        /\ 1 \in 1..Len(outcomes) /\ outcomes[1].told = told
    BY <1>6, AnswersFields
  <2>2. Truthful(told)
    BY <2>1 DEF ToldTrue
  <2> HIDE DEF told
  <2>3. k \in Gone(tx, told) => Departed(k)
    BY <2>2 DEF Gone, Known, Truthful
  <2>4. QED BY <1>1, <1>2, <2>1, <2>3 DEF Shed
<1>7. QED BY <1>3, <1>4, <1>5, <1>6, TxCases

LEMMA BirthsStep ==
  ASSUME TInv, AimsAtPlan, Numbers, Matches, Births, [Next]_vars
  PROVE  Births'
<1>1. RootsBorn'
  <2>1. \A r \in Roots : BornNext(r)
    BY Constants, BornStays DEF Births, RootsBorn
  <2>2. QED BY <2>1 DEF RootsBorn, Born, BornNext
<1>2. QED BY <1>1, ReadyBornStep, PlannedBornStep, ObsBornStep, ToldTrueStep, ShedStep DEF Births
-----------------------------------------------------------------------------
(* One signal for each target, and the leaves first.                       *)

ReadyUnsent == tx.id # 0 => \A p \in tx.ready : sent[tx.id][p] = 0
SentTargets == tx.id # 0 => \A p \in Procs : sent[tx.id][p] # 0 => p \in Targeted(tx)
LeftUnsent == \A i \in 1..Len(plans) : \A p \in plans[i].left :
                sent[plans[i].tx][p] = 0 \/ (i = 1 /\ aim.at = "waiting" /\ aim.of = p)
WaitSent == aim.at = "waiting" => plans # <<>> /\ sent[plans[1].tx][aim.of] # 0
FreshUnsent == obs.at = "seen" /\ obs.tx = tx.id => \A k \in obs.fresh : sent[tx.id][k] = 0
LeavesPlanned == \A i \in 1..Len(plans) : plans[i].tx = tx.id =>
                   \A p \in plans[i].left : NothingBelow(tx, p)

Signals ==
  /\ OneSignalEach /\ ReadyUnsent /\ SentTargets /\ LeftUnsent /\ WaitSent /\ FreshUnsent
  /\ LeavesPlanned

Base == TInv /\ AimsAtPlan /\ Numbers /\ Matches /\ Births

\* What a signal changes.
LEMMA Signalled ==
  ASSUME TInv, LeftUnsent, Waits
  PROVE  /\ 1 \in 1..Len(plans) /\ sent[plans[1].tx][aim.of] = 0 /\ sent'[plans[1].tx][aim.of] = 1
         /\ \A T \in 1..MaxTx, p \in Procs :
              ~(T = plans[1].tx /\ p = aim.of) => sent'[T][p] = sent[T][p]
         /\ aim'.at = "waiting" /\ aim'.of = aim.of /\ aim.of \in plans[1].left
         /\ plans[1].tx \in 1..MaxTx /\ aim.of \in Procs /\ UNCHANGED <<tx, plans, obs, entry>>
<1>1. 1 \in 1..Len(plans) /\ aim.of \in plans[1].left /\ aim.of \in Procs /\ aim.at = "admitted"
  BY PlanTypes DEF Waits
<1>2. sent[plans[1].tx][aim.of] = 0 /\ plans[1].tx \in 1..MaxTx
  BY <1>1, PlanTypes DEF LeftUnsent
<1>3. sent \in [1..MaxTx -> [Procs -> Nat]] /\ aim \in Aim
  BY DEF TInv, Types, WorldTypes, WorkTypes
<1>4. sent' = [sent EXCEPT ![plans[1].tx][aim.of] = @ + 1]
  BY DEF Waits
<1>5. sent'[plans[1].tx][aim.of] = 1
  BY <1>1, <1>2, <1>3, <1>4
<1>6. ASSUME NEW T \in 1..MaxTx, NEW p \in Procs, ~(T = plans[1].tx /\ p = aim.of)
      PROVE  sent'[T][p] = sent[T][p]
  BY <1>2, <1>3, <1>4, <1>6
<1>7. aim'.at = "waiting" /\ aim'.of = aim.of
  BY <1>3 DEF Waits, Aim
<1>8. QED BY <1>1, <1>2, <1>5, <1>6, <1>7 DEF Waits, WorkerFrame

LEMMA SentOnceStep ==
  ASSUME TInv, AimsAtPlan, OneSignalEach, LeftUnsent, [Next]_vars
  PROVE  OneSignalEach'
<1>1. CASE UNCHANGED sent
  BY <1>1 DEF OneSignalEach
<1>2. CASE Waits
  <2>1. ASSUME NEW T \in 1..MaxTx, NEW p \in Procs PROVE sent'[T][p] <= 1
    <3>1. CASE T = plans[1].tx /\ p = aim.of
      BY <1>2, <3>1, Signalled
    <3>2. CASE ~(T = plans[1].tx /\ p = aim.of)
      <4>1. sent'[T][p] = sent[T][p]
        BY <1>2, <3>2, Signalled
      <4>2. QED BY <4>1 DEF OneSignalEach
    <3>3. QED BY <3>1, <3>2
  <2>2. QED BY <2>1 DEF OneSignalEach
<1>3. QED BY <1>1, <1>2, SentCases

\* What a look makes ready was never signalled.
LEMMA LookUnsent ==
  ASSUME TInv, ReadyUnsent, FreshUnsent, Looks
  PROVE  \A p \in Observed(tx, obs).ready : sent'[tx'.id][p] = 0
<1>1. tx.id # 0 /\ obs.at = "seen" /\ obs.tx = tx.id
  BY DEF Looks
<1>2. tx'.id = tx.id /\ sent' = sent
  BY LooksFields DEF worldVars
<1>3. \A p \in Observed(tx, obs).ready : p \in tx.ready \/ p \in obs.fresh
  BY ObservedFields DEF TInv, Types, TxTypes
<1>4. QED BY <1>1, <1>2, <1>3 DEF ReadyUnsent, FreshUnsent

LEMMA BeginsUnsent ==
  ASSUME TInv, TInv', Numbers, Begins
  PROVE  tx'.id \in 1..MaxTx /\ \A p \in Procs : sent'[tx'.id][p] = 0
<1>1. tx'.id = lastId + 1 /\ sent' = sent
  BY DEF Begins, worldVars
<1>2. tx'.id \in 0..MaxTx /\ lastId \in Nat
  BY DEF TInv, Types, TxTypes, TxType
<1>3. tx'.id \in 1..MaxTx /\ tx'.id > lastId
  BY <1>1, <1>2, Constants
<1>4. QED BY <1>1, <1>3 DEF Numbers

LEMMA ReadyUnsentStep ==
  ASSUME TInv, TInv', AimsAtPlan, Numbers, Matches, ReadyUnsent, FreshUnsent, LeftUnsent, [Next]_vars
  PROVE  ReadyUnsent'
<1>0. tx.ready \in SUBSET Procs /\ tx.id \in 0..MaxTx /\ tx'.ready \in SUBSET Procs
  BY DEF TInv, Types, TxTypes, TxType
<1>1. SUFFICES ASSUME tx'.id # 0, NEW p \in tx'.ready PROVE sent'[tx'.id][p] = 0
  BY DEF ReadyUnsent
<1>2. CASE Waits
  <2>1. tx' = tx /\ tx.id \in 1..MaxTx /\ p \in Procs
    BY <1>0, <1>1, <1>2, Constants, Signalled
  <2>2. ASSUME tx.id = plans[1].tx, p = aim.of PROVE FALSE
    <3>1. Waiting /\ aim.of \in tx.batch
      BY <1>2, <2>2, Signalled DEF Matches, PlansMatch
    <3>2. QED BY <1>1, <2>1, <2>2, <3>1 DEF Matches, BatchSpent
  <2>3. sent'[tx.id][p] = sent[tx.id][p]
    BY <1>2, <2>1, <2>2, Signalled
  <2>4. QED BY <1>1, <2>1, <2>3 DEF ReadyUnsent
<1>3. CASE UNCHANGED sent
  <2>1. CASE SameWork(tx, tx')
    BY <1>1, <1>3, <2>1 DEF SameWork, ReadyUnsent
  <2>2. CASE tx' = Idle
    BY <1>1, <2>2, IdleFields
  <2>3. CASE Begins
    BY <1>0, <2>3, BeginsUnsent
  <2>4. CASE Looks
    <3>1. tx'.ready \subseteq Observed(tx, obs).ready
      BY <2>4, LooksFields
    <3>2. QED BY <2>4, <3>1, LookUnsent
  <2>5. CASE Answers
    <3>1. tx'.id = tx.id /\ tx'.ready = tx.ready
      BY <2>5, AnswersFields
    <3>2. QED BY <1>1, <1>3, <3>1 DEF ReadyUnsent
  <2>6. QED BY <2>1, <2>2, <2>3, <2>4, <2>5, TxCases
<1>4. QED BY <1>2, <1>3, SentCases

LEMMA SentTargetsStep ==
  ASSUME TInv, TInv', AimsAtPlan, Numbers, Births, SentTargets, LeftUnsent, [Next]_vars
  PROVE  SentTargets'
<1>0. tx.id \in 0..MaxTx
  BY DEF TInv, Types, TxTypes, TxType
<1>1. SUFFICES ASSUME tx'.id # 0, NEW p \in Procs, sent'[tx'.id][p] # 0 PROVE p \in Targeted(tx')
  BY DEF SentTargets
<1>2. CASE Waits
  <2>1. tx' = tx /\ tx.id \in 1..MaxTx
    BY <1>0, <1>1, <1>2, Constants, Signalled
  <2>2. CASE tx.id = plans[1].tx /\ p = aim.of
    BY <1>2, <2>1, <2>2, Signalled DEF Births, PlannedBorn
  <2>3. CASE ~(tx.id = plans[1].tx /\ p = aim.of)
    <3>1. sent'[tx.id][p] = sent[tx.id][p]
      BY <1>2, <2>1, <2>3, Signalled
    <3>2. QED BY <1>1, <2>1, <3>1 DEF SentTargets
  <2>4. QED BY <2>2, <2>3
<1>3. CASE UNCHANGED sent
  <2>1. CASE SameWork(tx, tx')
    <3>1. tx'.id = tx.id /\ Targeted(tx') = Targeted(tx)
      BY <2>1, SameTargets DEF SameWork
    <3>2. QED BY <1>1, <1>3, <3>1 DEF SentTargets
  <2>2. CASE tx' = Idle
    BY <1>1, <2>2, IdleFields
  <2>3. CASE Begins
    BY <1>1, <2>3, BeginsUnsent
  <2>4. CASE Looks
    <3>1. tx'.id = tx.id /\ Targeted(tx) \subseteq Targeted(tx')
      BY <2>4, LooksFields, LookTargets DEF Births
    <3>2. QED BY <1>1, <1>3, <3>1 DEF SentTargets
  <2>5. CASE Answers
    <3>1. tx'.id = tx.id /\ Targeted(tx') = Targeted(tx)
      BY <2>5, AnswersFields DEF Targeted
    <3>2. QED BY <1>1, <1>3, <3>1 DEF SentTargets
  <2>6. QED BY <2>1, <2>2, <2>3, <2>4, <2>5, TxCases
<1>4. QED BY <1>2, <1>3, SentCases

\* With the worker between two targets nothing of a plan has been signalled.
LEMMA IdleUnsent ==
  ASSUME LeftUnsent, aim.at # "waiting"
  PROVE  \A i \in 1..Len(plans) : \A p \in plans[i].left : sent[plans[i].tx][p] = 0
  BY DEF LeftUnsent

LEMMA ReportIdle ==
  ASSUME TInv, AimsAtPlan, Report
  PROVE  aim.at = "idle" /\ UNCHANGED <<sent, aim, tx, obs>>
  BY DEF AimsAtPlan, Report, WorkerFrame

LEMMA NotWaits ==
  ASSUME TInv, UNCHANGED aim
  PROVE  ~Waits
  BY DEF Waits, TInv, Types, WorkTypes, Aim

LEMMA LeftUnsentStep ==
  ASSUME TInv, TInv', AimsAtPlan, Numbers, Matches, ReadyUnsent, FreshUnsent, LeftUnsent, [Next]_vars
  PROVE  LeftUnsent'
<1>1. SUFFICES ASSUME NEW i \in 1..Len(plans'), NEW p \in plans'[i].left
               PROVE  sent'[plans'[i].tx][p] = 0 \/ (i = 1 /\ aim'.at = "waiting" /\ aim'.of = p)
  BY DEF LeftUnsent
<1>2. CASE Planned(i)
  <2>1. Looks /\ p \in Targets(Observed(tx, obs), obs) /\ plans'[i].tx = tx.id
    BY <1>2 DEF Planned, NewPlan
  <2>2. p \in Observed(tx, obs).ready /\ tx'.id = tx.id
    BY <2>1, LooksFields
  <2>3. QED BY <2>1, <2>2, LookUnsent
<1>3. CASE UNCHANGED <<aim, sent>> /\ Continues(i, i)
  <2>1. p \in plans[i].left /\ plans'[i].tx = plans[i].tx /\ i \in 1..Len(plans)
    BY <1>3 DEF Continues
  <2>2. QED BY <1>3, <2>1 DEF LeftUnsent
<1>4. CASE Reconcile
  <2>1. UNCHANGED <<aim, sent>>
    BY <1>4, ReconcileIs DEF worldVars
  <2>2. ~Report
    BY <1>4 DEF Reconcile, Report, NoObs, WorkerFrame
  <2>3. QED BY <1>2, <1>3, <2>1, <2>2, PlanOrigins
<1>5. ASSUME NEW q \in Procs, TakeAims(q), aim.at = "idle" PROVE sent'[plans'[i].tx][p] = 0
  BY <1>1, <1>5, IdleUnsent DEF TakeAims
<1>6. ASSUME NEW q \in Procs, NEW kind \in Kinds, Tells(q, kind) PROVE sent'[plans'[i].tx][p] = 0
  <2>1. /\ plans # <<>> /\ Tell(q, kind) /\ UNCHANGED sent
        /\ aim.at = "idle" \/ aim.of = q
    BY <1>6 DEF Tells
  <2>2. /\ Len(plans') = Len(plans) /\ plans'[1].tx = plans[1].tx /\ plans'[1].left = plans[1].left \ {q}
        /\ \A n \in 1..Len(plans) : n # 1 => plans'[n] = plans[n]
    BY <2>1, TellIs, PlanTypes
  <2>3. /\ i \in 1..Len(plans) /\ p \in plans[i].left /\ plans'[i].tx = plans[i].tx
        /\ i = 1 => p # q
    BY <2>2
  <2>4. QED BY <2>1, <2>3 DEF LeftUnsent
<1>7. CASE Waits
  <2>1. aim.at # "waiting" /\ plans' = plans
    BY <1>7 DEF Waits
  <2>2. sent[plans[i].tx][p] = 0 /\ p \in Procs /\ plans[i].tx \in 1..MaxTx
    BY <2>1, IdleUnsent, PlanTypes
  <2>3. CASE plans[i].tx = plans[1].tx /\ p = aim.of
    <3>1. i = 1
      BY <1>7, <2>1, <2>3, Signalled DEF Matches, PlansApart
    <3>2. QED BY <1>7, <2>3, <3>1, Signalled
  <2>4. CASE ~(plans[i].tx = plans[1].tx /\ p = aim.of)
    BY <1>7, <2>1, <2>2, <2>4, Signalled
  <2>5. QED BY <2>3, <2>4
<1>8. CASE Report
  <2>1. aim.at = "idle" /\ UNCHANGED sent /\ plans # <<>> /\ plans' = Tail(plans)
    BY <1>8, ReportIdle DEF Report
  <2>2. i + 1 \in 1..Len(plans) /\ plans'[i] = plans[i + 1]
    BY <2>1, PlanTypes, Taken
  <2>3. QED BY <2>1, <2>2, IdleUnsent
<1>9. CASE WorkerStops
  <2>1. Len(plans') = 0
    BY <1>9 DEF WorkerStops
  <2>2. QED BY <2>1
<1>10. CASE UNCHANGED <<plans, aim>>
  <2>1. UNCHANGED sent
    BY <1>10, NotWaits, SentCases
  <2>2. QED BY <1>10, <2>1 DEF LeftUnsent
<1>11. CASE Worker
  BY <1>5, <1>6, <1>7, <1>8, <1>11, WorkerCases
<1>12. QED BY <1>4, <1>9, <1>10, <1>11, PlansElsewhere

LEMMA WaitSentStep ==
  ASSUME TInv, AimsAtPlan, LeftUnsent, WaitSent, [Next]_vars
  PROVE  WaitSent'
<1>1. SUFFICES ASSUME aim'.at = "waiting" PROVE plans' # <<>> /\ sent'[plans'[1].tx][aim'.of] # 0
  BY DEF WaitSent
<1>2. CASE Waits
  BY <1>2, Signalled DEF Waits
<1>3. CASE UNCHANGED <<aim, sent>> /\ (UNCHANGED plans \/ \E e : plans' = Append(plans, e))
  <2>1. \A e : plans # <<>> => Append(plans, e) # <<>> /\ Append(plans, e)[1] = plans[1]
    BY PlanTypes
  <2>2. plans # <<>> /\ sent[plans[1].tx][aim.of] # 0
    BY <1>1, <1>3 DEF WaitSent
  <2>3. plans' # <<>> /\ plans'[1] = plans[1]
    BY <1>3, <2>1, <2>2
  <2>4. QED BY <1>3, <2>2, <2>3
<1>4. CASE Reconcile
  <2>1. UNCHANGED <<aim, sent>> /\ (UNCHANGED plans \/ \E e : plans' = Append(plans, e))
    BY <1>4, ReconcileIs, DispatchIs DEF worldVars
  <2>2. QED BY <1>3, <2>1
<1>5. \A q \in Procs : TakeAims(q) => aim'.at = "admitted"
  BY DEF TakeAims
<1>6. \A q \in Procs, kind \in Kinds : Tells(q, kind) => aim'.at = "idle"
  BY DEF Tells, Tell, NoAim
<1>7. CASE Report
  BY <1>1, <1>7, ReportIdle
<1>8. CASE WorkerStops
  BY <1>1, <1>8 DEF WorkerStops, NoAim
<1>9. CASE UNCHANGED <<plans, aim>>
  BY <1>3, <1>9, NotWaits, SentCases
<1>10. CASE Worker
  BY <1>1, <1>2, <1>5, <1>6, <1>7, <1>10, WorkerCases
<1>11. QED BY <1>4, <1>8, <1>9, <1>10, PlansElsewhere

LEMMA FreshUnsentStep ==
  ASSUME TInv, AimsAtPlan, Numbers, Matches, Births, SentTargets, LeftUnsent, FreshUnsent, [Next]_vars
  PROVE  FreshUnsent'
<1>0. obs.tx \in 0..MaxTx /\ obs.tx \in Nat /\ lastId \in Nat /\ obs.fresh \in SUBSET Kids
      /\ tx.frozen \in SUBSET Sessions
  BY Constants DEF TInv, Types, TxTypes, TxType, ObsType
<1>1. SUFFICES ASSUME obs'.at = "seen", obs'.tx = tx'.id, NEW k \in obs'.fresh PROVE sent'[tx'.id][k] = 0
  BY DEF FreshUnsent
<1>2. CASE Look
  <2>1. /\ obs.at = "asked" /\ obs'.tx = obs.tx /\ tx' = tx /\ sent' = sent
        /\ k \in Kids /\ Running(k) /\ k \notin obs.known
    BY <1>2, LookFinds DEF worldVars
  <2>2. obs.known = tx.admitted /\ tx.id # 0
    BY <1>1, <2>1 DEF Matches, ObsMatches, Numbers
  <2>3. ~Departed(k) /\ k \in Procs
    BY <2>1, Constants DEF Running, Departed
  <2>4. k \notin Targeted(tx)
    <3>1. k \notin tx.frozen
      BY <1>0, <2>1, Constants
    <3>2. tx.top[k] = None
      BY <2>1, <2>2, <2>3 DEF Births, Shed
    <3>3. QED BY <3>1, <3>2 DEF Targeted
  <2>5. QED BY <2>1, <2>2, <2>3, <2>4 DEF SentTargets
<1>3. CASE Ask
  BY <1>1, <1>3, AskAsks
<1>4. CASE obs' = NoObs \/ obs' = [NoObs EXCEPT !.at = "down"]
  BY <1>1, <1>4, ObsAtRest
<1>5. CASE UNCHANGED obs
  <2>1. obs.at = "seen" /\ obs.tx # 0 /\ obs.tx <= lastId /\ k \in obs.fresh
    BY <1>1, <1>5 DEF Numbers
  <2>2. tx'.id = tx.id
    <3>1. CASE tx' = Idle
      BY <1>1, <1>5, <2>1, <3>1, IdleFields
    <3>2. CASE Begins
      <4>1. tx'.id = lastId + 1
        BY <3>2 DEF Begins
      <4>2. obs.tx # lastId + 1
        BY <1>0, <2>1
      <4>3. QED BY <1>1, <1>5, <4>1, <4>2
    <3>3. QED BY <3>1, <3>2, TxCases, LooksFields, AnswersFields DEF SameWork
  <2>3. tx.pass = "observe"
    BY <1>1, <1>5, <2>1, <2>2 DEF Matches, ObsMatches
  <2>4. CASE UNCHANGED sent
    BY <1>1, <1>5, <2>1, <2>2, <2>4 DEF FreshUnsent
  <2>5. CASE Waits
    <3>1. plans[1].tx # tx.id
      BY <2>3, <2>5, Signalled DEF Matches, PlansMatch, Waiting
    <3>2. tx.id \in 1..MaxTx /\ k \in Procs
      BY <1>0, <1>1, <1>5, <2>1, <2>2, Constants
    <3>3. sent'[tx.id][k] = sent[tx.id][k]
      BY <2>5, <3>1, <3>2, Signalled
    <3>4. QED BY <1>1, <1>5, <2>1, <2>2, <3>3 DEF FreshUnsent
  <2>6. QED BY <2>4, <2>5, SentCases
<1>6. QED BY <1>2, <1>3, <1>4, <1>5, ObsCases

LEMMA LeavesPlannedStep ==
  ASSUME TInv, AimsAtPlan, Numbers, Matches, LeavesPlanned, [Next]_vars
  PROVE  LeavesPlanned'
<1>1. SUFFICES ASSUME NEW i \in 1..Len(plans'), plans'[i].tx = tx'.id, NEW p \in plans'[i].left
               PROVE  NothingBelow(tx', p)
  BY DEF LeavesPlanned
<1>2. CASE Planned(i)
  <2>1. Looks /\ p \in Targets(Observed(tx, obs), obs) /\ plans' = Append(plans, NewPlan)
    BY <1>2 DEF Planned, NewPlan
  <2>2. plans' # plans
    BY <2>1, PlanTypes
  <2>3. /\ tx'.admitted = Observed(tx, obs).admitted /\ tx'.pending = Observed(tx, obs).pending
        /\ tx'.top = Observed(tx, obs).top /\ tx'.above = Observed(tx, obs).above
    BY <2>1, <2>2, LooksFields
  <2>4. NothingBelow(Observed(tx, obs), p)
    BY <2>1 DEF Targets
  <2>5. QED BY <2>3, <2>4 DEF NothingBelow
<1>3. ASSUME NEW j \in 1..Len(plans), Continues(i, j) PROVE NothingBelow(tx', p)
  <2>1. SameWork(tx, tx') /\ plans[j].tx = tx.id
    BY <1>1, <1>3, CurrentPlanStays DEF Matches
  <2>2. p \in plans[j].left
    BY <1>3 DEF Continues
  <2>3. NothingBelow(tx, p)
    BY <2>1, <2>2 DEF LeavesPlanned
  <2>4. tx'.admitted \cap tx'.pending = tx.admitted \cap tx.pending
    <3>1. tx.admitted \subseteq Procs
      BY Constants DEF TInv, Types, TxTypes, TxType
    <3>2. QED BY <2>1, <3>1 DEF SameWork
  <2>5. QED BY <2>1, <2>3, <2>4 DEF SameWork, NothingBelow
<1>4. QED BY <1>2, <1>3, PlanOrigins DEF Continues

LEMMA SignalsStep ==
  ASSUME Base, Base', Signals, [Next]_vars
  PROVE  Signals'
  BY SentOnceStep, ReadyUnsentStep, SentTargetsStep, LeftUnsentStep, WaitSentStep, FreshUnsentStep,
     LeavesPlannedStep DEF Base, Signals

LEMMA BaseStep ==
  ASSUME Base, [Next]_vars
  PROVE  Base'
  BY TypeStep, AimStep, NumbersStep, MatchesStep, BirthsStep DEF Base

LEMMA SignalsInit == Init => Base /\ Signals
<1> SUFFICES ASSUME Init PROVE Base /\ Signals
  OBVIOUS
<1>1. TInv /\ AimsAtPlan
  BY InitTypes DEF Init, AimsAtPlan, NoAim
<1>2. /\ tx = Idle /\ tx.id = 0 /\ lastId = 0 /\ Len(plans) = 0 /\ Len(outcomes) = 0
      /\ obs.at = "none" /\ obs.tx = 0 /\ aim.at = "idle"
  BY IdleFields, ObsAtRest DEF Init, NoAim
<1>3. \A T \in 1..MaxTx, p \in Procs : sent[T][p] = 0
  BY DEF Init
<1>4. Numbers
  BY <1>2, <1>3 DEF Numbers
<1>5. Matches
  BY <1>2, IdleFields DEF Matches, PlansMatch, PlansApart, BatchSpent, ObsMatches, Waiting
<1>6. Births
  <2>1. RootsBorn
    BY Constants DEF Init, RootsBorn, Born
  <2>2. ReadyBorn /\ PlannedBorn /\ ObsBorn /\ ToldTrue /\ Shed
    BY <1>2, IdleFields DEF ReadyBorn, PlannedBorn, ObsBorn, ToldTrue, Shed
  <2>3. QED BY <2>1, <2>2 DEF Births
<1>7. Signals
  BY <1>2, <1>3
     DEF Signals, OneSignalEach, ReadyUnsent, SentTargets, LeftUnsent, WaitSent, FreshUnsent, LeavesPlanned
<1>8. QED BY <1>1, <1>4, <1>5, <1>6, <1>7 DEF Base

LEMMA SignalsAlways == Spec => [](Base /\ Signals)
<1>1. Base /\ Signals /\ [Next]_vars => (Base /\ Signals)'
  BY BaseStep, SignalsStep
<1>2. QED BY SignalsInit, <1>1, PTL DEF Spec

\* Exactly one graceful signal: no transaction signals a process twice, however many
\* passes it takes, whatever is observed, and whenever the answers come.
THEOREM SignalledOnce == Spec => []OneSignalEach
<1>1. Base /\ Signals => OneSignalEach
  BY DEF Signals
<1>2. QED BY <1>1, SignalsAlways, PTL

LEMMA LeavesFirstStep ==
  ASSUME Base, Signals, [Next]_vars
  PROVE  \A p \in Procs : tx.id # 0 /\ sent'[tx.id][p] # sent[tx.id][p]
           => ~\E k \in tx.admitted \cap tx.pending : p \in {tx.above[k], tx.top[k]}
<1> SUFFICES ASSUME NEW p \in Procs, tx.id # 0, sent'[tx.id][p] # sent[tx.id][p]
             PROVE  NothingBelow(tx, p)
  BY DEF NothingBelow
<1>1. Waits /\ tx.id \in 1..MaxTx
  BY SentCases, Constants DEF Base, TInv, Types, TxTypes, TxType
<1>2. plans[1].tx = tx.id /\ p \in plans[1].left /\ 1 \in 1..Len(plans)
  BY <1>1, Signalled DEF Base, Signals
<1>3. QED BY <1>2 DEF Signals, LeavesPlanned

\* Leaves first: no descendant the transaction admitted with a process as its parent or
\* its root is still to go when that process is signalled.
THEOREM LeavesBeforeRoots == Spec => LeavesFirst
<1>1. Base /\ Signals /\ [Next]_vars
        => [\A p \in Procs : tx.id # 0 /\ sent'[tx.id][p] # sent[tx.id][p]
              => ~\E k \in tx.admitted \cap tx.pending : p \in {tx.above[k], tx.top[k]}]_vars
  BY LeavesFirstStep
<1>2. QED BY <1>1, SignalsAlways, PTL DEF Spec, LeavesFirst
-----------------------------------------------------------------------------
(* The owned run answers one request at a time, and the transaction that   *)
(* waits for the answer made the request.                                  *)

Fin == [kind |-> "Finished", by |-> 0]
Outbox ==
  \/ run = "pending" /\ child = "alive" /\ mail = <<>> /\ \E a \in asked : asked = {a}
  \/ run = "pending" /\ child = "alive" /\ asked = {} /\ \E m \in Mail : m.kind # "Finished" /\ mail = <<m>>
  \/ run = "pending" /\ child = "reaped" /\ asked = {} /\ \E m \in Mail : m.kind # "Finished" /\ mail = <<m, Fin>>
  \/ run # "pending" /\ asked = {} /\ (mail = <<>> \/ (mail = <<Fin>> /\ child = "reaped"))
Own ==
  tx.progress = "outcome" => /\ run = "pending" /\ asked \subseteq {tx.id}
                             /\ mail # <<>> => mail[1].by = tx.id
Owning == Outbox /\ Own

LEMMA OwnedElsewhere ==
  ASSUME [Next]_vars, ~ReceiveOwned, ~Actor, \A S \in SUBSET Sessions : ~Submit(S)
  PROVE  UNCHANGED <<run, child, asked, mail>>
<1>1. CASE Processes
  BY <1>1 DEF Processes, Fork, Exit, Reap
<1>2. CASE Monitor
  BY <1>2 DEF Monitor, SwitchOff, SwitchOn, Classify, LoseSnapshot, MonitorFrame, worldVars
<1>3. CASE Transaction
  BY <1>3 DEF Transaction, Ask, Reconcile, PollOutcome, NoticeStopped, DeadlinePasses, Expire, worldVars
<1>4. CASE Worker
  BY <1>4 DEF Worker, Take, Signal, Confirm, Report, WorkerFrame
<1>5. CASE WorkerStops \/ Look \/ ObserverStops \/ UNCHANGED vars
  BY <1>5 DEF WorkerStops, Look, ObserverStops, vars, worldVars
<1>6. QED BY <1>1, <1>2, <1>3, <1>4, <1>5 DEF Next

LEMMA MailEvents ==
  ASSUME NEW m, NEW f
  PROVE  /\ <<>> # <<m>> /\ <<>> # <<m, f>> /\ Head(<<m>>) = m /\ Tail(<<m>>) = <<>>
         /\ Head(<<m, f>>) = m /\ Tail(<<m, f>>) = <<f>> /\ <<m>>[1] = m /\ <<m, f>>[1] = m
         /\ Append(<<>>, m) = <<m>> /\ <<>> \o <<>> \o <<f>> = <<f>>
         /\ <<>> \o <<m>> \o <<f>> = <<m, f>> /\ <<m>> \o <<>> \o <<f>> = <<m, f>>
<1>1. <<>> # <<m>> /\ <<>> # <<m, f>>
  OBVIOUS
<1>2. Head(<<m>>) = m /\ Head(<<m, f>>) = m /\ <<m>>[1] = m /\ <<m, f>>[1] = m
  OBVIOUS
<1>3. Tail(<<m>>) = <<>>
  OBVIOUS
<1>4. Tail(<<m, f>>) = <<f>>
  OBVIOUS
<1>5. Append(<<>>, m) = <<m>>
  OBVIOUS
<1>6. DEFINE X == {m, f}
<1>7. <<m>> \in Seq(X) /\ <<f>> \in Seq(X) /\ <<>> \in Seq(X)
  OBVIOUS
<1>8. <<>> \o <<>> = <<>> /\ <<>> \o <<f>> = <<f>> /\ <<>> \o <<m>> = <<m>> /\ <<m>> \o <<>> = <<m>>
  BY <1>7, ConcatEmptySeq
<1>9. <<m>> \o <<f>> = <<m, f>>
  <2>1. \A i \in 1..2 : (<<m>> \o <<f>>)[i] = IF i <= 1 THEN <<m>>[i] ELSE <<f>>[i - 1]
    BY <1>7, ConcatProperties
  <2>2. (<<m>> \o <<f>>)[1] = m /\ (<<m>> \o <<f>>)[2] = f
    BY <2>1
  <2>3. <<m>> \o <<f>> \in Seq(X) /\ Len(<<m>> \o <<f>>) = 2
    BY <1>7, ConcatProperties
  <2>4. <<m, f>> \in Seq(X) /\ Len(<<m, f>>) = 2 /\ <<m, f>>[1] = m /\ <<m, f>>[2] = f
    OBVIOUS
  <2>5. \A i \in 1..2 : (<<m>> \o <<f>>)[i] = <<m, f>>[i]
    BY <2>2, <2>4
  <2>6. QED BY <2>3, <2>4, <2>5, SeqEqual
<1>10. QED BY <1>1, <1>2, <1>3, <1>4, <1>5, <1>8, <1>9

LEMMA ReceiveOutbox == ASSUME TInv, Outbox, ReceiveOwned PROVE Outbox'
<1>1. /\ mail # <<>> /\ mail' = Tail(mail) /\ run' = SlotAfter(Head(mail).kind) /\ asked' = asked
      /\ child' = child
  BY ReceiveIs DEF worldVars
<1>2. \A m \in Mail : m.kind # "Finished" => m.kind \in {"Sent", "Failed", "Reaped"}
  BY DEF Mail
<1>3. run = "pending" => \A kind \in {"Sent", "Failed", "Reaped"} : SlotAfter(kind) # "pending"
  BY DEF SlotAfter
<1>4. SlotAfter("Finished") # "pending"
  BY DEF SlotAfter
<1>5. CASE run = "pending" /\ asked = {} /\ \E m \in Mail : m.kind # "Finished" /\ mail = <<m>>
  <2>1. PICK m \in Mail : m.kind # "Finished" /\ mail = <<m>>
    BY <1>5
  <2>2. mail' = <<>> /\ run' # "pending"
    BY <1>1, <1>2, <1>3, <1>5, <2>1, MailEvents
  <2>3. QED BY <1>1, <1>5, <2>2 DEF Outbox
<1>6. CASE /\ run = "pending" /\ child = "reaped" /\ asked = {}
           /\ \E m \in Mail : m.kind # "Finished" /\ mail = <<m, Fin>>
  <2>1. PICK m \in Mail : m.kind # "Finished" /\ mail = <<m, Fin>>
    BY <1>6
  <2>2. mail' = <<Fin>> /\ run' # "pending"
    BY <1>1, <1>2, <1>3, <1>6, <2>1, MailEvents
  <2>3. QED BY <1>1, <1>6, <2>2 DEF Outbox
<1>7. CASE asked = {} /\ mail = <<Fin>> /\ child = "reaped"
  <2>1. mail' = <<>> /\ Head(mail).kind = "Finished"
    BY <1>1, <1>7, MailEvents DEF Fin
  <2>2. run' # "pending"
    BY <1>1, <1>4, <2>1
  <2>3. QED BY <1>1, <1>7, <2>1, <2>2 DEF Outbox
<1>8. QED BY <1>1, <1>5, <1>6, <1>7 DEF Outbox

LEMMA ActorOutbox == ASSUME TInv, Outbox, Actor PROVE Outbox'
<1>0. asked \in SUBSET (0..MaxTx)
  BY DEF TInv, Types, RunTypes
<1>1. CASE StopOwned
  <2>1. asked = {} /\ mail = <<>> /\ child = "alive"
    BY <1>1 DEF StopOwned, Accepts, Outbox
  <2>2. asked' = {0} /\ run' = "pending" /\ mail' = <<>> /\ child' = "alive"
    BY <1>1, <2>1 DEF StopOwned
  <2>3. QED BY <2>2 DEF Outbox
<1>2. CASE ActorSignals
  <2>1. PICK by \in asked, kind \in {"Sent", "Failed"} : mail' = Append(mail, [kind |-> kind, by |-> by])
    BY <1>2 DEF ActorSignals
  <2>2. run = "pending" /\ child = "alive" /\ mail = <<>>
    BY <2>1 DEF Outbox
  <2>3. [kind |-> kind, by |-> by] \in Mail /\ [kind |-> kind, by |-> by].kind # "Finished"
    BY <1>0 DEF Mail
  <2>4. mail' = <<[kind |-> kind, by |-> by]>>
    BY <2>1, <2>2, MailEvents
  <2>5. run' = "pending" /\ child' = "alive" /\ asked' = {}
    BY <1>2, <2>2 DEF ActorSignals
  <2>6. QED BY <2>3, <2>4, <2>5 DEF Outbox
<1>3. CASE ActorReaps
  <2>1. PICK last \in IF asked = {} THEN {<<>>} ELSE {<<[kind |-> "Reaped", by |-> by]>> : by \in asked} :
        mail' = mail \o last \o <<Fin>>
    BY <1>3 DEF ActorReaps, Fin
  <2>2. child = "alive" /\ child' = "reaped" /\ asked' = {} /\ run' = run
    BY <1>3 DEF ActorReaps
  <2>3. CASE asked # {}
    <3>1. PICK by \in asked : last = <<[kind |-> "Reaped", by |-> by]>>
      BY <2>1, <2>3
    <3>2. run = "pending" /\ mail = <<>>
      BY <2>3 DEF Outbox
    <3>3. [kind |-> "Reaped", by |-> by] \in Mail /\ [kind |-> "Reaped", by |-> by].kind # "Finished"
      BY <1>0 DEF Mail
    <3>4. mail' = <<[kind |-> "Reaped", by |-> by], Fin>>
      BY <2>1, <3>1, <3>2, MailEvents
    <3>5. QED BY <2>2, <3>2, <3>3, <3>4 DEF Outbox
  <2>4. CASE asked = {}
    <3>1. last = <<>>
      BY <2>1, <2>4
    <3>2. CASE run = "pending" /\ \E m \in Mail : m.kind # "Finished" /\ mail = <<m>>
      <4>1. PICK m \in Mail : m.kind # "Finished" /\ mail = <<m>>
        BY <3>2
      <4>2. mail' = <<m, Fin>>
        BY <2>1, <3>1, <4>1, MailEvents
      <4>3. QED BY <2>2, <3>2, <4>1, <4>2 DEF Outbox
    <3>3. CASE run # "pending" /\ mail = <<>>
      <4>1. mail' = <<Fin>>
        BY <2>1, <3>1, <3>3, MailEvents
      <4>2. QED BY <2>2, <3>3, <4>1 DEF Outbox
    <3>4. QED BY <2>2, <2>4, <3>2, <3>3 DEF Outbox
  <2>5. QED BY <2>3, <2>4
<1>4. QED BY <1>1, <1>2, <1>3 DEF Actor

LEMMA SubmitOwning ==
  ASSUME TInv, Owning, NEW S \in SUBSET Sessions, Submit(S)
  PROVE  Owning'
<1>0. Free /\ UNCHANGED <<child, mail>>
  BY SubmitIs DEF worldVars
<1>1. /\ Started(S).progress = "none" /\ EndOwned(Started(S), "Refused").progress = "none"
      /\ Asking(Started(S)).id = NextId
  BY <1>0, StartedType, StartedFields, EndOwnedFields, ToldKinds
<1>2. CASE UNCHANGED <<run, asked>> /\ (tx' = Idle \/ tx' = Started(S) \/ tx' = EndOwned(Started(S), "Refused"))
  <2>1. tx'.progress # "outcome"
    BY <1>1, <1>2, IdleFields
  <2>2. QED BY <1>0, <1>2, <2>1 DEF Owning, Outbox, Own
<1>3. CASE /\ Accepts /\ run' = "pending" /\ asked' = asked \cup {NextId}
           /\ tx' = Idle \/ tx' = Asking(Started(S))
  <2>1. asked = {} /\ mail = <<>> /\ child = "alive"
    BY <1>3 DEF Accepts, Owning, Outbox
  <2>2. run' = "pending" /\ child' = "alive" /\ mail' = <<>> /\ asked' = {NextId}
    BY <1>0, <1>3, <2>1
  <2>3. tx'.progress = "outcome" => tx'.id = NextId
    BY <1>1, <1>3, IdleFields
  <2>4. QED BY <2>2, <2>3 DEF Owning, Outbox, Own
<1>4. QED BY <1>2, <1>3, SubmitIs, SettleEnds

LEMMA ReceiveOwn == ASSUME TInv, Outbox, Own, ReceiveOwned PROVE Own'
<1>0. tx \in TxType
  BY DEF TInv, Types, TxTypes
<1>1. \A kind \in Kinds : EndOwned(tx, kind).progress = "none"
  BY <1>0, EndOwnedFields
<1>2. Reaping(tx).progress = "reap"
  BY <1>0, ReapingFields
<1>3. CASE tx' = Idle \/ tx' = Reaping(tx) \/ \E kind \in Kinds : tx' = EndOwned(tx, kind)
  <2>1. tx'.progress # "outcome"
    BY <1>1, <1>2, <1>3, IdleFields
  <2>2. QED BY <2>1 DEF Own
<1>4. CASE tx' = tx /\ tx.progress # "outcome"
  BY <1>4 DEF Own
<1>5. CASE tx.progress = "outcome"
  <2>1. mail # <<>> /\ run = "pending"
    BY <1>5, ReceiveIs DEF Own
  <2>2. PICK m \in Mail : m.kind # "Finished" /\ (mail = <<m>> \/ mail = <<m, Fin>>)
    BY <2>1 DEF Outbox
  <2>3. Head(mail).kind \in {"Sent", "Failed", "Reaped"}
    BY <2>2, MailEvents DEF Mail
  <2>4. \/ tx' = Reaping(tx)
        \/ Settle(EndOwned(tx, EndKind(Head(mail).kind)), entry)
    BY <1>5, <2>3 DEF ReceiveOwned, EndKind, Reaping
  <2>5. QED BY <1>3, <2>4, EndKinds, SettleEnds
<1>6. QED BY <1>3, <1>4, <1>5, ReceiveIs, EndKinds, SettleEnds

LEMMA ActorOwn == ASSUME TInv, Outbox, Own, Actor PROVE Own'
<1>0. asked \in SUBSET (0..MaxTx) /\ tx' = tx
  BY DEF TInv, Types, RunTypes, Actor, StopOwned, ActorSignals, ActorReaps, OwnedFrame
<1>1. SUFFICES ASSUME tx.progress = "outcome"
               PROVE  run' = "pending" /\ asked' \subseteq {tx.id} /\ (mail' # <<>> => mail'[1].by = tx.id)
  BY <1>0 DEF Own
<1>2. run = "pending" /\ asked \subseteq {tx.id} /\ (mail # <<>> => mail[1].by = tx.id)
  BY <1>1 DEF Own
<1>3. CASE StopOwned
  BY <1>2, <1>3 DEF StopOwned, Accepts
<1>4. CASE ActorSignals
  <2>1. PICK by \in asked, kind \in {"Sent", "Failed"} : mail' = Append(mail, [kind |-> kind, by |-> by])
    BY <1>4 DEF ActorSignals
  <2>2. mail = <<>> /\ by = tx.id
    BY <1>2, <2>1 DEF Outbox
  <2>3. mail'[1] = [kind |-> kind, by |-> by]
    BY <2>1, <2>2, MailEvents
  <2>4. QED BY <1>2, <1>4, <2>2, <2>3 DEF ActorSignals, OwnedFrame
<1>5. CASE ActorReaps
  <2>1. PICK last \in IF asked = {} THEN {<<>>} ELSE {<<[kind |-> "Reaped", by |-> by]>> : by \in asked} :
        mail' = mail \o last \o <<Fin>>
    BY <1>5 DEF ActorReaps, Fin
  <2>2. child = "alive" /\ asked' = {} /\ run' = run
    BY <1>5 DEF ActorReaps
  <2>3. CASE asked # {}
    <3>1. PICK by \in asked : last = <<[kind |-> "Reaped", by |-> by]>>
      BY <2>1, <2>3
    <3>2. mail = <<>> /\ by = tx.id
      BY <1>2, <2>3, <3>1 DEF Outbox
    <3>3. mail'[1] = [kind |-> "Reaped", by |-> by]
      BY <2>1, <3>1, <3>2, MailEvents
    <3>4. QED BY <1>2, <2>2, <3>2, <3>3
  <2>4. CASE asked = {}
    <3>1. PICK m \in Mail : mail = <<m>>
      BY <1>2, <2>2, <2>4 DEF Outbox
    <3>2. mail'[1] = m /\ mail[1] = m /\ mail # <<>>
      BY <2>1, <2>4, <3>1, MailEvents
    <3>3. QED BY <1>2, <2>2, <3>2
  <2>5. QED BY <2>3, <2>4
<1>6. QED BY <1>3, <1>4, <1>5 DEF Actor

LEMMA OwningStep == ASSUME TInv, Owning, [Next]_vars PROVE Owning'
<1>1. CASE ReceiveOwned
  BY <1>1, ReceiveOutbox, ReceiveOwn DEF Owning
<1>2. CASE Actor
  BY <1>2, ActorOutbox, ActorOwn DEF Owning
<1>3. CASE UNCHANGED <<run, child, asked, mail>> /\ \A S \in SUBSET Sessions : ~Submit(S)
  <2>1. Outbox'
    BY <1>3 DEF Owning, Outbox
  <2>2. tx'.progress = "outcome" => tx.progress = "outcome" /\ tx'.id = tx.id
    <3>0. tx \in TxType /\ obs \in ObsType
      BY DEF TInv, Types, TxTypes
    <3>1. CASE tx' = tx
      BY <3>1
    <3>2. CASE tx' = Idle
      BY <3>2, IdleFields
    <3>3. CASE Reconcile
      <4>1. SameTx(tx, Observed(tx, obs)) /\ Observed(tx, obs) \in TxType
        BY <3>0, ObservedType
      <4>2. Targets(Observed(tx, obs), obs) \in SUBSET Procs
        BY <3>0, <4>1, TargetsType
      <4>3. requests' \in Nat
        BY <3>3, RequestsGrow DEF TInv, Types, TxTypes
      <4> DEFINE t == Observed(tx, obs)
                 batch == Targets(t, obs)
      <4>4. SameTx(t, Passing(t)) /\ SameTx(t, Working(t, batch)) /\ SameTx(t, Refusing(t, batch))
        BY <4>1, <4>2, <4>3, PassingFields, WorkingFields, RefusingFields
      <4>5. tx' = tx \/ tx' = Idle \/ tx' = Passing(t) \/ tx' = Working(t, batch) \/ tx' = Refusing(t, batch)
        BY <3>3, ReconcileIs, DispatchIs, SettleEnds
      <4> HIDE DEF t, batch
      <4>6. SameTx(tx, t)
        BY <4>1 DEF t
      <4>7. QED BY <3>1, <3>2, <4>4, <4>5, <4>6 DEF SameTx
    <3>4. CASE PollOutcome
      <4>1. Head(outcomes) \in Outcome
        BY <3>4 DEF PollOutcome, TInv, Types, WorkTypes
      <4>2. SameTx(tx, Answered(tx, Head(outcomes).told))
        BY <3>0, <4>1, AnsweredFields DEF Outcome
      <4>3. tx' = tx \/ tx' = Idle \/ tx' = Answered(tx, Head(outcomes).told)
        BY <3>4, SettleEnds DEF PollOutcome
      <4>4. QED BY <3>1, <3>2, <4>2, <4>3 DEF SameTx
    <3>5. CASE Expire
      <4>1. SameTx(tx, Ended(tx)) /\ (tx' = Idle \/ tx' = Ended(tx))
        BY <3>0, <3>5, ExpireIs, EndedFields, SettleEnds
      <4>2. QED BY <3>2, <4>1 DEF SameTx
    <3>6. CASE Monitor
      BY <3>6 DEF Monitor, SwitchOff, SwitchOn, Classify, LoseSnapshot, MonitorFrame
    <3>7. CASE ReceiveOwned
      <4>1. mail' = mail /\ mail' = Tail(mail) /\ mail # <<>>
        BY <1>3, <3>7, ReceiveIs
      <4>2. mail \in Seq(Mail) /\ Len(Tail(mail)) = Len(mail) - 1 /\ Len(mail) \in Nat
        BY <4>1 DEF TInv, Types, RunTypes
      <4>3. QED BY <4>1, <4>2
    <3>8. QED BY <1>3, <3>1, <3>3, <3>4, <3>5, <3>6, <3>7, TxElsewhere
  <2>3. QED BY <1>3, <2>1, <2>2 DEF Owning, Own
<1>4. QED BY <1>1, <1>2, <1>3, SubmitOwning, OwnedElsewhere

LEMMA OwningAlways == Spec => []Owning
<1>1. Init => Owning
  BY IdleFields DEF Init, Owning, Outbox, Own
<1>2. TInv /\ Owning /\ [Next]_vars => Owning'
  BY OwningStep
<1>3. QED BY <1>1, <1>2, TypesAlways, PTL DEF Spec

\* The answer of the owned run that advances a transaction is the answer to its own
\* request, though the Output pane makes requests too.
THEOREM AnswerIsOwn == Spec => OwnAnswer
<1>1. TInv /\ Owning /\ [Next]_vars
        => [tx.progress = "outcome" /\ mail # <<>> /\ mail' = Tail(mail) /\ Head(mail).kind # "Finished"
              => Head(mail).by = tx.id]_vars
  BY DEF TInv, Types, RunTypes, Owning, Own
<1>2. QED BY <1>1, OwningAlways, TypesAlways, PTL DEF Spec, OwnAnswer
-----------------------------------------------------------------------------
(* What a result says has happened.                                        *)

Proven(t, x) ==
  /\ x[2] \in GoneKinds => IF x[1] \in Owned THEN child = "reaped" ELSE Departed(x[1])
  /\ x[2] = "Survived" => x[1] \in Procs /\ t \in 1..MaxTx /\ sent[t][x[1]] # 0
ProvenNext(t, x) ==
  /\ x[2] \in GoneKinds => IF x[1] \in Owned THEN child' = "reaped" ELSE DepartedNext(x[1])
  /\ x[2] = "Survived" => x[1] \in Procs /\ t \in 1..MaxTx /\ sent'[t][x[1]] # 0

Letters == \A i \in 1..Len(mail) : mail[i].kind \in {"Reaped", "Finished"} => child = "reaped"
SurvivorsTold ==
  \A i \in 1..Len(plans) : \A x \in plans[i].told : x[2] = "Survived" => sent[plans[i].tx][x[1]] # 0
SurvivorsReported ==
  Waiting => \A j \in 1..Len(outcomes) : outcomes[j].req = tx.request =>
    \A x \in outcomes[j].told : x[2] = "Survived" => sent[tx.id][x[1]] # 0
ResultsProven ==
  /\ \A x \in tx.results : Proven(tx.id, x)
  /\ \A s \in Sessions : \A x \in entry[s].of : Proven(entry[s].tx, x)
ResultsProvenNext ==
  /\ \A x \in tx'.results : ProvenNext(tx'.id, x)
  /\ \A s \in Sessions : \A x \in entry'[s].of : ProvenNext(entry'[s].tx, x)

Evidence == Letters /\ SurvivorsTold /\ SurvivorsReported /\ ResultsProven

LEMMA SentGrows ==
  ASSUME Base, Signals, [Next]_vars, NEW T \in 1..MaxTx, NEW p \in Procs, sent[T][p] # 0
  PROVE  sent'[T][p] # 0
<1>1. CASE UNCHANGED sent
  BY <1>1
<1>2. CASE Waits
  <2>1. CASE T = plans[1].tx /\ p = aim.of
    BY <1>2, <2>1, Signalled DEF Base, Signals
  <2>2. CASE ~(T = plans[1].tx /\ p = aim.of)
    BY <1>2, <2>2, Signalled DEF Base, Signals
  <2>3. QED BY <2>1, <2>2
<1>3. QED BY <1>1, <1>2, SentCases DEF Base

LEMMA ChildStays ==
  ASSUME TInv, [Next]_vars, child = "reaped"
  PROVE  child' = "reaped"
<1>1. CASE \E S \in SUBSET Sessions : Submit(S)
  BY <1>1, SubmitIs DEF worldVars
<1>2. CASE ReceiveOwned
  BY <1>2, ReceiveIs DEF worldVars
<1>3. CASE Actor
  BY <1>3 DEF Actor, StopOwned, ActorSignals, ActorReaps
<1>4. QED BY <1>1, <1>2, <1>3, OwnedElsewhere

LEMMA ProvenStays ==
  ASSUME Base, Signals, [Next]_vars, NEW t, NEW x \in Results, Proven(t, x)
  PROVE  ProvenNext(t, x)
<1>1. x[1] \in Procs \cup Owned
  BY DEF Results
<1>2. ASSUME x[2] \in GoneKinds, x[1] \in Owned PROVE child' = "reaped"
  BY <1>2, ChildStays DEF Proven, Base
<1>3. ASSUME x[2] \in GoneKinds, x[1] \notin Owned PROVE DepartedNext(x[1])
  BY <1>1, <1>3, ProcSteps DEF Proven, Base
<1>4. ASSUME x[2] = "Survived" PROVE x[1] \in Procs /\ t \in 1..MaxTx /\ sent'[t][x[1]] # 0
  BY <1>4, SentGrows DEF Proven
<1>5. QED BY <1>2, <1>3, <1>4 DEF ProvenNext

LEMMA NewResults ==
  /\ \A t, x : x[2] \in {"Refused", "DeadlineExpired"} => ProvenNext(t, x)
  /\ \A t, x : x[2] \in GoneKinds /\ x[1] \in Procs /\ DepartedNext(x[1]) => ProvenNext(t, x)
<1>1. \A kind \in {"Refused", "DeadlineExpired"} : kind \notin GoneKinds /\ kind # "Survived"
  BY DEF GoneKinds
<1>2. "Survived" \notin GoneKinds /\ \A p \in Procs : p \notin Owned
  BY Constants DEF GoneKinds
<1>3. QED BY <1>1, <1>2 DEF ProvenNext

LEMMA LettersStep ==
  ASSUME TInv, Letters, [Next]_vars
  PROVE  Letters'
<1>0. mail \in Seq(Mail) /\ Len(mail) \in Nat
  BY DEF TInv, Types, RunTypes
<1>1. CASE UNCHANGED <<mail, child>>
  BY <1>1 DEF Letters
<1>2. CASE \E S \in SUBSET Sessions : Submit(S)
  BY <1>1, <1>2, SubmitIs DEF worldVars
<1>3. CASE ReceiveOwned
  <2>1. mail # <<>> /\ mail' = Tail(mail) /\ child' = child
    BY <1>3, ReceiveIs DEF worldVars
  <2>2. \A i \in 1..Len(mail') : i + 1 \in 1..Len(mail) /\ mail'[i] = mail[i + 1]
    BY <1>0, <2>1, Taken
  <2>3. QED BY <2>1, <2>2 DEF Letters
<1>4. CASE ActorSignals
  <2>1. PICK by \in asked, kind \in {"Sent", "Failed"} : mail' = Append(mail, [kind |-> kind, by |-> by])
    BY <1>4 DEF ActorSignals
  <2>2. child' = child /\ [kind |-> kind, by |-> by] \in Mail
    BY <1>4, <2>1 DEF ActorSignals, Mail, TInv, Types, RunTypes
  <2>3. /\ Len(mail') = Len(mail) + 1 /\ mail'[Len(mail) + 1] = [kind |-> kind, by |-> by]
        /\ \A i \in 1..Len(mail) : mail'[i] = mail[i]
    BY <1>0, <2>1, <2>2, Appended
  <2>4. ASSUME NEW i \in 1..Len(mail'), mail'[i].kind \in {"Reaped", "Finished"} PROVE child' = "reaped"
    <3>1. i \in 1..Len(mail) \/ i = Len(mail) + 1
      BY <1>0, <2>3
    <3>2. i # Len(mail) + 1
      BY <2>1, <2>3, <2>4
    <3>3. QED BY <2>2, <2>3, <2>4, <3>1, <3>2 DEF Letters
  <2>5. QED BY <2>4 DEF Letters
<1>5. CASE ActorReaps
  BY <1>5 DEF ActorReaps, Letters
<1>6. CASE StopOwned
  BY <1>1, <1>6 DEF StopOwned
<1>7. QED BY <1>1, <1>2, <1>3, <1>4, <1>5, <1>6, OwnedElsewhere DEF Actor

LEMMA SurvivorsToldStep ==
  ASSUME Base, Signals, SurvivorsTold, [Next]_vars
  PROVE  SurvivorsTold'
<1> USE DEF Base
<1>1. SUFFICES ASSUME NEW i \in 1..Len(plans'), NEW x \in plans'[i].told, x[2] = "Survived"
               PROVE  sent'[plans'[i].tx][x[1]] # 0
  BY DEF SurvivorsTold
<1>2. ASSUME NEW j \in 1..Len(plans), Continues(i, j), x \in plans[j].told
      PROVE  sent'[plans'[i].tx][x[1]] # 0
  <2>1. plans'[i].tx = plans[j].tx /\ plans[j].tx \in 1..MaxTx
    BY <1>2, PlanTypes DEF Continues
  <2>2. x[1] \in Procs
    BY <1>2 DEF Births, ToldTrue, Truthful
  <2>3. sent[plans[j].tx][x[1]] # 0
    BY <1>1, <1>2 DEF SurvivorsTold
  <2>4. QED BY <2>1, <2>2, <2>3, SentGrows
<1>3. CASE i = 1 /\ Continues(1, 1) /\ Found(x)
  <2>1. PICK p \in Procs, kind \in Kinds : Tells(p, kind) /\ x = <<p, kind>>
    BY <1>3 DEF Found
  <2>2. aim.at = "waiting" /\ aim.of = p /\ sent' = sent
    BY <1>1, <2>1 DEF Tells
  <2>3. plans'[1].tx = plans[1].tx
    BY <1>3 DEF Continues
  <2>4. QED BY <1>3, <2>1, <2>2, <2>3 DEF Signals, WaitSent
<1>4. QED BY <1>2, <1>3, ToldOrigins

LEMMA SurvivorsReportedStep ==
  ASSUME Base, Signals, SurvivorsTold, SurvivorsReported, [Next]_vars
  PROVE  SurvivorsReported'
<1> USE DEF Base
<1>1. SUFFICES ASSUME tx'.pass = "worker", NEW j \in 1..Len(outcomes'), outcomes'[j].req = tx'.request,
                      NEW x \in outcomes'[j].told, x[2] = "Survived"
               PROVE  sent'[tx'.id][x[1]] # 0
  BY DEF SurvivorsReported, Waiting
<1>2. CASE SameWork(tx, tx')
  <2>1. tx'.id = tx.id /\ Waiting /\ tx'.request = tx.request
    BY <1>1, <1>2 DEF SameWork, SamePass, Waiting
  <2>2. tx.id \in 1..MaxTx
    BY <2>1, WaitingIsThere, Constants DEF Waiting, TInv, Types, TxTypes, TxType
  <2>3. CASE Holding(outcomes'[j])
    <3>1. PICK n \in 1..Len(outcomes) : outcomes'[j] = outcomes[n]
      BY <2>3 DEF Holding
    <3>2. x[1] \in Procs
      BY <3>1 DEF Births, ToldTrue, Truthful
    <3>3. sent[tx.id][x[1]] # 0
      BY <1>1, <2>1, <3>1 DEF SurvivorsReported
    <3>4. QED BY <2>1, <2>2, <3>2, <3>3, SentGrows
  <2>4. CASE plans # <<>> /\ outcomes'[j] = Reported
    <3>1. 1 \in 1..Len(plans) /\ plans[1].req = tx.request /\ x \in plans[1].told
      BY <1>1, <2>1, <2>4, PlanTypes DEF Reported
    <3>2. plans[1].tx = tx.id
      BY <2>1, <3>1 DEF Matches, PlansMatch
    <3>3. x[1] \in Procs
      BY <3>1 DEF Births, ToldTrue, Truthful
    <3>4. sent[tx.id][x[1]] # 0
      BY <1>1, <3>1, <3>2 DEF SurvivorsTold
    <3>5. QED BY <2>1, <2>2, <3>3, <3>4, SentGrows
  <2>5. QED BY <2>3, <2>4, OutcomeOrigins
<1>3. CASE tx' = Idle \/ Begins
  BY <1>1, <1>3, IdleFields DEF Begins
<1>4. CASE Looks
  <2>1. tx'.request = requests + 1 /\ outcomes' = outcomes
    BY <1>1, <1>4, LooksFields
  <2>2. outcomes[j].req <= requests /\ outcomes[j].req \in Nat /\ requests \in Nat
    BY <2>1, PlanTypes DEF Numbers, TInv, Types, TxTypes
  <2>3. QED BY <1>1, <2>1, <2>2
<1>5. CASE Answers
  BY <1>1, <1>5, AnswersFields
<1>6. QED BY <1>2, <1>3, <1>4, <1>5, TxCases

LEMMA SettleProven ==
  ASSUME NEW t, NEW marked, Settle(t, marked), \A x \in t.results : ProvenNext(t.id, x),
         \A s \in Sessions : \A x \in marked[s].of : ProvenNext(marked[s].tx, x)
  PROVE  ResultsProvenNext
<1>1. CASE t.pending # {}
  BY <1>1 DEF Settle, ResultsProvenNext
<1>2. CASE t.pending = {}
  <2>1. /\ tx' = Idle
        /\ entry' = [s \in Sessions |-> IF marked[s].at = "terminating" /\ marked[s].tx = t.id
                                        THEN Shown(Terminal(t, s)) ELSE marked[s]]
    BY <1>2 DEF Settle
  <2>2. ASSUME NEW s \in Sessions, NEW x \in Shown(Terminal(t, s)).of
        PROVE  ProvenNext(Shown(Terminal(t, s)).tx, x)
    <3>1. Shown(Terminal(t, s)) = Terminal(t, s)
      BY <2>2 DEF Shown, NoEntry
    <3>2. Terminal(t, s).tx = t.id /\ x \in t.results
      BY <2>2, <3>1 DEF Terminal, ResultsFor
    <3>3. QED BY <3>1, <3>2
  <2>3. Idle.results = {}
    BY IdleFields
  <2>4. ASSUME NEW s \in Sessions, NEW x \in entry'[s].of PROVE ProvenNext(entry'[s].tx, x)
    <3>1. CASE marked[s].at = "terminating" /\ marked[s].tx = t.id
      <4>1. entry'[s] = Shown(Terminal(t, s))
        BY <2>1, <3>1
      <4>2. QED BY <2>2, <2>4, <4>1
    <3>2. CASE ~(marked[s].at = "terminating" /\ marked[s].tx = t.id)
      <4>1. entry'[s] = marked[s]
        BY <2>1, <3>2
      <4>2. QED BY <2>4, <4>1
    <3>3. QED BY <3>1, <3>2
  <2>5. QED BY <2>1, <2>3, <2>4 DEF ResultsProvenNext
<1>3. QED BY <1>1, <1>2

\* The results an observation adds.
LEMMA ObservedResults ==
  ASSUME NEW t \in TxType, NEW o \in ObsType
  PROVE  \A x \in Observed(t, o).results :
           x \in t.results \/ (x[2] \in GoneKinds /\ x[1] \in o.gone) \/ x[2] = "Refused"
<1> DEFINE u == ObservedRoots(t, o)
           v == ObservedKids(u, o)
           w == Admit(v, o)
<1>1. u \in TxType /\ u.results = t.results \cup RootResults(t, o)
  BY ObservedRootsFields
<1> HIDE DEF u
<1>2. v \in TxType /\ v.results = u.results \cup GoneResults(u, KidsGone(u, o))
  BY <1>1, ObservedKidsFields
<1> HIDE DEF v
<1>3. w.results = v.results
  BY <1>2, AdmitFields
<1> HIDE DEF w
<1>4. \A x \in RootResults(t, o) : (x[2] \in GoneKinds /\ x[1] \in o.gone) \/ x[2] = "Refused"
  BY ResultOf, SeenGoneKind DEF RootResults, RootsGone
<1>5. \A x \in GoneResults(u, KidsGone(u, o)) : x[2] \in GoneKinds /\ x[1] \in o.gone
  BY ResultOf, SeenGoneKind DEF GoneResults, KidsGone
<1>6. \A x \in w.results : x \in t.results \/ (x[2] \in GoneKinds /\ x[1] \in o.gone) \/ x[2] = "Refused"
  BY <1>1, <1>2, <1>3, <1>4, <1>5
<1>7. QED BY <1>6 DEF Observed, w, v, u

\* The proofs of the results that are there stay.
LEMMA OldResults ==
  ASSUME Base, Signals, ResultsProven, [Next]_vars
  PROVE  /\ \A x \in tx.results : ProvenNext(tx.id, x)
         /\ \A s \in Sessions : \A x \in entry[s].of : ProvenNext(entry[s].tx, x)
<1>1. tx.results \subseteq Results
  BY DEF Base, TInv, Types, TxTypes, TxType
<1>2. \A s \in Sessions : entry[s].of \subseteq Results
  BY DEF Base, TInv, Types, TxTypes, Record
<1>3. \A x \in tx.results : ProvenNext(tx.id, x)
  BY <1>1, ProvenStays DEF ResultsProven
<1>4. \A s \in Sessions : \A x \in entry[s].of : ProvenNext(entry[s].tx, x)
  BY <1>2, ProvenStays DEF ResultsProven
<1>5. QED BY <1>3, <1>4

LEMMA SubmitProven ==
  ASSUME Base, Signals, ResultsProven, [Next]_vars, NEW S \in SUBSET Sessions, Submit(S)
  PROVE  ResultsProvenNext
<1>1. TInv /\ Free
  BY SubmitIs DEF Base
<1>2. /\ Started(S) \in TxType /\ Started(S).results = {} /\ Asking(Started(S)).results = {}
  BY <1>1, StartedType, StartedFields
<1>3. ASSUME NEW s \in Sessions, NEW x \in Marked(S)[s].of PROVE ProvenNext(Marked(S)[s].tx, x)
  <2>1. s \notin S
    BY <1>3 DEF Marked, Terminating, NoEntry
  <2>2. Marked(S)[s] = entry[s]
    BY <2>1 DEF Marked
  <2>3. QED BY <1>3, <2>2, OldResults
<1>4. \A x \in EndOwned(Started(S), "Refused").results : x[2] = "Refused"
  <2>1. EndOwned(Started(S), "Refused").results = Started(S).results \cup OwnedResults("Refused")
    BY <1>2, EndOwnedFields, ToldKinds
  <2>2. QED BY <1>2, <2>1, ResultOf DEF OwnedResults
<1>5. \A x \in EndOwned(Started(S), "Refused").results :
        ProvenNext(EndOwned(Started(S), "Refused").id, x)
  BY <1>4, NewResults
<1>6. QED BY <1>2, <1>3, <1>5, SubmitIs, SettleProven

LEMMA ReconcileProven ==
  ASSUME Base, Signals, ResultsProven, [Next]_vars, Reconcile
  PROVE  ResultsProvenNext
<1>0. TInv /\ tx \in TxType /\ obs \in ObsType /\ obs.at = "seen" /\ requests \in Nat
  BY ReconcileIs DEF Base, TInv, Types, TxTypes
<1> DEFINE t == Observed(tx, obs)
           batch == Targets(t, obs)
<1>1. t \in TxType /\ t.id = tx.id
  BY <1>0, ObservedType DEF SameTx
<1>2. batch \in SUBSET Procs
  BY <1>0, <1>1, TargetsType
<1>3. \A p \in obs.gone : p \in Procs /\ DepartedNext(p)
  <2>1. obs.gone \subseteq Procs
    BY <1>0 DEF ObsType
  <2>2. \A p \in obs.gone : Departed(p)
    BY <1>0 DEF Base, Births, ObsBorn, Departed
  <2>3. QED BY <1>0, <2>1, <2>2, ProcSteps
<1>4. \A x \in t.results : ProvenNext(tx.id, x)
  <2>1. \A x \in t.results : x \in tx.results \/ (x[2] \in GoneKinds /\ x[1] \in obs.gone) \/ x[2] = "Refused"
    BY <1>0, ObservedResults
  <2>2. QED BY <1>3, <2>1, OldResults, NewResults
<1> HIDE DEF t, batch
<1>5. CASE Dispatch(t, batch)
  <2>1. CASE Settle(Passing(t), entry)
    <3>1. Passing(t).id = tx.id /\ Passing(t).results = t.results
      BY <1>1, PassingFields DEF SameTx
    <3>2. QED BY <1>4, <2>1, <3>1, OldResults, SettleProven
  <2>2. CASE requests' = requests + 1 /\ tx' = Working(t, batch) /\ UNCHANGED entry
    <3>1. tx'.id = tx.id /\ tx'.results = t.results
      BY <1>0, <1>1, <1>2, <2>2, WorkingFields DEF SameTx
    <3>2. QED BY <1>4, <2>2, <3>1, OldResults DEF ResultsProvenNext
  <2>3. CASE Settle(Refusing(t, batch), entry)
    <3>1. /\ Refusing(t, batch).id = tx.id
          /\ Refusing(t, batch).results = t.results \cup {<<p, "Refused">> : p \in batch \cap t.pending}
      BY <1>1, <1>2, RefusingFields DEF SameTx
    <3>2. \A x \in Refusing(t, batch).results : x \in t.results \/ x[2] = "Refused"
      BY <3>1, ResultOf
    <3>3. \A x \in Refusing(t, batch).results : ProvenNext(Refusing(t, batch).id, x)
      BY <1>4, <3>1, <3>2, NewResults
    <3>4. QED BY <2>3, <3>3, OldResults, SettleProven
  <2>4. QED BY <1>5, <2>1, <2>2, <2>3, DispatchIs
<1>6. CASE UNCHANGED <<tx, entry>>
  BY <1>6, OldResults DEF ResultsProvenNext
<1>7. QED BY <1>5, <1>6, ReconcileIs DEF t, batch

LEMMA PollProven ==
  ASSUME Base, Signals, SurvivorsReported, ResultsProven, [Next]_vars, PollOutcome
  PROVE  ResultsProvenNext
<1>0. tx \in TxType /\ TInv
  BY DEF Base, TInv, Types, TxTypes
<1>1. CASE Expected(Head(outcomes).req)
  <2> DEFINE told == Head(outcomes).told
             u == Answered(tx, told)
  <2>1. /\ 1 \in 1..Len(outcomes) /\ Head(outcomes) = outcomes[1] /\ told = outcomes[1].told
        /\ told \in SUBSET Results
    <3>1. outcomes # <<>>
      BY DEF PollOutcome
    <3>2. 1 \in 1..Len(outcomes) /\ Head(outcomes) = outcomes[1]
      BY <1>0, <3>1, PlanTypes, Taken
    <3>3. QED BY <1>0, <3>2, PlanTypes
  <2>2. Waiting /\ outcomes[1].req = tx.request
    BY <1>1, <2>1 DEF Expected, Waiting
  <2>3. tx.id \in 1..MaxTx
    BY <1>0, <2>2, WaitingIsThere, Constants DEF Waiting, TxType
  <2>4. Settle(u, entry)
    BY <1>1 DEF PollOutcome
  <2>5. \A x \in told : x[1] \in Procs /\ (x[2] \in GoneKinds => Departed(x[1]))
    BY <2>1 DEF Base, Births, ToldTrue, Truthful
  <2>6. \A x \in told : x[2] = "Survived" => sent[tx.id][x[1]] # 0
    BY <2>1, <2>2 DEF SurvivorsReported
  <2> HIDE DEF told
  <2>7. ASSUME NEW x \in told PROVE ProvenNext(tx.id, x)
    <3>1. x \in Results
      BY <2>1, <2>7
    <3>2. Proven(tx.id, x)
      BY <2>3, <2>5, <2>6, <2>7, Constants DEF Proven
    <3>3. QED BY <3>1, <3>2, ProvenStays
  <2>8. u.id = tx.id /\ u.results = tx.results \cup Known(tx, told)
    BY <1>0, <2>1, AnsweredFields DEF SameTx
  <2> HIDE DEF u
  <2>9. \A x \in u.results : ProvenNext(u.id, x)
    BY <2>7, <2>8, OldResults DEF Known
  <2>10. QED BY <2>4, <2>9, OldResults, SettleProven
<1>2. CASE ~Expected(Head(outcomes).req)
  BY <1>2, OldResults DEF PollOutcome, ResultsProvenNext
<1>3. QED BY <1>1, <1>2

LEMMA ExpireProven ==
  ASSUME Base, Signals, ResultsProven, [Next]_vars, Expire
  PROVE  ResultsProvenNext
<1> DEFINE u == Ended(tx)
<1>1. u.id = tx.id /\ u.results = tx.results \cup {<<p, "DeadlineExpired">> : p \in tx.pending}
  BY EndedFields DEF Base, TInv, Types, TxTypes, SameTx
<1>2. Settle(u, entry)
  BY ExpireIs DEF Base
<1> HIDE DEF u
<1>3. \A x \in u.results : x \in tx.results \/ x[2] = "DeadlineExpired"
  BY <1>1, ResultOf
<1>4. \A x \in u.results : ProvenNext(u.id, x)
  BY <1>1, <1>3, OldResults, NewResults
<1>5. QED BY <1>2, <1>4, OldResults, SettleProven

LEMMA ReceiveProven ==
  ASSUME Base, Signals, Letters, ResultsProven, [Next]_vars, ReceiveOwned
  PROVE  ResultsProvenNext
<1>0. tx \in TxType /\ TInv
  BY DEF Base, TInv, Types, TxTypes
<1>1. mail # <<>> /\ child' = child
  BY ReceiveIs DEF worldVars
<1>2. Head(mail).kind \in {"Reaped", "Finished"} => child' = "reaped"
  <2>1. mail \in Seq(Mail)
    BY <1>0 DEF TInv, Types, RunTypes
  <2>2. Head(mail) = mail[1] /\ 1 \in 1..Len(mail)
    BY <1>1, <2>1, Taken
  <2>3. QED BY <1>1, <2>2 DEF Letters
<1>3. ASSUME NEW kind \in Kinds, Settle(EndOwned(tx, kind), entry),
             kind = "Refused" \/ (kind \in GoneKinds /\ child' = "reaped")
      PROVE  ResultsProvenNext
  <2> DEFINE u == EndOwned(tx, kind)
  <2>1. u.id = tx.id /\ u.results = tx.results \cup OwnedResults(kind)
    BY <1>0, EndOwnedFields
  <2> HIDE DEF u
  <2>2. \A x \in u.results : x \in tx.results \/ (x[1] \in Owned /\ x[2] = kind)
    BY <2>1, ResultOf DEF OwnedResults
  <2>3. \A x : x[1] \in Owned /\ x[2] = kind => ProvenNext(tx.id, x)
    BY <1>3 DEF ProvenNext, GoneKinds
  <2>4. \A x \in u.results : ProvenNext(u.id, x)
    BY <2>1, <2>2, <2>3, OldResults
  <2>5. QED BY <1>3, <2>4, OldResults, SettleProven DEF u
<1>4. CASE tx' = Reaping(tx) /\ UNCHANGED entry
  <2>1. tx'.id = tx.id /\ tx'.results = tx.results
    BY <1>0, <1>4, ReapingFields
  <2>2. QED BY <1>4, <2>1, OldResults DEF ResultsProvenNext
<1>5. CASE UNCHANGED <<tx, entry>>
  BY <1>5, OldResults DEF ResultsProvenNext
<1>6. ASSUME NEW kind \in {"Failed", "Reaped"}, Head(mail).kind = kind
      PROVE  EndKind(kind) = "Refused" \/ (EndKind(kind) \in GoneKinds /\ child' = "reaped")
  BY <1>2, <1>6 DEF EndKind, GoneKinds
<1>7. "GoneAfterSignaling" \in GoneKinds
  BY DEF GoneKinds
<1>8. QED BY <1>2, <1>3, <1>4, <1>5, <1>6, <1>7, ReceiveIs, EndKinds

LEMMA MonitorProven ==
  ASSUME Base, Signals, ResultsProven, [Next]_vars, Monitor
  PROVE  ResultsProvenNext
<1>1. tx' = tx
  BY DEF Monitor, SwitchOff, SwitchOn, Classify, LoseSnapshot, MonitorFrame
<1>2. \A s \in Sessions : entry'[s] = entry[s] \/ entry'[s] = NoEntry
  BY DEF Monitor, SwitchOff, SwitchOn, Classify, LoseSnapshot, Forget
<1>3. NoEntry.of = {}
  BY DEF NoEntry
<1>4. QED BY <1>1, <1>2, <1>3, OldResults DEF ResultsProvenNext

LEMMA EvidenceStep ==
  ASSUME Base, Signals, Evidence, [Next]_vars
  PROVE  Evidence'
<1>1. UNCHANGED <<tx, entry>> => ResultsProvenNext
  BY OldResults DEF ResultsProvenNext, Evidence
<1>2. ResultsProvenNext
  <2>1. SUFFICES ASSUME ~UNCHANGED <<tx, entry>> PROVE ResultsProvenNext
    BY <1>1
  <2>2. \/ Monitor \/ (\E S \in SUBSET Sessions : Submit(S)) \/ Reconcile
        \/ PollOutcome \/ Expire \/ ReceiveOwned
    BY <2>1, TxElsewhere
  <2>3. QED
    BY <2>2, SubmitProven, ReconcileProven, PollProven, ExpireProven, ReceiveProven, MonitorProven
       DEF Evidence
<1>3. ResultsProven'
  BY <1>2 DEF ResultsProvenNext, ResultsProven, ProvenNext, Proven, DepartedNext, Departed
<1>4. QED BY <1>3, LettersStep, SurvivorsToldStep, SurvivorsReportedStep DEF Evidence, Base

LEMMA EvidenceInit == Init => Evidence
<1> SUFFICES ASSUME Init PROVE Evidence
  OBVIOUS
<1>1. Len(mail) = 0 /\ Len(plans) = 0 /\ tx = Idle /\ \A s \in Sessions : entry[s].of = {}
  BY DEF Init, NoEntry
<1>2. QED BY <1>1, IdleFields
          DEF Evidence, Letters, SurvivorsTold, SurvivorsReported, ResultsProven, Waiting

\* A result is true of its own transaction: what is called gone has exited, the owned run
\* has been reaped, and a survivor was signalled, by this transaction and not by the one
\* whose outcome comes late.
THEOREM ResultsTrue == Spec => []ResultsHold
<1>1. Base /\ Signals /\ Evidence /\ [Next]_vars => Evidence'
  BY EvidenceStep
<1>2. ASSUME Base, Evidence PROVE ResultsHold
  <2>1. sent \in [1..MaxTx -> [Procs -> Nat]]
    BY <1>2 DEF Base, TInv, Types, WorldTypes
  <2>2. ASSUME NEW t, NEW x, Proven(t, x) PROVE Holds(t, x)
    <3>1. x[2] \in GoneKinds => IF x[1] \in Owned THEN child = "reaped" ELSE ~Running(x[1])
      BY <2>2 DEF Proven, Departed, Running
    <3>2. x[2] = "Survived" => sent[t][x[1]] > 0
      <4>1. SUFFICES ASSUME x[2] = "Survived" PROVE sent[t][x[1]] > 0
        OBVIOUS
      <4>2. x[1] \in Procs /\ t \in 1..MaxTx /\ sent[t][x[1]] # 0
        BY <2>2, <4>1 DEF Proven
      <4>3. QED BY <2>1, <4>2
    <3>3. QED BY <3>1, <3>2 DEF Holds
  <2>3. QED BY <1>2, <2>2 DEF Evidence, ResultsProven, ResultsHold
<1>3. Base /\ Evidence => ResultsHold
  BY <1>2
<1>4. QED BY EvidenceInit, <1>1, <1>3, SignalsAlways, PTL DEF Spec
=============================================================================
