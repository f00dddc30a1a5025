-------------------------- MODULE BuildTermination --------------------------
(***************************************************************************)
(* Stopping a build.  A confirmed request freezes a set of build sessions: *)
(* external Cargo roots, known to Cargo Port only by identity, and the run *)
(* it started itself.  One transaction at a time then works on them:       *)
(*                                                                         *)
(*   - the process observer looks for the frozen roots and for processes   *)
(*     below them, which the transaction admits as further targets;        *)
(*   - a worker thread signals the leaves of the admitted tree, a root     *)
(*     only once nothing admitted is left below it, and reports what the   *)
(*     bound process handles said afterwards;                              *)
(*   - the owned run is asked through its actor (OwnedRun);                *)
(*   - five seconds after submission whatever is left is given up.         *)
(*                                                                         *)
(* Every frozen session ends with one terminal record.  A session and a    *)
(* target are known here by the identity of their process, which the code  *)
(* never confuses with a later process of the same pid; the counters that  *)
(* number targets are left out, and so are the outcomes of exhausting a    *)
(* 64-bit counter.                                                         *)
(***************************************************************************)
EXTENDS Naturals, Sequences, FiniteSets

CONSTANTS
  Roots,     \* external Cargo roots
  Kids,      \* processes they may start, directly or not
  Owned,     \* the owned run: one element, or none
  MaxTx,     \* transactions (bound)
  Breakable  \* whether the worker thread and the observer may break down

ASSUME TerminationAssumption ==
  /\ Roots \cap Kids = {} /\ Roots \cap Owned = {} /\ Kids \cap Owned = {}
  /\ IsFiniteSet(Roots) /\ IsFiniteSet(Kids) /\ IsFiniteSet(Owned)
  /\ "none" \notin Roots \cup Kids \cup Owned
  /\ MaxTx \in Nat /\ Breakable \in BOOLEAN

VARIABLES
  proc,       \* the external processes: "exited" ones are not yet reaped
  parent,     \* the live parent of a live kid
  sent,       \* history variable: signals sent, per transaction and process
  run,        \* the owned run's slot: running, pending, stopping, over
  child,      \* the owned run's root process: alive or reaped
  asked,      \* the termination request its actor holds, as the set of its authors
  mail,       \* the actor's event channel
  monitoring, \* what the build monitor shows: off, pending, fresh
  entry,      \* BuildTerminationLifecycleRegistry
  lastId,     \* the identity of the newest transaction
  tx,         \* the active transaction
  overdue,    \* transactions whose deadline has passed
  terminator, \* the worker thread: up, stopped, or known to be unavailable
  plans,      \* what it has to do, the plan it works on first
  aim,        \* where it stands with one target
  outcomes,   \* its result channel
  requests,   \* plans made so far
  obs         \* the observation under way

worldVars == <<proc, parent, sent, child>>
workVars == <<terminator, plans, aim, outcomes>>
vars == <<worldVars, run, asked, mail, monitoring, entry, lastId, tx, overdue, workVars, requests, obs>>

Procs    == Roots \cup Kids
Sessions == Roots \cup Owned
None     == "none"
GoneKinds == {"AlreadyGone", "GoneAfterSignaling"}
Kinds     == GoneKinds \cup {"Survived", "Refused", "DeadlineExpired"}
Results   == (Procs \cup Owned) \X Kinds

\* The transaction that is not there, and the terminal record of session s in one
\* that is: DeadlineExpired outweighs a refusal or a survivor, which outweighs the
\* disappearances, whatever the order the results came in.
Idle == [id |-> 0, frozen |-> {}, pending |-> {}, admitted |-> {},
         above |-> [k \in Kids |-> None], top |-> [k \in Kids |-> None], ready |-> {},
         pass |-> "settled", request |-> 0, batch |-> {}, progress |-> "none", results |-> {}]
NoEntry == [at |-> "none", tx |-> 0, is |-> "none", of |-> {}]
Terminating(id) == [NoEntry EXCEPT !.at = "terminating", !.tx = id]

SessionOf(t, p) == IF p \in Kids THEN t.top[p] ELSE p
ResultsFor(t, s) == {x \in t.results : SessionOf(t, x[1]) = s}
Completion(found) ==
  LET kinds == {x[2] : x \in found} IN
  IF "DeadlineExpired" \in kinds THEN "DeadlineExpired"
  ELSE IF kinds \cap {"Survived", "Refused"} # {} \/ kinds = {} THEN "RetryUnavailable"
  ELSE IF "GoneAfterSignaling" \in kinds THEN "GoneAfterSignaling" ELSE "AlreadyGone"
Terminal(t, s) == [at |-> "terminal", tx |-> t.id, is |-> Completion(ResultsFor(t, s)),
                   of |-> ResultsFor(t, s)]

NoObs   == [at |-> "none", tx |-> 0, roots |-> {}, known |-> {}, gone |-> {}, here |-> {},
            astray |-> {}, fresh |-> {}, above |-> [k \in Kids |-> None],
            top |-> [k \in Kids |-> None]]
NoAim   == [at |-> "idle", of |-> None]
Tree    == [Kids -> Procs \cup {None}]

TypeOK ==
  /\ proc \in [Procs -> {"unborn", "live", "exited", "gone"}] /\ parent \in Tree
  /\ sent \in [1..MaxTx -> [Procs -> Nat]]
  /\ run \in {"running", "pending", "stopping", "over"} /\ child \in {"alive", "reaped"}
  /\ asked \in SUBSET (0..MaxTx)
  /\ mail \in Seq([kind : {"Sent", "Failed", "Reaped", "Finished"}, by : 0..MaxTx])
  /\ monitoring \in {"off", "pending", "fresh"}
  /\ entry \in [Sessions -> [at : {"none", "terminating", "terminal"}, tx : 0..MaxTx,
                  is : {"none", "RetryUnavailable"} \cup (Kinds \ {"Survived", "Refused"}),
                  of : SUBSET Results]]
  /\ lastId \in 0..MaxTx /\ overdue \subseteq 1..MaxTx /\ requests \in Nat
  /\ tx \in [id : 0..MaxTx, frozen : SUBSET Sessions, pending : SUBSET (Procs \cup Owned),
             admitted : SUBSET Kids, above : Tree, top : Tree, ready : SUBSET Procs,
             pass : {"observe", "worker", "settled"}, request : Nat, batch : SUBSET Procs,
             progress : {"none", "outcome", "reap"}, results : SUBSET Results]
  /\ terminator \in {"up", "stopped", "unavailable"}
  /\ plans \in Seq([req : Nat, tx : 1..MaxTx, left : SUBSET Procs, told : SUBSET Results])
  /\ aim \in [at : {"idle", "admitted", "waiting"}, of : Procs \cup {None}]
  /\ outcomes \in Seq([req : Nat, told : SUBSET Results])
  /\ obs \in [at : {"none", "asked", "seen", "down"}, tx : 0..MaxTx, roots : SUBSET Roots,
              known : SUBSET Kids, gone : SUBSET Procs, here : SUBSET Roots,
              astray : SUBSET Roots, fresh : SUBSET Kids, above : Tree, top : Tree]

Init ==
  /\ proc = [p \in Procs |-> IF p \in Roots THEN "live" ELSE "unborn"]
  /\ parent = [k \in Kids |-> None]
  /\ sent = [t \in 1..MaxTx |-> [p \in Procs |-> 0]]
  /\ run = "running" /\ child = "alive" /\ asked = {} /\ mail = <<>>
  /\ monitoring = "pending" /\ entry = [s \in Sessions |-> NoEntry]
  /\ lastId = 0 /\ tx = Idle /\ overdue = {} /\ requests = 0
  /\ terminator = "up" /\ plans = <<>> /\ aim = NoAim /\ outcomes = <<>>
  /\ obs = NoObs
-----------------------------------------------------------------------------
(* The processes, which Cargo Port does not control.                       *)

Running(p) == proc[p] = "live"
Present(p) == proc[p] \in {"live", "exited"}

Fork(p, k) ==
  /\ Running(p) /\ proc[k] = "unborn"
  /\ proc' = [proc EXCEPT ![k] = "live"] /\ parent' = [parent EXCEPT ![k] = p]
  /\ UNCHANGED <<sent, child, run, asked, mail, monitoring, entry, lastId, tx, overdue, workVars,
                 requests, obs>>

\* A process exits and its children lose their place below a root.
Exit(p) ==
  /\ Running(p)
  /\ proc' = [proc EXCEPT ![p] = "exited"]
  /\ parent' = [k \in Kids |-> IF parent[k] = p THEN None ELSE parent[k]]
  /\ UNCHANGED <<sent, child, run, asked, mail, monitoring, entry, lastId, tx, overdue, workVars,
                 requests, obs>>

\* Somebody reaps it: only now does it leave the process table.
Reap(p) ==
  /\ proc[p] = "exited" /\ proc' = [proc EXCEPT ![p] = "gone"]
  /\ UNCHANGED <<parent, sent, child, run, asked, mail, monitoring, entry, lastId, tx, overdue,
                 workVars, requests, obs>>
-----------------------------------------------------------------------------
(* The build monitor and its registry of terminal records.                 *)

MonitorFrame == UNCHANGED <<worldVars, run, asked, mail, lastId, tx, overdue, workVars, requests, obs>>

ForgetAny(s) == TRUE
Forgettable(s) == entry[s].at = "terminal"
Forget(those) ==
  entry' = [s \in Sessions |-> IF s \in those /\ Forgettable(s) THEN NoEntry ELSE entry[s]]

SwitchOff == monitoring' = "off" /\ Forget(Sessions) /\ MonitorFrame
SwitchOn == monitoring = "off" /\ monitoring' = "pending" /\ UNCHANGED entry /\ MonitorFrame

\* record_classification: rows of a session, or of another in its checkout, replace
\* the record of how it ended.
Classify(replaced) ==
  /\ monitoring # "off" /\ monitoring' = "fresh" /\ Forget(replaced) /\ MonitorFrame

\* A failed cycle, or a new scope that keeps or drops what is on the screen.
LoseSnapshot(dropped) ==
  /\ monitoring = "fresh" /\ monitoring' = "pending"
  /\ dropped \in {{}, Sessions} /\ Forget(dropped) /\ MonitorFrame
-----------------------------------------------------------------------------
(* The transaction, on the application thread.                             *)

\* complete_terminal_transaction and the wrappers of BuildMonitor around it: the last
\* target to leave completes the transaction; nothing stays shown with monitoring off.
KeepRecord(record) == record
Shown(record) == IF monitoring = "off" THEN NoEntry ELSE record
Settle(t, marked) ==
  IF t.pending # {}
  THEN tx' = t /\ entry' = marked
  ELSE /\ tx' = Idle
       /\ entry' = [s \in Sessions |->
            IF marked[s].at = "terminating" /\ marked[s].tx = t.id
            THEN Shown(Terminal(t, s)) ELSE marked[s]]

External(t) == t.pending \cap Procs

\* complete_owned_target
EndOwned(t, kind) ==
  [t EXCEPT !.progress = "none", !.pending = @ \ Owned,
            !.results = @ \cup {<<o, kind>> : o \in Owned}]

\* submit_termination of the owned run: see OwnedRun.
AcceptsAnother == run \in {"running", "pending"} /\ child = "alive"
Accepts == run = "running" /\ child = "alive"

NextId == lastId + 1
FreeUnchecked == lastId <= MaxTx
Free == lastId < MaxTx

\* submit_targets and, in the same call of the application, submit_owned_targets.
\* The sessions are those a confirmation froze, from rows that may be out of date.
Submit(S) ==
  /\ monitoring = "fresh" /\ terminator # "unavailable" /\ tx.id = 0
  /\ Free /\ lastId' = NextId
  /\ LET t == [Idle EXCEPT !.id = NextId, !.frozen = S, !.pending = S, !.ready = S \cap Roots,
                           !.pass = IF S \cap Roots = {} THEN "settled" ELSE "observe"]
         marked == [s \in Sessions |-> IF s \in S THEN Terminating(t.id) ELSE entry[s]]
     IN  \/ S \cap Owned = {} /\ Settle(t, marked) /\ UNCHANGED <<run, asked>>
         \/ /\ S \cap Owned # {} /\ Accepts
            /\ run' = "pending" /\ asked' = asked \cup {t.id}
            /\ Settle([t EXCEPT !.progress = "outcome"], marked)
         \/ /\ S \cap Owned # {} /\ ~Accepts
            /\ Settle(EndOwned(t, "Refused"), marked) /\ UNCHANGED <<run, asked>>
  /\ UNCHANGED <<worldVars, mail, monitoring, overdue, workVars, requests, obs>>

\* termination_observation_demand, taken when the executor dispatches a cycle; only
\* one cycle is ever under way.
Ask ==
  /\ obs.at = "none" /\ tx.pass = "observe"
  /\ obs' = [NoObs EXCEPT !.at = "asked", !.tx = tx.id, !.roots = tx.frozen \cap Roots,
                          !.known = tx.admitted]
  /\ UNCHANGED <<worldVars, run, asked, mail, monitoring, entry, lastId, tx, overdue, workVars, requests>>

\* observed_gone_result
SeenGone(t, p) == IF p \in t.ready THEN "AlreadyGone" ELSE "GoneAfterSignaling"

\* reconcile_observed_roots: a root outside its frozen scope is never signalled again.
ObservedRoots(t, o) ==
  LET gone == o.gone \cap t.frozen \cap t.pending
      lost == o.astray \cap t.frozen \cap t.ready
  IN  [t EXCEPT !.pending = @ \ gone, !.ready = @ \ lost,
                !.results = @ \cup {<<r, SeenGone(t, r)>> : r \in gone}
                              \cup {<<r, "Refused">> : r \in lost \cap t.pending}]

\* reconcile_observed_descendants
Unrecorded(t, gone) == {}
GoneResults(t, gone) == {<<k, SeenGone(t, k)>> : k \in gone \cap t.pending}
ObservedKids(t, o) ==
  LET gone == o.gone \cap t.admitted
  IN  [t EXCEPT !.admitted = @ \ gone, !.pending = @ \ gone, !.ready = @ \ gone,
                !.results = @ \cup GoneResults(t, gone)]

\* admit_new_descendants
Admit(t, o) ==
  LET new == {k \in o.fresh \ t.admitted : o.top[k] \in t.pending}
  IN  [t EXCEPT !.admitted = @ \cup new, !.pending = @ \cup new, !.ready = @ \cup new,
                !.above = [k \in Kids |-> IF k \in new THEN o.above[k] ELSE @[k]],
                !.top = [k \in Kids |-> IF k \in new THEN o.top[k] ELSE @[k]]]

\* next_external_execution_targets: the ready leaves, and the ready roots with nothing
\* admitted left below them.
LeavesOnly(t, p) == ~\E k \in t.admitted \cap t.pending : t.above[k] = p
NothingBelow(t, p) == ~\E k \in t.admitted \cap t.pending : p \in {t.above[k], t.top[k]}
Targets(t, o) ==
  {p \in t.ready \cap ((t.admitted \cap t.pending) \cup (t.frozen \cap o.here)) : NothingBelow(t, p)}

\* dispatch_external_pass, mark_external_worker_failure
Abandoned(t) == "settled"
PassOf(t) == IF External(t) # {} THEN "observe" ELSE "settled"
Unspent(t, batch) == t
Spent(t, batch) == [t EXCEPT !.ready = @ \ batch]
Dispatch(t, batch) ==
  \/ /\ batch = {}
     /\ Settle([t EXCEPT !.pass = PassOf(t)], entry) /\ UNCHANGED <<plans, requests>>
  \/ /\ batch # {} /\ terminator = "up"
     /\ requests' = requests + 1
     /\ plans' = Append(plans, [req |-> requests', tx |-> t.id, left |-> batch, told |-> {}])
     /\ tx' = [Spent(t, batch) EXCEPT !.pass = "worker", !.request = requests', !.batch = batch]
     /\ UNCHANGED entry
  \/ /\ batch # {} /\ terminator = "stopped"
     /\ requests' = requests + 1
     /\ Settle([Spent(t, batch) EXCEPT !.pass = "observe",
                  !.results = @ \cup {<<p, "Refused">> : p \in batch \cap t.pending}], entry)
     /\ UNCHANGED plans

\* reconcile_termination_observation, for the transaction that asked and no other;
\* without a worker known to be there the observation is thrown away.
Awaited(o) == tx.id = o.tx /\ tx.pass = "observe"
Reconcile ==
  /\ obs.at = "seen" /\ obs' = NoObs
  /\ IF terminator # "unavailable" /\ Awaited(obs)
     THEN LET t == Admit(ObservedKids(ObservedRoots(tx, obs), obs), obs)
          IN  Dispatch(t, Targets(t, obs))
     ELSE UNCHANGED <<tx, entry, plans, requests>>
  /\ UNCHANGED <<worldVars, run, asked, mail, monitoring, lastId, overdue, terminator, aim, outcomes>>

\* reconcile_external_outcome, for the request that is awaited and no other.
AnyRequest(req) == tx.pass = "worker"
Expected(req) == tx.pass = "worker" /\ tx.request = req
Answered(t, told) ==
  LET known == {x \in told : x[1] \in t.batch \cap t.pending}
      gone == {x[1] : x \in {y \in known : y[2] \in GoneKinds}}
      left == [t EXCEPT !.results = @ \cup known, !.pending = @ \ gone, !.admitted = @ \ gone,
                        !.request = 0, !.batch = {}]
  IN  [left EXCEPT !.pass = PassOf(left)]
PollOutcome ==
  /\ terminator # "unavailable" /\ outcomes # <<>> /\ outcomes' = Tail(outcomes)
  /\ IF Expected(Head(outcomes).req)
     THEN Settle(Answered(tx, Head(outcomes).told), entry)
     ELSE UNCHANGED <<tx, entry>>
  /\ UNCHANGED <<worldVars, run, asked, mail, monitoring, lastId, overdue, terminator, plans, aim,
                 requests, obs>>

\* poll_process_termination_outcome finds the channel empty and closed.
NoticeStopped ==
  /\ terminator = "stopped" /\ outcomes = <<>> /\ terminator' = "unavailable"
  /\ UNCHANGED <<worldVars, run, asked, mail, monitoring, entry, lastId, tx, overdue, plans, aim,
                 outcomes, requests, obs>>

DeadlinePasses ==
  /\ tx.id \notin overdue \cup {0} /\ overdue' = overdue \cup {tx.id}
  /\ UNCHANGED <<worldVars, run, asked, mail, monitoring, entry, lastId, tx, workVars, requests, obs>>

\* expire.  The tick empties the result channel first, but an outcome may still come
\* in between.
GivenUpExternal(t) == External(t)
GivenUp(t) == t.pending
Expire ==
  /\ tx.id \in overdue
  /\ Settle([tx EXCEPT !.pending = @ \ GivenUp(tx),
                       !.results = @ \cup {<<p, "DeadlineExpired">> : p \in GivenUp(tx)}], entry)
  /\ UNCHANGED <<worldVars, run, asked, mail, monitoring, lastId, overdue, workVars, requests, obs>>

\* poll_example_msgs: the slot takes an event first, then reconcile_owned_outcome or
\* reconcile_owned_finished does.
SlotAfter(kind) ==
  CASE kind = "Finished" -> "over"
    [] kind = "Sent" /\ run = "pending" -> "stopping"
    [] kind \in {"Failed", "Reaped"} /\ run = "pending" -> "running"
    [] OTHER -> run
ReceiveOwned ==
  /\ mail # <<>> /\ mail' = Tail(mail)
  /\ LET kind == Head(mail).kind IN
     /\ run' = SlotAfter(kind)
     /\ \/ /\ tx.progress = "outcome" /\ kind = "Sent"
           /\ tx' = [tx EXCEPT !.progress = "reap"] /\ UNCHANGED entry
        \/ /\ tx.progress = "outcome" /\ kind \in {"Failed", "Reaped"}
           /\ Settle(EndOwned(tx, IF kind = "Failed" THEN "Refused" ELSE "AlreadyGone"), entry)
        \/ /\ tx.progress = "reap" /\ kind = "Finished"
           /\ Settle(EndOwned(tx, "GoneAfterSignaling"), entry)
        \/ /\ tx.progress = "none" \/ (tx.progress = "outcome") = (kind = "Finished")
           /\ UNCHANGED <<tx, entry>>
  /\ UNCHANGED <<worldVars, asked, monitoring, lastId, overdue, workVars, requests, obs>>
-----------------------------------------------------------------------------
(* The worker thread of ProcessTerminator.                                 *)

WorkerFrame == UNCHANGED <<proc, parent, child, run, asked, mail, monitoring, entry, lastId, tx,
                           overdue, terminator, requests, obs>>
Tell(p, kind) ==
  /\ plans' = [plans EXCEPT ![1].left = @ \ {p}, ![1].told = @ \cup {<<p, kind>>}]
  /\ aim' = NoAim

\* Deepest first, which puts the roots last; the deadline is looked at once per target,
\* then its identity and image are compared with what was authorized.
MayTake(p, left) == p \in left /\ (p \in Roots => left \cap Kids = {})
Take(p) ==
  /\ terminator = "up" /\ plans # <<>> /\ aim = NoAim /\ MayTake(p, plans[1].left)
  /\ \/ plans[1].tx \in overdue /\ Tell(p, "DeadlineExpired")
     \/ plans[1].tx \notin overdue /\ ~Running(p) /\ Tell(p, "AlreadyGone")
     \/ plans[1].tx \notin overdue /\ Present(p) /\ Tell(p, "Refused")
     \/ /\ plans[1].tx \notin overdue /\ Running(p)
        /\ aim' = [at |-> "admitted", of |-> p] /\ UNCHANGED plans
  /\ WorkerFrame /\ UNCHANGED <<sent, outcomes>>

\* deliver_one_bound_signal: one SIGTERM through the bound handle, which a process that
\* is already reaped does not take.
Signal ==
  /\ terminator = "up" /\ aim.at = "admitted"
  /\ \/ /\ Present(aim.of)
        /\ sent' = [sent EXCEPT ![plans[1].tx][aim.of] = @ + 1]
        /\ aim' = [aim EXCEPT !.at = "waiting"] /\ UNCHANGED plans
     \/ ~Present(aim.of) /\ Tell(aim.of, "AlreadyGone") /\ UNCHANGED sent
  /\ WorkerFrame /\ UNCHANGED outcomes

\* confirm_process_object_gone: it goes, or two seconds or the deadline run out first;
\* a wait that fails counts as one that runs out.
Confirm ==
  /\ terminator = "up" /\ aim.at = "waiting"
  /\ \E kind \in {"Survived"} \cup (IF Running(aim.of) THEN {} ELSE {"GoneAfterSignaling"}) :
       Tell(aim.of, kind)
  /\ WorkerFrame /\ UNCHANGED <<sent, outcomes>>

Report ==
  /\ terminator = "up" /\ plans # <<>> /\ plans[1].left = {}
  /\ outcomes' = Append(outcomes, [req |-> plans[1].req, told |-> plans[1].told])
  /\ plans' = Tail(plans)
  /\ WorkerFrame /\ UNCHANGED <<sent, aim>>

Worker == (\E p \in Procs : Take(p)) \/ Signal \/ Confirm \/ Report

WorkerStops ==
  /\ Breakable /\ terminator = "up" /\ terminator' = "stopped"
  /\ plans' = <<>> /\ aim' = NoAim
  /\ UNCHANGED <<worldVars, run, asked, mail, monitoring, entry, lastId, tx, overdue, outcomes,
                 requests, obs>>
-----------------------------------------------------------------------------
(* The process observer's worker thread.                                   *)

\* The processes a kid descends from, its parent's first.
Below(k) ==
  LET up[n \in 0..Cardinality(Kids)] ==
        IF n = 0 THEN {parent[k]} ELSE up[n - 1] \cup {parent[q] : q \in up[n - 1] \cap Kids}
  IN  up[Cardinality(Kids)] \cap Roots

\* observe_build_termination_demand, on a snapshot taken now.  An exited process is
\* still listed, but nobody can read its working directory any more, which leaves a
\* root outside its scope and a candidate unadmitted; the directory of a live one may
\* be elsewhere or unreadable too, and a live kid may be of a kind that is never
\* admitted, or not be actionable.
Look ==
  /\ obs.at = "asked"
  /\ \E here \in SUBSET {r \in obs.roots : Running(r)} :
     LET below == [k \in Kids |-> IF Running(k) /\ k \notin obs.known THEN Below(k) \cap here ELSE {}]
     IN \E fresh \in SUBSET {k \in Kids : below[k] # {}} :
          obs' = [obs EXCEPT !.at = "seen", !.here = here,
                    !.astray = {r \in obs.roots : Present(r)} \ here,
                    !.gone = {p \in obs.roots \cup obs.known : proc[p] = "gone"},
                    !.fresh = fresh,
                    !.above = [k \in Kids |-> IF k \in fresh THEN parent[k] ELSE None],
                    !.top = [k \in Kids |-> IF k \in fresh THEN CHOOSE r \in below[k] : TRUE ELSE None]]
  /\ UNCHANGED <<worldVars, run, asked, mail, monitoring, entry, lastId, tx, overdue, workVars, requests>>

\* The observer's thread is lost: every later cycle fails at once.
ObserverStops ==
  /\ Breakable /\ obs.at # "down" /\ obs' = [NoObs EXCEPT !.at = "down"]
  /\ UNCHANGED <<worldVars, run, asked, mail, monitoring, entry, lastId, tx, overdue, workVars, requests>>
-----------------------------------------------------------------------------
(* The owned run's actor, in the little of OwnedRun that matters here.     *)

OwnedFrame == UNCHANGED <<proc, parent, sent, monitoring, entry, lastId, tx, overdue, workVars,
                          requests, obs>>

\* The Output pane can stop the run as well.
StopOwned == /\ Owned # {} /\ Accepts /\ run' = "pending" /\ asked' = asked \cup {0}
             /\ OwnedFrame /\ UNCHANGED <<child, mail>>

ActorSignals ==
  /\ child = "alive" /\ asked' = {}
  /\ \E by \in asked, kind \in {"Sent", "Failed"} : mail' = Append(mail, [kind |-> kind, by |-> by])
  /\ OwnedFrame /\ UNCHANGED <<run, child>>

\* The child is reaped, a request that is still there is answered, and the run is over.
ActorReaps ==
  /\ Owned # {} /\ child = "alive" /\ child' = "reaped" /\ asked' = {}
  /\ \E last \in IF asked = {} THEN {<<>>} ELSE {<<[kind |-> "Reaped", by |-> by]>> : by \in asked} :
       mail' = mail \o last \o <<[kind |-> "Finished", by |-> 0]>>
  /\ OwnedFrame /\ UNCHANGED run
-----------------------------------------------------------------------------
Processes == \/ \E p \in Procs, k \in Kids : Fork(p, k)
             \/ \E p \in Procs : Exit(p) \/ Reap(p)
Monitor == \/ SwitchOff \/ SwitchOn
           \/ \E those \in SUBSET Sessions : Classify(those) \/ LoseSnapshot(those)
Transaction == \/ \E S \in SUBSET Sessions \ {{}} : Submit(S)
               \/ Ask \/ Reconcile \/ PollOutcome \/ NoticeStopped
               \/ DeadlinePasses \/ Expire \/ ReceiveOwned
Actor == StopOwned \/ ActorSignals \/ ActorReaps

Next == Processes \/ Monitor \/ Transaction \/ Worker \/ WorkerStops \/ Look \/ ObserverStops \/ Actor

Spec == Init /\ [][Next]_vars

\* The event loop ticks, the threads run and answer while they are there.  Nothing
\* makes a process exit, be reaped or be stopped, and no fairness is put on the
\* deadline: what happens before it does not lean on it.
Fairness ==
  /\ WF_vars(Ask \/ Look \/ Reconcile) /\ WF_vars(PollOutcome) /\ WF_vars(Worker)
  /\ WF_vars(Expire) /\ WF_vars(ReceiveOwned)
LiveSpec == Spec /\ Fairness
-----------------------------------------------------------------------------
(* Properties.                                                             *)

\* "Exactly one graceful signal": no transaction signals a process twice, however
\* often it is observed, and however many passes it takes.
OneSignalEach == \A t \in 1..MaxTx, p \in Procs : sent[t][p] <= 1

\* Leaves first, as far as the code goes: when a process is signalled no descendant the
\* transaction admitted with this process as its parent, or as its root, is still to go,
\* though the observer may have found more since the plan was made.  It is not so of a
\* deeper descendant of an admitted one, when the process between them is excluded.
LeavesFirst ==
  [][\A p \in Procs : tx.id # 0 /\ sent'[tx.id][p] # sent[tx.id][p]
       => ~\E k \in tx.admitted \cap tx.pending : p \in {tx.above[k], tx.top[k]}]_vars

\* What a result says happened in its own transaction: a target called gone has exited,
\* a survivor was signalled.
Holds(t, x) ==
  /\ x[2] \in GoneKinds => IF x[1] \in Owned THEN child = "reaped" ELSE ~Running(x[1])
  /\ x[2] = "Survived" => sent[t][x[1]] > 0
ResultsHold ==
  /\ \A x \in tx.results : Holds(tx.id, x)
  /\ \A s \in Sessions : \A x \in entry[s].of : Holds(entry[s].tx, x)

\* No target is forgotten: until it has a result it is pending, and no session is left
\* to the TransactionResultUnavailable of a transaction that lost track of it.
NoTargetForgotten ==
  /\ \A p \in tx.frozen \cup {k \in Kids : tx.top[k] # None} :
       p \in tx.pending \/ \E x \in tx.results : x[1] = p
  /\ \A s \in Sessions : entry[s].at = "terminal" => \E x \in entry[s].of : x[1] = s

\* The registry shows Terminating for the sessions of the active transaction, all of
\* them and no other: none is lost to a fresh snapshot, none waits for ever.
TerminatingIsActive ==
  \A s \in Sessions : /\ (entry[s].at = "terminating") = (s \in tx.frozen)
                      /\ entry[s].at = "terminating" => entry[s].tx = tx.id

\* With monitoring off no terminal record is kept, not even of a transaction that
\* outlived the switch.
OffKeepsNothing == monitoring = "off" => \A s \in Sessions : entry[s].at # "terminal"

\* The owned run's answer that advances a transaction is the answer to its own request.
OwnAnswer ==
  [][tx.progress = "outcome" /\ mail # <<>> /\ mail' = Tail(mail) /\ Head(mail).kind # "Finished"
       => Head(mail).by = tx.id]_vars

\* A transaction does not outlive its deadline, whatever has broken down.
DeadlineEnds == (tx.id \in overdue) ~> (tx.id = 0)

\* Nor does it wait for the deadline once everything it is about is gone, with both
\* threads at work: it completes, or an observation made before brings more targets.
AllGone == /\ tx.id # 0 /\ obs.at # "down" /\ terminator = "up"
           /\ \A p \in tx.pending : IF p \in Owned THEN child = "reaped" ELSE proc[p] = "gone"
GoneSettles == AllGone ~> ~AllGone

\* process_termination/mod.rs:230 says "No signal was delivered" of a refusal, and :197
\* of its DeadlineExpired "arrived before this target's pass began".
RefusedIsUnsignalled ==
  \A s \in Sessions : \A x \in entry[s].of :
    x[1] \in Procs /\ x[2] \in {"Refused", "DeadlineExpired"} => sent[entry[s].tx][x[1]] = 0
=============================================================================
