------------------------------ MODULE OwnedRun ------------------------------
(***************************************************************************)
(* The one run Cargo Port starts itself: the application's lifecycle slot, *)
(* the worker thread that alone waits for the child and holds the right to *)
(* signal its process group, and the threads that read the child's output. *)
(*                                                                         *)
(* The application reaches the worker through a command channel guarded by *)
(* an admission lock; everything else comes back through one FIFO channel  *)
(* of events: a line, the outcome of a termination request, the end of the *)
(* run, and Started, which the application itself sends once the worker    *)
(* runs.  Titles and the text of lines are left out.                       *)
(***************************************************************************)
EXTENDS Naturals, Sequences, FiniteSets

CONSTANTS
  MaxId,      \* stands for the largest identity the counter can represent
  MaxLines,   \* lines a run prints (bound)
  MaxStops    \* termination requests per run (bound)

ASSUME OwnedRunAssumption == MaxId \in Nat \ {0} /\ MaxLines \in Nat /\ MaxStops \in Nat

VARIABLES
  nextId,     \* the identity the next run gets
  life, run,  \* the lifecycle, and the run it is about (0: none)
  producer,   \* the run the retained output belongs to (0: no output)
  tail,       \* the last retained line
  kept,       \* lines of this run in the retained output
  replaced,   \* history variable: lines of it a progress line took the place of,
  erased,     \*   and lines of it the user cleared
  starting,   \* the application has started the worker and not sent Started
  worker,     \* the worker thread, between two of its steps
  serving,    \* the run it serves
  child,      \* the root process
  heir,       \* a descendant still holds the output pipes
  printed,    \* lines written to the pipes
  forwarded,  \* lines the readers have sent on
  commands,   \* termination tokens on their way to the worker
  connected,  \* the application still holds the command endpoint
  accepting,  \* OwnedRunCommandAdmission is Accepting
  events,     \* the event channel
  signalled,  \* history variable: the group was signalled
  stops       \* requests made of this run

lineVars == <<tail, kept, replaced, erased>>
slotVars == <<nextId, life, run, producer, lineVars, starting>>
procVars == <<child, heir, printed, forwarded>>
vars == <<slotVars, worker, serving, procVars, commands, connected, accepting, events, signalled, stops>>

Ids    == 1..MaxId
Live   == {"queued", "running", "pending", "stopping"}
Ended  == {"success", "gone", "failed"}
Signal == {"Sent", "ProcessAlreadyReaped", "IdentityNoLongerCurrent", "SignalFailed", "Refused"}
Event  == [kind : {"Started", "Output", "Progress", "Finished"} \cup Signal, run : Ids]

TypeOK ==
  /\ nextId \in Ids
  /\ life \in Live \cup Ended \cup {"absent"} /\ run \in 0..MaxId /\ producer \in 0..MaxId
  /\ tail \in {"none", "text", "line", "done", "killed"}
  /\ kept \in Nat /\ replaced \in Nat /\ erased \in Nat /\ starting \in BOOLEAN
  /\ printed \in Nat /\ forwarded \in Nat /\ stops \in Nat
  /\ serving \in 0..MaxId
  /\ worker \in {"none", "poll", "recv", "signal", "await", "drain", "join"}
  /\ child \in {"none", "alive", "zombie", "reaped"} /\ heir \in BOOLEAN
  /\ commands \in Seq(Ids) /\ connected \in BOOLEAN /\ accepting \in BOOLEAN
  /\ events \in Seq(Event) /\ signalled \in BOOLEAN

Init ==
  /\ nextId = 1 /\ life = "absent" /\ run = 0 /\ producer = 0 /\ tail = "none"
  /\ kept = 0 /\ replaced = 0 /\ erased = 0 /\ starting = FALSE
  /\ worker = "none" /\ serving = 0 /\ child = "none" /\ heir = FALSE /\ printed = 0 /\ forwarded = 0
  /\ commands = <<>> /\ connected = FALSE /\ accepting = FALSE
  /\ events = <<>> /\ signalled = FALSE /\ stops = 0

Send(kind, r) == events' = Append(events, [kind |-> kind, run |-> r])
-----------------------------------------------------------------------------
(* The application thread.                                                 *)

AppFree == ~starting
Taken   == kept + replaced + erased  \* lines of this run it has applied

\* allocate_id: the counter stops short of its last value rather than wrap.
AllocateUnchecked == nextId' = nextId + 1
AllocateWrapping == nextId' = IF nextId = MaxId THEN 1 ELSE nextId + 1
Allocate == nextId < MaxId /\ nextId' = nextId + 1

\* The slip admits a launch while the stopped run is still going down.
FreeOrStopping == life \notin Live \ {"stopping"}
Admits == life \notin Live

\* queue: the retained output of the previous run stays until this one starts.
Queue ==
  /\ AppFree /\ Admits /\ Allocate
  /\ life' = "queued" /\ run' = nextId
  /\ signalled' = FALSE /\ stops' = 0
  /\ UNCHANGED <<producer, lineVars, starting, worker, serving, procVars, commands, connected,
                 accepting, events>>

\* spawn_owned_run_process: spawn, verify the identity, activate, start the worker.
Launch ==
  /\ AppFree /\ life = "queued"
  /\ life' = "running" /\ producer' = run /\ tail' = "text"
  /\ kept' = 0 /\ replaced' = 0 /\ erased' = 0 /\ starting' = TRUE
  /\ worker' = "poll" /\ serving' = run /\ child' = "alive" /\ heir' \in BOOLEAN
  /\ printed' = 0 /\ forwarded' = 0
  /\ commands' = <<>> /\ connected' = TRUE /\ accepting' = TRUE
  /\ UNCHANGED <<nextId, run, events, signalled, stops>>

\* The worker runs by now, and may send first.
SendStarted ==
  /\ starting /\ starting' = FALSE
  /\ Send("Started", run)
  /\ UNCHANGED <<nextId, life, run, producer, lineVars, worker, serving, procVars, commands,
                 connected, accepting, signalled, stops>>

\* The spawn fails, or the identity cannot be verified and the child is discarded.
FailLaunch ==
  /\ AppFree /\ life = "queued"
  /\ life' = "failed" /\ producer' = run /\ tail' = "text"
  /\ UNCHANGED <<nextId, run, kept, replaced, erased, starting, worker, serving, procVars,
                 commands, connected, accepting, events, signalled, stops>>

\* submit_termination with the token of this run, or one a build-stop confirmation
\* kept from an earlier run.  A refused or unlucky attempt changes nothing: the
\* admission lock is only tried, and its holder closes admission in one step.
Honored(token) == token = run
Admitted == accepting
Submit(token) ==
  /\ AppFree /\ life = "running" /\ stops < MaxStops /\ stops' = stops + 1
  /\ Honored(token) /\ Admitted
  /\ commands' = Append(commands, token)
  /\ life' = "pending"
  /\ UNCHANGED <<nextId, run, producer, lineVars, starting, worker, serving, procVars, connected,
                 accepting, events, signalled>>

\* clear_output, which the user reaches only while nothing is running.
ClearOutput ==
  /\ AppFree /\ life \notin {"running", "pending"} /\ producer # 0
  /\ producer' = IF life = "stopping" THEN run ELSE 0
  /\ tail' = "none" /\ kept' = 0 /\ replaced' = 0 /\ erased' = Taken
  /\ life' = IF life \in Live THEN life ELSE "absent"
  /\ run' = IF life \in Live THEN run ELSE 0
  /\ UNCHANGED <<nextId, starting, worker, serving, procVars, commands, connected, accepting,
                 events, signalled, stops>>

Receive(kinds) == /\ AppFree /\ events # <<>> /\ Head(events).kind \in kinds
                  /\ events' = Tail(events)
Current == Head(events).run = run
AppFrame == UNCHANGED <<nextId, run, producer, starting, worker, serving, procVars, commands,
                        accepting, signalled, stops>>

\* acknowledge_started changes nothing, whether its run is current or over.
AcknowledgeStarted ==
  /\ Receive({"Started"})
  /\ AppFrame /\ UNCHANGED <<life, lineVars, connected>>

RecordsUnlessStopping == {"running", "pending"}
Records == {"running", "pending", "stopping"}

\* record_output adds a line; record_progress puts it in place of the last one, be
\* that a line, the launch message or a marker, if there is one.
RecordLine ==
  /\ Receive({"Output", "Progress"})
  /\ \/ /\ Current /\ life \in Records
        /\ tail' = "line"
        /\ IF Head(events).kind = "Progress" /\ tail = "line"
           THEN replaced' = replaced + 1 /\ UNCHANGED kept
           ELSE kept' = kept + 1 /\ UNCHANGED replaced
     \/ /\ ~(Current /\ life \in Records)
        /\ UNCHANGED <<tail, kept, replaced>>
  /\ AppFrame /\ UNCHANGED <<life, erased, connected>>

\* reconcile_termination_outcome; leaving the running state drops the endpoint.
KeepPending(kind) == life
AfterOutcome(kind) == IF kind = "Sent" THEN "stopping" ELSE "running"
ReconcileOutcome ==
  /\ Receive(Signal)
  /\ LET kind == Head(events).kind IN
     IF Current /\ life = "pending"
     THEN /\ life' = AfterOutcome(kind)
          /\ tail' = IF kind = "Sent" /\ tail \notin {"done", "killed"} THEN "killed" ELSE tail
          /\ connected' = (kind # "Sent")
     ELSE UNCHANGED <<life, tail, connected>>
  /\ AppFrame /\ UNCHANGED <<kept, replaced, erased>>

\* finish.
MarkAtTail == IF tail \in {"done", "killed"} THEN tail ELSE "done"
KilledUnmoved == tail
KilledAtEnd == "killed"
Finish ==
  /\ Receive({"Finished"})
  /\ \/ /\ Current /\ life \in {"running", "pending"}
        /\ life' = "success" /\ tail' = MarkAtTail
     \/ /\ Current /\ life = "stopping"
        /\ life' = "gone" /\ tail' = KilledAtEnd
     \/ /\ ~(Current /\ life \in Live \ {"queued"})
        /\ UNCHANGED <<life, tail>>
  /\ connected' = (connected /\ life' \notin Ended)
  /\ AppFrame /\ UNCHANGED <<kept, replaced, erased>>
-----------------------------------------------------------------------------
(* The worker thread.                                                      *)

WorkerFrame == UNCHANGED <<slotVars, serving, heir, printed, forwarded, connected, stops>>

PollKeepsServing ==  \* slip: a reaped child does not end the loop
  /\ worker = "poll" /\ worker' = "recv"
  /\ child' = IF child = "zombie" THEN "reaped" ELSE child
  /\ WorkerFrame /\ UNCHANGED <<commands, accepting, events, signalled>>

\* try_wait: an exited child is reaped here, or in wait once the endpoint is gone.
Poll ==
  /\ worker = "poll"
  /\ \/ child = "zombie" /\ child' = "reaped" /\ worker' = "drain"
     \/ child = "alive" /\ UNCHANGED child /\ worker' = "recv"
  /\ WorkerFrame /\ UNCHANGED <<commands, accepting, events, signalled>>

QuitsAtOnce == "none"
WaitsForChild == "await"

\* recv_timeout yields a token, nothing, or the news that the endpoint is gone.
Recv ==
  /\ worker = "recv"
  /\ IF commands # <<>> THEN worker' = "signal"
     ELSE worker' = IF connected THEN "poll" ELSE WaitsForChild
  /\ WorkerFrame /\ UNCHANGED <<child, commands, accepting, events, signalled>>

AwaitChild ==
  /\ worker = "await" /\ child = "zombie"
  /\ child' = "reaped" /\ worker' = "drain"
  /\ WorkerFrame /\ UNCHANGED <<commands, accepting, events, signalled>>

\* signal: revalidate the root's identity, then signal its group.  The root is not
\* reaped yet, though it may have exited, when platforms differ in what they see.
SignalOutcomes == {"Sent", "IdentityNoLongerCurrent", "SignalFailed"}
SignalGroup ==
  /\ worker = "signal"
  /\ IF Head(commands) = serving
     THEN \E outcome \in SignalOutcomes :
            /\ Send(outcome, serving)
            /\ signalled' = (signalled \/ outcome = "Sent")
     ELSE Send("Refused", Head(commands)) /\ UNCHANGED signalled
  /\ commands' = Tail(commands)
  /\ worker' = "poll"
  /\ WorkerFrame /\ UNCHANGED <<child, accepting>>

\* close_command_admission_after_reap: under the lock, answer what was admitted.
AnswerNone == <<>>
AnswerAdmitted == [i \in 1..Len(commands) |->
                     [kind |-> IF commands[i] = serving THEN "ProcessAlreadyReaped" ELSE "Refused",
                      run  |-> commands[i]]]
CloseAdmission ==
  /\ worker = "drain"
  /\ accepting' = FALSE
  /\ events' = events \o AnswerAdmitted /\ commands' = <<>>
  /\ worker' = "join"
  /\ WorkerFrame /\ UNCHANGED <<child, signalled>>

\* The output readers end when nothing holds the pipes and all was forwarded.
ReadersIgnored == TRUE
ReadersDone == child = "reaped" /\ ~heir /\ forwarded = printed
JoinReaders ==
  /\ worker = "join" /\ ReadersDone
  /\ Send("Finished", serving)
  /\ worker' = "none"
  /\ WorkerFrame /\ UNCHANGED <<child, commands, accepting, signalled>>

Worker == Poll \/ Recv \/ AwaitChild \/ SignalGroup \/ CloseAdmission \/ JoinReaders
-----------------------------------------------------------------------------
(* The processes, and the threads that read their output.                  *)

ProcessFrame == UNCHANGED <<slotVars, worker, serving, commands, connected, accepting, signalled, stops>>

PrintLine ==
  /\ child = "alive" \/ heir
  /\ printed < MaxLines /\ printed' = printed + 1
  /\ ProcessFrame /\ UNCHANGED <<child, heir, forwarded, events>>

ForwardLine ==
  /\ forwarded < printed /\ forwarded' = forwarded + 1
  /\ \E kind \in {"Output", "Progress"} : Send(kind, serving)
  /\ ProcessFrame /\ UNCHANGED <<child, heir, printed>>

ChildExits == child = "alive" /\ child' = "zombie"
              /\ ProcessFrame /\ UNCHANGED <<heir, printed, forwarded, events>>

HeirExits == heir /\ heir' = FALSE
             /\ ProcessFrame /\ UNCHANGED <<child, printed, forwarded, events>>
-----------------------------------------------------------------------------
Application ==
  \/ Queue \/ Launch \/ FailLaunch \/ ClearOutput
  \/ \E token \in Ids : Submit(token)
  \/ SendStarted \/ AcknowledgeStarted \/ RecordLine \/ ReconcileOutcome \/ Finish

Next == Application \/ Worker \/ PrintLine \/ ForwardLine \/ ChildExits \/ HeirExits

Spec == Init /\ [][Next]_vars

\* Threads run, the event loop drains its channel, and a signalled process, with
\* whatever of its group holds the pipes, exits.  Nobody has to launch or to stop,
\* and a run left alone may go on for ever.
Fairness ==
  /\ WF_vars(Worker) /\ WF_vars(ForwardLine)
  /\ WF_vars(SendStarted \/ AcknowledgeStarted \/ RecordLine \/ ReconcileOutcome \/ Finish)
  /\ WF_vars(signalled /\ ChildExits) /\ WF_vars(signalled /\ HeirExits)
LiveSpec == Spec /\ Fairness
-----------------------------------------------------------------------------
(* Properties.                                                             *)

\* "It cannot signal a process group concurrently with reaping the group leader":
\* the group is signalled only while its leader's identity cannot be reused.
SignalsUnreaped == [][signalled' /\ ~signalled => child \in {"alive", "zombie"}]_vars

OutcomeOnItsWay ==
  \/ \E i \in 1..Len(commands) : commands[i] = run
  \/ \E i \in 1..Len(events) : events[i].kind \in Signal /\ events[i].run = run

\* A request the worker accepted is always answered, the one that raced the reaping
\* of the child included: retry authority is never withheld for good.
PendingIsAnswered == life = "pending" => OutcomeOnItsWay

\* Whatever the worker, the readers and the descendants do, Finished comes after every
\* line and every answer of its run; only Started, from another thread, can follow it.
FinishedIsLast ==
  \A i \in 1..Len(events) :
    events[i].kind = "Finished" =>
      /\ \A j \in 1..Len(events) : j > i => events[j].kind = "Started"
      /\ worker = "none" /\ child = "reaped" /\ ~heir /\ forwarded = printed

\* The output of a run that ended has every line its processes printed, up to the last
\* one, but those the user cleared and those a later progress line stands in for.
NoLineLost ==
  life \in {"success", "gone"} =>
    /\ kept + replaced + erased = printed
    /\ erased < printed => kept > 0

\* output_identity_is_valid: output is drawn under the run that produced it, which
\* while the next run is queued is an earlier one.
OutputAttributed ==
  \/ life = "absent" /\ producer = 0
  \/ life = "queued" /\ producer < run
  \/ life \notin {"absent", "queued"} /\ producer = run /\ run # 0

\* The Output pane's last line tells how the run ended, whatever arrived in between.
MarkerIsLast == (life = "success" => tail = "done") /\ (life = "gone" => tail = "killed")

\* Seen from outside the slot keeps the promises of RunSlot.
SlotState == CASE life \in Live -> "live" [] life = "absent" -> "free" [] life = "success" -> "done"
               [] life = "gone" -> "killed" [] life = "failed" -> "failed"
Promise == INSTANCE RunSlot WITH slot <- SlotState, id <- nextId - 1
ImplementsRunSlot == Promise!Spec

\* Every accepted request is resolved, and a run that was signalled frees the slot.
RequestResolved == (life = "pending") ~> (life # "pending")
StoppingEnds == (life = "stopping") ~> (life # "stopping")
=============================================================================
