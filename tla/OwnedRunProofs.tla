-------------------------- MODULE OwnedRunProofs --------------------------
(***************************************************************************)
(* Proofs about OwnedRun, for any number of launches, of lines and of      *)
(* termination requests: every safety property the module states, and that *)
(* the slot keeps the promises of RunSlot.                                 *)
(*                                                                         *)
(* The argument: while a run is active its worker and every event in the   *)
(* channel are that run's, but for Started events of earlier runs; of one  *)
(* request at most, either the token or the outcome is under way; and the  *)
(* lines in the channel are those forwarded and not taken yet.  Otherwise  *)
(* nothing moves.                                                          *)
(***************************************************************************)
EXTENDS OwnedRun, SequenceTheorems, FunctionTheorems, FiniteSetTheorems, TLAPS

Active == life \in {"running", "pending", "stopping"}
Lines == {"Output", "Progress"}
LineIndexes(q) == {i \in 1..Len(q) : q[i].kind \in Lines}

\* Between two runs no thread of the last one is left, nor an event that says anything.
OnlyStarted == \A i \in 1..Len(events) : events[i].kind = "Started"
Quiet ==
  /\ worker = "none" /\ OnlyStarted /\ child \in {"none", "reaped"}
  /\ ~heir /\ forwarded = printed
QuietUnlessActive == Active \/ Quiet

SlotIds ==
  /\ run < nextId /\ (life # "absent" => run \in Ids)
  /\ (life = "absent" => run = 0)

\* What is under way while a run is active is that run's.
Serves ==
  /\ Active => /\ serving = run
               /\ \A i \in 1..Len(events) : events[i].kind # "Started" => events[i].run = run
  /\ starting => run \in Ids

\* The child is reaped after the last chance to signal it, and nothing is admitted after that.
WorkerState ==
  /\ worker \in {"poll", "recv", "signal", "await"} => child \in {"alive", "zombie"}
  /\ worker \in {"drain", "join"} => child = "reaped"
  /\ worker \in {"join", "none"} => commands = <<>> /\ ~accepting
  /\ worker = "signal" => commands # <<>>
  /\ forwarded <= printed

\* A worker that is gone has said so.
EndComes == Active /\ worker = "none" => \E i \in 1..Len(events) : events[i].kind = "Finished"

\* At most one request is under way, as its token or as its outcome.
NoOutcome == \A i \in 1..Len(events) : events[i].kind \notin Signal
OneOutcome == \E i \in 1..Len(events) :
                events[i].kind \in Signal /\ \A j \in 1..Len(events) : j # i => events[j].kind \notin Signal
Outstanding ==
  /\ life \in {"running", "stopping"} => commands = <<>> /\ NoOutcome
  /\ life = "pending" => \/ commands = <<run>> /\ NoOutcome
                         \/ commands = <<>> /\ OneOutcome

\* The application knows that the group was signalled, or is about to be told.
SignalSeen ==
  /\ Active => (signalled <=> life = "stopping" \/ \E i \in 1..Len(events) : events[i].kind = "Sent")
  /\ life = "queued" => ~signalled

\* While a run can still end normally, its output ends in a line of its own.
TextAtTail == life \in {"running", "pending"} => tail \in {"text", "line"}

\* A line only goes when the user clears the output, or when another takes its place.
LinesReplaced ==
  /\ tail = "line" => kept > 0
  /\ kept = 0 => replaced = 0

LinesCounted ==
  Active => /\ IsFiniteSet(LineIndexes(events))
            /\ forwarded = Taken + Cardinality(LineIndexes(events))

IInv ==
  /\ TypeOK /\ QuietUnlessActive /\ SlotIds /\ Serves /\ WorkerState /\ EndComes /\ Outstanding
  /\ SignalSeen /\ TextAtTail /\ LinesReplaced /\ LinesCounted
  /\ FinishedIsLast /\ NoLineLost /\ OutputAttributed /\ MarkerIsLast
-----------------------------------------------------------------------------
(* Channels.                                                               *)

LEMMA Appended ==
  ASSUME NEW S, NEW q \in Seq(S), NEW e \in S
  PROVE  /\ Append(q, e) \in Seq(S) /\ Len(Append(q, e)) = Len(q) + 1 /\ Append(q, e) # <<>>
         /\ \A i \in 1..Len(q) : Append(q, e)[i] = q[i]
         /\ Append(q, e)[Len(q) + 1] = e
  BY AppendProperties

LEMMA Received ==
  ASSUME NEW S, NEW q \in Seq(S), q # <<>>
  PROVE  /\ Tail(q) \in Seq(S) /\ Head(q) \in S /\ Head(q) = q[1]
         /\ Len(q) \in Nat /\ Len(q) >= 1 /\ Len(Tail(q)) = Len(q) - 1
         /\ \A i \in 1..Len(Tail(q)) : Tail(q)[i] = q[i + 1]
  OBVIOUS

LEMMA LinesAppended ==
  ASSUME NEW S, NEW q \in Seq(S), NEW e \in S, IsFiniteSet(LineIndexes(q))
  PROVE  /\ IsFiniteSet(LineIndexes(Append(q, e)))
         /\ Cardinality(LineIndexes(Append(q, e))) =
              IF e.kind \in Lines THEN Cardinality(LineIndexes(q)) + 1 ELSE Cardinality(LineIndexes(q))
<1>1. Len(q) \in Nat /\ Len(q) + 1 \notin LineIndexes(q)
  BY DEF LineIndexes
<1>2. CASE e.kind \in Lines
  <2>1. LineIndexes(Append(q, e)) = LineIndexes(q) \cup {Len(q) + 1}
    BY <1>1, <1>2, Appended DEF LineIndexes
  <2>2. QED BY <1>1, <1>2, <2>1, FS_AddElement
<1>3. CASE e.kind \notin Lines
  <2>1. LineIndexes(Append(q, e)) = LineIndexes(q)
    BY <1>1, <1>3, Appended DEF LineIndexes
  <2>2. QED BY <1>3, <2>1
<1>4. QED BY <1>2, <1>3

LEMMA LinesReceived ==
  ASSUME NEW S, NEW q \in Seq(S), q # <<>>, IsFiniteSet(LineIndexes(q))
  PROVE  /\ IsFiniteSet(LineIndexes(Tail(q)))
         /\ Cardinality(LineIndexes(q)) =
              IF Head(q).kind \in Lines THEN Cardinality(LineIndexes(Tail(q))) + 1
              ELSE Cardinality(LineIndexes(Tail(q)))
<1> DEFINE A == LineIndexes(Tail(q))
           B == LineIndexes(q) \ {1}
           f == [i \in B |-> i - 1]
<1>1. IsFiniteSet(B) /\ Cardinality(B) =
        IF 1 \in LineIndexes(q) THEN Cardinality(LineIndexes(q)) - 1 ELSE Cardinality(LineIndexes(q))
  BY FS_RemoveElement
<1>2. 1 \in LineIndexes(q) <=> Head(q).kind \in Lines
  BY Received DEF LineIndexes
<1>3. \A i \in B : i \in 2..Len(q) /\ q[i].kind \in Lines
  BY Received DEF LineIndexes
<1>4. \A i \in B : i - 1 \in A
  BY <1>3, Received DEF LineIndexes
<1>5. \A j \in A : j + 1 \in B /\ f[j + 1] = j
  BY Received DEF LineIndexes
<1>6. f \in Bijection(B, A)
  <2>1. f \in [B -> A]
    BY <1>4
  <2>2. \A i, j \in B : f[i] = f[j] => i = j
    BY <1>3
  <2>3. QED BY <1>5, <2>1, <2>2, Fun_IsBij
<1>7. IsFiniteSet(A) /\ Cardinality(A) = Cardinality(B)
  BY <1>1, <1>6, FS_Bijection DEF ExistsBijection
<1>8. Cardinality(A) \in Nat /\ Cardinality(LineIndexes(q)) \in Nat
  BY <1>7, FS_CardinalityType
<1>9. QED BY <1>1, <1>2, <1>7, <1>8
-----------------------------------------------------------------------------
(* Types.                                                                  *)

\* The answers CloseAdmission gives are one outcome per token.
LEMMA AnsweredTypes ==
  ASSUME TypeOK
  PROVE  /\ AnswerAdmitted \in Seq([kind : {"ProcessAlreadyReaped", "Refused"}, run : Ids])
         /\ Len(AnswerAdmitted) = Len(commands)
         /\ \A i \in 1..Len(commands) : AnswerAdmitted[i].run = commands[i]
  BY DEF AnswerAdmitted, TypeOK

LEMMA AnswersAreEvents == ASSUME TypeOK PROVE AnswerAdmitted \in Seq(Event)
<1>1. [kind : {"ProcessAlreadyReaped", "Refused"}, run : Ids] \subseteq Event
  BY DEF Event, Signal
<1>2. QED BY <1>1, AnsweredTypes, SeqMonotonic

LEMMA SentTypes ==
  ASSUME TypeOK, NEW kind \in Lines \cup {"Started", "Finished"} \cup Signal,
         NEW r \in Ids, Send(kind, r)
  PROVE  events' \in Seq(Event) /\ [kind |-> kind, run |-> r] \in Event
<1>1. [kind |-> kind, run |-> r] \in Event
  BY DEF Event, Lines
<1>2. QED BY <1>1, Appended DEF Send, TypeOK

LEMMA TypeStep ==
  ASSUME IInv, [Next]_vars
  PROVE  TypeOK'
<1> USE DEF TypeOK
<1>0. TypeOK /\ OwnedRunAssumption /\ Ids = 1..MaxId
  BY OwnedRunAssumption DEF IInv, Ids
<1>1. CASE Queue
  <2>1. nextId' \in Ids /\ run' \in 0..MaxId
    BY <1>0, <1>1 DEF Queue, Allocate, OwnedRunAssumption
  <2>2. QED BY <1>0, <1>1, <2>1 DEF Queue, procVars, lineVars, Live
<1>2. CASE Launch
  BY <1>0, <1>2 DEF Launch, Live
<1>3. CASE FailLaunch
  BY <1>0, <1>3 DEF FailLaunch, procVars, Live, Ended
<1>3a. CASE SendStarted
  <2>1. events' \in Seq(Event)
    <3>1. run \in Ids /\ Send("Started", run)
      BY <1>3a DEF SendStarted, IInv, Serves
    <3>2. QED BY <1>0, <3>1, SentTypes
  <2>2. starting' \in BOOLEAN /\ UNCHANGED <<kept, replaced, erased, tail, heir, child, printed, forwarded>>
    BY <1>3a DEF SendStarted, procVars, lineVars
  <2>3. UNCHANGED <<nextId, life, run, producer, worker, serving, commands, connected, accepting,
                    signalled, stops>>
    BY <1>3a DEF SendStarted
  <2>4. QED BY <1>0, <2>1, <2>2, <2>3
<1>4. ASSUME NEW token \in Ids, Submit(token) PROVE TypeOK'
  <2>1. commands' \in Seq(Ids)
    BY <1>0, <1>4, Appended DEF Submit
  <2>2. QED BY <1>0, <1>4, <2>1 DEF Submit, procVars, lineVars, Live
<1>5. CASE ClearOutput
  BY <1>0, <1>5 DEF ClearOutput, procVars, Live, Ended, Taken
<1>6. ASSUME NEW kinds, Receive(kinds) PROVE events' \in Seq(Event)
  BY <1>0, <1>6, Received DEF Receive
<1>7. CASE RecordLine
  <2>1. kept' \in Nat /\ replaced' \in Nat /\ tail' \in {"none", "text", "line", "done", "killed"}
    BY <1>0, <1>7 DEF RecordLine
  <2>2. UNCHANGED <<life, erased, connected>> /\ AppFrame /\ events' \in Seq(Event)
    BY <1>6, <1>7 DEF RecordLine
  <2>3. QED BY <1>0, <2>1, <2>2 DEF AppFrame, procVars
<1>7a. CASE AcknowledgeStarted
  BY <1>0, <1>6, <1>7a DEF AcknowledgeStarted, AppFrame, procVars, lineVars
<1>8. CASE ReconcileOutcome
  <2>1. life' \in Live \cup Ended \cup {"absent"} /\ tail' \in {"none", "text", "line", "done", "killed"}
        /\ connected' \in BOOLEAN
    BY <1>0, <1>8 DEF ReconcileOutcome, AfterOutcome, Live
  <2>2. QED BY <1>0, <1>6, <1>8, <2>1 DEF ReconcileOutcome, AppFrame, procVars
<1>9. CASE Finish
  <2>1. life' \in Live \cup Ended \cup {"absent"} /\ tail' \in {"none", "text", "line", "done", "killed"}
    BY <1>0, <1>9 DEF Finish, MarkAtTail, KilledAtEnd, Ended
  <2>2. connected' \in BOOLEAN
    BY <1>9 DEF Finish
  <2>3. QED BY <1>0, <1>6, <1>9, <2>1, <2>2 DEF Finish, AppFrame, procVars
<1>10. CASE Poll \/ AwaitChild
  BY <1>0, <1>10 DEF Poll, AwaitChild, WorkerFrame, slotVars, lineVars
<1>11. CASE Recv
  BY <1>0, <1>11 DEF Recv, WaitsForChild, WorkerFrame, slotVars, lineVars
<1>12. CASE SignalGroup
  <2>1. commands # <<>> /\ Head(commands) \in Ids /\ commands' \in Seq(Ids)
    BY <1>0, <1>12, Received DEF SignalGroup, IInv, WorkerState
  <2>2. events' \in Seq(Event) /\ signalled' \in BOOLEAN
    <3>1. CASE Head(commands) = serving
      BY <1>0, <1>12, <2>1, <3>1, SentTypes DEF SignalGroup, SignalOutcomes, Signal
    <3>2. CASE Head(commands) # serving
      BY <1>0, <1>12, <2>1, <3>2, SentTypes DEF SignalGroup, Signal
    <3>3. QED BY <3>1, <3>2
  <2>3. QED BY <1>0, <1>12, <2>1, <2>2 DEF SignalGroup, WorkerFrame, slotVars, lineVars
<1>13. CASE CloseAdmission
  <2>1. events' \in Seq(Event)
    BY <1>0, <1>13, AnswersAreEvents, ConcatProperties DEF CloseAdmission
  <2>2. commands' \in Seq(Ids)
    BY <1>13 DEF CloseAdmission
  <2>3. QED BY <1>0, <1>13, <2>1, <2>2 DEF CloseAdmission, WorkerFrame, slotVars, lineVars
\* A thread that sends belongs to an active run, and so knows its identity.
<1>14. ASSUME worker # "none" \/ forwarded # printed PROVE serving \in Ids
  BY <1>0, <1>14 DEF IInv, QuietUnlessActive, Quiet, Serves, SlotIds, Active
<1>15. CASE JoinReaders
  <2>1. events' \in Seq(Event)
    BY <1>0, <1>14, <1>15, SentTypes DEF JoinReaders
  <2>2. QED BY <1>0, <1>15, <2>1 DEF JoinReaders, WorkerFrame, slotVars, lineVars
<1>16. CASE ForwardLine
  <2>1. events' \in Seq(Event)
    <3>1. PICK kind \in Lines : Send(kind, serving)
      BY <1>16 DEF ForwardLine, Lines
    <3>2. serving \in Ids
      BY <1>0, <1>14, <1>16 DEF ForwardLine
    <3>3. QED BY <1>0, <3>1, <3>2, SentTypes
  <2>2. QED BY <1>0, <1>16, <2>1 DEF ForwardLine, ProcessFrame, slotVars, lineVars
<1>17. CASE PrintLine \/ ChildExits \/ HeirExits
  <2>1. UNCHANGED <<slotVars, worker, serving, commands, connected, accepting, signalled, stops, events, forwarded>>
    BY <1>17 DEF PrintLine, ChildExits, HeirExits, ProcessFrame
  <2>2. printed' \in Nat /\ child' \in {"none", "alive", "zombie", "reaped"}
    BY <1>0, <1>17 DEF PrintLine, ChildExits, HeirExits
  <2>3. heir' = heir \/ heir' = FALSE
    BY <1>17 DEF PrintLine, ChildExits, HeirExits
  <2>4. heir' \in BOOLEAN
    BY <1>0, <2>3
  <2>5. QED BY <1>0, <2>1, <2>2, <2>4 DEF slotVars, lineVars
<1>18. CASE UNCHANGED vars
  BY <1>0, <1>18 DEF vars, slotVars, lineVars, procVars
<1>19. QED
  BY <1>1, <1>2, <1>3, <1>3a, <1>4, <1>5, <1>7, <1>7a, <1>8, <1>9, <1>10, <1>11, <1>12, <1>13, <1>15, <1>16, <1>17,
     <1>18 DEF Next, Application, Worker
-----------------------------------------------------------------------------
(* Who is at work.                                                         *)

\* What an action that takes an event may assume: the event is the active run's.
LEMMA TakenIsCurrent ==
  ASSUME IInv, NEW kinds, Receive(kinds), "Started" \notin kinds
  PROVE  /\ Active /\ Current /\ events # <<>> /\ events \in Seq(Event)
         /\ events' = Tail(events) /\ Head(events) = events[1] /\ events[1].kind \in kinds
<1>1. events # <<>> /\ events \in Seq(Event) /\ Head(events).kind \in kinds /\ events' = Tail(events)
  BY DEF Receive, IInv, TypeOK
<1>2. Head(events) = events[1] /\ 1 \in 1..Len(events) /\ events[1].kind # "Started"
  BY <1>1, Received
<1>3. Active
  BY <1>1, <1>2 DEF IInv, QuietUnlessActive, Quiet, OnlyStarted
<1>4. events[1].run = run
  BY <1>2, <1>3 DEF IInv, Serves
<1>5. QED BY <1>1, <1>2, <1>3, <1>4 DEF Current

\* A worker that works, and a process that lives, belong to an active run.
LEMMA AtWorkIsActive ==
  ASSUME IInv, worker # "none" \/ child \in {"alive", "zombie"} \/ heir \/ forwarded # printed
  PROVE  Active /\ serving = run /\ run \in Ids /\ life # "absent"
  BY DEF IInv, QuietUnlessActive, Quiet, Serves, SlotIds, Active

\* Finished is taken when it is the last word of its run.
LEMMA FinishedIsAlone ==
  ASSUME IInv, Receive({"Finished"})
  PROVE  /\ OnlyStarted' /\ worker = "none" /\ child = "reaped" /\ ~heir
         /\ forwarded = printed /\ LineIndexes(events) = {}
         /\ \A i \in 1..Len(events) : events[i].kind \in {"Started", "Finished"}
<1>1. events # <<>> /\ events \in Seq(Event) /\ events' = Tail(events) /\ events[1].kind = "Finished"
  BY TakenIsCurrent
<1>2. Len(events) \in Nat /\ Len(events) >= 1 /\ 1 \in 1..Len(events)
  BY <1>1, Received
<1>3. /\ worker = "none" /\ child = "reaped" /\ ~heir /\ forwarded = printed
      /\ \A j \in 1..Len(events) : j > 1 => events[j].kind = "Started"
  BY <1>1, <1>2 DEF IInv, FinishedIsLast
<1>4. OnlyStarted'
  <2>1. Len(events') = Len(events) - 1 /\ \A i \in 1..Len(events') : events'[i] = events[i + 1]
    BY <1>1, Received
  <2>2. ASSUME NEW i \in 1..Len(events') PROVE events'[i].kind = "Started"
    <3>1. i + 1 \in 1..Len(events) /\ i + 1 > 1
      BY <1>2, <2>1
    <3>2. QED BY <1>3, <2>1, <3>1
  <2>3. QED BY <2>2 DEF OnlyStarted
<1>5. \A i \in 1..Len(events) : events[i].kind \in {"Started", "Finished"}
  <2>1. \A i \in 1..Len(events) : i = 1 \/ i > 1
    BY <1>2
  <2>2. QED BY <1>1, <1>3, <2>1
<1>6. LineIndexes(events) = {}
  BY <1>5 DEF LineIndexes, Lines
<1>7. QED BY <1>3, <1>4, <1>5, <1>6

\* A Started event comes from a step that says nothing of the run's end.
LEMMA StartedSent ==
  ASSUME IInv, SendStarted
  PROVE  \E e \in Event : e.kind = "Started" /\ events' = Append(events, e)
<1>1. run \in Ids /\ Send("Started", run)
  BY DEF SendStarted, IInv, Serves
<1>2. [kind |-> "Started", run |-> run] \in Event
  BY <1>1 DEF Event
<1>3. QED BY <1>1, <1>2 DEF Send

LEMMA StartedTaken ==
  ASSUME IInv, AcknowledgeStarted
  PROVE  events # <<>> /\ events \in Seq(Event) /\ events' = Tail(events)
         /\ Head(events) = events[1] /\ events[1].kind = "Started"
  BY Received DEF AcknowledgeStarted, Receive, IInv, TypeOK

LEMMA SlotIdsStep ==
  ASSUME IInv, [Next]_vars
  PROVE  SlotIds' /\ OutputAttributed'
<1> USE DEF SlotIds, OutputAttributed
<1>0. SlotIds /\ OutputAttributed /\ nextId \in 1..MaxId /\ run \in 0..MaxId /\ producer \in 0..MaxId
      /\ life \in Live \cup Ended \cup {"absent"} /\ Ids = 1..MaxId /\ MaxId \in Nat \ {0}
  BY OwnedRunAssumption DEF IInv, TypeOK, Ids, OwnedRunAssumption
<1>1. CASE Queue
  <2>1. nextId' = nextId + 1 /\ life' = "queued" /\ run' = nextId /\ producer' = producer
    BY <1>1 DEF Queue, Allocate
  <2>2. producer < nextId
    BY <1>0
  <2>3. QED BY <1>0, <2>1, <2>2
<1>2. CASE Launch \/ FailLaunch
  BY <1>0, <1>2 DEF Launch, FailLaunch
<1>3. ASSUME NEW token \in Ids, Submit(token) PROVE SlotIds' /\ OutputAttributed'
  BY <1>0, <1>3 DEF Submit
<1>4. CASE ClearOutput
  BY <1>0, <1>4 DEF ClearOutput, Live, Ended
<1>5. CASE RecordLine \/ SendStarted \/ AcknowledgeStarted
  BY <1>0, <1>5 DEF RecordLine, SendStarted, AcknowledgeStarted, AppFrame
<1>6. CASE ReconcileOutcome \/ Finish
  <2>1. UNCHANGED <<nextId, run, producer>>
        /\ (life' = life \/ (life \in {"running", "pending", "stopping"} /\ life' \in {"stopping", "running", "success", "gone"}))
    BY <1>6 DEF ReconcileOutcome, Finish, AppFrame, AfterOutcome
  <2>2. QED BY <1>0, <2>1
<1>7. CASE Worker \/ PrintLine \/ ForwardLine \/ ChildExits \/ HeirExits \/ UNCHANGED vars
  <2>1. UNCHANGED slotVars
    BY <1>7 DEF Worker, Poll, Recv, AwaitChild, SignalGroup, CloseAdmission, JoinReaders, WorkerFrame,
                PrintLine, ForwardLine, ChildExits, HeirExits, ProcessFrame, vars
  <2>2. QED BY <1>0, <2>1 DEF slotVars
<1>8. QED BY <1>1, <1>2, <1>3, <1>4, <1>5, <1>6, <1>7 DEF Next, Application

LEMMA WorkerStateStep ==
  ASSUME IInv, [Next]_vars
  PROVE  WorkerState'
<1> USE DEF WorkerState
<1>0. WorkerState /\ printed \in Nat /\ forwarded \in Nat /\ commands \in Seq(Ids)
  BY DEF IInv, TypeOK
<1>1. CASE Launch
  BY <1>0, <1>1 DEF Launch
<1>2. ASSUME NEW token \in Ids, Submit(token) PROVE WorkerState'
  BY <1>0, <1>2, Appended DEF Submit, procVars, Admitted
<1>3. CASE Queue \/ FailLaunch \/ ClearOutput
  BY <1>0, <1>3 DEF Queue, FailLaunch, ClearOutput, procVars
<1>4. CASE SendStarted \/ AcknowledgeStarted \/ RecordLine \/ ReconcileOutcome \/ Finish
  BY <1>0, <1>4 DEF SendStarted, AcknowledgeStarted, RecordLine, ReconcileOutcome, Finish, AppFrame, procVars
<1>5. CASE Poll \/ Recv \/ AwaitChild
  BY <1>0, <1>5 DEF Poll, Recv, AwaitChild, WaitsForChild, WorkerFrame
<1>6. CASE SignalGroup \/ CloseAdmission \/ JoinReaders
  BY <1>0, <1>6 DEF SignalGroup, CloseAdmission, JoinReaders, WorkerFrame
<1>7. CASE PrintLine \/ ForwardLine \/ HeirExits \/ UNCHANGED vars
  BY <1>0, <1>7 DEF PrintLine, ForwardLine, HeirExits, ProcessFrame, vars, procVars
<1>8. CASE ChildExits
  BY <1>0, <1>8 DEF ChildExits, ProcessFrame
<1>9. QED BY <1>1, <1>2, <1>3, <1>4, <1>5, <1>6, <1>7, <1>8 DEF Next, Application, Worker

LEMMA QuietStep ==
  ASSUME IInv, [Next]_vars
  PROVE  QuietUnlessActive'
<1> USE DEF QuietUnlessActive, Quiet, OnlyStarted
<1>0. QuietUnlessActive /\ life \in Live \cup Ended \cup {"absent"}
  BY DEF IInv, TypeOK
<1>1. CASE Queue \/ FailLaunch
  BY <1>0, <1>1 DEF Queue, FailLaunch, Admits, Active, Live, procVars
<1>2. CASE Launch \/ \E token \in Ids : Submit(token)
  BY <1>2 DEF Launch, Submit, Active
<1>3. CASE ClearOutput
  BY <1>0, <1>3 DEF ClearOutput, Active, Live, procVars
<1>4. CASE RecordLine \/ ReconcileOutcome
  <2>1. Active
    BY <1>4, TakenIsCurrent DEF RecordLine, ReconcileOutcome, Signal
  <2>2. Active'
    BY <1>4, <2>1 DEF RecordLine, ReconcileOutcome, AfterOutcome, Active
  <2>3. QED BY <2>2
<1>5. CASE Finish
  <2>1. Receive({"Finished"}) /\ UNCHANGED <<worker, procVars>>
    BY <1>5 DEF Finish, AppFrame
  <2>2. QED BY <2>1, FinishedIsAlone DEF procVars
<1>6. CASE Worker \/ PrintLine \/ ForwardLine \/ ChildExits \/ HeirExits
  <2>1. life' = life
    BY <1>6 DEF Worker, Poll, Recv, AwaitChild, SignalGroup, CloseAdmission, JoinReaders, WorkerFrame,
                PrintLine, ForwardLine, ChildExits, HeirExits, ProcessFrame, slotVars
  <2>2. worker # "none" \/ child \in {"alive", "zombie"} \/ heir \/ forwarded # printed
    BY <1>6 DEF Worker, Poll, Recv, AwaitChild, SignalGroup, CloseAdmission, JoinReaders,
                PrintLine, ForwardLine, ChildExits, HeirExits, IInv, TypeOK
  <2>3. QED BY <2>1, <2>2, AtWorkIsActive DEF Active
<1>6a. CASE SendStarted
  <2>1. UNCHANGED <<life, worker, procVars>> /\ events \in Seq(Event) /\ Len(events) \in Nat
    BY <1>6a DEF SendStarted, IInv, TypeOK
  <2>2. PICK e \in Event : e.kind = "Started" /\ events' = Append(events, e)
    BY <1>6a, StartedSent
  <2>3. OnlyStarted => OnlyStarted'
    BY <2>1, <2>2, Appended
  <2>4. QED BY <1>0, <2>1, <2>3 DEF Active, procVars
<1>6b. CASE AcknowledgeStarted
  <2>1. UNCHANGED <<life, worker, procVars>>
    BY <1>6b DEF AcknowledgeStarted, AppFrame
  <2>2. OnlyStarted => OnlyStarted'
    BY <1>6b, StartedTaken, Received
  <2>3. QED BY <1>0, <2>1, <2>2 DEF Active, procVars
<1>7. CASE UNCHANGED vars
  BY <1>0, <1>7 DEF vars, slotVars, procVars, Active
<1>8. QED BY <1>6a, <1>6b, <1>1, <1>2, <1>3, <1>4, <1>5, <1>6, <1>7 DEF Next, Application
-----------------------------------------------------------------------------
(* What an action adds to the channel.                                     *)

LEMMA StepAppends ==
  ASSUME IInv, NEW kind \in Lines \cup {"Finished"} \cup Signal, Send(kind, serving),
         worker # "none" \/ forwarded # printed
  PROVE  \E e \in Event : e.kind = kind /\ e.run = run /\ events' = Append(events, e)
<1>1. serving = run /\ serving \in Ids
  BY AtWorkIsActive
<1>2. [kind |-> kind, run |-> serving] \in Event
  BY <1>1, SentTypes DEF IInv
<1>3. QED BY <1>1, <1>2 DEF Send

\* One token at most waits for an answer when admission closes.
LEMMA CloseAppends ==
  ASSUME IInv, CloseAdmission
  PROVE  \/ events' = events /\ commands = <<>>
         \/ /\ commands = <<run>>
            /\ \E e \in Event : /\ e.kind \in {"ProcessAlreadyReaped", "Refused"} /\ e.run = run
                                /\ events' = Append(events, e)
<1>1. Active /\ events \in Seq(Event) /\ events' = events \o AnswerAdmitted
  BY AtWorkIsActive DEF CloseAdmission, IInv, TypeOK
<1>2. commands = <<>> \/ commands = <<run>>
  BY <1>1 DEF IInv, Outstanding, Active
<1>3. /\ AnswerAdmitted \in Seq(Event) /\ Len(AnswerAdmitted) = Len(commands)
      /\ AnswerAdmitted \in Seq([kind : {"ProcessAlreadyReaped", "Refused"}, run : Ids])
      /\ \A i \in 1..Len(commands) : AnswerAdmitted[i].run = commands[i]
  BY AnswersAreEvents, AnsweredTypes DEF IInv
<1>4. CASE commands = <<>>
  <2>1. AnswerAdmitted = <<>>
    BY <1>3, <1>4, EmptySeq
  <2>2. QED BY <1>1, <1>4, <2>1, ConcatEmptySeq
<1>5. CASE commands = <<run>>
  <2>1. Len(AnswerAdmitted) = 1 /\ 1 \in 1..Len(commands)
    BY <1>3, <1>5
  <2>2. AnswerAdmitted[1] \in Event /\ AnswerAdmitted[1].run = run
        /\ AnswerAdmitted[1] \in [kind : {"ProcessAlreadyReaped", "Refused"}, run : Ids]
    BY <1>3, <1>5, <2>1, ElementOfSeq
  <2>3. AnswerAdmitted = <<AnswerAdmitted[1]>>
    BY <1>3, <2>1
  <2>4. events' = Append(events, AnswerAdmitted[1])
    BY <1>1, <2>2, <2>3, AppendIsConcat
  <2>5. QED BY <1>5, <2>2, <2>4
<1>6. QED BY <1>2, <1>4, <1>5

\* The worker signals the group for the one request of the run it serves.
LEMMA SignalAppends ==
  ASSUME IInv, SignalGroup
  PROVE  /\ life = "pending" /\ commands = <<run>> /\ commands' = <<>> /\ NoOutcome
         /\ \E e \in Event : /\ e.kind \in SignalOutcomes /\ e.run = run /\ events' = Append(events, e)
                             /\ signalled' = (signalled \/ e.kind = "Sent")
<1>1. Active /\ serving = run /\ run \in Ids /\ commands # <<>> /\ worker = "signal"
  BY AtWorkIsActive DEF SignalGroup, IInv, WorkerState
<1>2. life = "pending" /\ commands = <<run>> /\ NoOutcome
  BY <1>1 DEF IInv, Outstanding, Active
<1>3. Head(commands) = serving /\ commands' = <<>>
  BY <1>1, <1>2 DEF SignalGroup
<1>4. PICK outcome \in SignalOutcomes : Send(outcome, serving) /\ signalled' = (signalled \/ outcome = "Sent")
  BY <1>3 DEF SignalGroup
<1>5. outcome \in Signal
  BY DEF SignalOutcomes, Signal
<1>6. \E e \in Event : e.kind = outcome /\ e.run = run /\ events' = Append(events, e)
  BY <1>1, <1>4, <1>5, StepAppends
<1>7. QED BY <1>2, <1>3, <1>4, <1>6

LEMMA ForwardAppends ==
  ASSUME IInv, ForwardLine
  PROVE  /\ forwarded # printed
         /\ \E e \in Event : e.kind \in Lines /\ e.run = run /\ events' = Append(events, e)
<1>1. forwarded # printed
  BY DEF ForwardLine, IInv, TypeOK
<1>2. PICK kind \in Lines : Send(kind, serving)
  BY DEF ForwardLine, Lines
<1>3. QED BY <1>1, <1>2, StepAppends

LEMMA JoinAppends ==
  ASSUME IInv, JoinReaders
  PROVE  \E e \in Event : e.kind = "Finished" /\ e.run = run /\ events' = Append(events, e)
  BY StepAppends DEF JoinReaders

LEMMA ServesStep ==
  ASSUME IInv, [Next]_vars
  PROVE  Serves'
<1> USE DEF Serves
<1>0. Serves /\ events \in Seq(Event) /\ life \in Live \cup Ended \cup {"absent"}
  BY DEF IInv, TypeOK
<1>1. CASE Queue \/ FailLaunch
  BY <1>1 DEF Queue, FailLaunch, Active, AppFree
<1>2. CASE Launch
  <2>1. OnlyStarted /\ run \in Ids
    BY <1>2 DEF Launch, IInv, QuietUnlessActive, Quiet, Active, SlotIds
  <2>2. QED BY <1>2, <2>1 DEF Launch, OnlyStarted
<1>3. CASE \E token \in Ids : Submit(token)
  BY <1>0, <1>3 DEF Submit, Active
<1>4. CASE ClearOutput
  BY <1>0, <1>4 DEF ClearOutput, Active, Live, AppFree
<1>5. ASSUME NEW kinds, Receive(kinds), "Started" \notin kinds, UNCHANGED <<run, serving, starting>> PROVE Serves'
  BY <1>0, <1>5, TakenIsCurrent, Received
<1>6. CASE RecordLine \/ ReconcileOutcome \/ Finish
  BY <1>5, <1>6 DEF RecordLine, ReconcileOutcome, Finish, AppFrame, Signal
<1>6a. CASE SendStarted
  <2>1. UNCHANGED <<life, run, serving>> /\ ~starting'
    BY <1>6a DEF SendStarted
  <2>2. PICK e \in Event : e.kind = "Started" /\ events' = Append(events, e)
    BY <1>6a, StartedSent
  <2>3. QED BY <1>0, <2>1, <2>2, Appended DEF Active
<1>6b. CASE AcknowledgeStarted
  <2>1. UNCHANGED <<life, run, serving, starting>>
    BY <1>6b DEF AcknowledgeStarted, AppFrame
  <2>2. QED BY <1>0, <1>6b, <2>1, StartedTaken, Received DEF Active
<1>7. ASSUME NEW e \in Event, e.run = run, events' = Append(events, e), UNCHANGED <<life, run, serving, starting>>
      PROVE  Serves'
  BY <1>0, <1>7, Appended DEF Active
<1>8. CASE SignalGroup \/ CloseAdmission \/ JoinReaders
  <2>1. UNCHANGED <<life, run, serving, starting>>
    BY <1>8 DEF SignalGroup, CloseAdmission, JoinReaders, WorkerFrame, slotVars
  <2>2. QED BY <1>0, <1>7, <1>8, <2>1, SignalAppends, CloseAppends, JoinAppends DEF Active
<1>9. CASE ForwardLine
  <2>1. UNCHANGED <<life, run, serving, starting>>
    BY <1>9 DEF ForwardLine, ProcessFrame, slotVars
  <2>2. QED BY <1>7, <1>9, <2>1, ForwardAppends
<1>10. CASE Poll \/ Recv \/ AwaitChild \/ PrintLine \/ ChildExits \/ HeirExits \/ UNCHANGED vars
  BY <1>0, <1>10 DEF Poll, Recv, AwaitChild, WorkerFrame, PrintLine, ChildExits, HeirExits, ProcessFrame,
                     vars, slotVars, Active
<1>11. QED BY <1>6a, <1>6b, <1>1, <1>2, <1>3, <1>4, <1>6, <1>8, <1>9, <1>10 DEF Next, Application, Worker

LEMMA FinishedIsLastStep ==
  ASSUME IInv, [Next]_vars
  PROVE  FinishedIsLast' /\ EndComes'
<1> DEFINE NoFinished == \A i \in 1..Len(events) : events[i].kind # "Finished"
<1> USE DEF FinishedIsLast, EndComes
<1>0. FinishedIsLast /\ EndComes /\ events \in Seq(Event) /\ Len(events) \in Nat
      /\ life \in Live \cup Ended \cup {"absent"}
  BY DEF IInv, TypeOK
<1>1. worker # "none" \/ child \in {"alive", "zombie"} \/ heir \/ forwarded # printed => NoFinished
  BY <1>0
<1>2. Active /\ worker = "none" => ~NoFinished
  BY <1>0
<1>3. CASE Queue \/ FailLaunch
  BY <1>0, <1>3 DEF Queue, FailLaunch, procVars, Active
<1>4. CASE Launch
  <2>1. OnlyStarted /\ events' = events /\ worker' = "poll"
    BY <1>4 DEF Launch, IInv, QuietUnlessActive, Quiet, Active
  <2>2. QED BY <2>1 DEF OnlyStarted
<1>5. CASE \E token \in Ids : Submit(token)
  BY <1>0, <1>5 DEF Submit, procVars, Active
<1>6. CASE ClearOutput
  BY <1>0, <1>6 DEF ClearOutput, procVars, Active, Live
<1>7. ASSUME events # <<>>, events' = Tail(events), UNCHANGED <<worker, procVars>>
      PROVE  FinishedIsLast'
  <2>1. Len(events') = Len(events) - 1 /\ \A i \in 1..Len(events') : events'[i] = events[i + 1]
    BY <1>0, <1>7, Received
  <2>2. ASSUME NEW i \in 1..Len(events'), events'[i].kind = "Finished"
        PROVE  /\ \A j \in 1..Len(events') : j > i => events'[j].kind = "Started"
               /\ worker = "none" /\ child = "reaped" /\ ~heir /\ forwarded = printed
    <3>1. i + 1 \in 1..Len(events) /\ events[i + 1].kind = "Finished"
      BY <1>0, <2>1, <2>2
    <3>2. /\ \A j \in 1..Len(events) : j > i + 1 => events[j].kind = "Started"
          /\ worker = "none" /\ child = "reaped" /\ ~heir /\ forwarded = printed
      BY <1>0, <3>1
    <3>3. ASSUME NEW j \in 1..Len(events'), j > i PROVE events'[j].kind = "Started"
      <4>1. j + 1 \in 1..Len(events) /\ j + 1 > i + 1
        BY <1>0, <2>1, <3>3
      <4>2. QED BY <2>1, <3>2, <4>1
    <3>4. QED BY <3>2, <3>3
  <2>3. QED BY <1>7, <2>2 DEF procVars
<1>8. ASSUME events # <<>>, events[1].kind # "Finished", events' = Tail(events), UNCHANGED worker,
             Active' => Active
      PROVE  EndComes'
  <2>1. CASE Active /\ worker = "none"
    <3>1. PICK i \in 1..Len(events) : events[i].kind = "Finished"
      BY <1>0, <2>1
    <3>2. i # 1 /\ Len(events') = Len(events) - 1 /\ \A k \in 1..Len(events') : events'[k] = events[k + 1]
      BY <1>0, <1>8, <3>1, Received
    <3>3. i - 1 \in 1..Len(events') /\ (i - 1) + 1 = i
      BY <1>0, <3>1, <3>2
    <3>4. events'[i - 1].kind = "Finished"
      BY <3>1, <3>2, <3>3
    <3>5. QED BY <3>3, <3>4
  <2>2. QED BY <1>8, <2>1
<1>9. CASE RecordLine \/ ReconcileOutcome
  <2>1. Active /\ events # <<>> /\ events' = Tail(events) /\ events[1].kind # "Finished"
    BY <1>9, TakenIsCurrent DEF RecordLine, ReconcileOutcome, Signal
  <2>2. UNCHANGED <<worker, procVars>>
    BY <1>9 DEF RecordLine, ReconcileOutcome, AppFrame
  <2>3. QED BY <1>7, <1>8, <2>1, <2>2
<1>9a. CASE AcknowledgeStarted
  <2>1. events # <<>> /\ events' = Tail(events) /\ events[1].kind # "Finished"
    BY <1>9a, StartedTaken
  <2>2. UNCHANGED <<life, worker, procVars>>
    BY <1>9a DEF AcknowledgeStarted, AppFrame
  <2>3. QED BY <1>7, <1>8, <2>1, <2>2 DEF Active
<1>9b. CASE SendStarted
  <2>1. UNCHANGED <<life, worker, procVars>>
    BY <1>9b DEF SendStarted
  <2>2. PICK e \in Event : e.kind = "Started" /\ events' = Append(events, e)
    BY <1>9b, StartedSent
  <2>3. Len(events') = Len(events) + 1 /\ events'[Len(events) + 1] = e
        /\ \A i \in 1..Len(events) : events'[i] = events[i]
    BY <1>0, <2>2, Appended
  <2>4. FinishedIsLast'
    BY <1>0, <2>1, <2>2, <2>3 DEF procVars
  <2>5. EndComes'
    BY <1>0, <2>1, <2>3 DEF Active
  <2>6. QED BY <2>4, <2>5
<1>10. CASE Finish
  <2>1. OnlyStarted'
    BY <1>10, FinishedIsAlone DEF Finish
  <2>2. Active /\ Current
    BY <1>10, TakenIsCurrent DEF Finish
  <2>3. ~Active'
    BY <1>10, <2>2 DEF Finish, Active, Live
  <2>4. QED BY <2>1, <2>3 DEF OnlyStarted
\* Nothing is sent after Finished.
<1>11. ASSUME NEW e \in Event, e.kind # "Finished", events' = Append(events, e), NoFinished
       PROVE  FinishedIsLast'
  BY <1>0, <1>11, Appended
<1>12. CASE SignalGroup
  <2>1. FinishedIsLast'
    <3>1. NoFinished
      BY <1>1, <1>12 DEF SignalGroup
    <3>2. PICK e \in Event : e.kind \in SignalOutcomes /\ events' = Append(events, e)
      BY <1>12, SignalAppends
    <3>3. QED BY <1>11, <3>1, <3>2 DEF SignalOutcomes
  <2>2. worker' = "poll"
    BY <1>12 DEF SignalGroup
  <2>3. QED BY <2>1, <2>2
<1>13. CASE CloseAdmission
  <2>1. FinishedIsLast'
    <3>1. NoFinished
      BY <1>1, <1>13 DEF CloseAdmission
    <3>2. CASE events' = events
      BY <3>1, <3>2
    <3>3. CASE events' # events
      <4>1. PICK e \in Event : e.kind \in {"ProcessAlreadyReaped", "Refused"} /\ events' = Append(events, e)
        BY <1>13, <3>3, CloseAppends
      <4>2. QED BY <1>11, <3>1, <4>1
    <3>4. QED BY <3>2, <3>3
  <2>2. worker' = "join"
    BY <1>13 DEF CloseAdmission
  <2>3. QED BY <2>1, <2>2
<1>14. CASE JoinReaders
  <2>1. NoFinished
    BY <1>1, <1>14 DEF JoinReaders
  <2>2. PICK e \in Event : e.kind = "Finished" /\ events' = Append(events, e)
    BY <1>14, JoinAppends
  <2>3. Len(events') \in 1..Len(events') /\ events'[Len(events')].kind = "Finished"
    BY <1>0, <2>2, Appended
  <2>4. worker' = "none" /\ child' = "reaped" /\ ~heir' /\ forwarded' = printed'
    BY <1>14 DEF JoinReaders, ReadersDone, WorkerFrame
  <2>5. \A i \in 1..Len(events') : events'[i].kind = "Finished" => i = Len(events')
    BY <1>0, <2>1, <2>2, Appended
  <2>6. QED BY <2>3, <2>4, <2>5
<1>15. CASE ForwardLine
  <2>1. NoFinished
    BY <1>1, <1>15, ForwardAppends
  <2>2. PICK e \in Event : e.kind \in Lines /\ events' = Append(events, e)
    BY <1>15, ForwardAppends
  <2>3. FinishedIsLast'
    BY <1>11, <2>1, <2>2 DEF Lines
  <2>4. UNCHANGED <<worker, life>>
    BY <1>15 DEF ForwardLine, ProcessFrame, slotVars
  <2>5. QED BY <1>2, <2>1, <2>3, <2>4 DEF Active
<1>16. CASE Poll \/ Recv \/ AwaitChild \/ PrintLine \/ ChildExits \/ HeirExits
  <2>1. UNCHANGED <<events, life>>
    BY <1>16 DEF Poll, Recv, AwaitChild, WorkerFrame, PrintLine, ChildExits, HeirExits, ProcessFrame, slotVars
  <2>2. NoFinished
    BY <1>1, <1>16 DEF Poll, Recv, AwaitChild, PrintLine, ChildExits, HeirExits
  <2>3. worker' = worker \/ worker' # "none"
    BY <1>16 DEF Poll, Recv, AwaitChild, WaitsForChild, PrintLine, ChildExits, HeirExits, ProcessFrame
  <2>4. QED BY <1>2, <2>1, <2>2, <2>3 DEF Active
<1>17. CASE UNCHANGED vars
  BY <1>0, <1>17 DEF vars, slotVars, procVars, Active
<1>18. QED
  BY <1>3, <1>4, <1>5, <1>6, <1>9, <1>9a, <1>9b, <1>10, <1>12, <1>13, <1>14, <1>15, <1>16, <1>17
     DEF Next, Application, Worker
-----------------------------------------------------------------------------
(* Requests and their outcomes.                                            *)

\* An event that is no outcome comes or goes.
LEMMA OutcomesKept ==
  ASSUME IInv,
         \/ events' = events
         \/ \E e \in Event : e.kind \notin Signal /\ events' = Append(events, e)
         \/ events # <<>> /\ events[1].kind \notin Signal /\ events' = Tail(events)
  PROVE  (NoOutcome => NoOutcome') /\ (OneOutcome => OneOutcome')
<1> USE DEF NoOutcome, OneOutcome
<1>0. events \in Seq(Event) /\ Len(events) \in Nat
  BY DEF IInv, TypeOK
<1>1. CASE events' = events
  BY <1>1
<1>2. ASSUME NEW e \in Event, e.kind \notin Signal, events' = Append(events, e)
      PROVE  (NoOutcome => NoOutcome') /\ (OneOutcome => OneOutcome')
  BY <1>0, <1>2, Appended
<1>3. ASSUME events # <<>>, events[1].kind \notin Signal, events' = Tail(events)
      PROVE  (NoOutcome => NoOutcome') /\ (OneOutcome => OneOutcome')
  <2>1. Len(events') = Len(events) - 1 /\ \A i \in 1..Len(events') : events'[i] = events[i + 1]
    BY <1>0, <1>3, Received
  <2>2. NoOutcome => NoOutcome'
    BY <1>0, <2>1
  <2>3. ASSUME NEW i \in 1..Len(events), events[i].kind \in Signal,
               \A j \in 1..Len(events) : j # i => events[j].kind \notin Signal
        PROVE  OneOutcome'
    <3>a. i # 1
      BY <1>3, <2>3
    <3>b. i - 1 \in 1..Len(events') /\ (i - 1) + 1 = i
      BY <1>0, <2>1, <3>a
    <3>1. i - 1 \in 1..Len(events') /\ events'[i - 1].kind \in Signal
      BY <2>1, <2>3, <3>b
    <3>2. \A j \in 1..Len(events') : j # i - 1 => events'[j].kind \notin Signal
      BY <1>0, <2>1, <2>3
    <3>3. QED BY <3>1, <3>2
  <2>4. QED BY <2>2, <2>3
<1>4. QED BY <1>1, <1>2, <1>3

LEMMA OutcomeAppended ==
  ASSUME IInv, NoOutcome, NEW e \in Event, e.kind \in Signal, events' = Append(events, e)
  PROVE  OneOutcome'
<1>1. events \in Seq(Event) /\ Len(events) \in Nat
  BY DEF IInv, TypeOK
<1>2. Len(events') = Len(events) + 1 /\ events'[Len(events')].kind \in Signal
      /\ \A i \in 1..Len(events) : events'[i] = events[i]
  BY <1>1, Appended
<1>3. Len(events') \in 1..Len(events')
  BY <1>1, <1>2
<1>4. \A j \in 1..Len(events') : j # Len(events') => events'[j].kind \notin Signal
  BY <1>1, <1>2 DEF NoOutcome
<1>5. QED BY <1>2, <1>3, <1>4 DEF OneOutcome

\* The outcome that is taken was the only one, and its request was pending.
LEMMA OutcomeTaken ==
  ASSUME IInv, ReconcileOutcome
  PROVE  /\ life = "pending" /\ Current /\ commands = <<>> /\ NoOutcome'
         /\ events[1].kind = Head(events).kind
         /\ \A i \in 1..Len(events) : i # 1 => events[i].kind \notin Signal
<1>1. Active /\ Current /\ events # <<>> /\ events \in Seq(Event) /\ events' = Tail(events)
      /\ events[1].kind \in Signal /\ Head(events) = events[1]
  BY TakenIsCurrent DEF ReconcileOutcome, Signal
<1>2. Len(events) \in Nat /\ 1 \in 1..Len(events)
  BY <1>1, Received
<1>3. ~NoOutcome
  BY <1>1, <1>2 DEF NoOutcome
<1>4. life = "pending" /\ commands = <<>> /\ OneOutcome
  BY <1>1, <1>3 DEF IInv, Outstanding, Active
<1>5. \A i \in 1..Len(events) : i # 1 => events[i].kind \notin Signal
  BY <1>1, <1>2, <1>4 DEF OneOutcome
<1>6. NoOutcome'
  <2>1. Len(events') = Len(events) - 1 /\ \A i \in 1..Len(events') : events'[i] = events[i + 1]
    BY <1>1, Received
  <2>2. QED BY <1>2, <1>5, <2>1 DEF NoOutcome
<1>7. QED BY <1>1, <1>4, <1>5, <1>6

LEMMA OutstandingStep ==
  ASSUME IInv, [Next]_vars
  PROVE  Outstanding'
<1> USE DEF Outstanding
<1>0. Outstanding /\ events \in Seq(Event) /\ life \in Live \cup Ended \cup {"absent"}
  BY DEF IInv, TypeOK
<1>1. CASE Queue \/ FailLaunch
  BY <1>1 DEF Queue, FailLaunch
<1>2. CASE Launch
  <2>1. OnlyStarted /\ events' = events /\ commands' = <<>> /\ life' = "running"
    BY <1>2 DEF Launch, IInv, QuietUnlessActive, Quiet, Active
  <2>2. QED BY <2>1 DEF NoOutcome, OnlyStarted, Signal
<1>3. ASSUME NEW token \in Ids, Submit(token) PROVE Outstanding'
  <2>1. life = "running" /\ token = run /\ commands' = Append(commands, token) /\ life' = "pending"
        /\ UNCHANGED <<run, events>>
    BY <1>3 DEF Submit, Honored
  <2>2. commands' = <<run'>> /\ NoOutcome'
    BY <1>0, <2>1 DEF NoOutcome
  <2>3. QED BY <2>1, <2>2
<1>4. CASE ClearOutput
  BY <1>0, <1>4 DEF ClearOutput, Live, NoOutcome
<1>5. ASSUME NoOutcome => NoOutcome', OneOutcome => OneOutcome', UNCHANGED <<life, run, commands>>
      PROVE  Outstanding'
  BY <1>0, <1>5
<1>6. CASE RecordLine \/ AcknowledgeStarted
  <2>1. events # <<>> /\ events' = Tail(events) /\ events[1].kind \notin Signal
    BY <1>6, TakenIsCurrent, StartedTaken DEF RecordLine, Signal
  <2>2. UNCHANGED <<life, run, commands>>
    BY <1>6 DEF RecordLine, AcknowledgeStarted, AppFrame
  <2>3. QED BY <1>5, <2>1, <2>2, OutcomesKept
<1>6a. CASE SendStarted
  <2>1. \E e \in Event : e.kind \notin Signal /\ events' = Append(events, e)
    BY <1>6a, StartedSent DEF Signal
  <2>2. UNCHANGED <<life, run, commands>>
    BY <1>6a DEF SendStarted
  <2>3. QED BY <1>5, <2>1, <2>2, OutcomesKept
<1>7. CASE ReconcileOutcome
  <2>1. life' \in {"running", "stopping"} /\ commands' = <<>>
    BY <1>7, OutcomeTaken DEF ReconcileOutcome, AfterOutcome, AppFrame
  <2>2. QED BY <1>7, <2>1, OutcomeTaken
<1>8. CASE Finish
  <2>1. life' \in {"success", "gone"}
    BY <1>8, TakenIsCurrent DEF Finish, Active, Live
  <2>2. QED BY <2>1
<1>9. CASE SignalGroup
  <2>1. PICK e \in Event : e.kind \in SignalOutcomes /\ events' = Append(events, e)
    BY <1>9, SignalAppends
  <2>2. OneOutcome'
    BY <1>9, <2>1, SignalAppends, OutcomeAppended DEF SignalOutcomes, Signal
  <2>3. UNCHANGED <<life, run>>
    BY <1>9 DEF SignalGroup, WorkerFrame, slotVars
  <2>4. QED BY <1>9, <2>2, <2>3, SignalAppends
<1>10. CASE CloseAdmission
  <2>1. commands' = <<>> /\ UNCHANGED <<life, run>>
    BY <1>10 DEF CloseAdmission, WorkerFrame, slotVars
  <2>2. CASE events' = events /\ commands = <<>>
    BY <1>5, <2>1, <2>2, OutcomesKept
  <2>3. ASSUME commands = <<run>>, NEW e \in Event, e.kind \in {"ProcessAlreadyReaped", "Refused"},
               events' = Append(events, e)
        PROVE  Outstanding'
    <3>1. life = "pending" /\ NoOutcome
      BY <1>0, <1>10, <2>3, AtWorkIsActive DEF CloseAdmission, Active
    <3>2. OneOutcome'
      BY <2>3, <3>1, OutcomeAppended DEF Signal
    <3>3. QED BY <2>1, <3>1, <3>2
  <2>4. QED BY <1>10, <2>2, <2>3, CloseAppends
<1>11. CASE JoinReaders
  <2>1. \E e \in Event : e.kind \notin Signal /\ events' = Append(events, e)
    BY <1>11, JoinAppends DEF Signal
  <2>2. UNCHANGED <<life, run, commands>>
    BY <1>11 DEF JoinReaders, WorkerFrame, slotVars
  <2>3. QED BY <1>5, <2>1, <2>2, OutcomesKept
<1>12. CASE ForwardLine
  <2>1. \E e \in Event : e.kind \notin Signal /\ events' = Append(events, e)
    BY <1>12, ForwardAppends DEF Signal, Lines
  <2>2. UNCHANGED <<life, run, commands>>
    BY <1>12 DEF ForwardLine, ProcessFrame, slotVars
  <2>3. QED BY <1>5, <2>1, <2>2, OutcomesKept
<1>13. CASE Poll \/ Recv \/ AwaitChild \/ PrintLine \/ ChildExits \/ HeirExits \/ UNCHANGED vars
  <2>1. UNCHANGED <<life, run, commands, events>>
    BY <1>13 DEF Poll, Recv, AwaitChild, WorkerFrame, PrintLine, ChildExits, HeirExits, ProcessFrame,
                 vars, slotVars
  <2>2. QED BY <1>5, <2>1, OutcomesKept
<1>14. QED
  BY <1>1, <1>2, <1>3, <1>4, <1>6, <1>6a, <1>7, <1>8, <1>9, <1>10, <1>11, <1>12, <1>13
     DEF Next, Application, Worker

LEMMA SignalSeenStep ==
  ASSUME IInv, [Next]_vars
  PROVE  SignalSeen'
<1> DEFINE Told == \E i \in 1..Len(events) : events[i].kind = "Sent"
<1> USE DEF SignalSeen
<1>0. SignalSeen /\ events \in Seq(Event) /\ Len(events) \in Nat /\ signalled \in BOOLEAN
      /\ life \in Live \cup Ended \cup {"absent"}
  BY DEF IInv, TypeOK
<1>1. CASE Queue
  BY <1>1 DEF Queue, Active
<1>2. CASE Launch
  <2>1. OnlyStarted /\ events' = events /\ life' = "running" /\ ~signalled'
    BY <1>0, <1>2 DEF Launch, IInv, QuietUnlessActive, Quiet, Active
  <2>2. QED BY <2>1 DEF OnlyStarted
<1>3. CASE FailLaunch
  BY <1>3 DEF FailLaunch, Active
<1>4. CASE \E token \in Ids : Submit(token)
  <2>1. life = "running" /\ life' = "pending" /\ UNCHANGED <<signalled, events>>
    BY <1>4 DEF Submit
  <2>2. QED BY <1>0, <2>1 DEF Active
<1>5. CASE ClearOutput
  BY <1>0, <1>5 DEF ClearOutput, Active, Live
<1>6. ASSUME Told' <=> Told, UNCHANGED <<life, signalled>> PROVE SignalSeen'
  BY <1>0, <1>6 DEF Active
<1>7. ASSUME NEW e \in Event, e.kind # "Sent", events' = Append(events, e) PROVE Told' <=> Told
  BY <1>0, <1>7, Appended
<1>8. ASSUME events # <<>>, events[1].kind # "Sent", events' = Tail(events) PROVE Told' <=> Told
  <2>1. Len(events') = Len(events) - 1 /\ \A i \in 1..Len(events') : events'[i] = events[i + 1]
    BY <1>0, <1>8, Received
  <2>2. Told' => Told
    BY <1>0, <2>1
  <2>3. ASSUME NEW i \in 1..Len(events), events[i].kind = "Sent" PROVE Told'
    <3>1. i - 1 \in 1..Len(events') /\ events'[i - 1].kind = "Sent"
      BY <1>0, <1>8, <2>1, <2>3
    <3>2. QED BY <3>1
  <2>4. QED BY <2>2, <2>3
<1>9. CASE RecordLine \/ AcknowledgeStarted
  <2>1. events # <<>> /\ events' = Tail(events) /\ events[1].kind # "Sent"
    BY <1>9, TakenIsCurrent, StartedTaken DEF RecordLine
  <2>2. QED BY <1>6, <1>8, <1>9, <2>1 DEF RecordLine, AcknowledgeStarted, AppFrame
<1>9a. CASE SendStarted
  <2>1. Told' <=> Told
    BY <1>7, <1>9a, StartedSent
  <2>2. QED BY <1>6, <1>9a, <2>1 DEF SendStarted
<1>10. CASE ReconcileOutcome
  <2>1. life = "pending" /\ signalled' = signalled /\ ~Told'
        /\ life' = AfterOutcome(events[1].kind)
    BY <1>10, OutcomeTaken DEF ReconcileOutcome, AppFrame, NoOutcome, Signal
  <2>2. signalled <=> events[1].kind = "Sent"
    <3>1. signalled <=> Told
      BY <1>0, <2>1 DEF Active
    <3>2. 1 \in 1..Len(events)
      BY <1>0, <1>10, TakenIsCurrent, Received DEF ReconcileOutcome, Signal
    <3>3. QED BY <1>10, <3>1, <3>2, OutcomeTaken DEF Signal
  <2>3. QED BY <2>1, <2>2 DEF AfterOutcome
<1>11. CASE Finish
  <2>1. life' \in {"success", "gone"}
    BY <1>11, TakenIsCurrent DEF Finish, Active, Live
  <2>2. QED BY <2>1 DEF Active
<1>12. CASE SignalGroup
  <2>1. PICK e \in Event : e.kind \in SignalOutcomes /\ events' = Append(events, e)
                           /\ signalled' = (signalled \/ e.kind = "Sent")
    BY <1>12, SignalAppends
  <2>2. life = "pending" /\ life' = life /\ ~Told
    BY <1>12, SignalAppends DEF SignalGroup, WorkerFrame, slotVars, NoOutcome, Signal
  <2>3. ~signalled
    BY <1>0, <2>2 DEF Active
  <2>4. Told' <=> e.kind = "Sent"
    <3>1. Len(events') = Len(events) + 1 /\ events'[Len(events) + 1] = e
          /\ \A i \in 1..Len(events) : events'[i] = events[i]
      BY <1>0, <2>1, Appended
    <3>2. Len(events) + 1 \in 1..Len(events')
      BY <1>0, <3>1
    <3>3. QED BY <1>0, <2>2, <3>1, <3>2
  <2>5. QED BY <2>1, <2>2, <2>3, <2>4
<1>13. CASE CloseAdmission
  <2>1. Told' <=> Told
    <3>1. CASE events' = events
      BY <3>1
    <3>2. CASE events' # events
      <4>1. PICK e \in Event : e.kind \in {"ProcessAlreadyReaped", "Refused"} /\ events' = Append(events, e)
        BY <1>13, <3>2, CloseAppends
      <4>2. QED BY <1>7, <4>1
    <3>3. QED BY <3>1, <3>2
  <2>2. UNCHANGED <<life, signalled>>
    BY <1>13 DEF CloseAdmission, WorkerFrame, slotVars
  <2>3. QED BY <1>6, <2>1, <2>2
<1>14. CASE JoinReaders
  <2>1. Told' <=> Told
    BY <1>7, <1>14, JoinAppends
  <2>2. UNCHANGED <<life, signalled>>
    BY <1>14 DEF JoinReaders, WorkerFrame, slotVars
  <2>3. QED BY <1>6, <2>1, <2>2
<1>15. CASE ForwardLine
  <2>1. Told' <=> Told
    BY <1>7, <1>15, ForwardAppends DEF Lines
  <2>2. UNCHANGED <<life, signalled>>
    BY <1>15 DEF ForwardLine, ProcessFrame, slotVars
  <2>3. QED BY <1>6, <2>1, <2>2
<1>16. CASE Poll \/ Recv \/ AwaitChild \/ PrintLine \/ ChildExits \/ HeirExits \/ UNCHANGED vars
  <2>1. UNCHANGED <<life, signalled, events>>
    BY <1>16 DEF Poll, Recv, AwaitChild, WorkerFrame, PrintLine, ChildExits, HeirExits, ProcessFrame,
                 vars, slotVars
  <2>2. QED BY <1>6, <2>1
<1>17. QED
  BY <1>1, <1>2, <1>3, <1>4, <1>5, <1>9, <1>9a, <1>10, <1>11, <1>12, <1>13, <1>14, <1>15, <1>16
     DEF Next, Application, Worker
-----------------------------------------------------------------------------
(* The output.                                                             *)

LEMMA MarkerStep ==
  ASSUME IInv, [Next]_vars
  PROVE  TextAtTail' /\ MarkerIsLast'
<1> USE DEF TextAtTail, MarkerIsLast
<1>0. TextAtTail /\ MarkerIsLast /\ life \in Live \cup Ended \cup {"absent"}
  BY DEF IInv, TypeOK
<1>1. CASE Queue \/ Launch \/ FailLaunch
  BY <1>1 DEF Queue, Launch, FailLaunch, lineVars
<1>2. CASE \E token \in Ids : Submit(token)
  BY <1>0, <1>2 DEF Submit, lineVars
<1>3. CASE ClearOutput
  BY <1>0, <1>3 DEF ClearOutput, Live
<1>4. CASE RecordLine
  <2>1. Active /\ life' = life /\ (tail' = "line" \/ tail' = tail)
    BY <1>4, TakenIsCurrent DEF RecordLine
  <2>2. QED BY <1>0, <2>1 DEF Active
<1>4a. CASE SendStarted \/ AcknowledgeStarted
  <2>1. UNCHANGED <<life, tail>>
    BY <1>4a DEF SendStarted, AcknowledgeStarted, AppFrame, lineVars
  <2>2. QED BY <1>0, <2>1
<1>5. CASE ReconcileOutcome
  <2>1. life = "pending" /\ Current
    BY <1>5, OutcomeTaken
  <2>2. \/ life' = "stopping"
        \/ life' = "running" /\ tail' = tail
    BY <1>5, <2>1 DEF ReconcileOutcome, AfterOutcome
  <2>3. QED BY <1>0, <2>1, <2>2
<1>6. CASE Finish
  <2>1. Active /\ Current
    BY <1>6, TakenIsCurrent DEF Finish
  <2>2. \/ life \in {"running", "pending"} /\ life' = "success" /\ tail' = MarkAtTail
        \/ life = "stopping" /\ life' = "gone" /\ tail' = "killed"
    BY <1>6, <2>1 DEF Finish, KilledAtEnd, Active, Live
  <2>3. QED BY <1>0, <2>2 DEF MarkAtTail
<1>7. CASE Worker \/ PrintLine \/ ForwardLine \/ ChildExits \/ HeirExits \/ UNCHANGED vars
  <2>1. UNCHANGED slotVars
    BY <1>7 DEF Worker, Poll, Recv, AwaitChild, SignalGroup, CloseAdmission, JoinReaders, WorkerFrame,
                PrintLine, ForwardLine, ChildExits, HeirExits, ProcessFrame, vars
  <2>2. QED BY <1>0, <2>1 DEF slotVars, lineVars
<1>8. QED BY <1>4a, <1>1, <1>2, <1>3, <1>4, <1>5, <1>6, <1>7 DEF Next, Application

LEMMA ReplacedStep ==
  ASSUME IInv, [Next]_vars
  PROVE  LinesReplaced'
<1> USE DEF LinesReplaced
<1>0. LinesReplaced /\ kept \in Nat /\ replaced \in Nat
  BY DEF IInv, TypeOK
<1>1. CASE Queue \/ SendStarted \/ AcknowledgeStarted \/ \E token \in Ids : Submit(token)
  <2>1. UNCHANGED lineVars
    BY <1>1 DEF Queue, SendStarted, AcknowledgeStarted, Submit
  <2>2. QED BY <1>0, <2>1 DEF lineVars
<1>2. CASE Launch \/ FailLaunch \/ ClearOutput
  BY <1>0, <1>2 DEF Launch, FailLaunch, ClearOutput
<1>3. CASE RecordLine
  BY <1>0, <1>3 DEF RecordLine
<1>4. CASE ReconcileOutcome \/ Finish
  BY <1>0, <1>4 DEF ReconcileOutcome, Finish, MarkAtTail, KilledAtEnd
<1>5. CASE Worker \/ PrintLine \/ ForwardLine \/ ChildExits \/ HeirExits \/ UNCHANGED vars
  <2>1. UNCHANGED slotVars
    BY <1>5 DEF Worker, Poll, Recv, AwaitChild, SignalGroup, CloseAdmission, JoinReaders, WorkerFrame,
                PrintLine, ForwardLine, ChildExits, HeirExits, ProcessFrame, vars
  <2>2. QED BY <1>0, <2>1 DEF slotVars, lineVars
<1>6. QED BY <1>1, <1>2, <1>3, <1>4, <1>5 DEF Next, Application

LEMMA LinesStep ==
  ASSUME IInv, [Next]_vars
  PROVE  LinesCounted' /\ NoLineLost'
<1> DEFINE Count == Cardinality(LineIndexes(events))
<1> USE DEF LinesCounted, NoLineLost
<1>0. LinesCounted /\ NoLineLost /\ events \in Seq(Event) /\ Taken \in Nat /\ forwarded \in Nat
      /\ life \in Live \cup Ended \cup {"absent"}
  BY DEF IInv, TypeOK, Taken
<1>1. CASE Queue \/ FailLaunch
  BY <1>1 DEF Queue, FailLaunch, Active
<1>2. CASE Launch
  <2>1. OnlyStarted /\ events' = events /\ forwarded' = 0 /\ Taken' = 0 /\ life' = "running"
    BY <1>2 DEF Launch, IInv, QuietUnlessActive, Quiet, Active, Taken
  <2>2. LineIndexes(events') = {}
    BY <2>1 DEF LineIndexes, OnlyStarted, Lines
  <2>3. IsFiniteSet(LineIndexes(events')) /\ Cardinality(LineIndexes(events')) = 0
    BY <2>2, FS_EmptySet
  <2>4. QED BY <2>1, <2>3
<1>3. CASE \E token \in Ids : Submit(token)
  <2>1. life = "running" /\ life' = "pending" /\ UNCHANGED <<events, Taken, forwarded>>
    BY <1>3 DEF Submit, procVars, lineVars, Taken
  <2>2. QED BY <1>0, <2>1 DEF Active
<1>4. CASE ClearOutput
  <2>1. UNCHANGED <<events, forwarded, printed>> /\ Taken' = Taken
        /\ (life' = "absent" \/ (life' = life /\ life \in Live))
    <3>1. kept \in Nat /\ replaced \in Nat /\ erased \in Nat
      BY DEF IInv, TypeOK
    <3>2. QED BY <1>0, <1>4, <3>1 DEF ClearOutput, procVars, Taken
  <2>2. QED BY <1>0, <2>1 DEF Active, Live
\* No line comes or goes, and none is printed once the run is over.
<1>5. ASSUME UNCHANGED <<life, kept, replaced, erased, forwarded>>, Active \/ printed' = printed,
             IsFiniteSet(LineIndexes(events)) =>
               IsFiniteSet(LineIndexes(events)') /\ Count' = Count
      PROVE  LinesCounted' /\ NoLineLost'
  BY <1>0, <1>5 DEF Active, Taken
<1>6. CASE RecordLine
  <2>1. /\ Active /\ Current /\ events # <<>> /\ events' = Tail(events) /\ Head(events).kind \in Lines
        /\ life \in Records
    BY <1>6, TakenIsCurrent DEF RecordLine, Lines, Records, Active
  <2>2. Taken' = Taken + 1 /\ UNCHANGED <<life, forwarded, printed>>
    <3>1. \/ replaced' = replaced + 1 /\ UNCHANGED <<kept, erased>>
          \/ kept' = kept + 1 /\ UNCHANGED <<replaced, erased>>
      BY <1>6, <2>1 DEF RecordLine
    <3>2. kept \in Nat /\ replaced \in Nat /\ erased \in Nat
      BY DEF IInv, TypeOK
    <3>3. Taken' = Taken + 1
      BY <3>1, <3>2 DEF Taken
    <3>4. QED BY <1>6, <3>3 DEF RecordLine, AppFrame, procVars
  <2>3. IsFiniteSet(LineIndexes(events'))
        /\ Cardinality(LineIndexes(events)) = Cardinality(LineIndexes(events')) + 1
    BY <1>0, <2>1, LinesReceived
  <2>4. Cardinality(LineIndexes(events')) \in Nat
    BY <2>3, FS_CardinalityType
  <2>5. forwarded' = Taken' + Cardinality(LineIndexes(events'))
    BY <1>0, <2>1, <2>2, <2>3, <2>4
  <2>6. QED BY <2>1, <2>2, <2>3, <2>5 DEF Active
<1>6a. CASE AcknowledgeStarted
  <2>1. UNCHANGED <<life, kept, replaced, erased, forwarded, printed>>
    BY <1>6a DEF AcknowledgeStarted, AppFrame, lineVars, procVars
  <2>2. IsFiniteSet(LineIndexes(events)) => IsFiniteSet(LineIndexes(events)') /\ Count' = Count
    BY <1>6a, StartedTaken, LinesReceived DEF Lines
  <2>3. QED BY <1>5, <2>1, <2>2
<1>7. CASE ReconcileOutcome
  <2>1. /\ Active /\ events # <<>> /\ events' = Tail(events) /\ Head(events).kind \notin Lines
        /\ life = "pending" /\ life' \in {"running", "stopping"}
    BY <1>7, TakenIsCurrent, OutcomeTaken DEF ReconcileOutcome, AfterOutcome, Lines, Signal
  <2>2. UNCHANGED <<forwarded, printed>> /\ Taken' = Taken
    BY <1>7 DEF ReconcileOutcome, AppFrame, procVars, Taken
  <2>3. IsFiniteSet(LineIndexes(events'))
        /\ Cardinality(LineIndexes(events)) = Cardinality(LineIndexes(events'))
    BY <1>0, <2>1, LinesReceived
  <2>4. QED BY <1>0, <2>1, <2>2, <2>3
<1>8. CASE Finish
  <2>1. Active /\ forwarded = printed /\ LineIndexes(events) = {}
    BY <1>8, TakenIsCurrent, FinishedIsAlone DEF Finish
  <2>2. Taken = printed
    <3>1. Cardinality(LineIndexes(events)) = 0
      BY <2>1, FS_EmptySet
    <3>2. QED BY <1>0, <2>1, <3>1
  <2>3. erased < printed => kept > 0
    <3>1. (kept = 0 => replaced = 0) /\ kept \in Nat /\ replaced \in Nat /\ erased \in Nat
      BY DEF IInv, LinesReplaced, TypeOK
    <3>2. QED BY <2>2, <3>1 DEF Taken
  <2>4. UNCHANGED <<kept, replaced, erased, printed>> /\ life' \in {"success", "gone"}
    BY <1>8, TakenIsCurrent DEF Finish, AppFrame, procVars, Active, Live
  <2>5. QED BY <2>2, <2>3, <2>4 DEF Active, Taken
<1>9. ASSUME NEW e \in Event, e.kind \notin Lines, events' = Append(events, e), IsFiniteSet(LineIndexes(events))
      PROVE  IsFiniteSet(LineIndexes(events)') /\ Count' = Count
  BY <1>0, <1>9, LinesAppended
<1>10. CASE SignalGroup \/ CloseAdmission \/ JoinReaders \/ SendStarted
  <2>1. UNCHANGED <<life, kept, replaced, erased, forwarded, printed>>
    BY <1>10 DEF SignalGroup, CloseAdmission, JoinReaders, SendStarted, WorkerFrame, slotVars, lineVars, procVars
  <2>2. \/ events' = events
        \/ \E e \in Event : e.kind \notin Lines /\ events' = Append(events, e)
    <3>1. CASE SignalGroup
      BY <3>1, SignalAppends DEF SignalOutcomes, Lines
    <3>2. CASE CloseAdmission
      BY <3>2, CloseAppends DEF Lines
    <3>3. CASE JoinReaders
      BY <3>3, JoinAppends DEF Lines
    <3>4. CASE SendStarted
      BY <3>4, StartedSent DEF Lines
    <3>5. QED BY <1>10, <3>1, <3>2, <3>3, <3>4
  <2>3. QED BY <1>5, <1>9, <2>1, <2>2
<1>11. CASE ForwardLine
  <2>1. Active /\ forwarded' = forwarded + 1 /\ UNCHANGED life /\ Taken' = Taken
    BY <1>11, ForwardAppends, AtWorkIsActive DEF ForwardLine, ProcessFrame, slotVars, lineVars, Taken
  <2>2. PICK e \in Event : e.kind \in Lines /\ events' = Append(events, e)
    BY <1>11, ForwardAppends
  <2>3. IsFiniteSet(LineIndexes(events)) /\ forwarded = Taken + Count
    BY <1>0, <2>1
  <2>4. IsFiniteSet(LineIndexes(events')) /\ Cardinality(LineIndexes(events')) = Count + 1
    BY <1>0, <2>2, <2>3, LinesAppended
  <2>5. Count \in Nat
    BY <2>3, FS_CardinalityType
  <2>6. forwarded' = Taken' + Cardinality(LineIndexes(events'))
    BY <1>0, <2>1, <2>3, <2>4, <2>5
  <2>7. QED BY <2>1, <2>4, <2>6 DEF Active
<1>12. CASE Poll \/ Recv \/ AwaitChild \/ PrintLine \/ ChildExits \/ HeirExits
  <2>1. Active
    BY <1>12, AtWorkIsActive DEF Poll, Recv, AwaitChild, PrintLine, ChildExits, HeirExits
  <2>2. UNCHANGED <<life, kept, replaced, erased, forwarded, events>>
    BY <1>12 DEF Poll, Recv, AwaitChild, WorkerFrame, PrintLine, ChildExits, HeirExits, ProcessFrame, slotVars, lineVars
  <2>3. QED BY <1>5, <2>1, <2>2
<1>13. CASE UNCHANGED vars
  BY <1>5, <1>13 DEF vars, slotVars, lineVars, procVars
<1>14. QED
  BY <1>1, <1>2, <1>3, <1>4, <1>6, <1>6a, <1>7, <1>8, <1>10, <1>11, <1>12, <1>13 DEF Next, Application, Worker
-----------------------------------------------------------------------------
(* The theorems.                                                           *)

LEMMA InvInit == Init => IInv
<1> SUFFICES ASSUME Init PROVE IInv
  OBVIOUS
<1>1. TypeOK
  <2>1. MaxId \in Nat \ {0}
    BY OwnedRunAssumption DEF OwnedRunAssumption
  <2>2. 1 \in Ids /\ 0 \in 0..MaxId /\ 0 \in Nat
    BY <2>1 DEF Ids
  <2>3. QED BY <2>2, EmptySeq DEF Init, TypeOK
<1>2. QED
  BY <1>1 DEF Init, IInv, QuietUnlessActive, Quiet, SlotIds, Serves, WorkerState, EndComes, Outstanding,
              SignalSeen, TextAtTail, LinesReplaced, LinesCounted, FinishedIsLast, NoLineLost, OutputAttributed,
              MarkerIsLast, Active, OnlyStarted

LEMMA InvStep == IInv /\ [Next]_vars => IInv'
  BY TypeStep, QuietStep, SlotIdsStep, ServesStep, WorkerStateStep, FinishedIsLastStep, OutstandingStep,
     SignalSeenStep, MarkerStep, ReplacedStep, LinesStep DEF IInv

LEMMA InvAlways == Spec => []IInv
  BY InvInit, InvStep, PTL DEF Spec

\* The slot, the worker, the channel and the child have the types of their state.
THEOREM TypeCorrect == Spec => []TypeOK
<1>1. IInv => TypeOK
  BY DEF IInv
<1>2. QED BY <1>1, InvAlways, PTL

\* A request the worker accepted is always answered: while the application waits, the token
\* or an outcome is on its way, the request that raced the reaping of the child included.
THEOREM PendingAnswered == Spec => []PendingIsAnswered
<1>1. ASSUME IInv PROVE PendingIsAnswered
  <2> SUFFICES ASSUME life = "pending" PROVE OutcomeOnItsWay
    BY DEF PendingIsAnswered
  <2>1. CASE commands = <<run>>
    BY <2>1 DEF OutcomeOnItsWay
  <2>2. CASE OneOutcome
    <3>1. PICK i \in 1..Len(events) : events[i].kind \in Signal
      BY <2>2 DEF OneOutcome
    <3>2. events[i].run = run
      BY <1>1, <3>1 DEF IInv, Serves, Active, Signal
    <3>3. QED BY <3>1, <3>2 DEF OutcomeOnItsWay
  <2>3. QED BY <1>1, <2>1, <2>2 DEF IInv, Outstanding
<1>2. IInv => PendingIsAnswered
  BY <1>1
<1>3. QED BY <1>2, InvAlways, PTL

\* run_owned_run_process_worker: Finished is sent when the child is reaped, the readers are
\* joined and every line is on its way; no event but Started, which the application thread
\* sends, follows it.
THEOREM FinishedLast == Spec => []FinishedIsLast
<1>1. IInv => FinishedIsLast
  BY DEF IInv
<1>2. QED BY <1>1, InvAlways, PTL

\* A finished run kept every line its processes printed, but those the user cleared and those
\* a progress line took the place of.
THEOREM LinesKept == Spec => []NoLineLost
<1>1. IInv => NoLineLost
  BY DEF IInv
<1>2. QED BY <1>1, InvAlways, PTL

\* Retained output is drawn under the run that produced it.
THEOREM Attributed == Spec => []OutputAttributed
<1>1. IInv => OutputAttributed
  BY DEF IInv
<1>2. QED BY <1>1, InvAlways, PTL

\* The last line of the Output pane tells how the run ended.
THEOREM MarkerLast == Spec => []MarkerIsLast
<1>1. IInv => MarkerIsLast
  BY DEF IInv
<1>2. QED BY <1>1, InvAlways, PTL

\* The process group is signalled only while its leader is not reaped, so that its identity
\* cannot have been given to another process.
THEOREM SignalledUnreaped == Spec => SignalsUnreaped
<1>1. ASSUME IInv, Next, signalled', ~signalled PROVE child \in {"alive", "zombie"}
  <2>1. CASE SignalGroup
    BY <1>1, <2>1 DEF SignalGroup, IInv, WorkerState
  <2>2. CASE ~SignalGroup
    BY <1>1, <2>2 DEF Next, Application, Worker, Queue, Launch, SendStarted, FailLaunch, ClearOutput, Submit,
       AcknowledgeStarted, RecordLine, ReconcileOutcome, Finish, AppFrame, Poll, Recv, AwaitChild, CloseAdmission, JoinReaders, PrintLine,
       ForwardLine, ChildExits, HeirExits, ProcessFrame
  <2>3. QED BY <2>1, <2>2
<1>2. IInv /\ [Next]_vars => [signalled' /\ ~signalled => child \in {"alive", "zombie"}]_vars
  BY <1>1
<1>3. QED BY <1>2, InvAlways, PTL DEF Spec, SignalsUnreaped
-----------------------------------------------------------------------------
(* The slot implements RunSlot.                                            *)

SlotOf(l) == CASE l \in Live -> "live" [] l = "absent" -> "free" [] l = "success" -> "done"
               [] l = "gone" -> "killed" [] l = "failed" -> "failed"

LEMMA SlotStates ==
  ASSUME NEW l \in Live \cup Ended \cup {"absent"}
  PROVE  /\ l \in Live <=> SlotOf(l) = "live"
         /\ l = "absent" <=> SlotOf(l) = "free"
         /\ l = "success" <=> SlotOf(l) = "done"
         /\ l = "gone" <=> SlotOf(l) = "killed"
         /\ l = "failed" <=> SlotOf(l) = "failed"
<1>1. l \in Live => SlotOf(l) = "live"
  BY DEF SlotOf, Live
<1>2. l = "absent" => SlotOf(l) = "free"
  BY DEF SlotOf, Live
<1>3. l = "success" => SlotOf(l) = "done"
  BY DEF SlotOf, Live
<1>4. l = "gone" => SlotOf(l) = "killed"
  BY DEF SlotOf, Live
<1>5. l = "failed" => SlotOf(l) = "failed"
  BY DEF SlotOf, Live
<1>6. QED BY <1>1, <1>2, <1>3, <1>4, <1>5 DEF Ended, Live

LEMMA PromiseStep ==
  ASSUME IInv, [Next]_vars
  PROVE  [Promise!Next]_(Promise!vars)
<1> USE DEF Promise!Next, Promise!vars
<1>0. TypeOK /\ TypeOK' /\ nextId \in Nat
  BY TypeStep DEF IInv, TypeOK, Ids
<1>1. /\ life \in Live <=> SlotState = "live"
      /\ life = "absent" <=> SlotState = "free"
      /\ life = "success" <=> SlotState = "done"
      /\ life = "gone" <=> SlotState = "killed"
      /\ life = "failed" <=> SlotState = "failed"
  <2>1. SlotState = SlotOf(life)
    BY DEF SlotState, SlotOf
  <2>2. QED BY <1>0, <2>1, SlotStates DEF TypeOK
<1>2. /\ life' \in Live <=> SlotState' = "live"
      /\ life' = "absent" <=> SlotState' = "free"
      /\ life' = "success" <=> SlotState' = "done"
      /\ life' = "gone" <=> SlotState' = "killed"
      /\ life' = "failed" <=> SlotState' = "failed"
  <2>1. SlotState' = SlotOf(life')
    BY DEF SlotState, SlotOf
  <2>2. life' \in Live \cup Ended \cup {"absent"}
    BY <1>0 DEF TypeOK
  <2>3. QED BY <2>1, <2>2, SlotStates
<1>3. ASSUME nextId' = nextId, signalled' = signalled, life' = life \/ (life \in Live /\ life' \in Live)
      PROVE  [Promise!Next]_(Promise!vars)
  <2>1. SlotState' = SlotState
    <3>1. CASE life' = life
      BY <3>1 DEF SlotState
    <3>2. CASE life \in Live /\ life' \in Live
      BY <1>1, <1>2, <3>2
    <3>3. QED BY <1>3, <3>1, <3>2
  <2>2. QED BY <1>3, <2>1
<1>4. CASE Queue
  <2>1. SlotState # "live" /\ SlotState' = "live" /\ nextId' - 1 = (nextId - 1) + 1 /\ signalled' = FALSE
    BY <1>0, <1>1, <1>2, <1>4 DEF Queue, Admits, Allocate, Live
  <2>2. QED BY <2>1 DEF Promise!Launch
<1>5. CASE FailLaunch
  <2>1. SlotState = "live" /\ SlotState' = "failed" /\ ~signalled /\ UNCHANGED <<nextId, signalled>>
    BY <1>1, <1>2, <1>5 DEF FailLaunch, Live, IInv, SignalSeen
  <2>2. QED BY <2>1 DEF Promise!FailLaunch
<1>6. CASE Launch \/ SendStarted \/ AcknowledgeStarted \/ RecordLine \/ \E token \in Ids : Submit(token)
  BY <1>3, <1>6 DEF Launch, SendStarted, AcknowledgeStarted, RecordLine, AppFrame, Submit, Live
<1>7. CASE ClearOutput
  <2>1. UNCHANGED <<nextId, signalled>> /\ life' = IF life \in Live THEN life ELSE "absent"
    BY <1>7 DEF ClearOutput
  <2>2. CASE life \in Live \cup {"absent"}
    BY <1>3, <2>1, <2>2
  <2>3. CASE life \in Ended
    <3>1. SlotState \in {"done", "killed", "failed"} /\ SlotState' = "free"
      BY <1>1, <1>2, <2>1, <2>3 DEF Ended, Live
    <3>2. QED BY <2>1, <3>1 DEF Promise!Forget
  <2>4. QED BY <1>0, <2>2, <2>3 DEF TypeOK
<1>8. CASE ReconcileOutcome
  <2>1. UNCHANGED <<nextId, signalled>> /\ life \in Live /\ life' \in Live
    BY <1>8, OutcomeTaken DEF ReconcileOutcome, AppFrame, AfterOutcome, Live
  <2>2. QED BY <1>3, <2>1
\* A run that ends was signalled exactly when it is seen stopping.
<1>9. CASE Finish
  <2>1. Active /\ Current /\ \A i \in 1..Len(events) : events[i].kind \in {"Started", "Finished"}
    BY <1>9, TakenIsCurrent, FinishedIsAlone DEF Finish
  <2>2. signalled <=> life = "stopping"
    <3>1. \A i \in 1..Len(events) : events[i].kind # "Sent"
      BY <2>1
    <3>2. QED BY <2>1, <3>1 DEF IInv, SignalSeen
  <2>3. \/ life \in {"running", "pending"} /\ life' = "success"
        \/ life = "stopping" /\ life' = "gone"
    BY <1>9, <2>1 DEF Finish, Active, Live
  <2>4. SlotState = "live" /\ SlotState' = (IF signalled THEN "killed" ELSE "done")
    BY <1>1, <1>2, <2>2, <2>3 DEF Live
  <2>5. UNCHANGED <<nextId, signalled>>
    BY <1>9 DEF Finish, AppFrame
  <2>6. QED BY <2>4, <2>5 DEF Promise!End
<1>10. CASE SignalGroup
  <2>1. UNCHANGED <<nextId, life>> /\ life \in Live
    BY <1>10, SignalAppends DEF SignalGroup, WorkerFrame, slotVars, Live
  <2>2. \/ UNCHANGED signalled
        \/ ~signalled /\ signalled' = TRUE
    BY <1>0, <1>10, SignalAppends DEF TypeOK
  <2>3. CASE UNCHANGED signalled
    BY <1>3, <2>1, <2>3
  <2>4. CASE ~signalled /\ signalled' = TRUE
    <3>1. SlotState = "live" /\ SlotState' = SlotState
      BY <1>1, <1>2, <2>1
    <3>2. QED BY <2>1, <2>4, <3>1 DEF Promise!Signal
  <2>5. QED BY <2>2, <2>3, <2>4
<1>11. CASE \/ Poll \/ Recv \/ AwaitChild \/ CloseAdmission \/ JoinReaders
            \/ PrintLine \/ ForwardLine \/ ChildExits \/ HeirExits \/ UNCHANGED vars
  <2>1. UNCHANGED <<nextId, life, signalled>>
    BY <1>11 DEF Poll, Recv, AwaitChild, CloseAdmission, JoinReaders, WorkerFrame, PrintLine, ForwardLine,
                 ChildExits, HeirExits, ProcessFrame, vars, slotVars
  <2>2. QED BY <1>3, <2>1
<1>12. QED
  BY <1>4, <1>5, <1>6, <1>7, <1>8, <1>9, <1>10, <1>11 DEF Next, Application, Worker

\* Seen through its lifecycle and the newest identity, the slot, with its threads, its
\* channels and the processes behind it, is the slot of RunSlot.
THEOREM Implements == Spec => ImplementsRunSlot
<1>1. Init => Promise!Init
  <2> SUFFICES ASSUME Init PROVE Promise!Init
    OBVIOUS
  <2>1. TypeOK /\ life = "absent"
    BY InvInit DEF IInv, Init
  <2>2. SlotState = "free"
    BY <2>1, SlotStates DEF SlotState, SlotOf
  <2>3. QED BY <2>2 DEF Init, Promise!Init
<1>2. IInv /\ [Next]_vars => [Promise!Next]_(Promise!vars)
  BY PromiseStep
<1>3. QED BY <1>1, <1>2, InvAlways, PTL DEF Spec, ImplementsRunSlot, Promise!Spec
=============================================================================
