------------------------- MODULE LintCatchUpProofs -------------------------
(***************************************************************************)
(* The work a pause puts off: no edit is lost, every cancelled run is      *)
(* caught up with, and a killed run leaves no verdict, for a user who lets *)
(* a toggle settle before the next one.                                    *)
(*                                                                         *)
(* Then at most the first message on the channel is a toggle (OneToggle)   *)
(* and its flag is set already (FlagsAhead), so handling a message changes *)
(* no flag a watched project can see (FlagsSteady): provided the disk took *)
(* every marker (MarkersTaken), or a scan would end the pause.  What a paused worker  *)
(* must not forget is said project by project in Held and Owing.  Steps    *)
(* that leave a project alone satisfy Quiet, which keeps both: only a      *)
(* project's own worker needs a closer look.                               *)
(***************************************************************************)
EXTENDS LintPauseProofs

Toggles == {"Pause", "Resume", "PauseProject", "ResumeProject"}
Ending  == {"drain", "drainJoin", "exited"}

\* No pause marker was refused by the disk.
MarkersTaken == unmarked = {}

OneToggle == \A i \in Places : queue[i].kind \in Toggles => i = 1 /\ supPc = "recv"
FlagsAhead ==
  queue # <<>> =>
    /\ queue[1].kind = "Pause" => globallyPaused
    /\ queue[1].kind = "Resume" => ~globallyPaused
    /\ queue[1].kind = "PauseProject" => queue[1].to \subseteq pausedProjects
    /\ queue[1].kind = "ResumeProject" => queue[1].to \cap pausedProjects = {}

\* A trigger for p on its way, a resume p will hear of, p waiting for one.
Coming(p)    == \E i \in Places : queue[i].kind = "Trigger" /\ p \in queue[i].to
Resuming(p)  == \E i \in Places : /\ queue[i].kind \in {"Resume", "ResumeProject"}
                                  /\ p \in queue[i].to \/ queue[i].to = {}
Triggered(p) == Coming(p) \/ inbox[p] > 0
Shelved(p)   == p \in catchUp /\ (Paused(p) \/ Resuming(p))
Expecting(p) == Triggered(p) \/ sched[p] \/ pc[p] = "remember" \/ Shelved(p)

\* What a worker that stays does only because of a pause, a pause still justifies.
Held(p) ==
  ~Leaving(p) =>
    /\ pc[p] \in {"hold", "remember"} => Paused(p)
    /\ pc[p] = "post" /\ owed[p] = "owed" => Paused(p) \/ Triggered(p)
    /\ InRun(p) /\ killed[p] => Paused(p)
    /\ InRun(p) => sched[p]
    /\ InRun(p) /\ owed[p] = "owed" => Triggered(p)

\* An edit no run has started on is expected by somebody.
Owing(p) ==
  owed[p] = "owed" => IF pc[p] = "none" THEN Coming(p) ELSE Leaving(p) \/ Expecting(p)

PatientInv == OneToggle /\ FlagsAhead /\ \A p \in Projects : Held(p) /\ Owing(p)

LEMMA SendKeeps ==
  ASSUME queue \in Seq(Msg), NEW m \in Msg, queue' = Append(queue, m), NEW p \in Projects
  PROVE  /\ Coming(p) => Coming(p)'
         /\ Resuming(p) => Resuming(p)'
         /\ m.kind = "Trigger" /\ p \in m.to => Coming(p)'
         /\ m.kind \in {"Resume", "ResumeProject"} /\ (p \in m.to \/ m.to = {}) => Resuming(p)'
BY Grown DEF Coming, Resuming

LEMMA TakeKeeps ==
  ASSUME queue \in Seq(Msg), queue # <<>>, queue' = Tail(queue), OneToggle, NEW p \in Projects
  PROVE  /\ Coming(p) => Coming(p)' \/ (Head(queue).kind = "Trigger" /\ p \in Head(queue).to)
         /\ Resuming(p) => Head(queue).kind \in {"Resume", "ResumeProject"}
<1>1. ASSUME NEW i \in Places, queue[i].kind = "Trigger", p \in queue[i].to, i # 1 PROVE Coming(p)'
  <2>1. i - 1 \in Places' /\ queue'[i - 1] = queue[i]
    BY <1>1, Shrunk
  <2>2. QED BY <1>1, <2>1 DEF Coming
<1>2. Coming(p) => Coming(p)' \/ (Head(queue).kind = "Trigger" /\ p \in Head(queue).to)
  BY <1>1, Shrunk DEF Coming
<1>3. Resuming(p) => Head(queue).kind \in {"Resume", "ResumeProject"}
  BY Shrunk DEF Resuming, OneToggle, Toggles
<1>4. QED BY <1>2, <1>3
-----------------------------------------------------------------------------
(* Toggles are handled one at a time.                                      *)

\* Taking a message leaves no toggle on the channel.
LEMMA NoToggleLeft ==
  ASSUME queue \in Seq(Msg), queue # <<>>, queue' = Tail(queue), OneToggle
  PROVE  /\ \A i \in Places' : queue'[i].kind \notin Toggles
         /\ OneToggle' /\ FlagsAhead'
<1>1. ASSUME NEW i \in Places' PROVE queue'[i].kind \notin Toggles
  <2>1. i + 1 \in Places /\ i + 1 # 1 /\ queue'[i] = queue[i + 1]
    BY Shrunk
  <2>2. queue[i + 1].kind \notin Toggles
    BY <2>1 DEF OneToggle
  <2>3. QED BY <2>1, <2>2
<1>2. queue' # <<>> => 1 \in Places'
  BY DEF Places
<1>3. QED BY <1>1, <1>2 DEF OneToggle, FlagsAhead, Toggles

\* Other messages queue up behind.
LEMMA QueueBehind ==
  ASSUME queue \in Seq(Msg), NEW m \in Msg, queue' = Append(queue, m), m.kind \notin Toggles,
         OneToggle, FlagsAhead, UNCHANGED <<globallyPaused, pausedProjects, supPc>>
  PROVE  OneToggle' /\ FlagsAhead'
<1>1. OneToggle'
  BY Grown DEF OneToggle
<1>2. CASE queue = <<>>
  <2>1. queue'[1] = m
    BY <1>2
  <2>2. QED BY <1>1, <2>1 DEF FlagsAhead, Toggles
<1>3. CASE queue # <<>>
  <2>1. queue'[1] = queue[1]
    BY <1>3
  <2>2. QED BY <1>1, <1>3, <2>1 DEF FlagsAhead
<1>4. QED BY <1>2, <1>3

LEMMA ToggleStep ==
  ASSUME TypeOK, OneToggle, FlagsAhead, [Next]_vars, PatientUser = TRUE
  PROVE  OneToggle' /\ FlagsAhead'
<1>0. queue \in Seq(Msg)
  BY DEF TypeOK, ChannelType
<1>1. ASSUME UNCHANGED <<queue, globallyPaused, pausedProjects>>, supPc = "recv" => supPc' = "recv"
      PROVE  OneToggle' /\ FlagsAhead'
  BY <1>1 DEF OneToggle, FlagsAhead, Places
<1>2. ASSUME NEW kind \in Toggles, NEW to \in SUBSET Projects, queue = <<>>, Send(kind, to),
             supPc' = "recv",
             kind = "Pause" => globallyPaused', kind = "Resume" => ~globallyPaused',
             kind = "PauseProject" => to \subseteq pausedProjects',
             kind = "ResumeProject" => to \cap pausedProjects' = {}
      PROVE  OneToggle' /\ FlagsAhead'
  <2>1. Len(queue') = 1 /\ queue'[1] = [kind |-> kind, to |-> to]
    BY <1>2 DEF Send
  <2>2. queue'[1].kind = kind /\ queue'[1].to = to
    BY <2>1
  <2>3. FlagsAhead'
    BY <1>2, <2>2 DEF FlagsAhead
  <2>4. OneToggle'
    BY <1>2, <2>1 DEF OneToggle, Places
  <2>5. QED BY <2>3, <2>4
<1>3. ASSUME NEW kind, Receive(kind) PROVE OneToggle' /\ FlagsAhead'
  BY <1>0, <1>3, NoToggleLeft DEF Receive
<1>4. CASE SyncProjects
  BY <1>0, <1>4, QueueBehind DEF SyncProjects, Send, Msg, Toggles, AppFrame, supVars
<1>5. CASE PauseAll
  BY <1>2, <1>5 DEF PauseAll, Patience, Toggles, AppFrame, supVars
<1>6. CASE ResumeAll
  BY <1>2, <1>6 DEF ResumeAll, Patience, Settled, Toggles, AppFrame, supVars
<1>7. CASE WriteMarker \/ DropHandles
  BY <1>1, <1>7 DEF WriteMarker, DropHandles, AppFrame, supVars, pauseVars
<1>8. ASSUME NEW p \in Projects, Edit(p) PROVE OneToggle' /\ FlagsAhead'
  BY <1>0, <1>8, QueueBehind DEF Edit, Send, Msg, Toggles, AppFrame, supVars
<1>9. ASSUME NEW p \in Projects, PauseProject(p) PROVE OneToggle' /\ FlagsAhead'
  BY <1>2, <1>9 DEF PauseProject, Patience, Toggles, AppFrame, supVars
<1>10. ASSUME NEW p \in Projects, ResumeProject(p) PROVE OneToggle' /\ FlagsAhead'
  BY <1>2, <1>10 DEF ResumeProject, Patience, Settled, Toggles, AppFrame, supVars
<1>11. ASSUME NEW p \in Projects, NoticeDir(p) PROVE OneToggle' /\ FlagsAhead'
  <2>1. PICK kind \in {"Register", "Unregister"} : Send(kind, {p})
    BY <1>11 DEF NoticeDir
  <2>2. QED BY <1>0, <1>11, <2>1, QueueBehind DEF NoticeDir, Send, Msg, Toggles, AppFrame, supVars
<1>12. CASE Application
  BY <1>4, <1>5, <1>6, <1>7, <1>8, <1>9, <1>10, <1>11, <1>12 DEF Application
<1>13. CASE Supervisor
  <2>1. CASE HandleSync \/ HandleRegister \/ HandleUnregister \/ HandleTrigger
    BY <1>3, <2>1 DEF HandleSync, HandleRegister, HandleUnregister, HandleTrigger
  <2>2. CASE HandlePause \/ HandlePauseProject \/ HandleResume \/ HandleResumeProject
    BY <1>3, <2>2 DEF HandlePause, HandlePauseProject, HandleResume, HandleResumeProject
  <2>3. CASE AnyHydrate \/ AnyInsert \/ AnyTell
    BY <1>1, <2>3 DEF AnyHydrate, AnyInsert, AnyTell, Hydrate, Insert, Tell, EmitFrame, pauseVars
  <2>7. CASE SpawnMissing \/ SupervisorExits
    BY <1>1, <2>7 DEF SpawnMissing, SupervisorExits, pauseVars
  <2>8. CASE Drain
    <3>1. queue = <<>> /\ queue' = <<>>
      BY <2>8 DEF Drain
    <3>2. QED BY <3>1 DEF OneToggle, FlagsAhead, Places
  <2>9. CASE SyncPauses
    <3>1. queue' = queue /\ supPc = "emit"
      BY <2>9 DEF SyncPauses
    <3>2. \A i \in Places' : i \in Places /\ queue'[i] = queue[i] /\ queue'[i].kind \notin Toggles
      BY <3>1 DEF OneToggle, Places
    <3>3. queue' # <<>> => 1 \in Places'
      BY <1>0, <3>1 DEF Places
    <3>4. QED BY <3>2, <3>3 DEF OneToggle, FlagsAhead, Toggles
  <2>4. CASE StopWorker("reconcile", "join") \/ StopWorker("drain", "drainJoin")
    BY <1>1, <2>4 DEF StopWorker, pauseVars
  <2>5. CASE JoinWorker("join", "reconcile") \/ JoinWorker("drainJoin", "drain")
    BY <1>1, <2>5 DEF JoinWorker, pauseVars
  <2>6. QED BY <1>13, <2>1, <2>2, <2>3, <2>4, <2>5, <2>7, <2>8, <2>9 DEF Supervisor, AnyHydrate, AnyInsert, AnyTell
<1>14. ASSUME NEW p \in Projects, Worker(p) \/ ChildExits(p) \/ DirChanges(p)
       PROVE  OneToggle' /\ FlagsAhead'
  <2>1. CASE Worker(p) \/ ChildExits(p)
    BY <1>1, <2>1, WorkerMoves DEF WorkerFrame, supVars
  <2>2. CASE DirChanges(p)
    BY <1>1, <2>2 DEF DirChanges, AppFrame, supVars
  <2>3. QED BY <1>14, <2>1, <2>2
<1>15. CASE UNCHANGED vars
  BY <1>1, <1>15 DEF vars, pauseVars, supVars
<1>16. QED BY <1>12, <1>13, <1>14, <1>15 DEF Next

\* Handling a message changes no flag a project that stays can see.
LEMMA FlagsSteady ==
  ASSUME TypeOK, PauseInv, OneToggle, FlagsAhead, MarkersTaken, Supervisor,
         NEW p \in Projects, pc[p] # "none", ~Leaving(p)'
  PROVE  Paused(p)' <=> Paused(p)
<1>1. ASSUME NEW kind, Receive(kind)
      PROVE  /\ supPc = "recv" /\ supStop = {} /\ Head(queue) = queue[1]
             /\ Head(queue).kind = kind /\ queue # <<>>
      BY <1>1, Received DEF PauseInv, StopsWhileReconciling
<1>2. ASSUME NEW kind, Receive(kind), kind \notin Toggles, p \notin supStop
      PROVE  p \in pausedProjects <=> Intended(p)
  <2>1. ~\E i \in Places : About(queue[i], p)
    BY <1>1, <1>2 DEF OneToggle, About, Toggles
  <2>2. Watched(p)
    BY <1>1, <1>2 DEF Watched
  <2>3. QED BY <2>1, <2>2 DEF PauseInv, ProjectAgrees, Refused, MarkersTaken
<1>3. ASSUME NEW kind \in {"Register"}, Receive(kind)
      PROVE  Intended(p) <=> p \in marker
  <2>1. 1 \in Places /\ queue[1].kind = kind
    BY <1>1, <1>3, Received
  <2>2. ~\E i \in Places : About(queue[i], p)
    BY <1>3, <2>1 DEF OneToggle, About, Toggles
  <2>3. markerDue.project # p
    BY <2>1, <2>2 DEF PauseInv, MarkerInTime
  <2>4. QED BY <2>3 DEF Intended
<1>4. CASE SyncPauses
  <2>1. supStop' = Workers \ (supSpawn \cap present) /\ p \notin supStop'
    BY <1>4 DEF SyncPauses, Leaving
  <2>2. p \in supSpawn \cap present
    BY <2>1 DEF Workers
  <2>3. p \in pausedProjects' <=> p \in marker
    BY <1>4, <2>2 DEF SyncPauses, PersistedPauses
  <2>4. supPc = "emit" /\ globallyPaused' = globallyPaused
    BY <1>4 DEF SyncPauses
  <2>5. ~\E i \in Places : About(queue[i], p)
    BY <2>4 DEF OneToggle, About, Toggles
  <2>6. supStop = {} /\ Watched(p)
    BY <2>4 DEF PauseInv, StopsWhileReconciling, Emitting, Syncing, Watched
  <2>7. markerDue.project # p
    BY <2>4, <2>5 DEF PauseInv, ReadInTime, Syncing
  <2>8. p \in pausedProjects <=> Intended(p)
    BY <2>5, <2>6 DEF PauseInv, ProjectAgrees, Refused, MarkersTaken
  <2>9. QED BY <2>3, <2>4, <2>7, <2>8 DEF Intended, Paused
<1>5. CASE HandleRegister
  <2>1. Receive("Register") /\ globallyPaused' = globallyPaused
    BY <1>5 DEF HandleRegister
  <2>2. p \in pausedProjects <=> p \in marker
    BY <1>1, <1>2, <1>3, <2>1 DEF Toggles
  <2>3. p \in pausedProjects' <=> p \in pausedProjects
    BY <1>5, <2>2 DEF HandleRegister
  <2>4. QED BY <2>1, <2>3 DEF Paused
<1>6. CASE HandlePause
  BY <1>1, <1>6 DEF HandlePause, FlagsAhead, Paused
<1>7. CASE HandleResume
  BY <1>1, <1>7 DEF HandleResume, FlagsAhead, Paused
<1>8. CASE HandlePauseProject
  BY <1>1, <1>8 DEF HandlePauseProject, FlagsAhead, Paused, To
<1>9. CASE HandleResumeProject
  BY <1>1, <1>9 DEF HandleResumeProject, FlagsAhead, Paused, To
<1>10. CASE UNCHANGED pauseVars
  BY <1>10 DEF pauseVars, Paused
<1>11. CASE HandleSync \/ HandleUnregister \/ HandleTrigger \/ SpawnMissing \/ Drain \/ SupervisorExits
  BY <1>10, <1>11 DEF HandleSync, HandleUnregister, HandleTrigger, SpawnMissing, Drain, SupervisorExits
<1>15. CASE AnyHydrate \/ AnyInsert \/ AnyTell
  BY <1>10, <1>15 DEF AnyHydrate, AnyInsert, AnyTell, Hydrate, Insert, Tell, EmitFrame
<1>12. CASE StopWorker("reconcile", "join") \/ StopWorker("drain", "drainJoin")
  BY <1>10, <1>12 DEF StopWorker
<1>13. CASE JoinWorker("join", "reconcile") \/ JoinWorker("drainJoin", "drain")
  BY <1>10, <1>13 DEF JoinWorker
<1>14. QED BY <1>4, <1>5, <1>6, <1>7, <1>8, <1>9, <1>11, <1>12, <1>13, <1>15
    DEF Supervisor, AnyHydrate, AnyInsert, AnyTell
-----------------------------------------------------------------------------
(* Steps that leave a project alone.                                       *)

\* The worker of p does not move, and nothing p waits for is taken from it.
Quiet(p) ==
  /\ pc'[p] = pc[p] /\ sched'[p] = sched[p]
  /\ owed'[p] \in {owed[p], "no"} \/ Coming(p)'
  /\ Leaving(p) => Leaving(p)'
  /\ Coming(p) => \/ Coming(p)'
                  \/ pc[p] # "none" /\ inbox'[p] > 0
                  \/ pc[p] = "none" /\ owed'[p] = "no"
  /\ inbox[p] > 0 => inbox'[p] > 0
  /\ ~Leaving(p)' /\ Paused(p) => Paused(p)' \/ pc[p] \in {"none", "idle"}
  /\ ~Leaving(p)' /\ Shelved(p) /\ pc[p] # "none" => Shelved(p)' \/ inbox'[p] > 0
  /\ killed'[p] => killed[p] \/ Paused(p)' \/ Leaving(p)'
  /\ shown'[p] = "stale" => shown[p] = "stale"
  /\ supPc \in Ending => supPc' \in Ending

\* A new worker, which has yet to hear anything.
Started(p) ==
  /\ pc[p] = "none" /\ pc'[p] = "idle" /\ owed'[p] = owed[p]
  /\ Coming(p) => Coming(p)'
  /\ shown'[p] = shown[p] /\ supPc \notin Ending

\* A worker that is no more: the project shows no live status, or the runtime ends.
Joined(p) ==
  /\ pc'[p] = "none" /\ owed'[p] = "no"
  /\ shown'[p] = "stale" => supPc' \in Ending

LEMMA QuietKeeps ==
  ASSUME NEW p \in Projects, Held(p), Owing(p), Quiet(p) \/ Started(p) \/ Joined(p)
  PROVE  Held(p)' /\ Owing(p)'
<1>1. CASE Quiet(p)
  <2>1. Triggered(p) /\ pc[p] # "none" => Triggered(p)'
    BY <1>1 DEF Quiet, Triggered
  <2>2. owed'[p] = "owed" => owed[p] = "owed" \/ Coming(p)'
    BY <1>1 DEF Quiet
  <2>3. Held(p)'
    <3>1. SUFFICES ASSUME ~Leaving(p)'
                   PROVE  /\ pc'[p] \in {"hold", "remember"} => Paused(p)'
                          /\ pc'[p] = "post" /\ owed'[p] = "owed" => Paused(p)' \/ Triggered(p)'
                          /\ InRun(p)' /\ killed'[p] => Paused(p)'
                          /\ InRun(p)' => sched'[p]
                          /\ InRun(p)' /\ owed'[p] = "owed" => Triggered(p)'
      BY DEF Held
    <3>2. ~Leaving(p) /\ pc'[p] = pc[p] /\ sched'[p] = sched[p] /\ (InRun(p)' <=> InRun(p))
      BY <1>1, <3>1 DEF Quiet, InRun
    <3>3. pc'[p] \in {"hold", "remember"} => Paused(p)'
      BY <1>1, <3>1, <3>2 DEF Held, Quiet
    <3>4. pc'[p] = "post" /\ owed'[p] = "owed" => Paused(p)' \/ Triggered(p)'
      BY <1>1, <2>1, <2>2, <3>1, <3>2 DEF Held, Quiet, Triggered
    <3>5. InRun(p)' /\ killed'[p] => Paused(p)'
      BY <1>1, <3>1, <3>2 DEF Held, Quiet, InRun, Running
    <3>6. InRun(p)' => sched'[p]
      BY <3>2 DEF Held
    <3>7. InRun(p)' /\ owed'[p] = "owed" => Triggered(p)'
      BY <2>1, <2>2, <3>2 DEF Held, Triggered, InRun, Running
    <3>8. QED BY <3>3, <3>4, <3>5, <3>6, <3>7
  <2>4. Owing(p)'
    <3>1. SUFFICES ASSUME owed'[p] = "owed", ~Coming(p)'
                   PROVE  pc'[p] # "none" /\ (Leaving(p)' \/ Expecting(p)')
      BY DEF Owing, Expecting, Triggered
    <3>2. owed[p] = "owed" /\ pc'[p] = pc[p]
      BY <1>1, <2>2, <3>1 DEF Quiet
    <3>3. pc[p] # "none"
      BY <1>1, <3>1, <3>2 DEF Owing, Quiet
    <3>4. Leaving(p) \/ Expecting(p)
      BY <3>2, <3>3 DEF Owing
    <3>5. Leaving(p)' \/ Expecting(p)'
      BY <1>1, <2>1, <3>2, <3>3, <3>4 DEF Quiet, Expecting, Triggered
    <3>6. QED BY <3>2, <3>3, <3>5
  <2>5. QED BY <2>3, <2>4
<1>2. CASE Started(p)
  BY <1>2 DEF Started, Held, Owing, Expecting, Triggered, InRun, Running
<1>3. CASE Joined(p)
  BY <1>3 DEF Joined, Held, Owing, InRun, Running
<1>4. QED BY <1>1, <1>2, <1>3

\* Steps that send a message, or none, and change at most the flags.
LEMMA QuietOfApplication ==
  ASSUME TypeOK, OneToggle, FlagsAhead, Application, PatientUser = TRUE, NEW p \in Projects
  PROVE  Quiet(p)
<1>0. queue \in Seq(Msg)
  BY DEF TypeOK, ChannelType
<1>1. UNCHANGED <<catchUp, pc, sched, inbox, stop, supPc, supStop, killed, shown>>
  BY DEF Application, SyncProjects, PauseAll, ResumeAll, WriteMarker, DropHandles, Edit, PauseProject,
     ResumeProject, NoticeDir, AppFrame, pauseVars, supVars, threadVars, mailVars, childVars, viewVars, shownVars
<1>2. Leaving(p)' = Leaving(p)
  BY <1>1 DEF Leaving
<1>3. ASSUME NEW kind, NEW to \in SUBSET Projects, Send(kind, to),
             [kind |-> kind, to |-> to] \in Msg,
             owed'[p] = owed[p] \/ (kind = "Trigger" /\ p \in to),
             Paused(p) => Paused(p)' \/ pc[p] \in {"none", "idle"},
             Paused(p) => \/ Paused(p)'
                          \/ kind \in {"Resume", "ResumeProject"} /\ (p \in to \/ to = {})
      PROVE  Quiet(p)
  <2> DEFINE m == [kind |-> kind, to |-> to]
  <2>1. m \in Msg /\ queue' = Append(queue, m) /\ m.kind = kind /\ m.to = to
    BY <1>3 DEF Send
  <2> HIDE DEF m
  <2>2. /\ Coming(p) => Coming(p)'
        /\ Resuming(p) => Resuming(p)'
        /\ kind = "Trigger" /\ p \in to => Coming(p)'
        /\ kind \in {"Resume", "ResumeProject"} /\ (p \in to \/ to = {}) => Resuming(p)'
    BY <1>0, <2>1, SendKeeps
  <2>3. Shelved(p) => Shelved(p)'
    BY <1>1, <1>3, <2>2 DEF Shelved
  <2>4. owed'[p] = owed[p] \/ Coming(p)'
    BY <1>3, <2>2
  <2>5. QED BY <1>1, <1>2, <1>3, <2>2, <2>3, <2>4 DEF Quiet
<1>4. CASE SyncProjects
  BY <1>3, <1>4 DEF SyncProjects, Send, Msg, Paused
<1>5. CASE PauseAll
  BY <1>3, <1>5 DEF PauseAll, Send, Msg, Paused
<1>6. CASE ResumeAll
  <2>1. pc[p] \in {"none", "idle"}
    BY <1>6 DEF ResumeAll, Patience, Settled
  <2>2. QED BY <1>3, <1>6, <2>1 DEF ResumeAll, Send, Msg
<1>7. CASE WriteMarker \/ DropHandles
  <2>1. UNCHANGED <<queue, owed, globallyPaused, pausedProjects>>
    BY <1>7 DEF WriteMarker, DropHandles, pauseVars
  <2>2. QED BY <1>1, <1>2, <2>1 DEF Quiet, Coming, Shelved, Paused, Resuming, Places
<1>8. ASSUME NEW q \in Projects, Edit(q) PROVE Quiet(p)
  <2>1. owed'[p] = owed[p] \/ p \in {q}
    BY <1>8 DEF Edit, TypeOK, RecordType
  <2>2. [kind |-> "Trigger", to |-> {q}] \in Msg /\ Send("Trigger", {q}) /\ Paused(p)' = Paused(p)
    BY <1>8 DEF Edit, Msg, Paused
  <2>3. QED BY <1>3, <2>1, <2>2
<1>9. ASSUME NEW q \in Projects, PauseProject(q) PROVE Quiet(p)
  BY <1>3, <1>9 DEF PauseProject, Send, Msg, Paused
<1>10. ASSUME NEW q \in Projects, ResumeProject(q) PROVE Quiet(p)
  <2>1. pc[p] \in {"none", "idle"}
    BY <1>10 DEF ResumeProject, Patience, Settled
  <2>2. Paused(p) => Paused(p)' \/ p \in {q}
    BY <1>10 DEF ResumeProject, Paused
  <2>3. /\ [kind |-> "ResumeProject", to |-> {q}] \in Msg
        /\ Send("ResumeProject", {q}) /\ owed'[p] = owed[p]
    BY <1>10 DEF ResumeProject, Msg
  <2>4. QED BY <1>3, <2>1, <2>2, <2>3
<1>11. ASSUME NEW q \in Projects, NoticeDir(q) PROVE Quiet(p)
  <2>1. PICK kind \in {"Register", "Unregister"} : Send(kind, {q})
    BY <1>11 DEF NoticeDir
  <2>2. [kind |-> kind, to |-> {q}] \in Msg /\ owed'[p] = owed[p] /\ Paused(p)' = Paused(p)
    BY <1>11 DEF NoticeDir, Msg, Paused
  <2>3. QED BY <1>3, <2>1, <2>2
<1>12. QED BY <1>4, <1>5, <1>6, <1>7, <1>8, <1>9, <1>10, <1>11 DEF Application

\* The supervisor leaves a project alone, starts its worker or has joined it.
LEMMA QuietOfSupervisor ==
  ASSUME TypeOK, PauseInv, OneToggle, FlagsAhead, MarkersTaken, Supervisor, NEW p \in Projects
  PROVE  Quiet(p) \/ Started(p) \/ Joined(p)
<1>1. ASSUME NEW kind, Receive(kind)
      PROVE  /\ supPc = "recv" /\ supStop = {} /\ To \in SUBSET Projects /\ To = Head(queue).to
             /\ Coming(p) => Coming(p)' \/ (kind = "Trigger" /\ p \in To)
             /\ Resuming(p) => kind \in {"Resume", "ResumeProject"}
  BY <1>1, Received, TakeKeeps DEF PauseInv, StopsWhileReconciling, To
<1>2. pc[p] # "none" /\ ~Leaving(p)' => (Paused(p)' <=> Paused(p))
  BY FlagsSteady
<1>3. CASE HandleSync
  <2>1. UNCHANGED <<pc, sched, inbox, stop, owed, killed, pauseVars, supStop, shown>> /\ supPc' = "emit"
    BY <1>3 DEF HandleSync, threadVars, mailVars, childVars, viewVars, shownVars
  <2>2. (Coming(p) => Coming(p)') /\ ~Resuming(p) /\ supPc = "recv"
    BY <1>1, <1>3 DEF HandleSync
  <2>3. QED BY <2>1, <2>2 DEF Quiet, Ending, Leaving, Shelved, Paused, pauseVars
<1>17. CASE SyncPauses
  <2>1. /\ UNCHANGED <<pc, sched, inbox, stop, owed, killed, catchUp, shown, queue>>
        /\ supPc = "emit" /\ supPc' = "reconcile"
    BY <1>17 DEF SyncPauses, threadVars, mailVars, childVars, viewVars, shownVars
  <2>2. Leaving(p) => Leaving(p)'
    BY <2>1 DEF Leaving, PauseInv, StopsWhileReconciling, Emitting, Syncing
  <2>3. (Coming(p) => Coming(p)') /\ (Resuming(p) => Resuming(p)')
    BY <2>1 DEF Coming, Resuming, Places
  <2>4. ~Leaving(p)' /\ Paused(p) => Paused(p)' \/ pc[p] = "none"
    BY <1>2
  <2>5. ~Leaving(p)' /\ Shelved(p) /\ pc[p] # "none" => Shelved(p)'
    BY <2>1, <2>3, <2>4 DEF Shelved
  <2>6. QED BY <2>1, <2>2, <2>3, <2>4, <2>5 DEF Quiet, Ending
<1>4. CASE HandleRegister
  <2>1. UNCHANGED <<owed, killed, catchUp, supStop, shown>> /\ supPc' = "hydrate"
    BY <1>4 DEF HandleRegister, childVars, viewVars, shownVars
  <2>2. (Coming(p) => Coming(p)') /\ ~Resuming(p) /\ supPc = "recv"
    BY <1>1, <1>4 DEF HandleRegister
  <2>3. PICK r \in To : Spawn({r} \cap present, DiscoveryImmediate)
    BY <1>4 DEF HandleRegister
  <2>4. CASE p \in ({r} \cap present) \ Workers
    <3>1. pc[p] = "none" /\ pc'[p] = "idle"
      BY <2>3, <2>4 DEF Spawn, Workers
    <3>2. QED BY <2>1, <2>2, <3>1 DEF Started, Ending
  <2>5. CASE p \notin ({r} \cap present) \ Workers
    <3>1. pc'[p] = pc[p] /\ sched'[p] = sched[p] /\ inbox'[p] = inbox[p] /\ (stop[p] <=> stop'[p])
      BY <2>3, <2>5 DEF Spawn
    <3>2. Leaving(p) <=> Leaving(p)'
      BY <2>1, <3>1 DEF Leaving
    <3>3. ~Leaving(p)' /\ Paused(p) => Paused(p)' \/ pc[p] = "none"
      BY <1>2
    <3>4. ~Leaving(p)' /\ Shelved(p) /\ pc[p] # "none" => Shelved(p)'
      BY <2>1, <2>2, <3>3 DEF Shelved
    <3>5. QED BY <2>1, <2>2, <3>1, <3>2, <3>3, <3>4 DEF Quiet, Ending
  <2>6. QED BY <2>4, <2>5
<1>5. CASE HandleUnregister
  <2>1. UNCHANGED <<pc, sched, inbox, stop, owed, killed, pauseVars, shown>>
    BY <1>5 DEF HandleUnregister, threadVars, mailVars, childVars, viewVars, shownVars
  <2>2. (Coming(p) => Coming(p)') /\ ~Resuming(p) /\ supPc = "recv" /\ supStop = {}
    BY <1>1, <1>5 DEF HandleUnregister
  <2>3. QED BY <2>1, <2>2 DEF Quiet, Ending, Leaving, Shelved, Paused, pauseVars
<1>6. CASE HandleTrigger
  <2>1. UNCHANGED <<pc, sched, stop, killed, pauseVars, shown, supPc, supStop>>
    BY <1>6 DEF HandleTrigger, threadVars, childVars, viewVars, shownVars, supVars
  <2>2. ~Resuming(p) /\ (Coming(p) => Coming(p)' \/ p \in To)
    BY <1>1, <1>6 DEF HandleTrigger
  <2>3. /\ inbox'[p] = IF p \in To \cap Workers THEN inbox[p] + 1 ELSE inbox[p]
        /\ owed'[p] = IF p \in To \ Workers THEN "no" ELSE owed[p]
    BY <1>6 DEF HandleTrigger
  <2>4. inbox[p] \in Nat
    BY DEF TypeOK, WorkerType
  <2>5. inbox[p] > 0 => inbox'[p] > 0
    BY <2>3, <2>4
  <2>6. CASE p \in To /\ pc[p] # "none"
    <3>1. inbox'[p] > 0 /\ owed'[p] = owed[p]
      BY <2>3, <2>4, <2>6 DEF Workers
    <3>2. QED BY <2>1, <2>2, <2>6, <3>1 DEF Quiet, Leaving, Shelved, Paused, pauseVars
  <2>7. CASE ~(p \in To /\ pc[p] # "none")
    <3>1. p \in To => pc[p] = "none" /\ owed'[p] = "no"
      BY <2>3, <2>7 DEF Workers
    <3>2. owed'[p] \in {owed[p], "no"}
      BY <2>3
    <3>3. QED BY <2>1, <2>2, <2>5, <3>1, <3>2 DEF Quiet, Leaving, Shelved, Paused, pauseVars
  <2>8. QED BY <2>6, <2>7
<1>7. CASE HandlePause \/ HandlePauseProject
  <2>1. UNCHANGED <<pc, sched, inbox, stop, owed, catchUp, shown, supPc, supStop>>
    BY <1>7 DEF HandlePause, HandlePauseProject, KillFrame, threadVars, mailVars, viewVars, shownVars, supVars
  <2>2. ~Resuming(p) /\ (Coming(p) => Coming(p)')
    BY <1>1, <1>7 DEF HandlePause, HandlePauseProject
  <2>3. Paused(p) => Paused(p)'
    BY <1>7 DEF HandlePause, HandlePauseProject, Paused
  <2>4. killed'[p] => killed[p] \/ Paused(p)'
    BY <1>7 DEF HandlePause, HandlePauseProject, KillSlots, Paused
  <2>5. QED BY <2>1, <2>2, <2>3, <2>4 DEF Quiet, Leaving, Shelved
<1>8. CASE HandleResume \/ HandleResumeProject
  <2>1. UNCHANGED <<pc, sched, stop, owed, killed, shown, supPc, supStop>> /\ ResumeCatchUp
    BY <1>8 DEF HandleResume, HandleResumeProject, ResumeFrame, threadVars, childVars, viewVars, shownVars, supVars
  <2>2. Coming(p) => Coming(p)'
    BY <1>1, <1>8 DEF HandleResume, HandleResumeProject
  <2>3. ~Leaving(p)' /\ Paused(p) => Paused(p)' \/ pc[p] = "none"
    BY <1>2
  <2> DEFINE still == IF globallyPaused' THEN catchUp ELSE catchUp \cap pausedProjects'
  <2>4. /\ catchUp' = still
        /\ inbox'[p] = IF p \in (catchUp \ still) \cap Workers THEN inbox[p] + 1 ELSE inbox[p]
    BY <2>1 DEF ResumeCatchUp
  <2>5. inbox[p] \in Nat
    BY DEF TypeOK, WorkerType
  <2>6. p \in still => p \in catchUp' /\ Paused(p)'
    BY <2>4 DEF Paused
  <2>7. inbox[p] > 0 => inbox'[p] > 0
    BY <2>4, <2>5
  <2>8. Shelved(p) /\ pc[p] # "none" => Shelved(p)' \/ inbox'[p] > 0
    <3>1. p \in catchUp /\ p \notin still /\ pc[p] # "none" => inbox'[p] > 0
      <4>1. SUFFICES ASSUME p \in (catchUp \ still) \cap Workers PROVE inbox'[p] > 0
        BY DEF Workers
      <4>2. inbox'[p] = inbox[p] + 1
        BY <2>4, <4>1
      <4>3. QED BY <2>5, <4>2
    <3>2. QED BY <2>6, <3>1 DEF Shelved
  <2>9. QED BY <2>1, <2>2, <2>3, <2>7, <2>8 DEF Quiet, Leaving
<1>9. CASE AnyHydrate \/ AnyInsert \/ AnyTell
  <2>1. UNCHANGED <<pc, sched, inbox, stop, owed, killed, pauseVars, queue, supStop>>
    BY <1>9 DEF AnyHydrate, AnyInsert, AnyTell, Hydrate, Insert, Tell, EmitFrame, threadVars, mailVars, childVars
  <2>2. supPc \notin Ending
    BY <1>9 DEF AnyHydrate, AnyInsert, AnyTell, Hydrate, Insert, Tell, Ending
  <2>3. shown'[p] = "stale" => shown[p] = "stale"
    <3>1. CASE AnyHydrate \/ AnyInsert
      BY <3>1 DEF AnyHydrate, AnyInsert, Hydrate, Insert, viewVars, shownVars
    <3>2. CASE AnyTell
      <4>1. hydrated # "stale" /\ supProject \in Projects
        BY <3>2 DEF AnyTell, Tell, Verdict, Cached, TypeOK, SupervisorType, Telling
      <4>2. shown \in [Projects -> Cached \cup {"running", "stale"}]
        BY DEF TypeOK, RecordType
      <4>3. QED BY <3>2, <4>1, <4>2 DEF AnyTell, Tell, StartupShown
    <3>3. QED BY <1>9, <3>1, <3>2
  <2>4. QED BY <2>1, <2>2, <2>3 DEF Quiet, Leaving, Shelved, Paused, pauseVars, Coming, Resuming, Places
<1>10. CASE StopWorker("reconcile", "join") \/ StopWorker("drain", "drainJoin")
  <2>1. UNCHANGED <<pc, sched, inbox, owed, pauseVars, queue, shown>>
    BY <1>10 DEF StopWorker, threadVars, viewVars, shownVars
  <2>2. PICK q \in supStop : RaiseStopFlag(q) /\ KillSlots({q}) /\ supStop' = supStop \ {q}
    BY <1>10 DEF StopWorker
  <2>3. q \in Projects /\ stop \in [Projects -> BOOLEAN]
    BY <2>2 DEF TypeOK, SupervisorType, WorkerType
  <2>4. (Leaving(p) => Leaving(p)') /\ (p = q => Leaving(p)')
    BY <2>2, <2>3 DEF RaiseStopFlag, Leaving
  <2>5. killed'[p] => killed[p] \/ p = q
    BY <2>2 DEF KillSlots
  <2>6. supPc \in Ending => supPc' \in Ending
    BY <1>10 DEF StopWorker, Ending
  <2>7. QED BY <2>1, <2>4, <2>5, <2>6 DEF Quiet, Shelved, Paused, pauseVars, Coming, Resuming, Places
<1>11. ASSUME NEW joining, NEW back, JoinWorker(joining, back),
              <<joining, back>> \in {<<"join", "reconcile">>, <<"drainJoin", "drain">>}
       PROVE  Quiet(p) \/ Joined(p)
  <2>1. /\ UNCHANGED <<sched, stop, killed, pauseVars, queue, supStop>> /\ supPc' = back /\ supPc = joining
        /\ supProject \in Projects
    BY <1>11 DEF JoinWorker, childVars, TypeOK, SupervisorType
  <2>2. CASE p = supProject
    <3>1. pc'[p] = "none" /\ owed'[p] = "no"
      BY <1>11, <2>1, <2>2 DEF JoinWorker, TypeOK, WorkerType, RecordType
    <3>2. shown'[p] = "stale" => joining # "join"
      <4>1. history[p] # "stale" /\ shown \in [Projects -> Cached \cup {"running", "stale"}]
        BY DEF TypeOK, RecordType, Cached, Verdict
      <4>2. QED BY <1>11, <2>2, <4>1 DEF JoinWorker, Show, shownVars, Terminal
    <3>3. QED BY <1>11, <2>1, <3>1, <3>2 DEF Joined, Ending
  <2>3. CASE p # supProject
    <3>1. pc'[p] = pc[p] /\ owed'[p] = owed[p] /\ inbox'[p] = inbox[p] /\ shown'[p] = shown[p]
      BY <1>11, <2>1, <2>3 DEF JoinWorker, Show, shownVars, TypeOK, WorkerType, RecordType
    <3>2. QED BY <1>11, <2>1, <3>1 DEF Quiet, Ending, Leaving, Shelved, Paused, pauseVars, Coming, Resuming, Places
  <2>4. QED BY <2>2, <2>3
<1>12. CASE SpawnMissing
  <2>1. /\ UNCHANGED <<owed, killed, pauseVars, queue, supStop, shown>> /\ Spawn(supSpawn, FALSE)
        /\ supPc = "reconcile" /\ supPc' = "recv"
    BY <1>12 DEF SpawnMissing, childVars, viewVars, shownVars
  <2>2. CASE p \in supSpawn \ Workers
    <3>1. pc[p] = "none" /\ pc'[p] = "idle"
      BY <2>1, <2>2 DEF Spawn, Workers
    <3>2. QED BY <2>1, <3>1 DEF Started, Ending, Coming, Places
  <2>3. CASE p \notin supSpawn \ Workers
    <3>1. pc'[p] = pc[p] /\ sched'[p] = sched[p] /\ inbox'[p] = inbox[p] /\ (stop[p] <=> stop'[p])
      BY <2>1, <2>3 DEF Spawn
    <3>2. QED BY <2>1, <3>1 DEF Quiet, Ending, Leaving, Shelved, Paused, pauseVars, Coming, Resuming, Places
  <2>4. QED BY <2>2, <2>3
<1>13. CASE Drain \/ SupervisorExits
  <2>1. UNCHANGED <<pc, sched, inbox, stop, owed, killed, pauseVars, queue, shown>> /\ supPc' \in Ending
    BY <1>13 DEF Drain, SupervisorExits, threadVars, mailVars, childVars, viewVars, shownVars, Ending
  <2>2. Leaving(p) => Leaving(p)'
    BY <1>13, <2>1 DEF Drain, SupervisorExits, Leaving, PauseInv, StopsWhileReconciling
  <2>3. QED BY <2>1, <2>2 DEF Quiet, Shelved, Paused, pauseVars, Coming, Resuming, Places
<1>14. CASE JoinWorker("join", "reconcile")
  BY <1>11, <1>14
<1>15. CASE JoinWorker("drainJoin", "drain")
  BY <1>11, <1>15
<1>16. QED BY <1>3, <1>4, <1>5, <1>6, <1>7, <1>8, <1>9, <1>10, <1>12, <1>13, <1>14, <1>15, <1>17
    DEF Supervisor, AnyHydrate, AnyInsert, AnyTell

\* The other workers, the commands and the disk.
LEMMA QuietOfOthers ==
  ASSUME TypeOK, NEW p \in Projects,
         \/ \E q \in Projects \ {p} : Worker(q)
         \/ \E q \in Projects : ChildExits(q) \/ DirChanges(q)
         \/ UNCHANGED vars
  PROVE  Quiet(p)
<1>1. ASSUME UNCHANGED <<queue, globallyPaused, pausedProjects, supPc, supStop, stop>>,
             pc'[p] = pc[p], sched'[p] = sched[p], owed'[p] = owed[p], inbox'[p] = inbox[p],
             killed'[p] = killed[p], shown'[p] = shown[p], p \in catchUp => p \in catchUp'
      PROVE  Quiet(p)
  BY <1>1 DEF Quiet, Leaving, Shelved, Paused, Coming, Resuming, Places
<1>2. ASSUME NEW q \in Projects \ {p}, Worker(q) PROVE Quiet(p)
  <2>0. /\ q \in Projects /\ q # p
        /\ sched \in [Projects -> BOOLEAN] /\ inbox \in [Projects -> Nat]
        /\ owed \in [Projects -> {"no", "owed", "inRun"}] /\ killed \in [Projects -> BOOLEAN]
        /\ shown \in [Projects -> Cached \cup {"running", "stale"}]
    BY DEF TypeOK, WorkerType, CommandType, RecordType
  <2>1. WorkerFrame /\ pc'[p] = pc[p]
    BY <1>2, WorkerMoves
  <2>2. p \in catchUp => p \in catchUp'
    BY <1>2 DEF Worker, ReceiveTrigger, ExitThread, HoldBack, RememberHeld, SkipRun, StartRun, Announce,
       ProjectRemoved, Interrupted, RunEndsEarly, SpawnCommand, PutInSlot, Reap, Finish, AfterRun,
       RememberInterrupted, RememberCatchUp
  <2>3. /\ sched'[p] = sched[p] /\ inbox'[p] = inbox[p] /\ owed'[p] = owed[p]
        /\ killed'[p] = killed[p] /\ shown'[p] = shown[p]
    <3>1. CASE ReceiveTrigger(q) \/ ExitThread(q) \/ HoldBack(q) \/ RememberHeld(q) \/ SkipRun(q)
      BY <2>0, <3>1 DEF ReceiveTrigger, ExitThread, HoldBack, RememberHeld, SkipRun, Show, childVars, viewVars,
         shownVars
    <3>2. CASE StartRun(q) \/ Announce(q) \/ ProjectRemoved(q) \/ Interrupted(q)
      BY <2>0, <3>2 DEF StartRun, Announce, ProjectRemoved, Interrupted, RunEndsEarly, Show, childVars,
         viewVars, shownVars
    <3>3. CASE PutInSlot(q) \/ AfterRun(q) \/ RememberInterrupted(q)
      BY <2>0, <3>3 DEF PutInSlot, AfterRun, RememberInterrupted, childVars, viewVars, shownVars
    <3>4. CASE SpawnCommand(q) \/ Reap(q)
      BY <2>0, <3>4 DEF SpawnCommand, Reap, RecordCommand, Abort, Guard, Show, viewVars, shownVars
    <3>5. CASE Finish(q)
      BY <2>0, <3>5 DEF Finish, Abort, Guard, Show, viewVars, shownVars, childVars
    <3>6. QED BY <1>2, <3>1, <3>2, <3>3, <3>4, <3>5 DEF Worker
  <2>4. QED BY <1>1, <2>1, <2>2, <2>3 DEF WorkerFrame, supVars
<1>3. ASSUME NEW q \in Projects, ChildExits(q) PROVE Quiet(p)
  BY <1>1, <1>3 DEF ChildExits, WorkerFrame, supVars, threadVars, viewVars, shownVars
<1>4. ASSUME NEW q \in Projects, DirChanges(q) PROVE Quiet(p)
  BY <1>1, <1>4 DEF DirChanges, AppFrame, supVars, threadVars, mailVars, childVars, viewVars, shownVars
<1>5. CASE UNCHANGED vars
  BY <1>1, <1>5 DEF vars, pauseVars, supVars, threadVars, mailVars, childVars, viewVars, shownVars
<1>6. QED BY <1>2, <1>3, <1>4, <1>5
-----------------------------------------------------------------------------
(* The project's own worker.                                               *)

LEMMA WorkerKeeps ==
  ASSUME TypeOK, NEW p \in Projects, Held(p), Owing(p), Worker(p)
  PROVE  Held(p)' /\ Owing(p)'
<1>0. /\ pc \in [Projects -> Running \cup {"none", "idle", "hold", "post", "remember", "exited"}]
      /\ owed \in [Projects -> {"no", "owed", "inRun"}] /\ inbox \in [Projects -> Nat]
      /\ sched \in [Projects -> BOOLEAN] /\ killed \in [Projects -> BOOLEAN]
  BY DEF TypeOK, WorkerType, CommandType, RecordType
<1>1. WorkerFrame
  BY WorkerMoves
<1>2. /\ Leaving(p)' = Leaving(p) /\ (Paused(p)' <=> Paused(p))
      /\ (Coming(p)' <=> Coming(p)) /\ (Resuming(p)' <=> Resuming(p))
  BY <1>1 DEF WorkerFrame, supVars, Leaving, Paused, Coming, Resuming, Places
<1>3. CASE ReceiveTrigger(p)
  <2>1. pc'[p] = "idle" /\ sched'[p] = TRUE
    BY <1>0, <1>3 DEF ReceiveTrigger, threadVars
  <2>2. QED BY <2>1 DEF Held, Owing, Expecting, InRun, Running
<1>4. CASE ExitThread(p)
  <2>1. pc'[p] = "exited" /\ Leaving(p)'
    BY <1>0, <1>2, <1>4 DEF ExitThread, Goto, Leaving
  <2>2. QED BY <2>1 DEF Held, Owing
<1>5. CASE HoldBack(p)
  <2>1. pc'[p] = "hold" /\ sched'[p] = TRUE /\ Paused(p)'
    BY <1>0, <1>2, <1>5 DEF HoldBack, Goto
  <2>2. QED BY <2>1 DEF Held, Owing, Expecting, InRun, Running
<1>6. CASE RememberHeld(p) \/ RememberInterrupted(p)
  <2>1. pc'[p] = "idle" /\ p \in catchUp' /\ pc[p] \in {"hold", "remember"}
    BY <1>0, <1>6 DEF RememberHeld, RememberInterrupted, Goto, RememberCatchUp
  <2>2. Leaving(p)' \/ Shelved(p)'
    BY <1>2, <2>1 DEF Held, Shelved
  <2>3. QED BY <2>1, <2>2 DEF Held, Owing, Expecting, InRun, Running
<1>7. CASE SkipRun(p)
  <2>1. pc'[p] = "idle" /\ (stop[p] \/ owed'[p] = "no")
    BY <1>0, <1>7 DEF SkipRun, threadVars
  <2>2. stop[p] => Leaving(p)'
    BY <1>2 DEF Leaving
  <2>3. QED BY <2>1, <2>2 DEF Held, Owing, InRun, Running
<1>8. CASE StartRun(p)
  <2>1. pc'[p] \in {"announce", "post"} /\ sched'[p] = TRUE /\ owed'[p] # "owed" /\ killed'[p] = FALSE
    BY <1>0, <1>8 DEF StartRun, Goto
  <2>2. QED BY <2>1 DEF Held, Owing, InRun, Running
<1>9. CASE Announce(p) \/ PutInSlot(p)
  <2>1. InRun(p) /\ InRun(p)' /\ UNCHANGED <<inbox, sched, killed, owed>>
    BY <1>0, <1>9 DEF Announce, PutInSlot, Goto, InRun, Running, childVars
  <2>2. pc'[p] \notin {"none", "hold", "remember", "post"}
    BY <2>1 DEF InRun, Running
  <2>3. Held(p)'
    BY <1>2, <2>1, <2>2 DEF Held, Triggered
  <2>4. Owing(p)'
    BY <1>2, <2>1, <2>2 DEF Held, Owing, Expecting, Triggered
  <2>5. QED BY <2>3, <2>4
<1>10. CASE ProjectRemoved(p) \/ Interrupted(p)
  <2>1. InRun(p) /\ pc'[p] = "post" /\ UNCHANGED <<inbox, sched>>
    BY <1>0, <1>10 DEF ProjectRemoved, Interrupted, RunEndsEarly, Goto, InRun, Running
  <2>2. owed'[p] = "owed" => Paused(p)
    BY <1>0, <1>10 DEF ProjectRemoved, Interrupted
  <2>3. QED BY <1>2, <2>1, <2>2 DEF Held, Owing, Expecting, InRun, Running
<1>11. CASE SpawnCommand(p) \/ Reap(p) \/ Finish(p)
  <2>1. InRun(p) /\ UNCHANGED <<inbox, sched, killed>> /\ (InRun(p)' \/ pc'[p] = "post")
    BY <1>0, <1>11 DEF SpawnCommand, Reap, RecordCommand, Finish, MayProceed, Abort, Goto, InRun, Running,
       childVars
  <2>2. owed'[p] = "owed" => owed[p] = "owed" \/ (killed[p] /\ ~Paused(p))
    BY <1>0, <1>11 DEF SpawnCommand, Reap, RecordCommand, Finish, MayProceed, Abort, Cover
  <2>3. ~Leaving(p) /\ owed'[p] = "owed" => owed[p] = "owed" /\ Triggered(p)
    BY <2>1, <2>2 DEF Held
  <2>4. pc'[p] \notin {"none", "hold", "remember"}
    BY <2>1 DEF InRun, Running
  <2>5. QED BY <1>2, <2>1, <2>3, <2>4 DEF Held, Owing, Expecting, Triggered
<1>12. CASE AfterRun(p)
  <2>1. pc[p] = "post" /\ pc'[p] = NextAfterRun(p) /\ UNCHANGED <<inbox, owed>>
    BY <1>0, <1>12 DEF AfterRun, Goto
  <2>2. owed[p] = "owed" => Leaving(p) \/ Paused(p) \/ Triggered(p)
    BY <2>1 DEF Held
  <2>3. QED BY <1>2, <2>1, <2>2 DEF NextAfterRun, Held, Owing, Expecting, Triggered, InRun, Running
<1>13. QED BY <1>3, <1>4, <1>5, <1>6, <1>7, <1>8, <1>9, <1>10, <1>11, <1>12 DEF Worker

LEMMA PatientStep ==
  ASSUME TypeOK, PauseInv, PatientInv, MarkersTaken, [Next]_vars, PatientUser = TRUE
  PROVE  PatientInv'
<1>1. OneToggle' /\ FlagsAhead'
  BY ToggleStep DEF PatientInv
<1>2. ASSUME NEW p \in Projects PROVE Held(p)' /\ Owing(p)'
  <2>1. Held(p) /\ Owing(p) /\ OneToggle /\ FlagsAhead
    BY DEF PatientInv
  <2>2. CASE Worker(p)
    BY <2>1, <2>2, WorkerKeeps
  <2>3. CASE ~Worker(p)
    <3>1. Quiet(p) \/ Started(p) \/ Joined(p)
      BY <2>1, <2>3, QuietOfApplication, QuietOfSupervisor, QuietOfOthers DEF Next
    <3>2. QED BY <2>1, <3>1, QuietKeeps
  <2>4. QED BY <2>2, <2>3
<1>3. QED BY <1>1, <1>2 DEF PatientInv

LEMMA PatientAlways ==
  ASSUME PatientUser = TRUE
  PROVE  Spec /\ []MarkersTaken => [](TypeOK /\ PauseInv /\ PatientInv)
<1>1. Init => PatientInv
  <2>1. SUFFICES ASSUME Init PROVE PatientInv
    OBVIOUS
  <2>2. queue = <<>> /\ \A p \in Projects : pc[p] = "none" /\ owed[p] = "no"
    BY <2>1 DEF Init
  <2>3. \A p \in Projects : Held(p) /\ Owing(p)
    BY <2>2 DEF Held, Owing, InRun, Running
  <2>4. Places = {}
    BY <2>2 DEF Places
  <2>5. QED BY <2>2, <2>3, <2>4 DEF PatientInv, OneToggle, FlagsAhead
<1>2. TypeOK /\ PauseInv /\ PatientInv /\ MarkersTaken /\ [Next]_vars => PatientInv'
  BY PatientStep, PatientUser = TRUE
<1>3. QED BY <1>1, <1>2, PauseAlways, PTL DEF Spec

\* RuntimeHandle::pause ("projects whose runs are killed or whose triggers arrive while
\* paused are remembered and re-linted on resume"): for a user who lets each toggle
\* settle, and a disk that takes the markers, whatever runs, scans and other i/o do, an edit
\* stays on the channel, in a worker's hands or in the catch-up set until a run starts on it.
\* A scan ends the pause of a project whose marker is not there, and nobody resumes it.
THEOREM EditsAreKept ==
  ASSUME PatientUser = TRUE
  PROVE  Spec /\ []MarkersTaken => []NoLostWork
<1>1. PatientInv => NoLostWork
  <2> SUFFICES ASSUME PatientInv, NEW p \in Workers, owed[p] = "owed", ~Leaving(p) PROVE Pending(p)
    BY DEF NoLostWork
  <2>1. Expecting(p)
    BY DEF PatientInv, Owing, Workers
  <2>2. Coming(p) => Queued({"Trigger"}, p)
    BY DEF Coming, Queued, Places
  <2>3. Resuming(p) => Queued({"Resume", "ResumeProject"}, p)
    BY DEF Resuming, Queued, Places
  <2>4. QED BY <2>1, <2>2, <2>3 DEF Expecting, Triggered, Shelved, Pending
<1>2. QED BY <1>1, PatientAlways, PTL
-----------------------------------------------------------------------------
(* The marker of a cancelled run, when the disk neither fails nor changes. *)

\* A cancelled run on display is one somebody still means to repeat.
Promised(p) ==
  shown[p] = "stale" =>
    /\ IF pc[p] = "none" THEN supPc \in Ending
                         ELSE Leaving(p) \/ Expecting(p) \/ InRun(p) \/ pc[p] = "post"
    /\ pc[p] = "post" /\ ~Leaving(p) => Paused(p)

LEMMA QuietKeepsPromise ==
  ASSUME NEW p \in Projects, Promised(p), Quiet(p) \/ Started(p) \/ Joined(p)
  PROVE  Promised(p)'
<1>1. CASE Quiet(p)
  <2>1. pc'[p] = pc[p] /\ (shown'[p] = "stale" => shown[p] = "stale") /\ (InRun(p)' <=> InRun(p))
    BY <1>1 DEF Quiet, InRun
  <2>2. pc[p] # "none" /\ (Leaving(p) \/ Expecting(p)) => Leaving(p)' \/ Expecting(p)'
    BY <1>1 DEF Quiet, Expecting, Triggered
  <2>3. pc'[p] = "post" /\ ~Leaving(p)' /\ Paused(p) => Paused(p)'
    BY <1>1 DEF Quiet
  <2>4. (Leaving(p) => Leaving(p)') /\ (supPc \in Ending => supPc' \in Ending)
    BY <1>1 DEF Quiet
  <2>5. QED BY <2>1, <2>2, <2>3, <2>4 DEF Promised
<1>2. CASE Started(p)
  BY <1>2 DEF Started, Promised
<1>3. CASE Joined(p)
  BY <1>3 DEF Joined, Promised
<1>4. QED BY <1>1, <1>2, <1>3

LEMMA WorkerKeepsPromise ==
  ASSUME TypeOK, NEW p \in Projects, Held(p), Promised(p), Worker(p), IoMayFail = FALSE, p \in present
  PROVE  Promised(p)'
<1>0. /\ pc \in [Projects -> Running \cup {"none", "idle", "hold", "post", "remember", "exited"}]
      /\ sched \in [Projects -> BOOLEAN] /\ shown \in [Projects -> Cached \cup {"running", "stale"}]
      /\ history \in [Projects -> Cached] /\ IoOutcomes = {"ok"}
  BY DEF TypeOK, WorkerType, RecordType, IoOutcomes
<1>1. /\ Leaving(p)' = Leaving(p) /\ (Paused(p)' <=> Paused(p))
      /\ (Coming(p)' <=> Coming(p)) /\ (Resuming(p)' <=> Resuming(p))
  BY WorkerMoves DEF WorkerFrame, supVars, Leaving, Paused, Coming, Resuming, Places
<1>2. CASE ReceiveTrigger(p) \/ HoldBack(p)
  <2>1. pc'[p] \in {"idle", "hold"} /\ sched'[p] = TRUE
    BY <1>0, <1>2 DEF ReceiveTrigger, HoldBack, Goto, threadVars
  <2>2. QED BY <2>1 DEF Promised, Expecting
<1>3. CASE ExitThread(p) \/ SkipRun(p)
  <2>1. pc'[p] \in {"idle", "exited"} /\ Leaving(p)'
    BY <1>0, <1>1, <1>3 DEF ExitThread, SkipRun, Goto, Leaving, threadVars
  <2>2. QED BY <2>1 DEF Promised
<1>4. CASE RememberHeld(p) \/ RememberInterrupted(p)
  <2>1. pc'[p] = "idle" /\ p \in catchUp' /\ pc[p] \in {"hold", "remember"}
    BY <1>0, <1>4 DEF RememberHeld, RememberInterrupted, Goto, RememberCatchUp
  <2>2. Leaving(p)' \/ Shelved(p)'
    BY <1>1, <2>1 DEF Held, Shelved
  <2>3. QED BY <2>1, <2>2 DEF Promised, Expecting
<1>5. CASE StartRun(p) \/ Announce(p) \/ SpawnCommand(p) \/ PutInSlot(p) \/ Reap(p)
  <2>1. InRun(p)'
    <3>1. CASE StartRun(p) \/ Reap(p)
      BY <1>0, <3>1 DEF StartRun, Reap, RecordCommand, Goto, InRun, Running
    <3>2. CASE Announce(p) \/ SpawnCommand(p) \/ PutInSlot(p)
      BY <1>0, <3>2 DEF Announce, SpawnCommand, MayProceed, PutInSlot, Goto, InRun, Running
    <3>3. QED BY <1>5, <3>1, <3>2
  <2>2. QED BY <2>1 DEF Promised, InRun, Running
<1>6. CASE Interrupted(p)
  <2>1. pc'[p] = "post" /\ Paused(p)'
    BY <1>0, <1>1, <1>6 DEF Interrupted, RunEndsEarly, Goto
  <2>2. QED BY <2>1 DEF Promised
<1>7. CASE Finish(p)
  <2>1. shown'[p] # "stale"
    <3>1. PICK verdict \in Verdict, append \in IoOutcomes :
            /\ history' = IF append = "ok" THEN [history EXCEPT ![p] = verdict] ELSE history
            /\ shown' = [shown EXCEPT ![p] = Terminal(verdict, history'[p])]
      BY <1>0, <1>7 DEF Finish, Show, Verdict
    <3>2. history'[p] \in Cached
      BY <1>0, <3>1 DEF Cached
    <3>3. QED BY <1>0, <3>1, <3>2 DEF Terminal, Verdict, Cached
  <2>2. QED BY <2>1 DEF Promised
<1>8. CASE AfterRun(p)
  <2>1. pc[p] = "post" /\ pc'[p] = NextAfterRun(p) /\ shown' = shown
    BY <1>0, <1>8 DEF AfterRun, Goto, viewVars, shownVars
  <2>2. shown[p] = "stale" /\ ~Leaving(p) => pc'[p] = "remember"
    BY <2>1 DEF Promised, NextAfterRun
  <2>3. pc'[p] \in {"remember", "idle"}
    BY <2>1 DEF NextAfterRun
  <2>4. QED BY <1>1, <2>1, <2>2, <2>3 DEF Promised, Expecting
<1>9. CASE ProjectRemoved(p)
  BY <1>9 DEF ProjectRemoved
<1>10. QED BY <1>2, <1>3, <1>4, <1>5, <1>6, <1>7, <1>8, <1>9 DEF Worker

\* The supervisor writes no verdict and no marker, and moves no directory.
LEMMA SupervisorFrame ==
  ASSUME Supervisor
  PROVE  SupFrame
<1>1. CASE HandleSync \/ SyncPauses \/ HandleRegister \/ HandleUnregister \/ HandleTrigger
  BY <1>1 DEF HandleSync, SyncPauses, HandleRegister, HandleUnregister, HandleTrigger
<1>2. CASE HandlePause \/ HandleResume \/ HandlePauseProject \/ HandleResumeProject
  BY <1>2 DEF HandlePause, HandleResume, HandlePauseProject, HandleResumeProject, KillFrame, ResumeFrame
<1>3. CASE AnyHydrate \/ AnyInsert \/ AnyTell \/ SpawnMissing \/ Drain \/ SupervisorExits
  BY <1>3 DEF AnyHydrate, AnyInsert, AnyTell, Hydrate, Insert, Tell, EmitFrame, SpawnMissing, Drain,
     SupervisorExits
<1>4. CASE StopWorker("reconcile", "join") \/ StopWorker("drain", "drainJoin")
  BY <1>4 DEF StopWorker
<1>5. CASE JoinWorker("join", "reconcile") \/ JoinWorker("drainJoin", "drain")
  BY <1>5 DEF JoinWorker
<1>6. QED BY <1>1, <1>2, <1>3, <1>4, <1>5 DEF Supervisor, AnyHydrate, AnyInsert, AnyTell

\* Without directory changes every project stays on disk.
LEMMA DirsStay ==
  ASSUME TypeOK, present = Projects, [Next]_vars, MaxDirChanges = 0
  PROVE  present' = Projects /\ ~\E p \in Projects : DirChanges(p)
<1>1. ASSUME NEW p \in Projects, DirChanges(p) PROVE FALSE
  <2>1. budget["dirs"] \in Nat /\ budget["dirs"] < 0
    BY <1>1 DEF DirChanges, Spend, TypeOK, WorldType
  <2>2. QED BY <2>1
<1>2. ASSUME Application PROVE present' = present
  <2>1. CASE SyncProjects \/ PauseAll \/ ResumeAll \/ WriteMarker \/ DropHandles
    BY <2>1 DEF SyncProjects, PauseAll, ResumeAll, WriteMarker, DropHandles
  <2>2. ASSUME NEW p \in Projects, Edit(p) \/ PauseProject(p) \/ ResumeProject(p) \/ NoticeDir(p)
        PROVE  present' = present
    BY <2>2 DEF Edit, PauseProject, ResumeProject, NoticeDir
  <2>3. QED BY <1>2, <2>1, <2>2 DEF Application
<1>3. ASSUME Supervisor PROVE present' = present
  <2>1. SupFrame
    BY <1>3, SupervisorFrame
  <2>2. QED BY <2>1 DEF SupFrame
<1>4. ASSUME NEW p \in Projects, Worker(p) \/ ChildExits(p) PROVE present' = present
  BY <1>4, WorkerMoves DEF WorkerFrame
<1>5. ASSUME UNCHANGED vars PROVE present' = present
  BY <1>5 DEF vars
<1>6. present' = present
  BY <1>1, <1>2, <1>3, <1>4, <1>5 DEF Next
<1>7. QED BY <1>1, <1>6

LEMMA PromiseStep ==
  ASSUME TypeOK, PauseInv, PatientInv, MarkersTaken, [Next]_vars, PatientUser = TRUE, IoMayFail = FALSE,
         present = Projects, \A p \in Projects : Promised(p)
  PROVE  \A p \in Projects : Promised(p)'
<1> TAKE p \in Projects
<1>1. Held(p) /\ Promised(p) /\ OneToggle /\ FlagsAhead
  BY DEF PatientInv
<1>2. CASE Worker(p)
  BY <1>1, <1>2, WorkerKeepsPromise
<1>3. CASE ~Worker(p)
  <2>1. Quiet(p) \/ Started(p) \/ Joined(p)
    BY <1>1, <1>3, QuietOfApplication, QuietOfSupervisor, QuietOfOthers DEF Next
  <2>2. QED BY <1>1, <2>1, QuietKeepsPromise
<1>4. QED BY <1>2, <1>3

\* A disk that does not fail takes every marker.
LEMMA MarkersLand ==
  ASSUME IoMayFail = FALSE
  PROVE  Spec => []MarkersTaken
<1>1. Init => MarkersTaken
  BY DEF Init, MarkersTaken
<1>2. MarkersTaken /\ [Next]_vars => MarkersTaken'
  <2> SUFFICES ASSUME MarkersTaken, [Next]_vars PROVE unmarked' = {}
    BY DEF MarkersTaken
  <2>1. CASE Application
    <3>1. CASE WriteMarker
      BY <3>1 DEF WriteMarker, IoOutcomes, MarkersTaken
    <3>2. CASE SyncProjects \/ PauseAll \/ ResumeAll \/ DropHandles
      BY <3>2 DEF SyncProjects, PauseAll, ResumeAll, DropHandles, appVars, markerVars, MarkersTaken
    <3>3. ASSUME NEW q \in Projects, Edit(q) \/ PauseProject(q) \/ ResumeProject(q) \/ NoticeDir(q)
          PROVE  unmarked' = {}
      BY <3>3 DEF Edit, PauseProject, ResumeProject, NoticeDir, appVars, markerVars, MarkersTaken
    <3>4. QED BY <2>1, <3>1, <3>2, <3>3 DEF Application
  <2>2. CASE Supervisor
    BY <2>2, SupervisorFrame DEF SupFrame, appVars, markerVars, MarkersTaken
  <2>3. ASSUME NEW q \in Projects, Worker(q) PROVE WorkerFrame
    BY <2>3 DEF Worker, ReceiveTrigger, ExitThread, HoldBack, RememberHeld, SkipRun, StartRun, Announce,
       ProjectRemoved, Interrupted, RunEndsEarly, SpawnCommand, PutInSlot, Reap, Finish, AfterRun,
       RememberInterrupted
  <2>4. ASSUME NEW q \in Projects, Worker(q) \/ ChildExits(q) \/ DirChanges(q) PROVE unmarked' = {}
    BY <2>3, <2>4 DEF ChildExits, DirChanges, WorkerFrame, appVars, markerVars, MarkersTaken
  <2>5. QED BY <2>1, <2>2, <2>4 DEF Next, vars, appVars, markerVars, MarkersTaken
<1>3. QED BY <1>1, <1>2, PTL DEF Spec

\* run_commands_for_project publishes Stale when a pause ends a run ("Resume re-lints the
\* project"), run_due when it holds one back.  When the disk does its part the marker is
\* never left over: while it shows and the worker stays, a run is coming or under way.
\* The hypotheses on the disk are needed: a run whose record cannot be written, or
\* whose project vanished, is given up, and the marker stays.
THEOREM MarkersArePromises ==
  ASSUME PatientUser = TRUE, IoMayFail = FALSE, MaxDirChanges = 0
  PROVE  Spec => []StaleIsPending
<1> DEFINE Inv == present = Projects /\ \A p \in Projects : Promised(p)
<1>1. Init => Inv
  <2> SUFFICES ASSUME Init PROVE Inv
    OBVIOUS
  <2>1. present = Projects /\ \A p \in Projects : shown[p] # "stale"
    BY DEF Init
  <2>2. QED BY <2>1 DEF Promised
<1>2. TypeOK /\ PauseInv /\ PatientInv /\ MarkersTaken /\ Inv /\ [Next]_vars => Inv'
  BY PromiseStep, DirsStay, PatientUser = TRUE, IoMayFail = FALSE, MaxDirChanges = 0
<1>3. Inv => StaleIsPending
  <2> SUFFICES ASSUME Inv, NEW p \in Workers, shown[p] = "stale", ~Leaving(p)
               PROVE  Pending(p) \/ InRun(p) \/ pc[p] = "post"
    BY DEF StaleIsPending
  <2>1. Expecting(p) \/ InRun(p) \/ pc[p] = "post"
    BY DEF Promised, Workers
  <2>2. Coming(p) => Queued({"Trigger"}, p)
    BY DEF Coming, Queued, Places
  <2>3. Resuming(p) => Queued({"Resume", "ResumeProject"}, p)
    BY DEF Resuming, Queued, Places
  <2>4. QED BY <2>1, <2>2, <2>3 DEF Expecting, Triggered, Shelved, Pending
<1> HIDE DEF Inv
<1>4. Spec => [](TypeOK /\ PauseInv /\ PatientInv /\ MarkersTaken)
  BY PatientAlways, MarkersLand, PatientUser = TRUE, IoMayFail = FALSE, PTL
<1>5. QED BY <1>1, <1>2, <1>3, <1>4, PTL DEF Spec
-----------------------------------------------------------------------------
(* A killed run leaves no verdict.                                         *)

NoVerdictInRun == \A p \in Projects : InRun(p) => latest[p] \notin Verdict

\* Only a worker writes verdicts, and only about its own project.
LEMMA LatestElsewhere ==
  ASSUME TypeOK, [Next]_vars, NEW p \in Projects, ~Worker(p)
  PROVE  latest'[p] \in {latest[p], "none"}
<1>1. CASE Application
  <2>1. UNCHANGED diskVars
    <3>1. CASE SyncProjects \/ PauseAll \/ ResumeAll \/ WriteMarker \/ DropHandles
      BY <3>1 DEF SyncProjects, PauseAll, ResumeAll, WriteMarker, DropHandles, AppFrame
    <3>2. ASSUME NEW q \in Projects, Edit(q) \/ PauseProject(q) \/ ResumeProject(q) \/ NoticeDir(q)
          PROVE  UNCHANGED diskVars
      BY <3>2 DEF Edit, PauseProject, ResumeProject, NoticeDir, AppFrame
    <3>3. QED BY <1>1, <3>1, <3>2 DEF Application
  <2>2. QED BY <2>1 DEF diskVars, latestVars
<1>2. CASE Supervisor
  <2>1. CASE HandleSync \/ SyncPauses \/ HandleRegister \/ HandleUnregister \/ HandleTrigger
    BY <2>1 DEF HandleSync, SyncPauses, HandleRegister, HandleUnregister, HandleTrigger, latestVars
  <2>2. CASE HandlePause \/ HandleResume \/ HandlePauseProject \/ HandleResumeProject
    BY <2>2 DEF HandlePause, HandleResume, HandlePauseProject, HandleResumeProject, KillFrame, ResumeFrame,
       latestVars
  <2>3. CASE AnyHydrate
    BY <2>3 DEF AnyHydrate, Hydrate, Rewrite, RemovalFails, latestVars, TypeOK, RecordType
  <2>4. CASE AnyInsert \/ AnyTell \/ SpawnMissing \/ Drain \/ SupervisorExits
    BY <2>4 DEF AnyInsert, AnyTell, Insert, Tell, SpawnMissing, Drain, SupervisorExits, latestVars
  <2>5. CASE StopWorker("reconcile", "join") \/ StopWorker("drain", "drainJoin")
    BY <2>5 DEF StopWorker, latestVars
  <2>6. CASE JoinWorker("join", "reconcile") \/ JoinWorker("drainJoin", "drain")
    BY <2>6 DEF JoinWorker, latestVars
  <2>7. QED BY <1>2, <2>1, <2>2, <2>3, <2>4, <2>5, <2>6 DEF Supervisor, AnyHydrate, AnyInsert, AnyTell
<1>3. ASSUME NEW q \in Projects, q # p, Worker(q) PROVE latest'[p] = latest[p]
  <2>0. latest \in [Projects -> Verdict \cup {"none", "running"}]
    BY DEF TypeOK, RecordType
  <2>1. CASE ReceiveTrigger(q) \/ ExitThread(q) \/ HoldBack(q) \/ RememberHeld(q) \/ SkipRun(q)
    BY <2>1 DEF ReceiveTrigger, ExitThread, HoldBack, RememberHeld, SkipRun, diskVars, latestVars
  <2>2. CASE StartRun(q) \/ Announce(q) \/ ProjectRemoved(q) \/ Interrupted(q)
    BY <1>3, <2>0, <2>2 DEF StartRun, Announce, ProjectRemoved, Interrupted, RunEndsEarly, Rewrite,
       RemovalFails, diskVars, latestVars
  <2>3. CASE PutInSlot(q) \/ AfterRun(q) \/ RememberInterrupted(q)
    BY <2>3 DEF PutInSlot, AfterRun, RememberInterrupted, diskVars, latestVars
  <2>4. CASE SpawnCommand(q) \/ Reap(q) \/ Finish(q)
    BY <1>3, <2>0, <2>4 DEF SpawnCommand, Reap, RecordCommand, Finish, Abort, Guard, Rewrite, RemovalFails,
       diskVars, latestVars
  <2>5. QED BY <1>3, <2>1, <2>2, <2>3, <2>4 DEF Worker
<1>4. ASSUME NEW q \in Projects, ChildExits(q) \/ DirChanges(q) PROVE latest' = latest
  BY <1>4 DEF ChildExits, DirChanges, AppFrame, diskVars, latestVars
<1>5. CASE UNCHANGED vars
  BY <1>5 DEF vars, diskVars, latestVars
<1>6. ASSUME NEW q \in Projects, Worker(q) \/ ChildExits(q) \/ DirChanges(q)
      PROVE  latest'[p] \in {latest[p], "none"}
  BY <1>3, <1>4, <1>6
<1>7. QED BY <1>1, <1>2, <1>5, <1>6 DEF Next

\* The own worker inside a run, paused or not.
LEMMA WorkerInRun ==
  ASSUME TypeOK, NEW p \in Projects, Worker(p), InRun(p) => latest[p] \notin Verdict
  PROVE  /\ InRun(p)' => latest'[p] \notin Verdict
         /\ pc[p] = "check" /\ Paused(p) => latest'[p] \notin Verdict
         /\ InRun(p)' /\ killed'[p] => InRun(p) /\ killed[p]
<1>0. /\ pc \in [Projects -> Running \cup {"none", "idle", "hold", "post", "remember", "exited"}]
      /\ latest \in [Projects -> Verdict \cup {"none", "running"}] /\ killed \in [Projects -> BOOLEAN]
  BY DEF TypeOK, WorkerType, CommandType, RecordType
<1>1. CASE ReceiveTrigger(p) \/ ExitThread(p) \/ HoldBack(p) \/ RememberHeld(p) \/ SkipRun(p)
  <2>1. pc'[p] \in {"idle", "exited", "hold"} /\ pc[p] # "check"
    BY <1>0, <1>1 DEF ReceiveTrigger, ExitThread, HoldBack, RememberHeld, SkipRun, Goto, threadVars
  <2>2. QED BY <2>1 DEF InRun, Running
<1>2. CASE AfterRun(p) \/ RememberInterrupted(p)
  <2>1. pc'[p] \in {"idle", "remember"} /\ pc[p] # "check"
    BY <1>0, <1>2 DEF AfterRun, NextAfterRun, RememberInterrupted, Goto
  <2>2. QED BY <2>1 DEF InRun, Running
<1>3. CASE StartRun(p)
  <2>1. pc[p] = "idle" /\ killed'[p] = FALSE /\ (pc'[p] = "post" \/ latest'[p] = "running")
    BY <1>0, <1>3 DEF StartRun, Rewrite, Goto
  <2>2. QED BY <2>1 DEF InRun, Running, Verdict
<1>4. CASE Announce(p) \/ PutInSlot(p)
  <2>1. InRun(p) /\ UNCHANGED <<latest, killed>>
    BY <1>4 DEF Announce, PutInSlot, InRun, Running, childVars, diskVars, latestVars
  <2>2. QED BY <2>1
<1>5. CASE ProjectRemoved(p) \/ Interrupted(p)
  <2>1. pc[p] = "check" /\ pc'[p] = "post" /\ latest'[p] \in {"none", latest[p]}
    BY <1>0, <1>5 DEF ProjectRemoved, Interrupted, RunEndsEarly, Rewrite, RemovalFails, Goto
  <2>2. QED BY <2>1 DEF InRun, Running, Verdict
<1>6. CASE Reap(p)
  <2>1. pc[p] = "wait" /\ killed' = killed /\ (pc'[p] = "post" \/ latest'[p] = "running")
    BY <1>0, <1>6 DEF Reap, RecordCommand, Abort, Rewrite, Goto
  <2>2. QED BY <2>1 DEF InRun, Running, Verdict
<1>7. CASE Finish(p)
  <2>1. pc'[p] = "post" /\ ~Paused(p)
    BY <1>0, <1>7 DEF Finish, MayProceed, Abort, Goto
  <2>2. QED BY <2>1 DEF InRun, Running
<1>8. CASE SpawnCommand(p)
  <2>1. /\ pc[p] = "check" /\ ~Paused(p) /\ killed' = killed
        /\ pc'[p] = "post" \/ latest'[p] \in {"running", latest[p]}
    BY <1>0, <1>8 DEF SpawnCommand, MayProceed, RecordCommand, Abort, Rewrite, Goto, diskVars, latestVars
  <2>2. QED BY <2>1 DEF InRun, Running, Verdict
<1>9. QED BY <1>1, <1>2, <1>3, <1>4, <1>5, <1>6, <1>7, <1>8 DEF Worker

LEMMA NoVerdictStep ==
  ASSUME TypeOK, PauseInv, PatientInv, MarkersTaken, NoVerdictInRun, [Next]_vars, PatientUser = TRUE
  PROVE  NoVerdictInRun'
<1>1. SUFFICES ASSUME NEW p \in Projects, InRun(p)' PROVE latest'[p] \notin Verdict
  BY DEF NoVerdictInRun
<1>2. CASE Worker(p)
  BY <1>1, <1>2, WorkerInRun DEF NoVerdictInRun
<1>3. CASE ~Worker(p)
  <2>1. Quiet(p) \/ Started(p) \/ Joined(p)
    BY <1>3, QuietOfApplication, QuietOfSupervisor, QuietOfOthers DEF Next, PatientInv
  <2>2. InRun(p)
    BY <1>1, <2>1 DEF Quiet, Started, Joined, InRun, Running
  <2>3. latest[p] \notin Verdict
    BY <2>2 DEF NoVerdictInRun
  <2>4. QED BY <1>3, <2>3, LatestElsewhere DEF Verdict
<1>4. QED BY <1>2, <1>3

LEMMA PausedLeavesNoVerdict ==
  ASSUME TypeOK, NoVerdictInRun, [Next]_vars, NEW p \in Projects, pc[p] = "check", Paused(p)
  PROVE  latest'[p] \notin Verdict
<1>1. latest[p] \notin Verdict
  BY DEF NoVerdictInRun, InRun, Running
<1>2. CASE Worker(p)
  BY <1>1, <1>2, WorkerInRun
<1>3. CASE ~Worker(p)
  BY <1>1, <1>3, LatestElsewhere DEF Verdict
<1>4. QED BY <1>2, <1>3

LEMMA NoVerdictAlways ==
  ASSUME PatientUser = TRUE
  PROVE  Spec /\ []MarkersTaken => [](TypeOK /\ PauseInv /\ PatientInv /\ NoVerdictInRun)
<1>1. Init => NoVerdictInRun
  BY DEF Init, NoVerdictInRun, InRun, Running
<1>2. TypeOK /\ PauseInv /\ PatientInv /\ MarkersTaken /\ NoVerdictInRun /\ [Next]_vars => NoVerdictInRun'
  BY NoVerdictStep, PatientUser = TRUE
<1>3. QED BY <1>1, <1>2, PatientAlways, PTL DEF Spec

\* RunCommandsConfig::pause_state ("kills the run mid-flight and leaves no terminal
\* record"): a run that lost a command to a pause never records a verdict while its
\* worker is to stay, if the disk takes the markers, whatever else it refuses.
THEOREM KilledRunsLeaveNoVerdict ==
  ASSUME PatientUser = TRUE
  PROVE  Spec /\ []MarkersTaken => [][\A p \in Projects :
           killed[p] /\ ~Leaving(p) /\ pc[p] = "check" => latest'[p] \notin Verdict]_vars
<1>1. ASSUME TypeOK, PatientInv, NoVerdictInRun, [Next]_vars
      PROVE  [\A p \in Projects :
                killed[p] /\ ~Leaving(p) /\ pc[p] = "check" => latest'[p] \notin Verdict]_vars
  <2>1. SUFFICES ASSUME NEW p \in Projects, killed[p], ~Leaving(p), pc[p] = "check"
                 PROVE  latest'[p] \notin Verdict
    OBVIOUS
  <2>2. Paused(p)
    BY <1>1, <2>1 DEF PatientInv, Held, InRun, Running
  <2>3. QED BY <1>1, <2>1, <2>2, PausedLeavesNoVerdict
<1>2. QED BY <1>1, NoVerdictAlways, PTL DEF Spec

\* While projects neither come nor go, no worker is dismissed before the runtime ends,
\* and nothing is on the channel then.
QuietDirs ==
  /\ present = Projects /\ deleted = {}
  /\ \A i \in Places : /\ queue[i].kind \notin {"Register", "Unregister"}
                       /\ queue[i].kind = "Sync" => queue[i].to = Projects
Undismissed == /\ supStop # {} => supPc \in Ending
               /\ supPc \in Syncing => supSpawn = Projects
ClosedAtEnd == supPc \in Ending => closed /\ queue = <<>>
KilledIsPaused ==
  \A p \in Projects : InRun(p) /\ killed[p] /\ ~stop[p] => Paused(p)

LEMMA QuietDirsStep ==
  ASSUME TypeOK, QuietDirs, Undismissed, ClosedAtEnd, [Next]_vars, MaxDirChanges = 0
  PROVE  QuietDirs' /\ Undismissed' /\ ClosedAtEnd'
<1>0. queue \in Seq(Msg) /\ present' = Projects
  BY DirsStay DEF TypeOK, ChannelType, QuietDirs
<1>1. ASSUME UNCHANGED <<queue, deleted>> PROVE QuietDirs'
  BY <1>0, <1>1 DEF QuietDirs, Places
<1>2. ASSUME NEW kind, NEW to, [kind |-> kind, to |-> to] \in Msg, Send(kind, to), deleted' = deleted,
             kind \notin {"Register", "Unregister"}, kind = "Sync" => to = Projects
      PROVE  QuietDirs'
  <2> DEFINE m == [kind |-> kind, to |-> to]
  <2>1. m \in Msg /\ queue' = Append(queue, m) /\ m.kind = kind /\ m.to = to
    BY <1>2 DEF Send
  <2> HIDE DEF m
  <2>2. \A i \in Places' : queue'[i] = m \/ (i \in Places /\ queue'[i] = queue[i])
    BY <1>0, <2>1, Grown
  <2>3. QED BY <1>0, <1>2, <2>1, <2>2 DEF QuietDirs
<1>3. ASSUME NEW kind, Receive(kind), deleted' = deleted PROVE QuietDirs'
  <2>1. \A i \in Places' : i + 1 \in Places /\ queue'[i] = queue[i + 1]
    BY <1>3, Received, Shrunk
  <2>2. QED BY <1>0, <1>3, <2>1 DEF QuietDirs
<1>4. ASSUME NEW kind, Receive(kind)
      PROVE  /\ supPc = "recv" /\ kind \notin {"Register", "Unregister"}
             /\ kind = "Sync" => To = Projects
  BY <1>4, Received DEF QuietDirs, To
<1>5. ASSUME UNCHANGED <<supPc, supStop, supSpawn>>, closed => closed' /\ queue' = queue
      PROVE  Undismissed' /\ ClosedAtEnd'
  BY <1>5 DEF Undismissed, ClosedAtEnd
<1>6. CASE Application
  <2>1. UNCHANGED <<supPc, supStop, supSpawn>> /\ (closed => closed' /\ queue' = queue)
    <3>1. CASE SyncProjects \/ PauseAll \/ ResumeAll \/ WriteMarker \/ DropHandles
      BY <3>1 DEF SyncProjects, PauseAll, ResumeAll, WriteMarker, DropHandles, AppFree, AppFrame, supVars
    <3>2. ASSUME NEW q \in Projects, Edit(q) \/ PauseProject(q) \/ ResumeProject(q) \/ NoticeDir(q)
          PROVE  UNCHANGED <<supPc, supStop, supSpawn>> /\ (closed => closed' /\ queue' = queue)
      BY <3>2 DEF Edit, PauseProject, ResumeProject, NoticeDir, AppFree, AppFrame, supVars
    <3>3. QED BY <1>6, <3>1, <3>2 DEF Application
  <2>2. QuietDirs'
    <3>1. CASE SyncProjects
      BY <1>2, <3>1 DEF SyncProjects, Msg, appVars, QuietDirs
    <3>2. CASE PauseAll
      BY <1>2, <3>2 DEF PauseAll, Msg
    <3>3. CASE ResumeAll
      BY <1>2, <3>3 DEF ResumeAll, Msg
    <3>4. CASE WriteMarker \/ DropHandles
      BY <1>1, <3>4 DEF WriteMarker, DropHandles, appVars
    <3>5. ASSUME NEW q \in Projects, Edit(q) PROVE QuietDirs'
      BY <1>2, <3>5 DEF Edit, Msg, appVars
    <3>6. ASSUME NEW q \in Projects, PauseProject(q) PROVE QuietDirs'
      BY <1>2, <3>6 DEF PauseProject, Msg
    <3>7. ASSUME NEW q \in Projects, ResumeProject(q) PROVE QuietDirs'
      BY <1>2, <3>7 DEF ResumeProject, Msg
    <3>8. ASSUME NEW q \in Projects, NoticeDir(q) PROVE FALSE
      BY <3>8 DEF NoticeDir, QuietDirs
    <3>9. QED BY <1>6, <3>1, <3>2, <3>3, <3>4, <3>5, <3>6, <3>7, <3>8 DEF Application
  <2>3. QED BY <1>5, <2>1, <2>2
<1>7. CASE Supervisor
  <2>1. CASE HandleSync
    <3>1. UNCHANGED <<supStop, deleted>> /\ supPc' = "emit" /\ supSpawn' = Projects
      BY <1>4, <2>1 DEF HandleSync, SupFrame, appVars
    <3>2. QuietDirs'
      BY <1>3, <2>1, <3>1 DEF HandleSync
    <3>3. supPc = "recv"
      BY <1>4, <2>1 DEF HandleSync
    <3>4. QED BY <3>1, <3>2, <3>3 DEF Undismissed, ClosedAtEnd, Ending
  <2>9. CASE SyncPauses
    <3>1. supStop' = {} /\ supPc' = "reconcile" /\ UNCHANGED <<deleted, queue>>
      BY <2>9 DEF SyncPauses, Undismissed, Syncing, QuietDirs, Workers, SupFrame, appVars
    <3>2. QED BY <1>1, <3>1 DEF Undismissed, ClosedAtEnd, Ending, Syncing
  <2>2. CASE HandleRegister \/ HandleUnregister
    BY <1>4, <2>2 DEF HandleRegister, HandleUnregister
  <2>3. CASE HandleTrigger \/ HandlePause \/ HandlePauseProject \/ HandleResume \/ HandleResumeProject
    <3>1. UNCHANGED <<supPc, supStop, supSpawn, deleted>> /\ \E kind : Receive(kind)
      BY <2>3 DEF HandleTrigger, HandlePause, HandlePauseProject, HandleResume, HandleResumeProject,
         KillFrame, ResumeFrame, SupFrame, appVars, supVars
    <3>2. QED BY <1>3, <1>4, <3>1 DEF Undismissed, ClosedAtEnd, Ending
  <2>4. CASE AnyHydrate \/ AnyInsert \/ AnyTell
    <3>1. UNCHANGED <<queue, deleted, supStop, supSpawn>>
      BY <2>4 DEF AnyHydrate, AnyInsert, AnyTell, Hydrate, Insert, Tell, EmitFrame, SupFrame, appVars
    <3>2. supPc \notin Ending /\ supPc' \notin Ending /\ (supPc' \in Syncing => supPc \in Syncing)
      BY <2>4 DEF AnyHydrate, AnyInsert, AnyTell, Hydrate, Insert, Tell, Ending, Syncing
    <3>3. QED BY <1>1, <3>1, <3>2 DEF Undismissed, ClosedAtEnd
  <2>10. CASE SpawnMissing
    <3>1. UNCHANGED <<queue, deleted, supStop>> /\ supPc \notin Ending /\ supPc' = "recv"
      BY <2>10 DEF SpawnMissing, SupFrame, appVars, Ending
    <3>2. QED BY <1>1, <3>1 DEF Undismissed, ClosedAtEnd, Ending, Syncing
  <2>5. CASE StopWorker("reconcile", "join") \/ StopWorker("drain", "drainJoin")
    <3>1. UNCHANGED <<queue, deleted, closed>> /\ supStop # {}
      BY <2>5 DEF StopWorker, SupFrame, appVars
    <3>2. supPc \in Ending /\ supPc' \in Ending
      BY <2>5, <3>1 DEF StopWorker, Undismissed, Ending
    <3>3. QED BY <1>1, <3>1, <3>2 DEF Undismissed, ClosedAtEnd, Ending, Syncing
  <2>6. CASE JoinWorker("join", "reconcile") \/ JoinWorker("drainJoin", "drain")
    <3>1. UNCHANGED <<queue, deleted, closed, supStop>> /\ (supPc \in Ending <=> supPc' \in Ending)
      BY <2>6 DEF JoinWorker, SupFrame, appVars, Ending
    <3>3. supPc' \notin Syncing
      BY <2>6 DEF JoinWorker, Syncing
    <3>2. QED BY <1>1, <3>1, <3>3 DEF Undismissed, ClosedAtEnd
  <2>7. CASE Drain \/ SupervisorExits
    <3>1. UNCHANGED <<queue, deleted, closed>> /\ supPc' \in Ending /\ closed /\ queue = <<>>
      BY <2>7 DEF Drain, SupervisorExits, SupFrame, appVars, Ending, ClosedAtEnd
    <3>2. QED BY <1>1, <3>1 DEF Undismissed, ClosedAtEnd, Ending, Syncing
  <2>8. QED BY <1>7, <2>1, <2>2, <2>3, <2>4, <2>5, <2>6, <2>7, <2>9, <2>10
    DEF Supervisor, AnyHydrate, AnyInsert, AnyTell
<1>8. ASSUME NEW p \in Projects, Worker(p) \/ ChildExits(p)
      PROVE  QuietDirs' /\ Undismissed' /\ ClosedAtEnd'
  <2>1. UNCHANGED <<queue, deleted, closed, supPc, supStop, supSpawn>>
    BY <1>8, WorkerMoves DEF WorkerFrame, appVars, supVars
  <2>2. QED BY <1>1, <1>5, <2>1
<1>9. CASE UNCHANGED vars
  <2>1. UNCHANGED <<queue, deleted, closed, supPc, supStop, supSpawn>>
    BY <1>9 DEF vars, appVars, supVars
  <2>2. QED BY <1>1, <1>5, <2>1
<1>10. QED BY <1>6, <1>7, <1>8, <1>9, DirsStay DEF Next, QuietDirs

\* Once the supervisor shuts the runtime down no flag changes and it kills only what it stops.
LEMMA EndKeepsFlags ==
  ASSUME TypeOK, ClosedAtEnd, supPc \in Ending, [Next]_vars, NEW p \in Projects
  PROVE  /\ Paused(p)' <=> Paused(p)
         /\ stop[p] => stop'[p]
         /\ Worker(p) \/ (killed'[p] => killed[p] \/ stop'[p])
<1>0. stop \in [Projects -> BOOLEAN] /\ killed \in [Projects -> BOOLEAN] /\ closed
  BY DEF TypeOK, WorkerType, CommandType, ClosedAtEnd
<1>1. CASE Application
  <2>1. UNCHANGED <<globallyPaused, pausedProjects, stop, killed>>
    <3>1. CASE SyncProjects \/ PauseAll \/ ResumeAll \/ WriteMarker \/ DropHandles
      BY <1>0, <3>1 DEF SyncProjects, PauseAll, ResumeAll, WriteMarker, DropHandles, AppFree, AppFrame,
         pauseVars, mailVars, childVars
    <3>2. ASSUME NEW q \in Projects, Edit(q) \/ PauseProject(q) \/ ResumeProject(q) \/ NoticeDir(q)
          PROVE  UNCHANGED <<globallyPaused, pausedProjects, stop, killed>>
      BY <1>0, <3>2 DEF Edit, PauseProject, ResumeProject, NoticeDir, AppFree, AppFrame, mailVars, childVars
    <3>3. QED BY <1>1, <3>1, <3>2 DEF Application
  <2>2. QED BY <2>1 DEF Paused
<1>2. CASE Supervisor
  <2>1. \/ StopWorker("drain", "drainJoin") \/ JoinWorker("drainJoin", "drain") \/ SupervisorExits
    BY <1>2 DEF Supervisor, Ending, HandleSync, SyncPauses, HandleRegister, HandleUnregister, HandleTrigger,
       HandlePause, HandlePauseProject, HandleResume, HandleResumeProject, Receive, Hydrate, Insert, Tell,
       StopWorker, JoinWorker, SpawnMissing, Drain
  <2>2. UNCHANGED <<globallyPaused, pausedProjects>>
    BY <2>1 DEF StopWorker, JoinWorker, SupervisorExits, pauseVars
  <2>3. CASE StopWorker("drain", "drainJoin")
    <3>1. PICK q \in supStop : RaiseStopFlag(q) /\ KillSlots({q})
      BY <2>3 DEF StopWorker
    <3>2. q \in Projects
      BY <3>1 DEF TypeOK, SupervisorType
    <3>3. stop[p] => stop'[p]
      BY <1>0, <3>1, <3>2 DEF RaiseStopFlag
    <3>4. killed'[p] => killed[p] \/ stop'[p]
      BY <1>0, <3>1, <3>2 DEF RaiseStopFlag, KillSlots
    <3>5. QED BY <2>2, <3>3, <3>4 DEF Paused
  <2>4. CASE JoinWorker("drainJoin", "drain") \/ SupervisorExits
    BY <2>2, <2>4 DEF JoinWorker, SupervisorExits, mailVars, childVars, Paused
  <2>5. QED BY <2>1, <2>3, <2>4
<1>3. ASSUME NEW q \in Projects, Worker(q) PROVE UNCHANGED <<globallyPaused, pausedProjects, stop>>
  BY <1>3, WorkerMoves DEF WorkerFrame
<1>4. ASSUME NEW q \in Projects, Worker(q) \/ ChildExits(q) \/ DirChanges(q) \/ UNCHANGED vars,
             ~Worker(p)
      PROVE  killed'[p] => killed[p]
  <2>1. killed'[p] = killed[p]
    BY <1>0, <1>4 DEF Worker, ReceiveTrigger, ExitThread, HoldBack, RememberHeld, SkipRun, StartRun,
       Announce, ProjectRemoved, Interrupted, RunEndsEarly, SpawnCommand, PutInSlot, Reap, Finish,
       AfterRun, RememberInterrupted, ChildExits, DirChanges, AppFrame, childVars, vars
  <2>2. QED BY <2>1
<1>5. ASSUME NEW q \in Projects, ChildExits(q) \/ DirChanges(q) \/ UNCHANGED vars
      PROVE  UNCHANGED <<globallyPaused, pausedProjects, stop>>
  BY <1>5 DEF ChildExits, WorkerFrame, DirChanges, AppFrame, mailVars, pauseVars, vars
<1>6. QED BY <1>1, <1>2, <1>3, <1>4, <1>5, RuntimeAssumption DEF Next, Paused

LEMMA KilledStep ==
  ASSUME TypeOK, PauseInv, PatientInv, PatientInv', MarkersTaken, NoVerdictInRun, KilledIsPaused, ClosedAtEnd,
         Undismissed, Undismissed', [Next]_vars, PatientUser = TRUE
  PROVE  KilledIsPaused'
<1>1. SUFFICES ASSUME NEW p \in Projects, InRun(p)', killed'[p], ~stop'[p] PROVE Paused(p)'
  BY DEF KilledIsPaused
<1>2. CASE p \notin supStop'
  BY <1>1, <1>2 DEF PatientInv, Held, Leaving
<1>3. CASE p \in supStop' /\ supPc \in Ending
  <2>1. ~stop[p] /\ (Paused(p)' <=> Paused(p))
    BY <1>1, <1>3, EndKeepsFlags
  <2>2. InRun(p) /\ killed[p]
    <3>1. CASE Worker(p)
      BY <1>1, <3>1, WorkerInRun DEF NoVerdictInRun
    <3>2. CASE ~Worker(p)
      <4>1. Quiet(p) \/ Started(p) \/ Joined(p)
        BY <3>2, QuietOfApplication, QuietOfSupervisor, QuietOfOthers DEF Next, PatientInv
      <4>2. InRun(p)
        BY <1>1, <4>1 DEF Quiet, Started, Joined, InRun, Running
      <4>3. killed[p]
        BY <1>1, <1>3, <3>2, EndKeepsFlags
      <4>4. QED BY <4>2, <4>3
    <3>3. QED BY <3>1, <3>2
  <2>3. QED BY <2>1, <2>2 DEF KilledIsPaused
<1>4. CASE p \in supStop' /\ supPc \notin Ending
  <2>1. supStop = {} /\ supPc' \in Ending
    BY <1>4 DEF Undismissed
  <2>2. Supervisor
    <3>1. supStop' # supStop
      BY <1>4, <2>1
    <3>2. ~Application
      <4>1. CASE SyncProjects \/ PauseAll \/ ResumeAll \/ WriteMarker \/ DropHandles
        BY <3>1, <4>1 DEF SyncProjects, PauseAll, ResumeAll, WriteMarker, DropHandles, AppFrame, supVars
      <4>2. ASSUME NEW q \in Projects, Edit(q) \/ PauseProject(q) \/ ResumeProject(q) \/ NoticeDir(q)
            PROVE  FALSE
        BY <3>1, <4>2 DEF Edit, PauseProject, ResumeProject, NoticeDir, AppFrame, supVars
      <4>3. QED BY <3>1, <4>1, <4>2 DEF Application
    <3>3. ~\E q \in Projects : Worker(q) \/ ChildExits(q)
      BY <3>1, WorkerMoves DEF WorkerFrame, supVars
    <3>4. ~\E q \in Projects : DirChanges(q)
      BY <3>1 DEF DirChanges, AppFrame, supVars
    <3>5. ~UNCHANGED vars
      BY <3>1 DEF vars, supVars
    <3>6. QED BY <3>2, <3>3, <3>4, <3>5 DEF Next
  <2>3. Drain
    BY <1>4, <2>1, <2>2 DEF Supervisor, Ending, HandleSync, SyncPauses, HandleRegister, HandleUnregister, HandleTrigger,
       HandlePause, HandlePauseProject, HandleResume, HandleResumeProject, KillFrame, ResumeFrame, supVars,
       Hydrate, Insert, Tell, StopWorker, JoinWorker, SpawnMissing, SupervisorExits
  <2>4. UNCHANGED <<pauseVars, threadVars, mailVars, childVars>>
    BY <2>3 DEF Drain
  <2>5. Held(p) /\ ~Leaving(p) /\ InRun(p) /\ killed[p]
    BY <1>1, <2>1, <2>4 DEF PatientInv, Leaving, InRun, threadVars, mailVars, childVars
  <2>6. QED BY <2>4, <2>5 DEF Held, Paused, pauseVars
<1>5. QED BY <1>2, <1>3, <1>4

\* The same up to the moment the worker is told to stop, while projects neither come nor
\* go.  When they do, a project can lose its pause to a scan that does not find it and
\* return before its worker is told: hence the hypothesis.
THEOREM KilledRunsStayUnrecorded ==
  ASSUME PatientUser = TRUE, MaxDirChanges = 0
  PROVE  Spec /\ []MarkersTaken => KilledRunUnrecorded
<1> DEFINE Inv == QuietDirs /\ Undismissed /\ ClosedAtEnd /\ KilledIsPaused
<1>1. Init => Inv
  <2> SUFFICES ASSUME Init PROVE Inv
    OBVIOUS
  <2>1. /\ queue = <<>> /\ present = Projects /\ deleted = {} /\ supPc = "recv" /\ supStop = {}
        /\ \A p \in Projects : ~killed[p]
    BY DEF Init
  <2>2. Places = {}
    BY <2>1 DEF Places
  <2>3. QED BY <2>1, <2>2 DEF QuietDirs, Undismissed, ClosedAtEnd, KilledIsPaused, Ending, Syncing
<1>2. ASSUME TypeOK, PauseInv, PatientInv, MarkersTaken, NoVerdictInRun, Inv, [Next]_vars PROVE Inv'
  <2>1. QuietDirs' /\ Undismissed' /\ ClosedAtEnd'
    BY <1>2, QuietDirsStep, MaxDirChanges = 0
  <2>2. PatientInv'
    BY <1>2, PatientStep, PatientUser = TRUE
  <2>3. KilledIsPaused'
    BY <1>2, <2>1, <2>2, KilledStep, PatientUser = TRUE
  <2>4. QED BY <2>1, <2>3
<1>3. ASSUME TypeOK, NoVerdictInRun, Inv, [Next]_vars
      PROVE  [\A p \in Projects :
                killed[p] /\ ~stop[p] /\ pc[p] = "check" => latest'[p] \notin Verdict]_vars
  <2>1. SUFFICES ASSUME NEW p \in Projects, killed[p], ~stop[p], pc[p] = "check"
                 PROVE  latest'[p] \notin Verdict
    OBVIOUS
  <2>2. Paused(p)
    BY <1>3, <2>1 DEF KilledIsPaused, InRun, Running
  <2>3. QED BY <1>3, <2>1, <2>2, PausedLeavesNoVerdict
<1> HIDE DEF Inv
<1>4. QED BY <1>1, <1>2, <1>3, NoVerdictAlways, PTL DEF Spec, KilledRunUnrecorded
=============================================================================
