---------------------------- MODULE LintRuntime ----------------------------
(***************************************************************************)
(* The lint runtime: one supervisor thread, one worker thread per watched  *)
(* project, and the application thread that drives them.                   *)
(*                                                                         *)
(* The application talks to the supervisor through an unbounded FIFO       *)
(* channel and, for pauses, also through the shared PauseState that every  *)
(* worker polls.  A worker runs the configured commands one by one; the    *)
(* child process of the current command sits in a slot from which the      *)
(* supervisor can take and kill it.  Runs are recorded on disk in          *)
(* latest.json and history.jsonl.                                          *)
(*                                                                         *)
(* Status messages are applied in the order they are sent (one FIFO        *)
(* channel), so `shown' is the status the application displays once it has *)
(* drained its channel.  Run origins, debounce lengths, log contents and   *)
(* timestamps are left out; a debounce may expire at any moment.           *)
(***************************************************************************)
EXTENDS Naturals, Sequences, FiniteSets

CONSTANTS
  Projects,            \* the lint-owning project roots
  NoProject,           \* no project
  NumCommands,         \* lint commands configured, run in order
  DiscoveryImmediate,  \* lint.on_discovery = immediate
  IoMayFail,           \* disk writes and process spawns may fail
  PatientUser,         \* the user toggles a pause only once the last one settled
  Leftovers,           \* what a previous process may have left: <<latest, history>>
  MaxEdits, MaxToggles, MaxDirChanges, MaxSyncs,  \* bounds on the environment,
  MaxEvents                                       \* and on all of it together

ASSUME RuntimeAssumption ==
  /\ IsFiniteSet(Projects) /\ Projects # {} /\ NoProject \notin Projects
  /\ NumCommands \in Nat \ {0}
  /\ DiscoveryImmediate \in BOOLEAN
  /\ IoMayFail \in BOOLEAN
  /\ PatientUser \in BOOLEAN
  /\ Leftovers \subseteq {"none", "running", "passed", "failed"} \X {"NoLog", "passed", "failed"}
  /\ {MaxEdits, MaxToggles, MaxDirChanges, MaxSyncs, MaxEvents} \subseteq Nat

VARIABLES
  queue,           \* the supervisor's channel
  closed,          \* every RuntimeHandle has been dropped
  globallyPaused,  \* PauseState.globally_paused
  pausedProjects,  \* PauseState.paused_projects
  catchUp,         \* projects to re-lint on resume
  supPc,           \* what the supervisor thread is doing
  supStop,         \* workers it still has to stop in this request
  supSpawn,        \* projects it spawns workers for once those are gone
  supEmit,         \* projects it has yet to send a startup status of
  supProject,      \* the project it is joining, or sending a startup status of
  hydrated,        \* the status it read: about to cache it, or to send it
  pc, cmd, failed, \* worker: program counter, command index, a command failed
  inbox, sched,    \* worker: triggers not yet received, a run is scheduled
  stop,            \* worker: its stop flag
  child, slot,     \* the command's process, and whether the slot holds it
  latest, history, \* latest.json, and the newest result in history.jsonl
  uncleared,       \* history variable: the last removal of a Running record failed
  newest,          \* history variable: the verdict of the last run that reached one
  present,         \* project directory and Cargo.toml exist
  statusCache,     \* the supervisor's cache of historical statuses
  shown,           \* the status the application displays
  overtaken,       \* history variable: it was sent after the one that replaced it
  deleted,         \* projects the application considers deleted
  marker,          \* per-project pause markers on disk
  unmarked,        \* history variable: the last marker write or removal failed
  markerDue,       \* the marker write the application is about to do
  wantPaused,      \* history variable: the user's last global request
  owed,            \* history variable: "owed" after an edit no run has started on,
                   \*   "inRun" when a run started after it, "no" once one covered it
  killed,          \* history variable: the current run lost a command to a kill
  budget           \* how much of each environment bound is used

pauseVars  == <<globallyPaused, pausedProjects, catchUp>>
supVars    == <<supPc, supStop, supSpawn, supEmit, supProject, hydrated>>
threadVars == <<pc, cmd, failed>>
mailVars   == <<inbox, sched, stop>>
childVars  == <<child, slot, killed>>
latestVars == <<latest, uncleared>>
resultVars == <<history, newest>>
diskVars   == <<latestVars, resultVars>>
shownVars  == <<shown, overtaken>>
viewVars   == <<statusCache, shownVars>>
markerVars == <<marker, unmarked>>
appVars    == <<deleted, markerVars, markerDue, wantPaused>>
vars == <<queue, closed, pauseVars, supVars, threadVars, mailVars, childVars, diskVars,
          present, viewVars, appVars, owed, budget>>

Msg == [kind : {"Sync", "Register", "Unregister", "Trigger", "Pause", "Resume",
                "PauseProject", "ResumeProject"},
        to   : SUBSET Projects]
Verdict == {"passed", "failed"}
Cached  == Verdict \cup {"NoLog"}
Running == {"announce", "check", "spawned", "wait"}  \* inside run_commands_for_project

\* The supervisor looks a status up (or reads it from disk), caches it, sends it:
\* for each project of a Sync, then for the project of a Register.
Syncing   == {"emit", "emitInsert", "emitTell"}
Inserting == {"emitInsert", "insert"}
Telling   == {"emitTell", "tell"}
Emitting  == Syncing \cup {"hydrate", "insert", "tell"}

ChannelType == queue \in Seq(Msg) /\ closed \in BOOLEAN
PauseType == /\ globallyPaused \in BOOLEAN /\ wantPaused \in BOOLEAN
             /\ pausedProjects \subseteq Projects /\ catchUp \subseteq Projects
SupervisorType ==
  /\ supPc \in {"recv", "reconcile", "join", "drain", "drainJoin", "exited"} \cup Emitting
  /\ supStop \subseteq Projects /\ supSpawn \subseteq Projects /\ supEmit \subseteq Projects
  /\ supProject \in Projects \cup {NoProject} /\ hydrated \in Cached
  /\ supPc \in {"join", "drainJoin"} \cup Inserting \cup Telling => supProject \in Projects
WorkerType ==
  /\ pc \in [Projects -> Running \cup {"none", "idle", "hold", "post", "remember", "exited"}]
  /\ cmd \in [Projects -> 1..(NumCommands + 1)] /\ failed \in [Projects -> BOOLEAN]
  /\ inbox \in [Projects -> Nat] /\ sched \in [Projects -> BOOLEAN]
  /\ stop \in [Projects -> BOOLEAN]
CommandType ==
  /\ child \in [Projects -> {"none", "alive", "ok", "fail", "killed"}]
  /\ slot \in [Projects -> BOOLEAN] /\ killed \in [Projects -> BOOLEAN]
RecordType ==
  /\ latest \in [Projects -> Verdict \cup {"none", "running"}]
  /\ history \in [Projects -> Cached] /\ newest \in [Projects -> Cached]
  /\ uncleared \subseteq Projects /\ overtaken \subseteq Projects
  /\ statusCache \in [Projects -> Cached \cup {"miss"}]
  /\ shown \in [Projects -> Cached \cup {"running", "stale"}]
  /\ owed \in [Projects -> {"no", "owed", "inRun"}]
WorldType ==
  /\ present \subseteq Projects /\ deleted \subseteq Projects /\ marker \subseteq Projects
  /\ unmarked \subseteq Projects
  /\ markerDue \in [project : Projects \cup {NoProject}, paused : BOOLEAN]
  /\ budget \in [{"edits", "toggles", "dirs", "syncs"} -> Nat]

TypeOK == /\ ChannelType /\ PauseType /\ SupervisorType /\ WorkerType
          /\ CommandType /\ RecordType /\ WorldType
-----------------------------------------------------------------------------
(* Shared helpers.                                                         *)

Workers    == {p \in Projects : pc[p] # "none"}
Paused(p)  == globallyPaused \/ p \in pausedProjects
IoOutcomes == {"ok"} \cup IF IoMayFail THEN {"error"} ELSE {}
Send(kind, to) == queue' = Append(queue, [kind |-> kind, to |-> to])

\* What the application shows after a terminal status: the history it reloads.
Terminal(status, newHistory) == IF status = "stale" THEN "stale" ELSE newHistory

\* What a startup status shows: a live run is not overwritten.
StartupShown(old, cached) == IF old = "running" THEN old ELSE cached

\* read_status_from_disk: the newest terminal result.
DiskStatus(p) == IF latest[p] \in Verdict THEN latest[p] ELSE history[p]

\* kill_child_tree on the child found in the slot, for the projects in ps.
KillSlots(ps) ==
  LET hit == {p \in ps : slot[p]} IN
  /\ child'  = [p \in Projects |-> IF p \in hit THEN "killed" ELSE child[p]]
  /\ slot'   = [p \in Projects |-> slot[p] /\ p \notin hit]
  /\ killed' = [p \in Projects |-> killed[p] \/ p \in hit]

\* What a recorded run leaves owed: a killed run covered nothing.
Cover(p) == IF owed[p] = "inRun" THEN IF killed[p] THEN "owed" ELSE "no" ELSE owed[p]

\* A published status replaces the one on display.
Show(p, status) == /\ shown' = [shown EXCEPT ![p] = status]
                   /\ overtaken' = overtaken \ {p}

\* latest.json is rewritten, or its removal ends well or badly.
Rewrite(p, status) == /\ latest' = [latest EXCEPT ![p] = status]
                      /\ uncleared' = uncleared \ {p}
RemovalFails(p) == uncleared' = uncleared \cup {p} /\ UNCHANGED latest

Init ==
  /\ queue = <<>> /\ closed = FALSE
  /\ globallyPaused = FALSE /\ pausedProjects = {} /\ catchUp = {}
  /\ supPc = "recv" /\ supStop = {} /\ supSpawn = {} /\ supEmit = {}
  /\ supProject = NoProject /\ hydrated = "NoLog"
  /\ pc = [p \in Projects |-> "none"]
  /\ cmd = [p \in Projects |-> 1] /\ failed = [p \in Projects |-> FALSE]
  /\ inbox = [p \in Projects |-> 0] /\ sched = [p \in Projects |-> FALSE]
  /\ stop = [p \in Projects |-> FALSE]
  /\ child = [p \in Projects |-> "none"] /\ slot = [p \in Projects |-> FALSE]
  /\ latest \in [Projects -> {"none", "running", "passed", "failed"}]
  /\ history \in [Projects -> Cached]
  /\ \A p \in Projects : <<latest[p], history[p]>> \in Leftovers
  /\ newest = [p \in Projects |-> DiskStatus(p)] /\ uncleared = {}
  /\ present = Projects /\ deleted = {}
  /\ marker \in SUBSET Projects /\ unmarked = {} /\ markerDue = [project |-> NoProject, paused |-> FALSE]
  /\ statusCache = [p \in Projects |-> "miss"]
  /\ shown = [p \in Projects |-> "NoLog"] /\ overtaken = {}
  /\ wantPaused = FALSE
  /\ owed = [p \in Projects |-> "no"] /\ killed = [p \in Projects |-> FALSE]
  /\ budget = [bound \in {"edits", "toggles", "dirs", "syncs"} |-> 0]
-----------------------------------------------------------------------------
(* The application thread, and the environment it reports on.              *)

AppFree == ~closed /\ markerDue.project = NoProject

\* Every message is handled and every worker waits for its next trigger.
Settled == queue = <<>> /\ supPc = "recv" /\ \A p \in Projects : pc[p] \in {"none", "idle"}
Patience(settled) == PatientUser => settled

Events == budget["edits"] + budget["toggles"] + budget["dirs"] + budget["syncs"]
Spend(field, bound) == /\ budget[field] < bound /\ Events < MaxEvents
                       /\ budget' = [budget EXCEPT ![field] = @ + 1]

\* Untouched by every application step but the three that say otherwise.
AppFrame == UNCHANGED <<closed, catchUp, supVars, threadVars, mailVars, childVars, diskVars, viewVars>>

\* sync_lint_runtime_projects, after a scan.
SyncProjects ==
  /\ AppFree /\ Spend("syncs", MaxSyncs)
  /\ Send("Sync", Projects \ deleted)
  /\ AppFrame /\ UNCHANGED <<globallyPaused, pausedProjects, present, appVars, owed>>

\* A source edit the watcher turns into a trigger; a startup lint request is the same message.
Edit(p) ==
  /\ ~closed /\ p \in present /\ Spend("edits", MaxEdits)
  /\ Send("Trigger", {p})
  /\ owed' = [owed EXCEPT ![p] = "owed"]
  /\ AppFrame /\ UNCHANGED <<globallyPaused, pausedProjects, present, appVars>>

PauseAll ==
  /\ AppFree /\ ~globallyPaused /\ Spend("toggles", MaxToggles)
  /\ Patience(queue = <<>> /\ supPc = "recv")
  /\ globallyPaused' = TRUE /\ wantPaused' = TRUE
  /\ Send("Pause", {})
  /\ AppFrame /\ UNCHANGED <<pausedProjects, present, deleted, markerVars, markerDue, owed>>

ResumeAll ==
  /\ AppFree /\ globallyPaused /\ Spend("toggles", MaxToggles)
  /\ Patience(Settled)
  /\ globallyPaused' = FALSE /\ wantPaused' = FALSE
  /\ Send("Resume", {})
  /\ AppFrame /\ UNCHANGED <<pausedProjects, present, deleted, markerVars, markerDue, owed>>

\* The flag and the message come first, the marker on disk after them.
PauseProject(p) ==
  /\ AppFree /\ ~Paused(p) /\ Spend("toggles", MaxToggles)
  /\ Patience(queue = <<>> /\ supPc = "recv")
  /\ pausedProjects' = pausedProjects \cup {p}
  /\ Send("PauseProject", {p})
  /\ markerDue' = [project |-> p, paused |-> TRUE]
  /\ AppFrame /\ UNCHANGED <<globallyPaused, present, deleted, markerVars, wantPaused, owed>>

ResumeProject(p) ==
  /\ AppFree /\ ~globallyPaused /\ p \in pausedProjects /\ Spend("toggles", MaxToggles)
  /\ Patience(Settled)
  /\ pausedProjects' = pausedProjects \ {p}
  /\ Send("ResumeProject", {p})
  /\ markerDue' = [project |-> p, paused |-> FALSE]
  /\ AppFrame /\ UNCHANGED <<globallyPaused, present, deleted, markerVars, wantPaused, owed>>

\* Best effort: nobody learns that the marker could not be written or removed.
WriteMarker ==
  /\ markerDue.project # NoProject
  /\ \E write \in IoOutcomes :
       IF write = "ok"
       THEN /\ marker' = IF markerDue.paused THEN marker \cup {markerDue.project}
                                             ELSE marker \ {markerDue.project}
            /\ unmarked' = unmarked \ {markerDue.project}
       ELSE unmarked' = unmarked \cup {markerDue.project} /\ UNCHANGED marker
  /\ markerDue' = [project |-> NoProject, paused |-> FALSE]
  /\ AppFrame
  /\ UNCHANGED <<queue, globallyPaused, pausedProjects, present, deleted, wantPaused, owed, budget>>

DirChanges(p) ==
  /\ Spend("dirs", MaxDirChanges)
  /\ present' = IF p \in present THEN present \ {p} ELSE present \cup {p}
  /\ AppFrame /\ UNCHANGED <<queue, globallyPaused, pausedProjects, appVars, owed>>

\* A disk scan tells the application that a project went away or came back.
NoticeDir(p) ==
  /\ AppFree
  /\ \/ p \in present /\ p \in deleted /\ deleted' = deleted \ {p} /\ Send("Register", {p})
     \/ p \notin present /\ p \notin deleted /\ deleted' = deleted \cup {p} /\ Send("Unregister", {p})
  /\ AppFrame
  /\ UNCHANGED <<globallyPaused, pausedProjects, present, markerVars, markerDue, wantPaused, owed, budget>>

\* Lint is disabled or its configuration replaced: every handle to this runtime goes.
DropHandles ==
  /\ AppFree /\ closed' = TRUE
  /\ UNCHANGED <<queue, pauseVars, supVars, threadVars, mailVars, childVars, diskVars,
                 present, viewVars, appVars, owed, budget>>
-----------------------------------------------------------------------------
(* The supervisor thread.                                                  *)

Receive(kind) == /\ supPc = "recv" /\ queue # <<>>
                 /\ Head(queue).kind = kind
                 /\ queue' = Tail(queue)
To == Head(queue).to
SupFrame == UNCHANGED <<closed, present, resultVars, appVars, budget>>
KillFrame == UNCHANGED <<supVars, threadVars, mailVars, latestVars, viewVars, owed>> /\ SupFrame
ResumeFrame == UNCHANGED <<supVars, threadVars, sched, stop, childVars, latestVars, viewVars, owed>> /\ SupFrame
EmitFrame == UNCHANGED <<queue, pauseVars, supStop, supSpawn, threadVars, mailVars, childVars, owed>> /\ SupFrame

\* A status that has to be read from disk; the slip reads it every time.
MissedAlways(p) == TRUE
Missed(p) == statusCache[p] = "miss"

\* cached_status_for_project: look up, else read the disk, where the Running
\* record of a process that died is removed if it can be.  Lookup and read are
\* one step: a project without a cached status has no run going on unless
\* DiscoveryImmediate lets one start (HydratedBeforeRun).
Hydrate(at, insertAt, tellAt) ==
  /\ supPc = at
  /\ \E p \in supEmit :
       /\ supEmit' = supEmit \ {p} /\ supProject' = p
       /\ \/ /\ ~Missed(p)
             /\ hydrated' = statusCache[p] /\ supPc' = tellAt
             /\ UNCHANGED latestVars
          \/ /\ Missed(p)
             /\ hydrated' = DiskStatus(p) /\ supPc' = insertAt
             /\ IF latest[p] # "running" THEN UNCHANGED latestVars
                ELSE \E removal \in IoOutcomes :
                       IF removal = "ok" THEN Rewrite(p, "none") ELSE RemovalFails(p)
  /\ EmitFrame /\ UNCHANGED viewVars

Insert(insertAt, tellAt) ==
  /\ supPc = insertAt /\ supPc' = tellAt
  /\ statusCache' = [statusCache EXCEPT ![supProject] = hydrated]
  /\ EmitFrame /\ UNCHANGED <<supEmit, supProject, hydrated, latestVars, shownVars>>

\* LintStartupStatus: by now a worker may have published a newer status, which
\* this one then overtakes on display.
Tell(tellAt, back) ==
  LET p == supProject IN
  /\ supPc = tellAt /\ supPc' = back
  /\ shown' = [shown EXCEPT ![p] = StartupShown(@, hydrated)]
  /\ overtaken' = IF shown[p] = "running" THEN overtaken
                  ELSE IF hydrated = statusCache[p] THEN overtaken \ {p} ELSE overtaken \cup {p}
  /\ EmitFrame /\ UNCHANGED <<supEmit, supProject, hydrated, latestVars, statusCache>>

\* emit_current_statuses comes first; the projects asked for wait in supSpawn.
HandleSync ==
  /\ Receive("Sync")
  /\ supEmit' = To /\ supSpawn' = To /\ supPc' = "emit"
  /\ SupFrame
  /\ UNCHANGED <<pauseVars, supStop, supProject, hydrated, threadVars, mailVars, childVars,
                 latestVars, viewVars, owed>>

\* sync_persisted_project_pauses; the slip starts from a fresh set.
PersistedPausesLost(ps) == {}
PersistedPauses(ps) == ps \cap marker

\* Every status is sent: which projects are wanted, and which of them are paused.
SyncPauses ==
  /\ supPc = "emit" /\ supEmit = {}
  /\ LET desired == supSpawn \cap present IN
       /\ pausedProjects' = PersistedPauses(desired)
       /\ supStop' = Workers \ desired /\ supSpawn' = desired
  /\ supPc' = "reconcile"
  /\ SupFrame
  /\ UNCHANGED <<queue, globallyPaused, catchUp, supEmit, supProject, hydrated, threadVars,
                 mailVars, childVars, latestVars, viewVars, owed>>

\* spawn_project_worker for the projects in ps that have none.
Spawn(ps, runNow) ==
  LET new == ps \ Workers IN
  /\ pc'     = [p \in Projects |-> IF p \in new THEN "idle" ELSE pc[p]]
  /\ cmd'    = [p \in Projects |-> IF p \in new THEN 1 ELSE cmd[p]]
  /\ failed' = [p \in Projects |-> failed[p] /\ p \notin new]
  /\ inbox'  = [p \in Projects |-> IF p \in new THEN 0 ELSE inbox[p]]
  /\ sched'  = [p \in Projects |-> IF p \in new THEN runNow ELSE sched[p]]
  /\ stop'   = [p \in Projects |-> stop[p] /\ p \notin new]

HandleRegister ==
  /\ Receive("Register")
  /\ \E p \in To :
       /\ supEmit' = {p}
       /\ Spawn({p} \cap present, DiscoveryImmediate)
       /\ pausedProjects' = IF p \notin present THEN pausedProjects
                            ELSE (pausedProjects \ {p}) \cup (marker \cap {p})
  /\ supPc' = "hydrate"
  /\ SupFrame
  /\ UNCHANGED <<globallyPaused, catchUp, supStop, supSpawn, supProject, hydrated, childVars,
                 latestVars, viewVars, owed>>

HandleUnregister ==
  /\ Receive("Unregister")
  /\ supStop' = To \cap Workers /\ supSpawn' = {}
  /\ supPc' = IF supStop' = {} THEN "recv" ELSE "reconcile"
  /\ SupFrame
  /\ UNCHANGED <<pauseVars, supEmit, supProject, hydrated, threadVars, mailVars, childVars,
                 latestVars, viewVars, owed>>

\* A trigger for a project without a worker is dropped.
HandleTrigger ==
  /\ Receive("Trigger")
  /\ inbox' = [p \in Projects |-> IF p \in To \cap Workers THEN inbox[p] + 1 ELSE inbox[p]]
  /\ owed' = [p \in Projects |-> IF p \in To \ Workers THEN "no" ELSE owed[p]]
  /\ SupFrame
  /\ UNCHANGED <<pauseVars, supVars, threadVars, sched, stop, childVars, latestVars, viewVars>>

HandlePause ==
  /\ Receive("Pause")
  /\ globallyPaused' = TRUE
  /\ KillSlots(Workers)
  /\ KillFrame /\ UNCHANGED <<pausedProjects, catchUp>>

HandlePauseProject ==
  /\ Receive("PauseProject")
  /\ pausedProjects' = pausedProjects \cup To
  /\ KillSlots(To \cap Workers)
  /\ KillFrame /\ UNCHANGED <<globallyPaused, catchUp>>

\* resume_catch_up_workers: what is still paused is remembered again, the rest
\* becomes a trigger, or is forgotten when its worker is gone.
ResumeCatchUpForgets ==  \* slip: what is still paused is not put back
  LET still == IF globallyPaused' THEN catchUp ELSE catchUp \cap pausedProjects' IN
  /\ catchUp' = {}
  /\ inbox' = [p \in Projects |-> IF p \in (catchUp \ still) \cap Workers
                                  THEN inbox[p] + 1 ELSE inbox[p]]
ResumeCatchUp ==
  LET still == IF globallyPaused' THEN catchUp ELSE catchUp \cap pausedProjects' IN
  /\ catchUp' = still
  /\ inbox' = [p \in Projects |-> IF p \in (catchUp \ still) \cap Workers
                                  THEN inbox[p] + 1 ELSE inbox[p]]

HandleResume ==
  /\ Receive("Resume")
  /\ globallyPaused' = FALSE /\ UNCHANGED pausedProjects
  /\ ResumeCatchUp /\ ResumeFrame

HandleResumeProject ==
  /\ Receive("ResumeProject")
  /\ pausedProjects' = pausedProjects \ To /\ UNCHANGED globallyPaused
  /\ ResumeCatchUp /\ ResumeFrame

\* stop_worker, up to the join it blocks in: flag, kill, drop the channel.
StopFlagForgotten(p) == UNCHANGED stop
RaiseStopFlag(p) == stop' = [stop EXCEPT ![p] = TRUE]
StopWorker(from, joining) ==
  /\ supPc = from
  /\ \E p \in supStop :
       /\ RaiseStopFlag(p) /\ KillSlots({p})
       /\ supProject' = p /\ supStop' = supStop \ {p}
  /\ supPc' = joining
  /\ SupFrame
  /\ UNCHANGED <<queue, pauseVars, supSpawn, supEmit, hydrated, threadVars, inbox, sched,
                 latestVars, viewVars, owed>>

\* The join returns; unless the runtime is closing, the project shows no live status.
JoinWorker(joining, back) ==
  LET p == supProject IN
  /\ supPc = joining /\ pc[p] = "exited"
  /\ pc' = [pc EXCEPT ![p] = "none"]
  /\ inbox' = [inbox EXCEPT ![p] = 0]
  /\ owed' = [owed EXCEPT ![p] = "no"]
  /\ IF joining = "join" THEN Show(p, Terminal("NoLog", history[p])) ELSE UNCHANGED shownVars
  /\ supPc' = back
  /\ SupFrame
  /\ UNCHANGED <<queue, pauseVars, supStop, supSpawn, supEmit, supProject, hydrated, cmd, failed,
                 sched, stop, childVars, latestVars, statusCache>>

SpawnMissing ==
  /\ supPc = "reconcile" /\ supStop = {}
  /\ Spawn(supSpawn, FALSE)
  /\ supPc' = "recv"
  /\ SupFrame
  /\ UNCHANGED <<queue, pauseVars, supStop, supSpawn, supEmit, supProject, hydrated, childVars,
                 latestVars, viewVars, owed>>

\* recv fails once every handle is gone and the channel is empty.
DrainedNone == {}
Drained == Workers
Drain ==
  /\ supPc = "recv" /\ queue = <<>> /\ closed
  /\ supPc' = "drain" /\ supStop' = Drained
  /\ SupFrame
  /\ UNCHANGED <<queue, pauseVars, supSpawn, supEmit, supProject, hydrated, threadVars,
                 mailVars, childVars, latestVars, viewVars, owed>>

SupervisorExits ==
  /\ supPc = "drain" /\ supStop = {}
  /\ supPc' = "exited"
  /\ SupFrame
  /\ UNCHANGED <<queue, pauseVars, supStop, supSpawn, supEmit, supProject, hydrated,
                 threadVars, mailVars, childVars, latestVars, viewVars, owed>>

Supervisor ==
  \/ HandleSync \/ Hydrate("emit", "emitInsert", "emitTell") \/ Insert("emitInsert", "emitTell")
  \/ Tell("emitTell", "emit") \/ SyncPauses
  \/ HandleRegister \/ Hydrate("hydrate", "insert", "tell") \/ Insert("insert", "tell")
  \/ Tell("tell", "recv") \/ HandleUnregister \/ HandleTrigger
  \/ HandlePause \/ HandlePauseProject \/ HandleResume \/ HandleResumeProject
  \/ StopWorker("reconcile", "join") \/ JoinWorker("join", "reconcile") \/ SpawnMissing
  \/ Drain \/ StopWorker("drain", "drainJoin") \/ JoinWorker("drainJoin", "drain")
  \/ SupervisorExits
-----------------------------------------------------------------------------
(* The worker thread of project p.                                         *)

Goto(p, label) == pc' = [pc EXCEPT ![p] = label]
WorkerFrame == UNCHANGED <<queue, closed, globallyPaused, pausedProjects, supVars, stop,
                           present, appVars, budget>>

\* Triggers received before the deadline coalesce into one scheduled run.
ReceiveTrigger(p) ==
  /\ pc[p] = "idle" /\ inbox[p] > 0
  /\ inbox' = [inbox EXCEPT ![p] = @ - 1]
  /\ sched' = [sched EXCEPT ![p] = TRUE]
  /\ WorkerFrame
  /\ UNCHANGED <<catchUp, threadVars, childVars, diskVars, viewVars, owed>>

\* The stop flag, or the closed channel.
ExitThread(p) ==
  /\ pc[p] = "idle" /\ stop[p]
  /\ Goto(p, "exited")
  /\ sched' = [sched EXCEPT ![p] = FALSE]
  /\ WorkerFrame
  /\ UNCHANGED <<catchUp, cmd, failed, inbox, childVars, diskVars, viewVars, owed>>

\* run_due finds the project paused.
HoldBack(p) ==
  /\ pc[p] = "idle" /\ sched[p] /\ Paused(p)
  /\ Goto(p, "hold")
  /\ WorkerFrame
  /\ UNCHANGED <<catchUp, cmd, failed, inbox, sched, childVars, diskVars, viewVars, owed>>

HeldForgotten(p) == UNCHANGED catchUp
RememberCatchUp(p) == catchUp' = catchUp \cup {p}

RememberHeld(p) ==
  /\ pc[p] = "hold"
  /\ RememberCatchUp(p)
  /\ Show(p, Terminal("stale", history[p]))
  /\ sched' = [sched EXCEPT ![p] = FALSE]
  /\ Goto(p, "idle")
  /\ WorkerFrame
  /\ UNCHANGED <<cmd, failed, inbox, childVars, diskVars, statusCache, owed>>

\* Being stopped, or the project gone: the scheduled run is dropped.
SkipRun(p) ==
  /\ pc[p] = "idle" /\ sched[p] /\ ~Paused(p) /\ (stop[p] \/ p \notin present)
  /\ sched' = [sched EXCEPT ![p] = FALSE]
  /\ owed' = [owed EXCEPT ![p] = IF p \in present THEN @ ELSE "no"]
  /\ WorkerFrame
  /\ UNCHANGED <<catchUp, threadVars, inbox, childVars, diskVars, viewVars>>

\* run_commands_for_project writes the Running record, or gives up if it cannot.
StartRun(p) ==
  /\ pc[p] = "idle" /\ sched[p] /\ ~Paused(p) /\ ~stop[p] /\ p \in present
  /\ cmd' = [cmd EXCEPT ![p] = 1]
  /\ failed' = [failed EXCEPT ![p] = FALSE]
  /\ killed' = [killed EXCEPT ![p] = FALSE]
  /\ \E write \in IoOutcomes :
       IF write = "ok" THEN /\ Rewrite(p, "running")
                       /\ owed' = [owed EXCEPT ![p] = IF @ = "owed" THEN "inRun" ELSE @]
                       /\ Goto(p, "announce")
                  ELSE /\ owed' = [owed EXCEPT ![p] = "no"]
                       /\ Goto(p, "post") /\ UNCHANGED latestVars
  /\ WorkerFrame
  /\ UNCHANGED <<catchUp, inbox, sched, child, slot, resultVars, viewVars>>

\* Publish what latest.json says, which is Running unless someone removed it.
Announce(p) ==
  /\ pc[p] = "announce"
  /\ IF latest[p] = "running"
     THEN Show(p, "running") /\ UNCHANGED statusCache
     ELSE /\ Show(p, Terminal("NoLog", history[p]))
          /\ statusCache' = [statusCache EXCEPT ![p] = "NoLog"]
  /\ Goto(p, "check")
  /\ WorkerFrame
  /\ UNCHANGED <<catchUp, cmd, failed, inbox, sched, childVars, diskVars, owed>>

\* RunFinalizeGuard leaves the run: a Running record is replaced by the last
\* result, unless it cannot be removed, of which nobody is told.
GuardForgotten(p) == UNCHANGED <<latestVars, viewVars>>  \* slip: no guard
GuardSilently(p) ==  \* slip: the record is removed, nobody is told
  /\ Rewrite(p, IF latest[p] = "running" THEN "none" ELSE latest[p])
  /\ UNCHANGED viewVars
Guard(p) ==
  IF latest[p] # "running" THEN UNCHANGED <<latestVars, viewVars>>
  ELSE \E removal \in IoOutcomes :
         IF removal = "ok"
         THEN /\ Rewrite(p, "none")
              /\ statusCache' = [statusCache EXCEPT ![p] = history[p]]
              /\ Show(p, Terminal("NoLog", history[p]))
         ELSE RemovalFails(p) /\ UNCHANGED viewVars

\* The checks before each command and after the last one end the run: latest.json
\* is removed, the status published, and the guard tries again what failed.
RunEndsEarly(p, status, cached) ==
  /\ \E removal, again \in IoOutcomes :
       IF removal = "error" /\ again = "ok" /\ latest[p] = "running"
       THEN /\ Rewrite(p, "none")
            /\ statusCache' = [statusCache EXCEPT ![p] = history[p]]
            /\ Show(p, Terminal("NoLog", history[p]))
       ELSE /\ IF removal = "ok" THEN Rewrite(p, "none") ELSE RemovalFails(p)
            /\ statusCache' = [statusCache EXCEPT ![p] = cached]
            /\ Show(p, Terminal(status, history[p]))
  /\ Goto(p, "post")
  /\ WorkerFrame
  /\ UNCHANGED <<catchUp, cmd, failed, inbox, sched, childVars, resultVars>>

ProjectRemoved(p) ==
  /\ pc[p] = "check" /\ p \notin present
  /\ owed' = [owed EXCEPT ![p] = "no"]
  /\ RunEndsEarly(p, "NoLog", "NoLog")

Interrupted(p) ==
  /\ pc[p] = "check" /\ p \in present /\ Paused(p)
  /\ owed' = [owed EXCEPT ![p] = IF @ = "inRun" THEN "owed" ELSE @]
  /\ RunEndsEarly(p, "stale", statusCache[p])

CommandsLeftOffByOne(p) == cmd[p] <= NumCommands + 1
CommandsLeft(p) == cmd[p] <= NumCommands
MayProceed(p) == pc[p] = "check" /\ p \in present /\ ~Paused(p)

\* An i/o error ends the run.
Abort(p) ==
  /\ Guard(p)
  /\ owed' = [owed EXCEPT ![p] = IF @ = "inRun" THEN "no" ELSE @]
  /\ Goto(p, "post")

\* The log and the record of a command that ended, or could not be spawned.
RecordCommand(p) ==
  /\ \E write \in IoOutcomes :
       IF write = "ok" THEN /\ Rewrite(p, "running")
                       /\ cmd' = [cmd EXCEPT ![p] = @ + 1]
                       /\ Goto(p, "check") /\ UNCHANGED <<viewVars, owed>>
                  ELSE Abort(p) /\ UNCHANGED cmd
  /\ UNCHANGED resultVars

SpawnCommand(p) ==
  /\ MayProceed(p) /\ CommandsLeft(p)
  /\ \/ /\ child' = [child EXCEPT ![p] = "alive"]
        /\ Goto(p, "spawned") /\ UNCHANGED <<cmd, failed, diskVars, viewVars, owed>>
     \/ /\ IoMayFail  \* the command cannot be spawned: it counts as failed
        /\ failed' = [failed EXCEPT ![p] = TRUE]
        /\ RecordCommand(p) /\ UNCHANGED child
  /\ WorkerFrame
  /\ UNCHANGED <<catchUp, inbox, sched, slot, killed>>

PutInSlot(p) ==
  /\ pc[p] = "spawned"
  /\ slot' = [slot EXCEPT ![p] = TRUE]
  /\ Goto(p, "wait")
  /\ WorkerFrame
  /\ UNCHANGED <<catchUp, cmd, failed, inbox, sched, child, killed, diskVars, viewVars, owed>>

\* The command finishes by itself.
ChildExits(p) ==
  /\ child[p] = "alive"
  /\ \E code \in {"ok", "fail"} : child' = [child EXCEPT ![p] = code]
  /\ WorkerFrame
  /\ UNCHANGED <<catchUp, threadVars, inbox, sched, slot, killed, diskVars, viewVars, owed>>

\* Both output pipes are at end of file; an empty slot means the child was killed.
LeaveChild(p) == UNCHANGED child
AwaitChild(p) == child[p] # "alive" /\ child' = [child EXCEPT ![p] = "none"]
Reap(p) ==
  /\ pc[p] = "wait" /\ AwaitChild(p)
  /\ failed' = [failed EXCEPT ![p] = @ \/ ~(slot[p] /\ child[p] = "ok")]
  /\ slot' = [slot EXCEPT ![p] = FALSE]
  /\ RecordCommand(p)
  /\ WorkerFrame
  /\ UNCHANGED <<catchUp, inbox, sched, killed>>

VerdictUncached(p, verdict) == UNCHANGED statusCache
CacheVerdict(p, verdict) == statusCache' = [statusCache EXCEPT ![p] = verdict]

\* The terminal record must land; the history append is best effort.
Finish(p) ==
  /\ MayProceed(p) /\ ~CommandsLeft(p)
  /\ LET verdict == IF failed[p] THEN "failed" ELSE "passed" IN
     \E write, append \in IoOutcomes :
       IF write = "ok"
       THEN /\ Rewrite(p, verdict)
            /\ history' = IF append = "ok" THEN [history EXCEPT ![p] = verdict] ELSE history
            /\ newest' = [newest EXCEPT ![p] = verdict]
            /\ CacheVerdict(p, verdict)
            /\ Show(p, Terminal(verdict, history'[p]))
            /\ owed' = [owed EXCEPT ![p] = Cover(p)]
            /\ Goto(p, "post")
       ELSE Abort(p) /\ UNCHANGED resultVars
  /\ WorkerFrame
  /\ UNCHANGED <<catchUp, cmd, failed, inbox, sched, childVars>>

\* After the run: was it a pause that ended it?
RunEnded(p) == "idle"
NextAfterRun(p) == IF Paused(p) THEN "remember" ELSE "idle"
AfterRun(p) ==
  /\ pc[p] = "post"
  /\ Goto(p, NextAfterRun(p))
  /\ sched' = [sched EXCEPT ![p] = FALSE]
  /\ WorkerFrame
  /\ UNCHANGED <<catchUp, cmd, failed, inbox, childVars, diskVars, viewVars, owed>>

RememberInterrupted(p) ==
  /\ pc[p] = "remember"
  /\ RememberCatchUp(p)
  /\ Goto(p, "idle")
  /\ WorkerFrame
  /\ UNCHANGED <<cmd, failed, inbox, sched, childVars, diskVars, viewVars, owed>>

Worker(p) ==
  \/ ReceiveTrigger(p) \/ ExitThread(p) \/ HoldBack(p) \/ RememberHeld(p) \/ SkipRun(p)
  \/ StartRun(p) \/ Announce(p) \/ ProjectRemoved(p) \/ Interrupted(p) \/ SpawnCommand(p)
  \/ PutInSlot(p) \/ Reap(p) \/ Finish(p) \/ AfterRun(p) \/ RememberInterrupted(p)
-----------------------------------------------------------------------------
Application ==
  \/ SyncProjects \/ PauseAll \/ ResumeAll \/ WriteMarker \/ DropHandles
  \/ \E p \in Projects : Edit(p) \/ PauseProject(p) \/ ResumeProject(p) \/ NoticeDir(p)

Next ==
  \/ Application
  \/ Supervisor
  \/ \E p \in Projects : Worker(p) \/ ChildExits(p) \/ DirChanges(p)

Spec == Init /\ [][Next]_vars

\* The operating system runs every thread, lint commands terminate, and the
\* application finishes a marker write it began.  Nobody has to edit, sync,
\* toggle a pause or drop the handles.  Weak fairness of a thread is enough: a
\* step of it stays enabled until it takes one.  The deadline of a scheduled run
\* arrives even while triggers keep coming, which they do finitely often.
Fairness ==
  /\ WF_vars(Supervisor) /\ WF_vars(WriteMarker)
  /\ \A p \in Projects : WF_vars(Worker(p)) /\ WF_vars(ChildExits(p))
LiveSpec == Spec /\ Fairness
-----------------------------------------------------------------------------
(* Properties.                                                             *)

\* A worker is inside run_commands_for_project once it has announced the run.
InRun(p) == pc[p] \in Running

\* An external reader of latest.json never waits for a run that is not there:
\* Running on disk means a live run, a project not hydrated yet, or a record that
\* could not be removed and has not been rewritten since.
NoStrandedRunning ==
  \A p \in Projects :
    latest[p] = "running" => InRun(p) \/ statusCache[p] = "miss" \/ p \in uncleared

\* The spinner of a project spins only while its worker is in a run, or after a
\* run whose Running record could not be removed.
NoGhostSpinner == \A p \in Projects : shown[p] = "running" => InRun(p) \/ p \in uncleared

\* A command never outlives the worker that started it, and the slot only ever
\* holds the process of the current command.
NoOrphanCommand ==
  \A p \in Projects :
    /\ child[p] # "none" => pc[p] \in {"spawned", "wait"}
    /\ slot[p] => pc[p] = "wait" /\ child[p] # "killed"

\* Once every toggle has been handled, flag, set and markers agree with the user,
\* however quick the toggles; but for a marker the disk refused.
PauseConverges ==
  (queue = <<>> /\ supPc = "recv" /\ markerDue.project = NoProject) =>
    /\ globallyPaused = wantPaused
    /\ \A p \in Workers \ unmarked : (p \in pausedProjects <=> p \in marker)

Leaving(p) == stop[p] \/ p \in supStop

\* Something will still lint p: a message, a trigger, a scheduled run, a worker
\* about to remember it, or the catch-up set with a pause or a resume ahead.
Queued(kinds, p) == \E i \in 1..Len(queue) : queue[i].kind \in kinds /\ (p \in queue[i].to \/ queue[i].to = {})
Pending(p) ==
  \/ Queued({"Trigger"}, p) \/ inbox[p] > 0 \/ sched[p] \/ pc[p] = "remember"
  \/ p \in catchUp /\ (Paused(p) \/ Queued({"Resume", "ResumeProject"}, p))

\* "Projects whose runs are killed or whose triggers arrive while paused are
\* remembered and re-linted on resume" (RuntimeHandle::pause): no edit is lost.
NoLostWork == \A p \in Workers : owed[p] = "owed" /\ ~Leaving(p) => Pending(p)

\* The cancelled marker promises a catch-up run.
StaleIsPending ==
  \A p \in Workers : shown[p] = "stale" /\ ~Leaving(p) => Pending(p) \/ InRun(p) \/ pc[p] = "post"

\* A verdict in the cache that feeds startup statuses, or on display, is that of
\* the newest run or, where the history append failed, of the newest recorded one:
\* but for a startup status that overtook the worker's own.
VerdictIsNewest ==
  \A p \in Workers : pc[p] = "idle" =>
    /\ statusCache[p] \in Verdict => statusCache[p] \in {newest[p], history[p]}
    /\ shown[p] \in Verdict /\ p \notin overtaken => shown[p] \in {newest[p], history[p]}

\* "A global or project pause kills the run mid-flight and leaves no terminal
\* record" (RunCommandsConfig::pause_state).
KilledRunUnrecorded ==
  [][\A p \in Projects :
       killed[p] /\ ~stop[p] /\ pc[p] = "check" => latest'[p] \notin Verdict]_vars

\* While a run's commands execute, latest.json says so.
LiveRunMarked == \A p \in Projects : pc[p] \in {"spawned", "wait"} => latest[p] = "running"

\* After a pause was handled no lint command of a paused project runs.
PauseStopsCommands ==
  \A p \in Projects :
    (queue = <<>> /\ supPc = "recv" /\ markerDue.project = NoProject /\ Paused(p)) =>
      child[p] # "alive" \/ pc[p] = "spawned"

\* An edited project is linted, paused or no longer watched in the end.
EditsGetLinted ==
  \A p \in Projects : (owed[p] = "owed") ~> (owed[p] # "owed" \/ Paused(p))

\* Stopping a worker never blocks the supervisor for good.
JoinReturns == (supPc \in {"join", "drainJoin"}) ~> (supPc \notin {"join", "drainJoin"})

\* When the runtime is dropped every worker ends and nothing is left running.
DropEndsAll == closed ~> (supPc = "exited" /\ \A p \in Projects : pc[p] = "none" /\ child[p] = "none")
-----------------------------------------------------------------------------
(* The strengthening that makes the safety properties above inductive.  The *)
(* last two parts need DiscoveryImmediate = FALSE.                           *)

\* A command runs only under the worker that spawned it, and only a process that
\* reached the slot is ever killed; the index keeps to the configured commands.
CommandOwned ==
  \A p \in Projects :
    /\ child[p] # "none" => pc[p] \in {"spawned", "wait"}
    /\ slot[p] => pc[p] = "wait" /\ child[p] # "killed"
    /\ child[p] = "killed" => pc[p] = "wait"
    /\ pc[p] \in {"spawned", "wait"} => cmd[p] <= NumCommands

\* A Running record on disk has a run behind it, or its project has not been
\* hydrated since the runtime started, or it could not be removed.
RecordsBacked ==
  \A p \in Projects : latest[p] = "running" =>
    \/ InRun(p) \/ p \in uncleared
    \/ statusCache[p] = "miss" /\ ~(supPc \in Inserting /\ supProject = p)

\* A worker whose project the supervisor has yet to hydrate has nothing to do.
HydratedBeforeRun ==
  \A p \in Projects :
    statusCache[p] = "miss" =>
      /\ supPc \in {"reconcile", "join"} => p \notin supSpawn
      /\ supPc \in Syncing /\ p \in supSpawn =>
           p \in supEmit \/ (supPc = "emitInsert" /\ supProject = p)
      /\ pc[p] # "none" => /\ \/ supPc = "hydrate" /\ supEmit = {p}
                              \/ supPc = "insert" /\ supProject = p
                           /\ pc[p] = "idle" /\ inbox[p] = 0 /\ ~sched[p] /\ ~stop[p]

\* While a worker is in a run, latest.json says Running; the spinner follows it.
RunMarked ==
  \A p \in Projects :
    /\ InRun(p) => latest[p] = "running"
    /\ shown[p] = "running" => InRun(p) \/ p \in uncleared
    /\ statusCache[p] = "miss" => shown[p] # "running"

\* What every step preserves, together with TypeOK.
RuntimeInv == CommandOwned /\ RecordsBacked /\ HydratedBeforeRun /\ RunMarked
=============================================================================
