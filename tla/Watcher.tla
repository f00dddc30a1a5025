------------------------------ MODULE Watcher ------------------------------
(***************************************************************************)
(* How the project tree and the sizes on display follow the disk.          *)
(*                                                                         *)
(* A scan reads the directories and sends the tree; a watcher thread turns *)
(* file events into debounced refreshes, one in flight per key and another *)
(* if the key is dirtied meanwhile, and probes directories it does not     *)
(* know; the application applies what the scan, the watcher and their      *)
(* tasks send, and replaces the watcher when the user rescans or changes   *)
(* the lint configuration.                                                 *)
(*                                                                         *)
(* The stages of a tick of the watcher's loop are actions here, taken in   *)
(* any order.  A directory has a refresh of its size; all directories are  *)
(* checkouts of one repository and share a refresh of its state.  Events   *)
(* are idempotent and commute, so channels of events are sets.             *)
(***************************************************************************)
EXTENDS Naturals, Sequences, FiniteSets

CONSTANTS
  Dirs,      \* directories below the watched root: a checkout and its worktrees
  Git,       \* the key of their repository
  Kinds,     \* what is written in a project: "source", "target" or "git"
  MaxInbox   \* bound: messages waiting for the application

ASSUME WatcherAssumption ==
  /\ IsFiniteSet(Dirs) /\ Git \notin Dirs
  /\ Kinds \subseteq {"source", "target", "git"} /\ MaxInbox \in Nat \ {0, 1}

VARIABLES
  fs,          \* what is on disk: "gone", "bare" (no manifest) or "project"
  phase,       \* registration: "unwatched" (no watcher yet), "initializing" or "ready"
  registering, \* Register messages in the watcher's channel
  completing,  \* InitialRegistrationComplete is in the channel, behind them
  projects,    \* the projects the watcher knows
  notify,      \* file events, in the channel of the backend
  buffered,    \* buffered_events
  refresh,     \* pending_disk and pending_git
  candidate,   \* pending_new: "no", "waiting" or "due"
  discovered,  \* what this watcher has reported
  task,        \* the refresh in flight for a key
  todo,        \* checkouts that one for the repository has still to read
  walks,       \* other walks that read a size and have not sent it
  unread,      \* what the scan has still to read
  found,       \* what it has found
  scan,        \* "reading", "sent" or "complete"
  app,         \* "startup", "rescan" or "idle"
  inbox,       \* the background channel
  tree,        \* the project list: "absent", "visible", "deleted" or "dismissed"
  owed,        \* history variable: changes of registered projects not read since
  exposed      \* history variable: directories whose change fell into a gap, see below

watcherVars == <<phase, registering, completing, projects, notify, buffered, refresh, candidate,
                 discovered, task, todo>>
scanVars == <<unread, found, scan>>
appVars == <<app, inbox, tree>>
vars == <<fs, watcherVars, walks, scanVars, appVars, owed, exposed>>

Keys == Dirs \cup {Git}

\* A new watcher knows nothing.
Watcher(p) ==
  /\ phase' = p /\ projects' = {} /\ notify' = {} /\ buffered' = {} /\ discovered' = {}
  /\ refresh' = [k \in Keys |-> "idle"] /\ candidate' = [d \in Dirs |-> "no"]
  /\ task' = [k \in Keys |-> "none"] /\ todo' = {} /\ owed' = {}

\* The scan is started before the watcher.
Init ==
  /\ fs \in [Dirs -> {"gone", "bare", "project"}]
  /\ phase = "unwatched" /\ registering = {} /\ completing = FALSE
  /\ projects = {} /\ notify = {} /\ buffered = {} /\ discovered = {}
  /\ refresh = [k \in Keys |-> "idle"] /\ candidate = [d \in Dirs |-> "no"]
  /\ task = [k \in Keys |-> "none"] /\ todo = {} /\ walks = {}
  /\ unread = Dirs /\ found = {} /\ scan = "reading"
  /\ app = "startup" /\ inbox = << >> /\ tree = [d \in Dirs |-> "absent"]
  /\ owed = {} /\ exposed = {}

Room(n) == Len(inbox) + n <= MaxInbox
Size(d, full) == [type |-> "DiskUsage", dir |-> d, full |-> full]
-----------------------------------------------------------------------------
(* The disk.                                                               *)

\* An event below the target directory concerns the size, one below .git the repository,
\* any other one both.  Below .git the names on the refresh list are meant: what else is
\* written there schedules nothing and is no event here.
Needs(kind) == CASE kind = "source" -> {"disk", "git"}
                 [] kind = "target" -> {"disk"}
                 [] kind = "git" -> {"git"}
KeyOf(what, d) == IF what = "git" THEN Git ELSE d

Changed(d, kind) ==
  /\ notify' = IF phase = "unwatched" THEN notify ELSE notify \cup {<<d, kind>>}
  /\ owed' = IF d \in projects THEN owed \cup {<<what, d>> : what \in Needs(kind)} ELSE owed
  /\ UNCHANGED <<phase, registering, completing, projects, buffered, refresh, candidate,
                 discovered, task, todo, walks, scanVars, appVars>>

Write(d) ==
  /\ fs[d] # "gone" /\ \E kind \in Kinds : Changed(d, kind)
  /\ UNCHANGED <<fs, exposed>>

\* Two gaps are the code's: a directory the scan has read changes before the watcher
\* starts, or is removed while a walk no refresh waits for holds its size.
Become(d, state) ==
  /\ fs' = [fs EXCEPT ![d] = state] /\ Changed(d, "source")
  /\ exposed' = IF \/ phase = "unwatched" /\ d \notin unread
                   \/ state = "gone" /\ d \in walks
                THEN exposed \cup {d} ELSE exposed
Create(d) == fs[d] = "gone" /\ Become(d, "bare")
AddManifest(d) == fs[d] = "bare" /\ Become(d, "project")
Remove(d) == fs[d] # "gone" /\ Become(d, "gone")
-----------------------------------------------------------------------------
(* The watcher's loop.                                                     *)

\* schedule_disk_refresh and enqueue_git_refresh: a state is "idle", "pending", "overdue"
\* (pending beyond max_deadline), "running" or "dirty".  An event puts off the debounce
\* deadline and never the other one.
Ignored(s) == s
Dirtied(s) == IF s = "running" THEN "dirty" ELSE s
PutOff(s) == IF s = "overdue" THEN "pending" ELSE s
Deadline(s) == s
Rescheduled(s) == CASE s = "idle" -> "pending"
                    [] s \in {"running", "dirty"} -> Dirtied(s)
                    [] OTHER -> Deadline(s)

\* handle_notify_event for a set of events: of a known project, they schedule its
\* refreshes; any other directory becomes a candidate, unless it is there and reported.
Handle(events, known) ==
  LET keys == {KeyOf(x[1], x[2]) : x \in UNION {Needs(e[2]) \X {e[1]} :
                                                  e \in {f \in events : f[1] \in known}}}
      new == {d \in Dirs \ known : /\ \E e \in events : e[1] = d
                                   /\ fs[d] = "gone" \/ d \notin discovered}
  IN /\ refresh' = [k \in Keys |-> IF k \in keys THEN Rescheduled(refresh[k]) ELSE refresh[k]]
     /\ candidate' = [d \in Dirs |-> IF d \in new /\ candidate[d] = "no" THEN "waiting"
                                     ELSE candidate[d]]

\* What InitialRegistrationComplete does with the events that came before it.
Dropped == {}
Replayed == buffered

DrainMessages ==
  /\ registering # {} \/ completing
  /\ projects' = projects \cup registering /\ registering' = {} /\ completing' = FALSE
  /\ IF completing THEN phase' = "ready" /\ buffered' = {} /\ Handle(Replayed, projects')
     ELSE UNCHANGED <<phase, buffered, refresh, candidate>>
  /\ UNCHANGED <<fs, notify, discovered, task, todo, walks, scanVars, appVars, owed, exposed>>

NotifyEvents ==
  /\ notify # {} /\ notify' = {}
  /\ IF phase = "initializing"
     THEN buffered' = buffered \cup notify /\ UNCHANGED <<refresh, candidate>>
     ELSE Handle(notify, projects) /\ UNCHANGED buffered
  /\ UNCHANGED <<fs, phase, registering, completing, projects, discovered, task, todo, walks, scanVars,
                 appVars, owed, exposed>>

\* handle_disk_completion and handle_git_completion.
Completed(s) == CASE s = "running" -> "idle" [] s = "dirty" -> "pending" [] OTHER -> s
DrainDone(k) ==
  /\ task[k] = "done" /\ task' = [task EXCEPT ![k] = "none"]
  /\ refresh' = [refresh EXCEPT ![k] = Completed(@)]
  /\ UNCHANGED <<fs, phase, registering, completing, projects, notify, buffered, candidate, discovered,
                 todo, walks, scanVars, appVars, owed, exposed>>

\* The clock: max_deadline passes, and the deadline of a candidate.
Expire(k) ==
  /\ refresh[k] = "pending" /\ refresh' = [refresh EXCEPT ![k] = "overdue"]
  /\ UNCHANGED <<fs, phase, registering, completing, projects, notify, buffered, candidate, discovered,
                 task, todo, walks, scanVars, appVars, owed, exposed>>
Due(d) ==
  /\ candidate[d] = "waiting" /\ candidate' = [candidate EXCEPT ![d] = "due"]
  /\ UNCHANGED <<fs, phase, registering, completing, projects, notify, buffered, refresh, discovered,
                 task, todo, walks, scanVars, appVars, owed, exposed>>

\* fire_disk_updates and fire_git_updates: a refresh is started, which it may be once its
\* debounce deadline has passed and must be once it is overdue.  One of the repository
\* reads the checkouts that are known by now.
Fire(k) ==
  /\ refresh[k] \in {"pending", "overdue"} /\ refresh' = [refresh EXCEPT ![k] = "running"]
  /\ task' = [task EXCEPT ![k] = "queued"] /\ todo' = IF k = Git THEN projects ELSE todo
  /\ UNCHANGED <<fs, phase, registering, completing, projects, notify, buffered, candidate, discovered,
                 walks, scanVars, appVars, owed, exposed>>

\* probe_new_projects.
Remembered(d) == discovered
Forgotten(d) == discovered \ {d}
Probe(d) ==
  /\ candidate[d] = "due" /\ Room(2) /\ candidate' = [candidate EXCEPT ![d] = "no"]
  /\ CASE fs[d] = "gone" -> /\ discovered' = Forgotten(d)
                            /\ inbox' = Append(inbox, Size(d, FALSE))
       [] fs[d] = "project" /\ d \notin discovered ->
            /\ discovered' = discovered \cup {d}
            /\ inbox' = inbox \o <<[type |-> "ProjectDiscovered", dir |-> d], Size(d, TRUE)>>
       [] OTHER -> UNCHANGED <<discovered, inbox>>
  /\ UNCHANGED <<fs, phase, registering, completing, projects, notify, buffered, refresh, task, todo,
                 walks, scanVars, app, tree, owed, exposed>>
-----------------------------------------------------------------------------
(* Tasks.                                                                  *)

\* spawn_disk_update: the size is read, sent, and the watcher told.
ReadSize(d) ==
  /\ task[d] = "queued"
  /\ task' = [task EXCEPT ![d] = IF fs[d] = "gone" THEN "empty" ELSE "full"]
  /\ owed' = owed \ {<<"disk", d>>}
  /\ UNCHANGED <<fs, phase, registering, completing, projects, notify, buffered, refresh, candidate,
                 discovered, todo, walks, scanVars, appVars, exposed>>
SendSize(d) ==
  /\ task[d] \in {"empty", "full"} /\ Room(1)
  /\ inbox' = Append(inbox, Size(d, task[d] = "full")) /\ task' = [task EXCEPT ![d] = "done"]
  /\ UNCHANGED <<fs, phase, registering, completing, projects, notify, buffered, refresh, candidate,
                 discovered, todo, walks, scanVars, app, tree, owed, exposed>>

\* spawn_git_refresh: the checkouts are read one after the other.
ReadCheckout(d) ==
  /\ task[Git] = "queued" /\ d \in todo /\ todo' = todo \ {d}
  /\ task' = IF todo' = {} THEN [task EXCEPT ![Git] = "done"] ELSE task
  /\ owed' = owed \ {<<"git", d>>}
  /\ UNCHANGED <<fs, phase, registering, completing, projects, notify, buffered, refresh, candidate,
                 discovered, walks, scanVars, appVars, exposed>>

\* Walks nothing orders with the refreshes: of the scan, after a discovery, after a change
\* of a manifest, for the selected project.
StartWalk(d) ==
  /\ fs[d] # "gone" /\ (tree[d] # "absent" \/ (scan = "sent" /\ d \in found))
  /\ walks' = walks \cup {d}
  /\ UNCHANGED <<fs, watcherVars, scanVars, appVars, owed, exposed>>
SendWalk(d) ==
  /\ d \in walks /\ Room(1) /\ walks' = walks \ {d} /\ inbox' = Append(inbox, Size(d, TRUE))
  /\ UNCHANGED <<fs, watcherVars, scanVars, app, tree, owed, exposed>>

\* The scan: phase1_discover, and ScanResult.
ScanDir(d) ==
  /\ d \in unread /\ unread' = unread \ {d}
  /\ found' = IF fs[d] = "project" THEN found \cup {d} ELSE found
  /\ UNCHANGED <<fs, watcherVars, walks, scan, appVars, owed, exposed>>
SendScan ==
  /\ scan = "reading" /\ unread = {} /\ Room(1) /\ scan' = "sent"
  /\ inbox' = Append(inbox, [type |-> "ScanResult"])
  /\ UNCHANGED <<fs, watcherVars, walks, unread, found, app, tree, owed, exposed>>
-----------------------------------------------------------------------------
(* The application.                                                        *)

\* respawn_watcher, and the first one.
Respawn ==
  /\ app # "idle" /\ app' = "idle" /\ Watcher("initializing")
  /\ UNCHANGED <<fs, registering, completing, walks, scanVars, inbox, tree, exposed>>

HandleScanResult ==
  /\ tree' = [d \in Dirs |-> IF d \in found THEN "visible" ELSE "absent"]
  /\ registering' = registering \cup found /\ completing' = TRUE /\ scan' = "complete"

HandleDiscovered(d) ==
  /\ IF tree[d] = "absent"
     THEN tree' = [tree EXCEPT ![d] = "visible"] /\ registering' = registering \cup {d}
     ELSE UNCHANGED <<tree, registering>>
  /\ UNCHANGED <<completing, scan>>

\* apply_disk_usage.
HandleSize(d, full) ==
  /\ tree' = IF tree[d] = "absent" THEN tree
             ELSE IF full THEN [tree EXCEPT ![d] = "visible"]
             ELSE IF fs[d] = "gone" THEN [tree EXCEPT ![d] = "deleted"]
             ELSE tree
  /\ UNCHANGED <<registering, completing, scan>>

HandleMessage ==
  /\ app = "idle" /\ inbox # << >> /\ inbox' = Tail(inbox)
  /\ LET msg == Head(inbox)
     IN CASE msg.type = "ScanResult" -> HandleScanResult
          [] msg.type = "ProjectDiscovered" -> HandleDiscovered(msg.dir)
          [] msg.type = "DiskUsage" -> HandleSize(msg.dir, msg.full)
  /\ UNCHANGED <<fs, phase, projects, notify, buffered, refresh, candidate, discovered, task, todo,
                 walks, unread, found, app, owed, exposed>>

Dismiss(d) ==
  /\ app = "idle" /\ tree[d] = "deleted" /\ tree' = [tree EXCEPT ![d] = "dismissed"]
  /\ UNCHANGED <<fs, watcherVars, walks, scanVars, app, inbox, owed, exposed>>

\* rescan: the tree is cleared, a scan started and its channel installed.  What the old
\* watcher and its tasks send from now on is lost, so it is no longer modelled.
Rescan ==
  /\ app = "idle" /\ app' = "rescan" /\ tree' = [d \in Dirs |-> "absent"] /\ inbox' = << >>
  /\ unread' = Dirs /\ found' = {} /\ scan' = "reading" /\ walks' = {}
  /\ Watcher("unwatched") /\ registering' = {} /\ completing' = FALSE
  /\ exposed' = {} /\ UNCHANGED fs

\* A lint configuration: another watcher, that is told the projects.  A third gap: what the
\* old one was about to do is lost, and events are no longer held back for a scan.
Reconfigure ==
  LET lost(d) == \/ scan # "complete" \/ \E e \in notify \cup buffered : e[1] = d
                 \/ candidate[d] # "no" \/ refresh[d] # "idle"
  IN /\ app = "idle" /\ Watcher("initializing") /\ registering' = {d \in Dirs : tree[d] # "absent"} /\ completing' = TRUE
     /\ walks' = walks \cup {d \in Dirs : task[d] = "full"}
     /\ exposed' = exposed \cup {d \in Dirs : lost(d)}
     /\ UNCHANGED <<fs, scanVars, appVars>>
-----------------------------------------------------------------------------
Loop == \/ DrainMessages \/ NotifyEvents \/ \E k \in Keys : DrainDone(k) \/ Fire(k)
        \/ \E d \in Dirs : Probe(d)
Time == (\E k \in Keys : Expire(k)) \/ \E d \in Dirs : Due(d)
Tasks == \/ SendScan
         \/ \E d \in Dirs : \/ ReadSize(d) \/ SendSize(d) \/ ReadCheckout(d) \/ StartWalk(d)
                            \/ SendWalk(d) \/ ScanDir(d)
Disk == \E d \in Dirs : Write(d) \/ Create(d) \/ AddManifest(d) \/ Remove(d)
App == Respawn \/ HandleMessage \/ Rescan \/ Reconfigure \/ \E d \in Dirs : Dismiss(d)
Next == Loop \/ Time \/ Tasks \/ Disk \/ App
Spec == Init /\ [][Next]_vars

\* What a size on display depends on: the loop and the clock go on, a task that was started
\* reads and sends, the application handles messages.  Nothing is assumed of the disk, the
\* user, the scan or the probes.  The real channel takes every message: strong fairness of a
\* send that MaxInbox holds back is weak fairness of the real one.
Fairness ==
  /\ WF_vars(DrainMessages) /\ WF_vars(NotifyEvents) /\ WF_vars(HandleMessage)
  /\ \A k \in Keys : /\ WF_vars(DrainDone(k)) /\ WF_vars(Expire(k))
                     /\ WF_vars(Fire(k) /\ refresh[k] = "overdue")
  /\ \A d \in Dirs : WF_vars(ReadSize(d)) /\ SF_vars(SendSize(d)) /\ WF_vars(ReadCheckout(d))
LiveSpec == Spec /\ Fairness
-----------------------------------------------------------------------------
(* Properties.                                                             *)

\* A change of a known project that no refresh has read yet is an event on its way, or
\* keeps a refresh of its key due, or one in flight has still to read it.
NoChangeForgotten ==
  \A x \in owed :
    LET k == KeyOf(x[1], x[2])
    IN \/ \E e \in notify \cup buffered : e[1] = x[2] /\ x[1] \in Needs(e[2])
       \/ refresh[k] \in {"pending", "overdue", "dirty"}
       \/ refresh[k] = "running" /\ task[k] = "queued" /\ (k = Git => x[2] \in todo)

\* README.md: "New projects will automatically appear and deleted projects will disappear",
\* changes during a scan included.  Once nothing about a directory is under way, the tree
\* shows it if it holds a project and not if it is gone, unless a change of it fell into
\* one of the gaps.
UnderWay(d) ==
  \/ app # "idle" \/ scan # "complete" \/ inbox # << >> \/ registering # {} \/ completing
  \/ candidate[d] # "no" \/ refresh[d] # "idle" \/ \E e \in notify \cup buffered : e[1] = d
TreeFollowsDisk ==
  \A d \in Dirs \ exposed :
    ~UnderWay(d) => /\ fs[d] = "project" => tree[d] = "visible"
                    /\ fs[d] = "gone" => tree[d] # "visible"

\* README.md: "Disk space adjusts itself automatically with each changed file": what a change
\* concerns is read again, however often it changes meanwhile; a watcher that is replaced
\* gives up what it owes.
ChangesRefreshed ==
  \A what \in {"disk", "git"}, d \in Dirs : <<what, d>> \in owed ~> <<what, d>> \notin owed

\* Bound: a directory with a change in a gap is not followed any further.
NotExposed == exposed = {}
=============================================================================
