--------------------------- MODULE WatcherProofs ---------------------------
(***************************************************************************)
(* Proofs about Watcher, for any number of directories, any kinds of       *)
(* events and any bound of the channel: its type invariant, that no change *)
(* of a registered project is forgotten, that a refresh is never started   *)
(* while another one of the same key is in flight, and that the tree       *)
(* follows the disk.                                                       *)
(***************************************************************************)
EXTENDS Watcher, TLAPS

AllKinds == {"source", "target", "git"}
RefreshStates == {"idle", "pending", "overdue", "running", "dirty"}
Messages == [type : {"ScanResult"}] \cup [type : {"ProjectDiscovered"}, dir : Dirs]
            \cup [type : {"DiskUsage"}, dir : Dirs, full : BOOLEAN]

WatcherTypes ==
  /\ phase \in {"unwatched", "initializing", "ready"}
  /\ registering \subseteq Dirs /\ completing \in BOOLEAN /\ projects \subseteq Dirs
  /\ notify \subseteq Dirs \X AllKinds /\ buffered \subseteq Dirs \X AllKinds
  /\ refresh \in [Keys -> RefreshStates]
  /\ task \in [Keys -> {"none", "queued", "empty", "full", "done"}]
  /\ todo \subseteq Dirs
ProbeTypes ==
  /\ candidate \in [Dirs -> {"no", "waiting", "due"}] /\ discovered \subseteq Dirs
OtherTypes ==
  /\ fs \in [Dirs -> {"gone", "bare", "project"}]
  /\ walks \subseteq Dirs /\ unread \subseteq Dirs /\ found \subseteq Dirs
  /\ scan \in {"reading", "sent", "complete"} /\ app \in {"startup", "rescan", "idle"}
  /\ tree \in [Dirs -> {"absent", "visible", "deleted", "dismissed"}]
  /\ owed \subseteq {"disk", "git"} \X Dirs /\ exposed \subseteq Dirs
InboxType == inbox \in Seq(Messages)
TypeOK == WatcherTypes /\ ProbeTypes /\ OtherTypes /\ InboxType

\* Before a watcher runs, the application handles no message and registers nothing.
NothingUnwatched ==
  phase = "unwatched" => app # "idle" /\ registering = {} /\ ~completing /\ projects = {}

\* Only what the watcher knows is owed.
OwedIsKnown == \A x \in owed : x[2] \in projects

\* The state of a key says whether a refresh of it is in flight.
InFlight ==
  \A k \in Keys : refresh[k] \in {"running", "dirty"} <=> task[k] # "none"

IInv == TypeOK /\ NothingUnwatched /\ OwedIsKnown /\ InFlight /\ NoChangeForgotten
-----------------------------------------------------------------------------
(* The operators.                                                          *)

LEMMA KeysOf == \A what \in {"disk", "git"}, d \in Dirs : KeyOf(what, d) \in Keys
  BY DEF KeyOf, Keys

LEMMA NeedsTypes == \A kind : kind \in AllKinds => Needs(kind) \subseteq {"disk", "git"}
  BY DEF Needs, AllKinds

\* An event keeps a refresh due, and one in flight is followed by another.
LEMMA RescheduledIsDue ==
  ASSUME NEW s \in RefreshStates
  PROVE  /\ Rescheduled(s) \in {"pending", "overdue", "dirty"}
         /\ Rescheduled(s) = "dirty" <=> s \in {"running", "dirty"}
  BY DEF RefreshStates, Rescheduled, Dirtied, Deadline

LEMMA CompletedStates ==
  ASSUME NEW s \in RefreshStates
  PROVE  /\ Completed(s) \in RefreshStates \ {"running", "dirty"}
         /\ s \in {"pending", "overdue", "dirty"} => Completed(s) \in {"pending", "overdue"}
  BY DEF RefreshStates, Completed

\* Every key is left alone or rescheduled, and the key of an event of a known project is
\* rescheduled.
LEMMA HandleReschedules ==
  ASSUME NEW events, NEW known, Handle(events, known), refresh \in [Keys -> RefreshStates]
  PROVE  /\ \A k \in Keys : refresh'[k] = refresh[k] \/ refresh'[k] = Rescheduled(refresh[k])
         /\ refresh' \in [Keys -> RefreshStates]
         /\ \A e \in events : \A what \in Needs(e[2]) :
              e[1] \in known /\ KeyOf(what, e[1]) \in Keys
                => refresh'[KeyOf(what, e[1])] = Rescheduled(refresh[KeyOf(what, e[1])])
<1> DEFINE keys == {KeyOf(x[1], x[2]) : x \in UNION {Needs(e[2]) \X {e[1]} :
                                           e \in {f \in events : f[1] \in known}}}
<1>1. refresh' = [k \in Keys |-> IF k \in keys THEN Rescheduled(refresh[k]) ELSE refresh[k]]
  BY DEF Handle
<1>2. ASSUME NEW e \in events, NEW what \in Needs(e[2]), e[1] \in known
      PROVE  KeyOf(what, e[1]) \in keys
  <2>1. <<what, e[1]>> \in UNION {Needs(f[2]) \X {f[1]} : f \in {g \in events : g[1] \in known}}
    BY <1>2
  <2>2. QED BY <2>1
<1> HIDE DEF keys
<1>3. \A k \in Keys : refresh[k] \in RefreshStates /\ Rescheduled(refresh[k]) \in RefreshStates
  BY RescheduledIsDue DEF RefreshStates
<1>4. QED BY <1>1, <1>2, <1>3

LEMMA HandleCandidates ==
  ASSUME NEW events, NEW known, Handle(events, known),
         candidate \in [Dirs -> {"no", "waiting", "due"}]
  PROVE  candidate' \in [Dirs -> {"no", "waiting", "due"}]
  BY DEF Handle

LEMMA WatcherIsNew ==
  ASSUME NEW p \in {"unwatched", "initializing"}, Watcher(p)
  PROVE  /\ phase' = p /\ projects' = {} /\ notify' = {} /\ buffered' = {} /\ discovered' = {}
         /\ todo' = {} /\ owed' = {}
         /\ refresh' \in [Keys -> RefreshStates] /\ candidate' \in [Dirs -> {"no", "waiting", "due"}]
         /\ task' \in [Keys -> {"none", "queued", "empty", "full", "done"}]
         /\ \A k \in Keys : refresh'[k] = "idle" /\ task'[k] = "none"
  BY DEF Watcher, RefreshStates
-----------------------------------------------------------------------------
(* Types.                                                                  *)

LEMMA SizeIsMessage ==
  \A d \in Dirs : Size(d, TRUE) \in Messages /\ Size(d, FALSE) \in Messages
  BY DEF Size, Messages

LEMMA SentIsSeq ==
  ASSUME NEW S, NEW q \in Seq(S), NEW a \in S, NEW b \in S
  PROVE  Append(q, a) \in Seq(S) /\ q \o <<a, b>> \in Seq(S)
<1>1. <<a, b>> \in Seq(S)
  OBVIOUS
<1>2. QED BY <1>1

LEMMA HandledTypes ==
  ASSUME TypeOK, HandleMessage
  PROVE  /\ tree' \in [Dirs -> {"absent", "visible", "deleted", "dismissed"}]
         /\ registering' \subseteq Dirs /\ completing' \in BOOLEAN
         /\ scan' \in {"reading", "sent", "complete"} /\ inbox' \in Seq(Messages)
<1> USE DEF TypeOK, WatcherTypes, OtherTypes, InboxType
<1> DEFINE msg == Head(inbox)
<1>1. msg \in Messages /\ inbox' \in Seq(Messages)
  BY DEF HandleMessage
<1>2. CASE msg.type = "ScanResult"
  <2>1. HandleScanResult
    BY <1>2 DEF HandleMessage
  <2>2. QED BY <2>1, <1>1 DEF HandleScanResult
<1>3. CASE msg.type = "ProjectDiscovered"
  <2>1. HandleDiscovered(msg.dir)
    BY <1>3 DEF HandleMessage
  <2>2. msg.dir \in Dirs
    BY <1>1, <1>3 DEF Messages
  <2>3. QED BY <2>1, <2>2, <1>1 DEF HandleDiscovered
<1>4. CASE msg.type = "DiskUsage"
  <2>1. HandleSize(msg.dir, msg.full)
    BY <1>4 DEF HandleMessage
  <2>2. msg.dir \in Dirs
    BY <1>1, <1>4 DEF Messages
  <2>3. QED BY <2>1, <2>2, <1>1 DEF HandleSize
<1>5. QED BY <1>1, <1>2, <1>3, <1>4 DEF Messages

LEMMA TypeStep ==
  ASSUME TypeOK, [Next]_vars
  PROVE  TypeOK'
<1> USE DEF TypeOK
<1>1. ASSUME NEW d \in Dirs, NEW kind \in AllKinds, Changed(d, kind)
      PROVE  WatcherTypes' /\ ProbeTypes' /\ InboxType' /\ owed' \subseteq {"disk", "git"} \X Dirs
             /\ UNCHANGED <<walks, scanVars, appVars>>
  BY <1>1, NeedsTypes DEF Changed, WatcherTypes, ProbeTypes, InboxType, OtherTypes, appVars
<1>2. ASSUME NEW d \in Dirs, Write(d) PROVE TypeOK'
  <2>1. PICK kind \in Kinds : Changed(d, kind)
    BY <1>2 DEF Write
  <2>2. kind \in AllKinds
    BY WatcherAssumption DEF AllKinds
  <2>3. QED BY <1>1, <1>2, <2>1, <2>2 DEF Write, OtherTypes, scanVars, appVars
<1>3. ASSUME NEW d \in Dirs, NEW state \in {"gone", "bare", "project"}, Become(d, state)
      PROVE  TypeOK'
  <2>1. Changed(d, "source") /\ "source" \in AllKinds
    BY <1>3 DEF Become, AllKinds
  <2>2. QED BY <1>1, <1>3, <2>1 DEF Become, OtherTypes, scanVars, appVars
<1>4. CASE Disk
  BY <1>2, <1>3, <1>4 DEF Disk, Create, AddManifest, Remove
<1>5. CASE DrainMessages
  <2>1. projects' \subseteq Dirs /\ registering' = {} /\ completing' = FALSE
    BY <1>5 DEF DrainMessages, WatcherTypes
  <2>2. refresh' \in [Keys -> RefreshStates]
    BY <1>5, HandleReschedules DEF DrainMessages, WatcherTypes
  <2>3. candidate' \in [Dirs -> {"no", "waiting", "due"}]
    BY <1>5, HandleCandidates DEF DrainMessages, ProbeTypes
  <2>4. QED BY <1>5, <2>1, <2>2, <2>3
            DEF DrainMessages, WatcherTypes, ProbeTypes, OtherTypes, InboxType, scanVars, appVars
<1>6. CASE NotifyEvents
  <2>1. refresh' \in [Keys -> RefreshStates]
    BY <1>6, HandleReschedules DEF NotifyEvents, WatcherTypes
  <2>2. candidate' \in [Dirs -> {"no", "waiting", "due"}]
    BY <1>6, HandleCandidates DEF NotifyEvents, ProbeTypes
  <2>3. QED BY <1>6, <2>1, <2>2
            DEF NotifyEvents, WatcherTypes, ProbeTypes, OtherTypes, InboxType, scanVars, appVars
<1>7. ASSUME NEW k \in Keys, DrainDone(k) PROVE TypeOK'
  BY <1>7, CompletedStates
     DEF DrainDone, WatcherTypes, ProbeTypes, OtherTypes, InboxType, scanVars, appVars
<1>8. ASSUME NEW k \in Keys, Fire(k) PROVE TypeOK'
  BY <1>8 DEF Fire, RefreshStates, WatcherTypes, ProbeTypes, OtherTypes, InboxType, scanVars, appVars
<1>9. ASSUME NEW d \in Dirs, Probe(d) PROVE TypeOK'
  <2>1. InboxType' /\ discovered' \subseteq Dirs
    <3>1. CASE fs[d] = "gone"
      <4>1. inbox' = Append(inbox, Size(d, FALSE)) /\ discovered' = discovered \ {d}
        BY <3>1, <1>9 DEF Probe, Forgotten
      <4>2. QED BY <4>1, SizeIsMessage, SentIsSeq DEF InboxType, ProbeTypes
    <3>2. CASE fs[d] = "project" /\ d \notin discovered
      <4>1. [type |-> "ProjectDiscovered", dir |-> d] \in Messages
        BY DEF Messages
      <4>2. /\ inbox' = inbox \o <<[type |-> "ProjectDiscovered", dir |-> d], Size(d, TRUE)>>
            /\ discovered' = discovered \cup {d}
        BY <3>2, <1>9 DEF Probe
      <4>3. QED BY <4>1, <4>2, SizeIsMessage, SentIsSeq DEF InboxType, ProbeTypes
    <3>3. CASE fs[d] # "gone" /\ ~(fs[d] = "project" /\ d \notin discovered)
      BY <3>3, <1>9 DEF Probe, InboxType, ProbeTypes
    <3>4. QED BY <3>1, <3>2, <3>3
  <2>2. QED BY <1>9, <2>1 DEF Probe, WatcherTypes, ProbeTypes, OtherTypes, scanVars
<1>10. CASE Time
  BY <1>10 DEF Time, Expire, Due, RefreshStates, WatcherTypes, ProbeTypes, OtherTypes, InboxType,
               scanVars, appVars
<1>11. ASSUME NEW d \in Dirs, ReadSize(d) \/ ReadCheckout(d) PROVE TypeOK'
  BY <1>11 DEF ReadSize, ReadCheckout, WatcherTypes, ProbeTypes, OtherTypes, InboxType, scanVars, appVars
<1>12. ASSUME NEW d \in Dirs, SendSize(d) PROVE TypeOK'
  <2>1. Size(d, task[d] = "full") \in Messages
    BY DEF Size, Messages
  <2>2. InboxType'
    BY <1>12, <2>1 DEF SendSize, InboxType
  <2>3. QED BY <1>12, <2>2 DEF SendSize, WatcherTypes, ProbeTypes, OtherTypes, scanVars
<1>13. ASSUME NEW d \in Dirs, StartWalk(d) \/ SendWalk(d) \/ ScanDir(d) PROVE TypeOK'
  <2>1. InboxType'
    <3>1. inbox' = inbox \/ inbox' = Append(inbox, Size(d, TRUE))
      BY <1>13 DEF StartWalk, SendWalk, ScanDir, appVars
    <3>2. QED BY <3>1, SizeIsMessage, SentIsSeq DEF InboxType
  <2>2. QED BY <1>13, <2>1 DEF StartWalk, SendWalk, ScanDir, watcherVars, WatcherTypes, ProbeTypes,
                               OtherTypes, scanVars, appVars
<1>14. CASE SendScan
  <2>1. [type |-> "ScanResult"] \in Messages
    BY DEF Messages
  <2>2. InboxType'
    BY <1>14, <2>1 DEF SendScan, InboxType
  <2>3. QED BY <1>14, <2>2 DEF SendScan, watcherVars, WatcherTypes, ProbeTypes, OtherTypes
<1>15. CASE HandleMessage
  <2>1. InboxType'
    BY <1>15, HandledTypes DEF InboxType
  <2>2. QED BY <1>15, <2>1, HandledTypes DEF HandleMessage, WatcherTypes, ProbeTypes, OtherTypes
<1>16. CASE Respawn
  <2>1. Watcher("initializing")
    BY <1>16 DEF Respawn
  <2>2. QED BY <1>16, <2>1, WatcherIsNew
            DEF Respawn, WatcherTypes, ProbeTypes, OtherTypes, InboxType, scanVars
<1>17. CASE Rescan
  <2>1. Watcher("unwatched")
    BY <1>17 DEF Rescan
  <2>2. InboxType' /\ fs' = fs /\ tree' \in [Dirs -> {"absent", "visible", "deleted", "dismissed"}]
    BY <1>17 DEF Rescan, InboxType
  <2>3. WatcherTypes' /\ ProbeTypes'
    BY <1>17, <2>1, WatcherIsNew DEF Rescan, WatcherTypes, ProbeTypes
  <2>4. OtherTypes'
    BY <1>17, <2>1, <2>2, WatcherIsNew DEF Rescan, OtherTypes
  <2>5. QED BY <2>2, <2>3, <2>4
<1>18. CASE Reconfigure
  <2>1. Watcher("initializing")
    BY <1>18 DEF Reconfigure
  <2>2. exposed' \subseteq Dirs /\ walks' \subseteq Dirs /\ registering' \subseteq Dirs
    BY <1>18 DEF Reconfigure, OtherTypes
  <2>3. QED BY <1>18, <2>1, <2>2, WatcherIsNew
            DEF Reconfigure, WatcherTypes, ProbeTypes, OtherTypes, InboxType, scanVars, appVars
<1>19. ASSUME NEW d \in Dirs, Dismiss(d) PROVE TypeOK'
  BY <1>19 DEF Dismiss, watcherVars, WatcherTypes, ProbeTypes, OtherTypes, InboxType, scanVars
<1>20. CASE UNCHANGED vars
  BY <1>20 DEF vars, watcherVars, WatcherTypes, ProbeTypes, OtherTypes, InboxType, scanVars, appVars
<1>21. QED
  BY <1>4, <1>5, <1>6, <1>7, <1>8, <1>9, <1>10, <1>11, <1>12, <1>13, <1>14, <1>15, <1>16, <1>17, <1>18,
     <1>19, <1>20 DEF Next, Loop, Tasks, App
-----------------------------------------------------------------------------
(* The invariant.                                                          *)

\* A change keeps a claim on its refresh through every step that does not read it.
OnItsWay(x) == \E e \in notify \cup buffered : e[1] = x[2] /\ x[1] \in Needs(e[2])
RefreshDue(k) == refresh[k] \in {"pending", "overdue", "dirty"}
StillToRead(k, d) == refresh[k] = "running" /\ task[k] = "queued" /\ (k = Git => d \in todo)
Claimed(x) ==
  LET k == KeyOf(x[1], x[2]) IN OnItsWay(x) \/ RefreshDue(k) \/ StillToRead(k, x[2])

LEMMA NoChangeForgottenIsClaimed == NoChangeForgotten <=> \A x \in owed : Claimed(x)
  BY DEF NoChangeForgotten, Claimed, OnItsWay, RefreshDue, StillToRead

LEMMA NothingUnwatchedStep ==
  ASSUME TypeOK, NothingUnwatched, [Next]_vars
  PROVE  NothingUnwatched'
<1> USE DEF NothingUnwatched
<1>1. CASE Disk
  BY <1>1 DEF Disk, Write, Create, AddManifest, Remove, Become, Changed, appVars
<1>2. CASE DrainMessages
  BY <1>2 DEF DrainMessages, appVars
<1>3. CASE NotifyEvents
  BY <1>3 DEF NotifyEvents, appVars
<1>4. CASE \/ Time \/ Tasks \/ UNCHANGED vars
           \/ \E k \in Keys : DrainDone(k) \/ Fire(k)
           \/ \E d \in Dirs : Probe(d)
  BY <1>4 DEF Time, Expire, Due, Tasks, SendScan, ReadSize, SendSize, ReadCheckout, StartWalk,
              SendWalk, ScanDir, DrainDone, Fire, Probe, vars, watcherVars, scanVars, appVars
<1>5. CASE HandleMessage
  BY <1>5 DEF HandleMessage
<1>6. CASE Respawn
  <2>1. phase' = "initializing"
    BY <1>6, WatcherIsNew DEF Respawn
  <2>2. QED BY <2>1
<1>7. CASE Rescan
  <2>1. Watcher("unwatched") /\ app' = "rescan" /\ registering' = {} /\ completing' = FALSE
    BY <1>7 DEF Rescan
  <2>2. QED BY <2>1, WatcherIsNew
<1>8. CASE Reconfigure
  <2>1. phase' = "initializing"
    BY <1>8, WatcherIsNew DEF Reconfigure
  <2>2. QED BY <2>1
<1>9. ASSUME NEW d \in Dirs, Dismiss(d) PROVE NothingUnwatched'
  BY <1>9 DEF Dismiss, watcherVars
<1>10. QED BY <1>1, <1>2, <1>3, <1>4, <1>5, <1>6, <1>7, <1>8, <1>9 DEF Next, Loop, App

LEMMA OwedIsKnownStep ==
  ASSUME TypeOK, OwedIsKnown, [Next]_vars
  PROVE  OwedIsKnown'
<1> USE DEF OwedIsKnown
<1>1. CASE Disk
  BY <1>1 DEF Disk, Write, Create, AddManifest, Remove, Become, Changed
<1>2. CASE DrainMessages
  BY <1>2 DEF DrainMessages
<1>3. CASE NotifyEvents
  BY <1>3 DEF NotifyEvents
<1>4. CASE \/ Time \/ Tasks \/ UNCHANGED vars \/ HandleMessage
           \/ \E k \in Keys : DrainDone(k) \/ Fire(k)
           \/ \E d \in Dirs : Probe(d) \/ Dismiss(d)
  BY <1>4 DEF Time, Expire, Due, Tasks, SendScan, ReadSize, SendSize, ReadCheckout, StartWalk,
              SendWalk, ScanDir, DrainDone, Fire, Probe, HandleMessage, Dismiss, vars, watcherVars
<1>5. CASE Respawn \/ Rescan \/ Reconfigure
  BY <1>5, WatcherIsNew DEF Respawn, Rescan, Reconfigure
<1>6. QED BY <1>1, <1>2, <1>3, <1>4, <1>5 DEF Next, Loop, App

LEMMA InFlightStep ==
  ASSUME TypeOK, InFlight, [Next]_vars
  PROVE  InFlight'
<1> USE DEF InFlight
<1>0. refresh \in [Keys -> RefreshStates] /\ refresh' \in [Keys -> RefreshStates]
  BY TypeStep DEF TypeOK, WatcherTypes
<1>1. ASSUME NEW events, NEW known, Handle(events, known), UNCHANGED task PROVE InFlight'
  <2>1. SUFFICES ASSUME NEW k \in Keys
                 PROVE  refresh'[k] \in {"running", "dirty"} <=> refresh[k] \in {"running", "dirty"}
    BY <1>1
  <2>2. Rescheduled(refresh[k]) \in {"running", "dirty"} <=> refresh[k] \in {"running", "dirty"}
    BY <1>0, RescheduledIsDue
  <2>3. refresh'[k] = refresh[k] \/ refresh'[k] = Rescheduled(refresh[k])
    BY <1>0, <1>1, HandleReschedules
  <2>4. QED BY <2>2, <2>3
<1>2. CASE DrainMessages \/ NotifyEvents
  BY <1>1, <1>2 DEF DrainMessages, NotifyEvents
<1>3. ASSUME NEW k \in Keys, DrainDone(k) PROVE InFlight'
  BY <1>0, <1>3, CompletedStates DEF DrainDone, TypeOK, WatcherTypes
<1>4. ASSUME NEW k \in Keys, Fire(k) \/ Expire(k) PROVE InFlight'
  BY <1>0, <1>4 DEF Fire, Expire, TypeOK, WatcherTypes
<1>5. ASSUME NEW d \in Dirs, ReadSize(d) \/ SendSize(d) \/ ReadCheckout(d) PROVE InFlight'
  BY <1>0, <1>5 DEF ReadSize, SendSize, ReadCheckout, TypeOK, WatcherTypes, Keys
<1>6. CASE \/ UNCHANGED vars \/ Disk \/ HandleMessage \/ SendScan
           \/ \E d \in Dirs : StartWalk(d) \/ SendWalk(d) \/ ScanDir(d) \/ Probe(d) \/ Dismiss(d) \/ Due(d)
  BY <1>6 DEF vars, watcherVars, Disk, Write, Create, AddManifest, Remove, Become, Changed, HandleMessage,
              SendScan, StartWalk, SendWalk, ScanDir, Probe, Dismiss, Due
<1>7. CASE Respawn \/ Rescan \/ Reconfigure
  BY <1>7, WatcherIsNew DEF Respawn, Rescan, Reconfigure
<1>8. QED BY <1>2, <1>3, <1>4, <1>5, <1>6, <1>7 DEF Next, Loop, Time, Tasks, App

LEMMA ClaimedStep ==
  ASSUME TypeOK, NothingUnwatched, OwedIsKnown, InFlight, NoChangeForgotten, [Next]_vars
  PROVE  NoChangeForgotten'
<1>0. \A x \in owed : Claimed(x) /\ x[2] \in projects /\ KeyOf(x[1], x[2]) \in Keys
                      /\ x[1] \in {"disk", "git"} /\ x[2] \in Dirs
  BY NoChangeForgottenIsClaimed, KeysOf DEF OwedIsKnown, TypeOK, OtherTypes
<1>t. refresh \in [Keys -> RefreshStates] /\ Git \in Keys
      /\ task \in [Keys -> {"none", "queued", "empty", "full", "done"}]
  BY DEF TypeOK, WatcherTypes, Keys
<1>s. SUFFICES \A x \in owed' : Claimed(x)'
  BY DEF NoChangeForgotten, Claimed, OnItsWay, RefreshDue, StillToRead
<1> USE DEF Claimed
<1>1. ASSUME NEW d \in Dirs, NEW kind \in AllKinds, Changed(d, kind)
      PROVE  \A x \in owed' : Claimed(x)'
  <2>1. phase # "unwatched" \/ owed' = owed
    BY <1>1 DEF Changed, NothingUnwatched
  <2>2. notify \subseteq notify' /\ buffered' = buffered /\ refresh' = refresh /\ task' = task /\ todo' = todo
    BY <1>1 DEF Changed
  <2>3. \A x \in owed : Claimed(x)'
    BY <1>0, <2>2 DEF OnItsWay, RefreshDue, StillToRead
  <2>4. CASE phase = "unwatched"
    BY <2>1, <2>3, <2>4
  <2>5. CASE phase # "unwatched"
    <3>1. <<d, kind>> \in notify'
      BY <1>1, <2>5 DEF Changed
    <3>2. \A what \in Needs(kind) : Claimed(<<what, d>>)'
      BY <3>1 DEF OnItsWay
    <3>3. owed' \subseteq owed \cup {<<what, d>> : what \in Needs(kind)}
      BY <1>1 DEF Changed
    <3>4. QED BY <2>3, <3>2, <3>3
  <2>6. QED BY <2>4, <2>5
<1>2. CASE Disk
  <2>1. PICK d \in Dirs : Write(d) \/ Create(d) \/ AddManifest(d) \/ Remove(d)
    BY <1>2 DEF Disk
  <2>2. \E kind \in AllKinds : Changed(d, kind)
    BY <2>1, WatcherAssumption DEF Write, Create, AddManifest, Remove, Become, AllKinds
  <2>3. QED BY <1>1, <2>2
\* Handling events gives every one of them that is owed a refresh.
<1>3. ASSUME NEW events, NEW known, Handle(events, known), projects \subseteq known,
             UNCHANGED <<owed, task, todo>>,
             notify \cup buffered \subseteq notify' \cup buffered' \cup events
      PROVE  \A x \in owed' : Claimed(x)'
  <2> SUFFICES ASSUME NEW x \in owed PROVE Claimed(x)'
    BY <1>3
  <2> DEFINE k == KeyOf(x[1], x[2])
  <2>1. k \in Keys /\ refresh[k] \in RefreshStates
    BY <1>0, <1>t
  <2>2. refresh'[k] = refresh[k] \/ refresh'[k] = Rescheduled(refresh[k])
    BY <1>3, <1>t, <2>1, HandleReschedules
  <2>3. Rescheduled(refresh[k]) \in {"pending", "overdue", "dirty"}
    BY <2>1, RescheduledIsDue
  <2>4. CASE OnItsWay(x)
    <3>1. PICK e \in notify \cup buffered : e[1] = x[2] /\ x[1] \in Needs(e[2])
      BY <2>4 DEF OnItsWay
    <3>2. CASE e \in notify' \cup buffered'
      BY <3>1, <3>2 DEF OnItsWay
    <3>3. CASE e \in events
      <4>1. e[1] \in known
        BY <1>0, <1>3, <3>1
      <4>2. refresh'[k] = Rescheduled(refresh[k])
        BY <1>3, <1>t, <2>1, <3>1, <3>3, <4>1, HandleReschedules
      <4>3. QED BY <2>3, <4>2 DEF RefreshDue
    <3>4. QED BY <1>3, <3>2, <3>3
  <2>5. CASE RefreshDue(k)
    BY <2>2, <2>3, <2>5 DEF RefreshDue
  <2>6. CASE StillToRead(k, x[2])
    BY <1>3, <2>2, <2>3, <2>6 DEF RefreshDue, StillToRead
  <2>7. QED BY <1>0, <2>4, <2>5, <2>6
<1>4. CASE DrainMessages
  <2>1. CASE completing
    <3>1. Handle(buffered, projects') /\ projects \subseteq projects'
      BY <1>4, <2>1 DEF DrainMessages, Replayed
    <3>2. UNCHANGED <<owed, task, todo, notify>>
      BY <1>4 DEF DrainMessages
    <3>3. QED BY <1>3, <3>1, <3>2
  <2>2. CASE ~completing
    <3>1. UNCHANGED <<owed, task, todo, notify, buffered, refresh>>
      BY <1>4, <2>2 DEF DrainMessages
    <3>2. QED BY <1>0, <3>1 DEF OnItsWay, RefreshDue, StillToRead
  <2>3. QED BY <2>1, <2>2
<1>5. CASE NotifyEvents
  <2>1. UNCHANGED <<owed, task, todo>>
    BY <1>5 DEF NotifyEvents
  <2>2. CASE phase = "initializing"
    <3>1. buffered' = buffered \cup notify /\ refresh' = refresh
      BY <1>5, <2>2 DEF NotifyEvents
    <3>2. QED BY <1>0, <2>1, <3>1 DEF OnItsWay, RefreshDue, StillToRead
  <2>3. CASE phase # "initializing"
    <3>1. Handle(notify, projects) /\ buffered' = buffered
      BY <1>5, <2>3 DEF NotifyEvents
    <3>2. QED BY <1>3, <2>1, <3>1
  <2>4. QED BY <2>2, <2>3
<1>6. ASSUME NEW k \in Keys, DrainDone(k) PROVE \A x \in owed' : Claimed(x)'
  <2>1. UNCHANGED <<owed, notify, buffered, todo>> /\ task[k] = "done"
        /\ refresh' = [refresh EXCEPT ![k] = Completed(@)] /\ task' = [task EXCEPT ![k] = "none"]
    BY <1>6 DEF DrainDone
  <2>2. \A j \in Keys : j # k => refresh'[j] = refresh[j] /\ task'[j] = task[j]
    BY <1>t, <2>1
  <2>3. RefreshDue(k) => RefreshDue(k)'
    BY <1>t, <2>1, CompletedStates DEF RefreshDue
  <2>4. SUFFICES ASSUME NEW x \in owed PROVE Claimed(x)'
    BY <2>1
  <2>5. CASE KeyOf(x[1], x[2]) = k
    BY <1>0, <2>1, <2>3, <2>5 DEF OnItsWay, StillToRead
  <2>6. CASE KeyOf(x[1], x[2]) # k
    BY <1>0, <2>1, <2>2, <2>6 DEF OnItsWay, RefreshDue, StillToRead
  <2>7. QED BY <2>5, <2>6
<1>7. ASSUME NEW k \in Keys, Fire(k) PROVE \A x \in owed' : Claimed(x)'
  <2>1. UNCHANGED <<owed, notify, buffered>>
        /\ refresh' = [refresh EXCEPT ![k] = "running"] /\ task' = [task EXCEPT ![k] = "queued"]
        /\ todo' = IF k = Git THEN projects ELSE todo
    BY <1>7 DEF Fire
  <2>2. SUFFICES ASSUME NEW x \in owed PROVE Claimed(x)'
    BY <2>1
  <2>3. CASE KeyOf(x[1], x[2]) = k
    BY <1>0, <1>t, <2>1, <2>3 DEF StillToRead
  <2>4. CASE KeyOf(x[1], x[2]) # k
    BY <1>0, <1>t, <2>1, <2>4 DEF OnItsWay, RefreshDue, StillToRead
  <2>5. QED BY <2>3, <2>4
<1>8. ASSUME NEW k \in Keys, Expire(k) PROVE \A x \in owed' : Claimed(x)'
  BY <1>0, <1>8, <1>t DEF Expire, OnItsWay, RefreshDue, StillToRead
\* Only the read of a size, or of a checkout, ends a claim, and it ends the debt with it.
<1>9. ASSUME NEW d \in Dirs, ReadSize(d) PROVE \A x \in owed' : Claimed(x)'
  <2>1. UNCHANGED <<refresh, notify, buffered, todo>> /\ owed' = owed \ {<<"disk", d>>}
        /\ \A j \in Keys : j # d => task'[j] = task[j]
    BY <1>9, <1>t DEF ReadSize
  <2>2. SUFFICES ASSUME NEW x \in owed, x # <<"disk", d>> PROVE Claimed(x)'
    BY <2>1
  <2>3. x[1] = "disk" => x[2] # d
    BY <2>2 DEF TypeOK, OtherTypes
  <2>4. KeyOf(x[1], x[2]) # d
    BY <2>3, <1>0, WatcherAssumption DEF KeyOf
  <2>5. QED BY <1>0, <2>1, <2>4 DEF OnItsWay, RefreshDue, StillToRead
<1>10. ASSUME NEW d \in Dirs, SendSize(d) PROVE \A x \in owed' : Claimed(x)'
  BY <1>0, <1>10, <1>t DEF SendSize, OnItsWay, RefreshDue, StillToRead, Keys
<1>11. ASSUME NEW d \in Dirs, ReadCheckout(d) PROVE \A x \in owed' : Claimed(x)'
  <2>1. UNCHANGED <<refresh, notify, buffered>> /\ owed' = owed \ {<<"git", d>>} /\ todo' = todo \ {d}
        /\ (todo' # {} => task' = task) /\ \A j \in Keys : j # Git => task'[j] = task[j]
    BY <1>11, <1>t DEF ReadCheckout
  <2>2. SUFFICES ASSUME NEW x \in owed, x # <<"git", d>> PROVE Claimed(x)'
    BY <2>1
  <2>3. x[1] = "git" => x[2] # d
    BY <2>2 DEF TypeOK, OtherTypes
  <2>4. KeyOf(x[1], x[2]) = Git => x[2] # d
    BY <2>3, <1>0, WatcherAssumption DEF KeyOf
  <2>5. QED BY <1>0, <2>1, <2>4 DEF OnItsWay, RefreshDue, StillToRead
<1>12. CASE \/ UNCHANGED vars \/ HandleMessage \/ SendScan
            \/ \E d \in Dirs : StartWalk(d) \/ SendWalk(d) \/ ScanDir(d) \/ Probe(d) \/ Dismiss(d) \/ Due(d)
  <2>1. UNCHANGED <<owed, notify, buffered, refresh, task, todo>>
    BY <1>12 DEF vars, watcherVars, HandleMessage, SendScan, StartWalk, SendWalk, ScanDir, Probe, Dismiss, Due
  <2>2. QED BY <1>0, <2>1 DEF OnItsWay, RefreshDue, StillToRead
<1>13. CASE Respawn \/ Rescan \/ Reconfigure
  <2>1. owed' = {}
    BY <1>13, WatcherIsNew DEF Respawn, Rescan, Reconfigure
  <2>2. QED BY <2>1
<1>14. QED
  BY <1>2, <1>4, <1>5, <1>6, <1>7, <1>8, <1>9, <1>10, <1>11, <1>12, <1>13
     DEF Next, Loop, Time, Tasks, App

LEMMA InvInit == Init => IInv
<1> SUFFICES ASSUME Init PROVE IInv
  OBVIOUS
<1>1. InboxType
  BY DEF Init, InboxType
<1>2. TypeOK
  BY <1>1 DEF Init, TypeOK, WatcherTypes, ProbeTypes, OtherTypes, RefreshStates
<1>3. QED BY <1>2 DEF Init, IInv, NothingUnwatched, OwedIsKnown, InFlight, NoChangeForgotten

LEMMA InvStep == IInv /\ [Next]_vars => IInv'
  BY TypeStep, NothingUnwatchedStep, OwedIsKnownStep, InFlightStep, ClaimedStep DEF IInv

\* Watcher, application and scan keep the types of their state.
THEOREM TypeCorrect == Spec => []TypeOK
<1>1. IInv => TypeOK
  BY DEF IInv
<1>2. QED BY <1>1, InvInit, InvStep, PTL DEF Spec

\* README.md, "Disk space adjusts itself automatically with each changed file": for any
\* number of projects and worktrees, a change the watcher was told of and no refresh has
\* read is in a channel, has its refresh scheduled, or one in flight will still read it.
THEOREM ChangesKept == Spec => []NoChangeForgotten
<1>1. IInv => NoChangeForgotten
  BY DEF IInv
<1>2. QED BY <1>1, InvInit, InvStep, PTL DEF Spec

\* mark_running: a refresh is started only while none of its key is in flight, so its
\* answer cannot be taken for that of another.
OneAtATime == \A k \in Keys : task'[k] = "queued" /\ task[k] # "queued" => task[k] = "none"
THEOREM OneRefreshAtATime == Spec => [][OneAtATime]_vars
<1>1. ASSUME IInv, Next PROVE OneAtATime \/ UNCHANGED vars
  <2> USE DEF OneAtATime
  <2>t. refresh \in [Keys -> RefreshStates]
        /\ task \in [Keys -> {"none", "queued", "empty", "full", "done"}] /\ Dirs \subseteq Keys /\ Git \in Keys
    BY <1>1 DEF IInv, TypeOK, WatcherTypes, Keys
  <2>1. ASSUME NEW k \in Keys, Fire(k) PROVE OneAtATime
    <3>1. task[k] = "none"
      BY <1>1, <2>1 DEF Fire, IInv, InFlight
    <3>2. QED BY <2>t, <2>1, <3>1 DEF Fire
  <2>2. ASSUME NEW k \in Keys, DrainDone(k) PROVE OneAtATime
    BY <2>t, <2>2 DEF DrainDone
  <2>3. ASSUME NEW d \in Dirs, ReadSize(d) \/ SendSize(d) \/ ReadCheckout(d) PROVE OneAtATime
    BY <2>t, <2>3 DEF ReadSize, SendSize, ReadCheckout
  <2>4. CASE Respawn \/ Rescan \/ Reconfigure
    BY <2>4, WatcherIsNew DEF Respawn, Rescan, Reconfigure
  <2>5. CASE \/ Disk \/ HandleMessage \/ SendScan \/ DrainMessages \/ NotifyEvents \/ Time
             \/ \E d \in Dirs : StartWalk(d) \/ SendWalk(d) \/ ScanDir(d) \/ Probe(d) \/ Dismiss(d)
    <3>1. UNCHANGED task
      BY <2>5 DEF watcherVars, Disk, Write, Create, AddManifest, Remove, Become, Changed, HandleMessage,
                  SendScan, DrainMessages, NotifyEvents, Time, Expire, Due, StartWalk, SendWalk, ScanDir,
                  Probe, Dismiss
    <3>2. QED BY <3>1
  <2>6. QED BY <1>1, <2>1, <2>2, <2>3, <2>4, <2>5 DEF Next, Loop, Tasks, App
<1>2. IInv /\ [Next]_vars => [OneAtATime]_vars
  BY <1>1
<1>3. QED BY <1>2, InvInit, InvStep, PTL DEF Spec
-----------------------------------------------------------------------------
(* The tree follows the disk.                                              *)

\* What the application still has to read.
ScanResult == [type |-> "ScanResult"]
Discovery(d) == [type |-> "ProjectDiscovered", dir |-> d]
Sent(q, msg) == \E i \in 1..Len(q) : q[i] = msg
SentAfter(q, msg, others) == \E i \in 1..Len(q) : q[i] = msg /\ \A j \in 1..Len(q) : q[j] \in others => j < i
SentOnce(q, msg) == \A i, j \in 1..Len(q) : q[i] = msg /\ q[j] = msg => i = j

Noticed(d) == <<d, "source">> \in notify \cup buffered
Wanted(d) == refresh[d] \in {"pending", "overdue", "dirty"}

\* A watcher has nothing to do until its initial registration is complete; a scan is
\* applied once.
Starting ==
  /\ phase # "ready" => /\ discovered = {}
                        /\ \A d \in Dirs : candidate[d] = "no" /\ refresh[d] = "idle"
  /\ phase = "unwatched" => notify = {} /\ buffered = {}
  /\ app # "idle" => phase = "unwatched" /\ scan # "complete"
ScanOnce ==
  /\ found \cap unread = {}
  /\ scan # "reading" => unread = {}
  /\ Sent(inbox, ScanResult) => scan = "sent"
  /\ SentOnce(inbox, ScanResult)

\* Until the scan is applied, nothing is known of a directory but what the scan has found,
\* which is true of the disk unless an event says otherwise.
BeforeScan(d) ==
  scan # "complete" =>
    /\ phase # "ready" /\ ~completing /\ d \notin registering \cup projects
    /\ tree[d] = "absent" /\ ~Sent(inbox, Discovery(d))
    /\ d \notin unread => (d \in found <=> fs[d] = "project") \/ Noticed(d)

\* The watcher is told of what the tree shows, and refreshes nothing else.
Registered(d) ==
  /\ scan = "complete" => (tree[d] # "absent" <=> d \in projects \cup registering)
  /\ refresh[d] # "idle" => d \in projects

\* What the watcher has reported is visible when the channel is read, if it is not told of it.
Reported(d) ==
  d \in discovered \ projects =>
    /\ tree[d] = "absent" => Sent(inbox, Discovery(d))
    /\ \/ SentAfter(inbox, Size(d, TRUE), {Size(d, FALSE)})
       \/ tree[d] \in {"absent", "visible"} /\ ~Sent(inbox, Size(d, FALSE))

\* A size that was read before the directory went is followed by another one.
HeldSizes(d) ==
  /\ d \in walks => fs[d] # "gone"
  /\ fs[d] = "gone" /\ task[d] = "full" => Noticed(d) \/ refresh[d] = "dirty"

\* A project is visible or will be.
Appears(d) ==
  scan = "complete" /\ fs[d] = "project" =>
    \/ tree[d] = "visible"
    \/ Noticed(d) \/ Wanted(d) \/ (refresh[d] = "running" /\ task[d] \in {"queued", "full"})
    \/ candidate[d] # "no" /\ d \notin discovered
    \/ tree[d] = "absent" /\ Sent(inbox, Discovery(d))
    \/ tree[d] # "absent" /\ Sent(inbox, Size(d, TRUE))

\* What is gone is not visible or will not be.
Disappears(d) ==
  scan = "complete" /\ fs[d] = "gone" =>
    \/ Noticed(d) \/ Wanted(d) \/ (refresh[d] = "running" /\ task[d] \in {"queued", "empty"})
    \/ candidate[d] # "no"
    \/ /\ task[d] # "full"
       /\ \/ SentAfter(inbox, Size(d, FALSE), {Size(d, TRUE), Discovery(d)})
          \/ /\ tree[d] # "visible" /\ ~Sent(inbox, Discovery(d))
             /\ tree[d] = "absent" \/ ~Sent(inbox, Size(d, TRUE))

Followed(d) ==
  d \notin exposed => BeforeScan(d) /\ Registered(d) /\ Reported(d) /\ HeldSizes(d)
                      /\ Appears(d) /\ Disappears(d)
-----------------------------------------------------------------------------
(* The messages.                                                           *)

LEMMA Letters ==
  ASSUME NEW d \in Dirs
  PROVE  /\ ScanResult \in Messages /\ Discovery(d) \in Messages
         /\ Size(d, TRUE) \in Messages /\ Size(d, FALSE) \in Messages
         /\ ScanResult # Discovery(d) /\ ScanResult # Size(d, TRUE) /\ ScanResult # Size(d, FALSE)
         /\ Discovery(d) # Size(d, TRUE) /\ Discovery(d) # Size(d, FALSE)
         /\ Size(d, TRUE) # Size(d, FALSE)
<1>1. /\ ScanResult \in Messages /\ Discovery(d) \in Messages
      /\ Size(d, TRUE) \in Messages /\ Size(d, FALSE) \in Messages
  BY DEF ScanResult, Discovery, Size, Messages
<1>2. /\ ScanResult.type = "ScanResult" /\ Discovery(d).type = "ProjectDiscovered"
      /\ Size(d, TRUE).type = "DiskUsage" /\ Size(d, FALSE).type = "DiskUsage"
      /\ Size(d, TRUE).full = TRUE /\ Size(d, FALSE).full = FALSE
  BY DEF ScanResult, Discovery, Size
<1> HIDE DEF ScanResult, Discovery, Size
<1>3. QED BY <1>1, <1>2

\* The messages about one directory are none about another.
About(d) == {Discovery(d), Size(d, TRUE), Size(d, FALSE)}
LEMMA LettersOfOthers ==
  ASSUME NEW d \in Dirs, NEW e \in Dirs, e # d
  PROVE  About(e) \cap About(d) = {} /\ ScanResult \notin About(d)
<1>1. \A f \in Dirs : Discovery(f).dir = f /\ Size(f, TRUE).dir = f /\ Size(f, FALSE).dir = f
  BY DEF Discovery, Size
<1>2. QED BY <1>1, Letters DEF About

LEMMA SentByAppend ==
  ASSUME NEW q \in Seq(Messages), NEW a \in Messages, NEW m, NEW S, m \notin S
  PROVE  /\ Sent(Append(q, a), m) <=> Sent(q, m) \/ m = a
         /\ m = a => SentAfter(Append(q, a), m, S)
         /\ a \notin S /\ SentAfter(q, m, S) => SentAfter(Append(q, a), m, S)
         /\ SentOnce(q, m) /\ (m = a => ~Sent(q, m)) => SentOnce(Append(q, a), m)
<1> DEFINE p == Append(q, a)
<1>1. /\ p \in Seq(Messages) /\ Len(p) = Len(q) + 1 /\ Len(q) \in Nat
      /\ p[Len(q) + 1] = a /\ \A i \in 1..Len(q) : p[i] = q[i]
  OBVIOUS
<1> HIDE DEF p
<1>2. Sent(p, m) <=> Sent(q, m) \/ m = a
  BY <1>1 DEF Sent
<1>3. m = a => SentAfter(p, m, S)
  BY <1>1 DEF SentAfter
<1>4. ASSUME a \notin S, SentAfter(q, m, S) PROVE SentAfter(p, m, S)
  <2>1. PICK i \in 1..Len(q) : q[i] = m /\ \A j \in 1..Len(q) : q[j] \in S => j < i
    BY <1>4 DEF SentAfter
  <2>2. i \in 1..Len(p) /\ p[i] = m
    BY <1>1, <2>1
  <2>3. ASSUME NEW j \in 1..Len(p), p[j] \in S PROVE j < i
    <3>1. j = Len(q) + 1 \/ j \in 1..Len(q)
      BY <1>1
    <3>2. j # Len(q) + 1
      BY <1>1, <1>4, <2>3
    <3>3. q[j] \in S
      BY <1>1, <2>3, <3>1, <3>2
    <3>4. QED BY <2>1, <3>1, <3>2, <3>3
  <2>4. QED BY <2>2, <2>3 DEF SentAfter
<1>5. ASSUME SentOnce(q, m), m = a => ~Sent(q, m) PROVE SentOnce(p, m)
  BY <1>1, <1>5 DEF SentOnce, Sent
<1>6. QED BY <1>2, <1>3, <1>4, <1>5 DEF p

LEMMA SentByTail ==
  ASSUME NEW q \in Seq(Messages), q # << >>, NEW m, NEW S, m \notin S
  PROVE  /\ Sent(q, m) <=> Sent(Tail(q), m) \/ m = Head(q)
         /\ SentAfter(q, m, S) =>
              \/ SentAfter(Tail(q), m, S)
              \/ m = Head(q) /\ \A other \in S : ~Sent(Tail(q), other)
         /\ SentOnce(q, m) => SentOnce(Tail(q), m) /\ (m = Head(q) => ~Sent(Tail(q), m))
<1> DEFINE p == Tail(q)
<1>1. /\ p \in Seq(Messages) /\ Len(q) = Len(p) + 1 /\ Len(p) \in Nat
      /\ q[1] = Head(q) /\ \A i \in 1..Len(p) : p[i] = q[i + 1]
  OBVIOUS
<1> DEFINE h == Head(q)
<1> HIDE DEF p, h
<1>0. q[1] = h
  BY <1>1 DEF h
<1>2. \A i \in 1..Len(q) : i = 1 \/ (i - 1 \in 1..Len(p) /\ p[i - 1] = q[i])
  BY <1>1
<1>3. Sent(q, m) <=> Sent(p, m) \/ m = h
  <2>1. ASSUME Sent(q, m) PROVE Sent(p, m) \/ m = h
    BY <1>0, <1>2, <2>1 DEF Sent
  <2>2. ASSUME Sent(p, m) PROVE Sent(q, m)
    <3>1. PICK i \in 1..Len(p) : p[i] = m
      BY <2>2 DEF Sent
    <3>2. i + 1 \in 1..Len(q) /\ q[i + 1] = m
      BY <1>1, <3>1
    <3>3. QED BY <3>2 DEF Sent
  <2>3. ASSUME m = h PROVE Sent(q, m)
    <3>1. 1 \in 1..Len(q)
      BY <1>1
    <3>2. QED BY <1>0, <2>3, <3>1 DEF Sent
  <2>4. QED BY <2>1, <2>2, <2>3
<1>4. ASSUME SentAfter(q, m, S)
      PROVE  SentAfter(p, m, S) \/ (m = h /\ \A other \in S : ~Sent(p, other))
  <2>1. PICK i \in 1..Len(q) : q[i] = m /\ \A j \in 1..Len(q) : q[j] \in S => j < i
    BY <1>4 DEF SentAfter
  <2>2. \A j \in 1..Len(p) : p[j] \in S => j + 1 < i
    BY <1>1, <2>1
  <2>3. CASE i = 1
    BY <1>0, <1>1, <2>1, <2>2, <2>3 DEF Sent
  <2>4. CASE i # 1
    <3>1. i - 1 \in 1..Len(p) /\ p[i - 1] = m
      BY <1>2, <2>1, <2>4
    <3>2. \A j \in 1..Len(p) : p[j] \in S => j < i - 1
      BY <1>1, <2>2
    <3>3. QED BY <3>1, <3>2 DEF SentAfter
  <2>5. QED BY <2>3, <2>4
<1>5. ASSUME SentOnce(q, m) PROVE SentOnce(p, m) /\ (m = h => ~Sent(p, m))
  <2>1. \A i \in 1..Len(p) : i + 1 \in 1..Len(q) /\ i + 1 # 1
    BY <1>1
  <2>2. 1 \in 1..Len(q)
    BY <1>1
  <2>3. ASSUME NEW i \in 1..Len(p), NEW j \in 1..Len(p), p[i] = m, p[j] = m PROVE i = j
    <3>1. i + 1 = j + 1
      BY <1>1, <1>5, <2>1, <2>3 DEF SentOnce
    <3>2. QED BY <3>1
  <2>4. ASSUME NEW i \in 1..Len(p), p[i] = m, m = h PROVE FALSE
    <3>1. q[i + 1] = m /\ q[1] = m
      BY <1>0, <1>1, <2>4
    <3>2. i + 1 = 1
      BY <1>5, <2>1, <2>2, <3>1 DEF SentOnce
    <3>3. QED BY <2>1, <3>2
  <2>5. QED BY <2>3, <2>4 DEF SentOnce, Sent
<1>6. QED BY <1>3, <1>4, <1>5 DEF p, h

\* What an append, or the reading of a message, does to the mail about a directory.
LEMMA MailSent ==
  ASSUME TypeOK, NEW d \in Dirs, NEW a \in Messages, inbox' = Append(inbox, a)
  PROVE  /\ \A m \in About(d) : Sent(inbox', m) <=> Sent(inbox, m) \/ m = a
         /\ a = Size(d, TRUE) \/ (a # Size(d, FALSE) /\ SentAfter(inbox, Size(d, TRUE), {Size(d, FALSE)}))
              => SentAfter(inbox', Size(d, TRUE), {Size(d, FALSE)})
         /\ \/ a = Size(d, FALSE)
            \/ /\ a \notin {Size(d, TRUE), Discovery(d)}
               /\ SentAfter(inbox, Size(d, FALSE), {Size(d, TRUE), Discovery(d)})
              => SentAfter(inbox', Size(d, FALSE), {Size(d, TRUE), Discovery(d)})
         /\ Sent(inbox', ScanResult) <=> Sent(inbox, ScanResult) \/ a = ScanResult
         /\ SentOnce(inbox, ScanResult) /\ (a = ScanResult => ~Sent(inbox, ScanResult))
              => SentOnce(inbox', ScanResult)
<1>1. inbox \in Seq(Messages)
  BY DEF TypeOK, InboxType
<1>2. ASSUME NEW m PROVE Sent(inbox', m) <=> Sent(inbox, m) \/ m = a
  <2>1. m \notin {}
    OBVIOUS
  <2>2. QED BY ONLY <1>1, <2>1, SentByAppend, inbox' = Append(inbox, a), a \in Messages
<1>3. /\ Size(d, TRUE) \notin {Size(d, FALSE)}
      /\ Size(d, FALSE) \notin {Size(d, TRUE), Discovery(d)} /\ ScanResult \notin {}
  BY Letters
<1>4. ASSUME NEW m, NEW S, m \notin S
      PROVE  /\ m = a => SentAfter(inbox', m, S)
             /\ a \notin S /\ SentAfter(inbox, m, S) => SentAfter(inbox', m, S)
  BY ONLY <1>1, <1>4, SentByAppend, inbox' = Append(inbox, a), a \in Messages
<1>5. SentOnce(inbox, ScanResult) /\ (a = ScanResult => ~Sent(inbox, ScanResult))
        => SentOnce(inbox', ScanResult)
  <2>1. ScanResult \notin {}
    OBVIOUS
  <2>2. SentOnce(inbox, ScanResult) /\ (ScanResult = a => ~Sent(inbox, ScanResult))
          => SentOnce(Append(inbox, a), ScanResult)
    BY ONLY <1>1, <2>1, SentByAppend, a \in Messages
  <2>3. QED BY <2>2
<1>6. a # Size(d, FALSE) => a \notin {Size(d, FALSE)}
  OBVIOUS
<1>7. QED BY <1>2, <1>3, <1>4, <1>5, <1>6

LEMMA MailRead ==
  ASSUME TypeOK, NEW d \in Dirs, inbox # << >>, inbox' = Tail(inbox)
  PROVE  /\ \A m \in About(d) \cup {ScanResult} : Sent(inbox, m) <=> Sent(inbox', m) \/ m = Head(inbox)
         /\ SentAfter(inbox, Size(d, TRUE), {Size(d, FALSE)})
              => \/ SentAfter(inbox', Size(d, TRUE), {Size(d, FALSE)})
                 \/ Head(inbox) = Size(d, TRUE) /\ ~Sent(inbox', Size(d, FALSE))
         /\ SentAfter(inbox, Size(d, FALSE), {Size(d, TRUE), Discovery(d)})
              => \/ SentAfter(inbox', Size(d, FALSE), {Size(d, TRUE), Discovery(d)})
                 \/ /\ Head(inbox) = Size(d, FALSE)
                    /\ ~Sent(inbox', Size(d, TRUE)) /\ ~Sent(inbox', Discovery(d))
         /\ SentOnce(inbox, ScanResult)
              => SentOnce(inbox', ScanResult) /\ (Head(inbox) = ScanResult => ~Sent(inbox', ScanResult))
<1>1. inbox \in Seq(Messages)
  BY DEF TypeOK, InboxType
<1>2. ASSUME NEW m PROVE Sent(inbox, m) <=> Sent(inbox', m) \/ m = Head(inbox)
  <2>1. m \notin {}
    OBVIOUS
  <2>2. QED BY ONLY <1>1, <2>1, SentByTail, inbox # << >>, inbox' = Tail(inbox)
<1>3. /\ Size(d, TRUE) \notin {Size(d, FALSE)}
      /\ Size(d, FALSE) \notin {Size(d, TRUE), Discovery(d)} /\ ScanResult \notin {}
  BY Letters
<1>4. ASSUME NEW m, NEW S, m \notin S, SentAfter(inbox, m, S)
      PROVE  SentAfter(inbox', m, S) \/ (m = Head(inbox) /\ \A other \in S : ~Sent(inbox', other))
  BY ONLY <1>1, <1>4, SentByTail, inbox # << >>, inbox' = Tail(inbox)
<1>5. SentOnce(inbox, ScanResult)
        => SentOnce(inbox', ScanResult) /\ (Head(inbox) = ScanResult => ~Sent(inbox', ScanResult))
  BY ONLY <1>1, <1>3, SentByTail, inbox # << >>, inbox' = Tail(inbox)
<1>6. QED BY <1>2, <1>3, <1>4, <1>5

\* A step that leaves a directory and the mail about it alone.
SameMail(d) ==
  /\ \A m \in About(d) : Sent(inbox', m) <=> Sent(inbox, m)
  /\ SentAfter(inbox, Size(d, TRUE), {Size(d, FALSE)}) => SentAfter(inbox', Size(d, TRUE), {Size(d, FALSE)})
  /\ SentAfter(inbox, Size(d, FALSE), {Size(d, TRUE), Discovery(d)})
       => SentAfter(inbox', Size(d, FALSE), {Size(d, TRUE), Discovery(d)})
SameDir(d) ==
  /\ fs'[d] = fs[d] /\ refresh'[d] = refresh[d] /\ candidate'[d] = candidate[d]
  /\ task'[d] = task[d] /\ tree'[d] = tree[d]
  /\ d \in discovered' <=> d \in discovered
  /\ d \in projects' <=> d \in projects
  /\ d \in registering' <=> d \in registering
  /\ d \in unread' <=> d \in unread
  /\ d \in found' <=> d \in found
  /\ d \in walks' <=> d \in walks
  /\ d \in exposed => d \in exposed'
  /\ Noticed(d) => Noticed(d)'
  /\ phase' = phase /\ completing' = completing /\ scan' = scan

LEMMA MailOfOthersSent ==
  ASSUME TypeOK, NEW d \in Dirs, NEW a \in Messages, a \notin About(d), inbox' = Append(inbox, a)
  PROVE  SameMail(d)
<1>1. a # Discovery(d) /\ a # Size(d, TRUE) /\ a # Size(d, FALSE)
  BY DEF About
<1>2. QED BY <1>1, MailSent DEF SameMail

LEMMA MailOfOthersRead ==
  ASSUME TypeOK, NEW d \in Dirs, inbox # << >>, Head(inbox) \notin About(d), inbox' = Tail(inbox)
  PROVE  SameMail(d)
<1>1. Head(inbox) # Discovery(d) /\ Head(inbox) # Size(d, TRUE) /\ Head(inbox) # Size(d, FALSE)
  BY DEF About
<1>2. QED BY <1>1, MailRead DEF SameMail

LEMMA MailUnchanged ==
  ASSUME NEW d \in Dirs, UNCHANGED inbox
  PROVE  SameMail(d)
  BY DEF SameMail

LEMMA FollowedIfSame ==
  ASSUME NEW d \in Dirs, Followed(d), SameDir(d), SameMail(d)
  PROVE  Followed(d)'
<1>1. \A m \in About(d) : Sent(inbox', m) <=> Sent(inbox, m)
  BY DEF SameMail
<1>2. /\ Sent(inbox', Discovery(d)) <=> Sent(inbox, Discovery(d))
      /\ Sent(inbox', Size(d, TRUE)) <=> Sent(inbox, Size(d, TRUE))
      /\ Sent(inbox', Size(d, FALSE)) <=> Sent(inbox, Size(d, FALSE))
  BY <1>1 DEF About
<1>3. SUFFICES ASSUME d \notin exposed'
               PROVE  /\ BeforeScan(d)' /\ Registered(d)' /\ Reported(d)' /\ HeldSizes(d)'
                      /\ Appears(d)' /\ Disappears(d)'
  BY DEF Followed
<1>4. /\ BeforeScan(d) /\ Registered(d) /\ Reported(d) /\ HeldSizes(d)
      /\ Appears(d) /\ Disappears(d)
  BY <1>3 DEF Followed, SameDir
<1>5. BeforeScan(d)' /\ Registered(d)' /\ HeldSizes(d)'
  BY <1>2, <1>4 DEF SameDir, BeforeScan, Registered, HeldSizes
<1>6. Reported(d)'
  BY <1>2, <1>4 DEF SameDir, SameMail, Reported
<1>7. Appears(d)'
  BY <1>2, <1>4 DEF SameDir, Appears, Wanted
<1>8. Disappears(d)'
  BY <1>2, <1>4 DEF SameDir, SameMail, Disappears, Wanted
<1>9. QED BY <1>5, <1>6, <1>7, <1>8
-----------------------------------------------------------------------------
(* Every step.                                                             *)

LEMMA StartingStep ==
  ASSUME TypeOK, NothingUnwatched, Starting, [Next]_vars
  PROVE  Starting'
<1> USE DEF Starting
<1>t. /\ refresh \in [Keys -> RefreshStates] /\ candidate \in [Dirs -> {"no", "waiting", "due"}]
      /\ Dirs \subseteq Keys /\ phase \in {"unwatched", "initializing", "ready"}
  BY DEF TypeOK, WatcherTypes, ProbeTypes, Keys
<1>1. CASE Disk
  BY <1>1 DEF Disk, Write, Create, AddManifest, Remove, Become, Changed, scanVars, appVars
<1>2. CASE DrainMessages
  <2>1. CASE completing
    BY <1>2, <2>1 DEF DrainMessages, NothingUnwatched, appVars, scanVars
  <2>2. CASE ~completing
    BY <1>2, <2>2 DEF DrainMessages, appVars, scanVars
  <2>3. QED BY <2>1, <2>2
<1>3. CASE NotifyEvents
  BY <1>3, <1>t DEF NotifyEvents, appVars, scanVars
<1>4. ASSUME NEW k \in Keys, DrainDone(k) \/ Fire(k) \/ Expire(k) PROVE Starting'
  <2>1. UNCHANGED <<phase, notify, buffered, discovered, candidate, app, scan>>
    BY <1>4 DEF DrainDone, Fire, Expire, scanVars, appVars
  <2>2. \A e \in Dirs : refresh[e] = "idle" => refresh'[e] = "idle"
    BY <1>4, <1>t DEF DrainDone, Fire, Expire, Completed
  <2>3. QED BY <2>1, <2>2
<1>5. ASSUME NEW d \in Dirs, Due(d) \/ Probe(d) PROVE Starting'
  <2>1. UNCHANGED <<phase, notify, buffered, app, scan, refresh>>
    BY <1>5 DEF Due, Probe, scanVars, appVars
  <2>2. phase = "ready"
    BY <1>5, <1>t DEF Due, Probe
  <2>3. QED BY <2>1, <2>2
<1>6. CASE \/ SendScan \/ UNCHANGED vars
           \/ \E d \in Dirs : \/ ReadSize(d) \/ SendSize(d) \/ ReadCheckout(d) \/ StartWalk(d)
                              \/ SendWalk(d) \/ ScanDir(d) \/ Dismiss(d)
  <2>1. UNCHANGED <<phase, notify, buffered, discovered, candidate, refresh, app>>
        /\ (scan' = scan \/ scan' = "sent")
    BY <1>6 DEF SendScan, ReadSize, SendSize, ReadCheckout, StartWalk, SendWalk, ScanDir, Dismiss,
                vars, watcherVars, scanVars, appVars
  <2>2. QED BY <2>1
<1>7. CASE HandleMessage
  <2>1. UNCHANGED <<phase, notify, buffered, discovered, candidate, refresh, app>> /\ app = "idle"
    BY <1>7 DEF HandleMessage
  <2>2. QED BY <2>1
<1>8. CASE Respawn
  <2>1. Watcher("initializing") /\ app' = "idle"
    BY <1>8 DEF Respawn
  <2>2. discovered' = {} /\ phase' = "initializing"
        /\ \A d \in Dirs : candidate'[d] = "no" /\ refresh'[d] = "idle"
    BY <2>1, <1>t DEF Watcher
  <2>3. QED BY <2>1, <2>2
<1>9. CASE Rescan
  <2>1. Watcher("unwatched") /\ app' = "rescan" /\ scan' = "reading"
    BY <1>9 DEF Rescan
  <2>2. discovered' = {} /\ phase' = "unwatched" /\ notify' = {} /\ buffered' = {}
        /\ \A d \in Dirs : candidate'[d] = "no" /\ refresh'[d] = "idle"
    BY <2>1, <1>t DEF Watcher
  <2>3. QED BY <2>1, <2>2
<1>10. CASE Reconfigure
  <2>1. Watcher("initializing") /\ app' = "idle"
    BY <1>10 DEF Reconfigure, appVars
  <2>2. discovered' = {} /\ phase' = "initializing"
        /\ \A d \in Dirs : candidate'[d] = "no" /\ refresh'[d] = "idle"
    BY <2>1, <1>t DEF Watcher
  <2>3. QED BY <2>1, <2>2
<1>11. QED
  BY <1>1, <1>2, <1>3, <1>4, <1>5, <1>6, <1>7, <1>8, <1>9, <1>10 DEF Next, Loop, Time, Tasks, App

LEMMA SentTogether ==
  ASSUME NEW q \in Seq(Messages), NEW a \in Messages, NEW b \in Messages
  PROVE  q \o <<a, b>> = Append(Append(q, a), b)
<1>1. <<a, b>> \in Seq(Messages) /\ Len(<<a, b>>) = 2 /\ <<a, b>>[1] = a /\ <<a, b>>[2] = b
  OBVIOUS
<1>2. q \o <<a, b>> \in Seq(Messages) /\ Append(Append(q, a), b) \in Seq(Messages)
  BY <1>1
<1>3. Len(q \o <<a, b>>) = Len(q) + 2 /\ Len(Append(Append(q, a), b)) = Len(q) + 2 /\ Len(q) \in Nat
  BY <1>1
<1>4. \A i \in 1..(Len(q) + 2) : (q \o <<a, b>>)[i] = Append(Append(q, a), b)[i]
  BY <1>1, <1>3
<1>5. QED BY <1>2, <1>3, <1>4

LEMMA ScanNotSent ==
  ASSUME NEW q \in Seq(Messages), NEW a \in Messages, a # ScanResult
  PROVE  /\ Append(q, a) \in Seq(Messages)
         /\ Sent(Append(q, a), ScanResult) <=> Sent(q, ScanResult)
         /\ SentOnce(q, ScanResult) => SentOnce(Append(q, a), ScanResult)
<1>1. ScanResult \notin {}
  OBVIOUS
<1>2. /\ Sent(Append(q, a), ScanResult) <=> Sent(q, ScanResult) \/ ScanResult = a
      /\ SentOnce(q, ScanResult) /\ (ScanResult = a => ~Sent(q, ScanResult))
           => SentOnce(Append(q, a), ScanResult)
  BY ONLY <1>1, SentByAppend, q \in Seq(Messages), a \in Messages
<1>3. QED BY <1>2

LEMMA ScanOnceStep ==
  ASSUME TypeOK, ScanOnce, [Next]_vars
  PROVE  ScanOnce'
<1> USE DEF ScanOnce
<1>i. inbox \in Seq(Messages)
  BY DEF TypeOK, InboxType
<1>2. ASSUME NEW d \in Dirs, Probe(d) PROVE ScanOnce'
  <2>1. UNCHANGED <<scan, unread, found>>
    BY <1>2 DEF Probe, scanVars
  <2>2. CASE fs[d] = "gone"
    <3>1. inbox' = Append(inbox, Size(d, FALSE))
      BY <1>2, <2>2 DEF Probe
    <3>2. QED BY <1>i, <2>1, <3>1, Letters, ScanNotSent
  <2>3. CASE fs[d] = "project" /\ d \notin discovered
    <3>1. inbox' = inbox \o <<Discovery(d), Size(d, TRUE)>>
      BY <1>2, <2>3 DEF Probe, Discovery
    <3>2. inbox' = Append(Append(inbox, Discovery(d)), Size(d, TRUE))
      <4>1. Discovery(d) \in Messages /\ Size(d, TRUE) \in Messages
        BY Letters
      <4>2. inbox \o <<Discovery(d), Size(d, TRUE)>> = Append(Append(inbox, Discovery(d)), Size(d, TRUE))
        BY ONLY <4>1, <1>i, SentTogether
      <4>3. QED BY ONLY <3>1, <4>2
    <3> DEFINE q == Append(inbox, Discovery(d))
    <3>3. Discovery(d) \in Messages /\ Discovery(d) # ScanResult
      BY Letters
    <3>4. q \in Seq(Messages) /\ (Sent(q, ScanResult) <=> Sent(inbox, ScanResult)) /\ SentOnce(q, ScanResult)
      BY <1>i, <3>3, ScanNotSent
    <3>5. inbox' = Append(q, Size(d, TRUE))
      BY <3>2
    <3> HIDE DEF q
    <3>6. (Sent(inbox', ScanResult) <=> Sent(inbox, ScanResult)) /\ SentOnce(inbox', ScanResult)
      BY <3>4, <3>5, Letters, ScanNotSent
    <3>7. QED BY <2>1, <3>6
  <2>4. CASE fs[d] # "gone" /\ ~(fs[d] = "project" /\ d \notin discovered)
    <3>1. inbox' = inbox
      BY <1>2, <2>4 DEF Probe
    <3>2. QED BY <2>1, <3>1
  <2>5. QED BY <2>2, <2>3, <2>4
<1>3. ASSUME NEW d \in Dirs, SendSize(d) \/ SendWalk(d) PROVE ScanOnce'
  <2>1. inbox' = Append(inbox, Size(d, TRUE)) \/ inbox' = Append(inbox, Size(d, FALSE))
    BY <1>3 DEF SendSize, SendWalk
  <2>2. UNCHANGED <<scan, unread, found>>
    BY <1>3 DEF SendSize, SendWalk, scanVars
  <2>3. PICK a \in {Size(d, TRUE), Size(d, FALSE)} : inbox' = Append(inbox, a)
    BY <2>1
  <2>4. a \in Messages /\ a # ScanResult
    BY Letters
  <2>5. QED BY <1>i, <2>2, <2>3, <2>4, ScanNotSent
<1>4. CASE SendScan
  <2>1. inbox' = Append(inbox, ScanResult) /\ scan' = "sent" /\ unread' = {} /\ found' = found /\ scan = "reading"
    BY <1>4 DEF SendScan, ScanResult
  <2>2. SentOnce(inbox', ScanResult)
    <3>1. ScanResult \notin {} /\ ScanResult \in Messages
      BY DEF ScanResult, Messages
    <3>2. ~Sent(inbox, ScanResult)
      BY <2>1
    <3>3. QED BY <1>i, <2>1, <3>1, <3>2, SentByAppend
  <2>3. QED BY <2>1, <2>2
<1>5. CASE HandleMessage
  <2>1. inbox # << >> /\ inbox' = Tail(inbox) /\ UNCHANGED <<unread, found>>
    BY <1>5 DEF HandleMessage
  <2>2. /\ Sent(inbox, ScanResult) <=> Sent(inbox', ScanResult) \/ ScanResult = Head(inbox)
        /\ SentOnce(inbox', ScanResult) /\ (ScanResult = Head(inbox) => ~Sent(inbox', ScanResult))
    <3>1. ScanResult \notin {}
      OBVIOUS
    <3>2. QED BY <1>i, <2>1, <3>1, SentByTail
  <2>3. Head(inbox) \in Messages
    BY <1>i, <2>1
  <2>4. CASE Head(inbox).type = "ScanResult"
    <3>1. Head(inbox) = ScanResult
      BY <2>3, <2>4 DEF Messages, ScanResult
    <3>2. scan' = "complete"
      BY <1>5, <2>4 DEF HandleMessage, HandleScanResult
    <3>3. scan = "sent"
      BY <2>2, <3>1
    <3>4. QED BY <2>1, <2>2, <3>1, <3>2, <3>3
  <2>5. CASE Head(inbox).type # "ScanResult"
    <3>1. scan' = scan
      BY <1>5, <2>3, <2>5 DEF HandleMessage, HandleDiscovered, HandleSize, Messages
    <3>2. QED BY <2>1, <2>2, <3>1
  <2>6. QED BY <2>4, <2>5
<1>6. ASSUME NEW d \in Dirs, ScanDir(d) PROVE ScanOnce'
  <2>1. unread' \subseteq unread /\ found' \cap unread' = {} /\ UNCHANGED <<scan, inbox>>
    BY <1>6 DEF ScanDir, appVars
  <2>2. QED BY <2>1
<1>7. CASE Rescan
  <2>1. scan' = "reading" /\ inbox' = << >> /\ found' = {}
    BY <1>7 DEF Rescan
  <2>2. ~Sent(inbox', ScanResult) /\ SentOnce(inbox', ScanResult)
    BY <2>1 DEF Sent, SentOnce
  <2>3. QED BY <2>1, <2>2
<1>8. CASE \/ Disk \/ Time \/ DrainMessages \/ NotifyEvents \/ Respawn \/ Reconfigure \/ UNCHANGED vars
           \/ \E k \in Keys : DrainDone(k) \/ Fire(k)
           \/ \E d \in Dirs : ReadSize(d) \/ ReadCheckout(d) \/ StartWalk(d) \/ Dismiss(d)
  <2>1. UNCHANGED <<scan, unread, found, inbox>>
    BY <1>8 DEF Disk, Write, Create, AddManifest, Remove, Become, Changed, Time, Expire, Due, DrainMessages,
                NotifyEvents, Respawn, Reconfigure, DrainDone, Fire, ReadSize, ReadCheckout, StartWalk,
                Dismiss, vars, watcherVars, scanVars, appVars
  <2>2. QED BY <2>1
<1>9. QED
  BY <1>2, <1>3, <1>4, <1>5, <1>6, <1>7, <1>8 DEF Next, Loop, Tasks, App

\* The facts every step below needs of the state before it.
Context == TypeOK /\ NothingUnwatched /\ InFlight /\ Starting /\ ScanOnce

LEMMA ContextTypes ==
  ASSUME Context
  PROVE  /\ fs \in [Dirs -> {"gone", "bare", "project"}]
         /\ refresh \in [Keys -> RefreshStates] /\ candidate \in [Dirs -> {"no", "waiting", "due"}]
         /\ task \in [Keys -> {"none", "queued", "empty", "full", "done"}]
         /\ tree \in [Dirs -> {"absent", "visible", "deleted", "dismissed"}]
         /\ scan \in {"reading", "sent", "complete"} /\ phase \in {"unwatched", "initializing", "ready"}
         /\ inbox \in Seq(Messages) /\ Dirs \subseteq Keys /\ Git \in Keys /\ Git \notin Dirs
  BY WatcherAssumption DEF Context, TypeOK, WatcherTypes, ProbeTypes, OtherTypes, InboxType, Keys

\* Once a scan is applied, a watcher runs.
LEMMA WatchedAfterScan ==
  ASSUME Context, scan = "complete"
  PROVE  phase # "unwatched"
  BY DEF Context, Starting, NothingUnwatched

LEMMA FollowedParts ==
  ASSUME NEW d \in Dirs,
         d \notin exposed' => /\ BeforeScan(d)' /\ Registered(d)' /\ Reported(d)' /\ HeldSizes(d)'
                              /\ Appears(d)' /\ Disappears(d)'
  PROVE  Followed(d)'
  BY DEF Followed

LEMMA DiskFollowed ==
  ASSUME Context, NEW d \in Dirs, Followed(d), Disk
  PROVE  Followed(d)'
<1>1. PICK e \in Dirs : Write(e) \/ Create(e) \/ AddManifest(e) \/ Remove(e)
  BY DEF Disk
<1>2. \E kind \in AllKinds : Changed(e, kind)
  BY <1>1, WatcherAssumption DEF Write, Create, AddManifest, Remove, Become, AllKinds
<1>3. /\ UNCHANGED <<phase, registering, completing, projects, buffered, refresh, candidate, discovered,
                     task, todo, walks, scan, unread, found, app, inbox, tree>>
      /\ notify \subseteq notify'
  BY <1>2 DEF Changed, scanVars, appVars
<1>4. SameMail(d) /\ (Noticed(d) => Noticed(d)')
  BY <1>3, MailUnchanged DEF Noticed
<1>5. CASE Write(e) \/ e # d
  <2>1. fs'[d] = fs[d] /\ exposed \subseteq exposed'
    BY <1>1, <1>5, ContextTypes DEF Write, Create, AddManifest, Remove, Become
  <2>2. SameDir(d)
    BY <1>3, <1>4, <2>1 DEF SameDir
  <2>3. QED BY <1>4, <2>2, FollowedIfSame
<1>6. CASE ~Write(e) /\ e = d
  <2>1. PICK state \in {"bare", "project", "gone"} : Become(d, state)
    BY <1>1, <1>6 DEF Create, AddManifest, Remove
  <2>2. fs'[d] = state /\ (phase # "unwatched" => Noticed(d)')
    BY <2>1, ContextTypes DEF Become, Changed, Noticed
  <2>3. SUFFICES ASSUME d \notin exposed'
                 PROVE  /\ BeforeScan(d)' /\ Registered(d)' /\ Reported(d)' /\ HeldSizes(d)'
                        /\ Appears(d)' /\ Disappears(d)'
    BY FollowedParts
  <2>4. d \notin exposed /\ (phase = "unwatched" => d \in unread) /\ (state = "gone" => d \notin walks)
    BY <2>1, <2>3 DEF Become
  <2>5. BeforeScan(d) /\ Registered(d) /\ Reported(d) /\ HeldSizes(d)
    BY <2>4 DEF Followed
  <2>6. task[d] # "none" => phase # "unwatched"
    BY ContextTypes DEF Context, InFlight, Starting
  <2>7. BeforeScan(d)' /\ Registered(d)' /\ Reported(d)'
    BY <1>3, <2>2, <2>4, <2>5 DEF BeforeScan, Registered, Reported
  <2>8. HeldSizes(d)'
    BY <1>3, <2>2, <2>4, <2>5, <2>6 DEF HeldSizes
  <2>9. Appears(d)' /\ Disappears(d)'
    BY <1>3, <2>2, WatchedAfterScan DEF Appears, Disappears
  <2>10. QED BY <2>7, <2>8, <2>9
<1>7. QED BY <1>5, <1>6

\* The events of a directory give a known one a refresh, and make any other a candidate
\* that is gone or not reported.
LEMMA HandleNotices ==
  ASSUME Context, NEW d \in Dirs, NEW events, NEW known \in SUBSET Dirs, Handle(events, known)
  PROVE  /\ Wanted(d) => Wanted(d)'
         /\ refresh[d] = "running" => refresh'[d] \in {"running", "dirty"}
         /\ refresh[d] = "dirty" => refresh'[d] = "dirty"
         /\ refresh'[d] # "idle" => refresh[d] # "idle" \/ d \in known
         /\ candidate[d] # "no" => candidate'[d] # "no"
         /\ <<d, "source">> \in events =>
              \/ d \in known /\ Wanted(d)'
              \/ d \notin known /\ (fs[d] = "gone" \/ d \notin discovered) /\ candidate'[d] # "no"
              \/ d \notin known /\ fs[d] # "gone" /\ d \in discovered
<1>t. refresh \in [Keys -> RefreshStates] /\ d \in Keys /\ d # Git
      /\ candidate \in [Dirs -> {"no", "waiting", "due"}]
  BY ContextTypes
<1>1. Rescheduled(refresh[d]) \in {"pending", "overdue", "dirty"}
      /\ (Rescheduled(refresh[d]) = "dirty" <=> refresh[d] \in {"running", "dirty"})
  BY <1>t, RescheduledIsDue
<1>2. refresh'[d] = refresh[d] \/ refresh'[d] = Rescheduled(refresh[d])
  BY <1>t, HandleReschedules
<1>3. ASSUME <<d, "source">> \in events, d \in known PROVE Wanted(d)'
  <2>1. "disk" \in Needs("source") /\ KeyOf("disk", d) = d
    BY DEF Needs, KeyOf
  <2>2. refresh'[d] = Rescheduled(refresh[d])
    <3>1. <<d, "source">>[1] = d /\ <<d, "source">>[2] = "source"
      OBVIOUS
    <3>2. \A what \in Needs(<<d, "source">>[2]) :
            <<d, "source">>[1] \in known /\ KeyOf(what, <<d, "source">>[1]) \in Keys
              => refresh'[KeyOf(what, <<d, "source">>[1])] = Rescheduled(refresh[KeyOf(what, <<d, "source">>[1])])
      BY <1>3, <1>t, HandleReschedules
    <3>3. QED BY <1>3, <1>t, <2>1, <3>1, <3>2
  <2>3. QED BY <1>1, <2>2 DEF Wanted
<1>4. refresh'[d] # refresh[d] => d \in known
  <2> DEFINE keys == {KeyOf(x[1], x[2]) : x \in UNION {Needs(e[2]) \X {e[1]} :
                                             e \in {f \in events : f[1] \in known}}}
  <2>1. refresh' = [k \in Keys |-> IF k \in keys THEN Rescheduled(refresh[k]) ELSE refresh[k]]
    BY DEF Handle
  <2>2. d \in keys => d \in known
    BY <1>t DEF KeyOf
  <2> HIDE DEF keys
  <2>3. QED BY <1>t, <2>1, <2>2
<1>5. /\ candidate[d] # "no" => candidate'[d] # "no"
      /\ <<d, "source">> \in events /\ d \notin known /\ (fs[d] = "gone" \/ d \notin discovered)
           => candidate'[d] # "no"
  <2> DEFINE new == {c \in Dirs \ known : /\ \E e \in events : e[1] = c
                                          /\ fs[c] = "gone" \/ c \notin discovered}
  <2>1. candidate' = [c \in Dirs |-> IF c \in new /\ candidate[c] = "no" THEN "waiting" ELSE candidate[c]]
    BY DEF Handle
  <2>2. <<d, "source">> \in events /\ d \notin known /\ (fs[d] = "gone" \/ d \notin discovered) => d \in new
    <3>1. <<d, "source">>[1] = d
      OBVIOUS
    <3>2. QED BY <3>1
  <2> HIDE DEF new
  <2>3. QED BY <2>1, <2>2
<1>6. QED BY <1>t, <1>1, <1>2, <1>3, <1>4, <1>5 DEF Wanted, RefreshStates

\* What Probe sends of a directory it reports.
LEMMA PairSent ==
  ASSUME NEW d \in Dirs, inbox \in Seq(Messages),
         inbox' = Append(Append(inbox, Discovery(d)), Size(d, TRUE))
  PROVE  /\ Sent(inbox', Discovery(d)) /\ Sent(inbox', Size(d, TRUE))
         /\ SentAfter(inbox', Size(d, TRUE), {Size(d, FALSE)})
<1> DEFINE q == Append(inbox, Discovery(d))
<1>1. /\ Discovery(d) \notin {Size(d, FALSE)} /\ Size(d, TRUE) \notin {Size(d, FALSE)}
      /\ Discovery(d) \in Messages /\ Size(d, TRUE) \in Messages
  BY Letters
<1>2. q \in Seq(Messages) /\ inbox' = Append(q, Size(d, TRUE))
  BY <1>1
<1>3. Sent(q, Discovery(d))
  BY ONLY <1>1, inbox \in Seq(Messages), SentByAppend
<1> HIDE DEF q
<1>4. /\ Sent(Append(q, Size(d, TRUE)), Discovery(d)) /\ Sent(Append(q, Size(d, TRUE)), Size(d, TRUE))
      /\ SentAfter(Append(q, Size(d, TRUE)), Size(d, TRUE), {Size(d, FALSE)})
  BY ONLY <1>1, <1>2, <1>3, SentByAppend
<1>5. QED BY <1>2, <1>4

LEMMA PairOfOthersSent ==
  ASSUME NEW d \in Dirs, NEW a \in Messages, NEW b \in Messages, a \notin About(d), b \notin About(d),
         inbox \in Seq(Messages), inbox' = Append(Append(inbox, a), b)
  PROVE  SameMail(d)
<1> DEFINE q == Append(inbox, a)
<1>1. q \in Seq(Messages) /\ inbox' = Append(q, b)
  OBVIOUS
<1>2. ASSUME NEW m \in About(d), NEW p \in Seq(Messages), NEW c \in {a, b}, NEW S \in SUBSET About(d), m \notin S
      PROVE  /\ Sent(Append(p, c), m) <=> Sent(p, m)
             /\ SentAfter(p, m, S) => SentAfter(Append(p, c), m, S)
  <2>1. c # m /\ c \notin S /\ c \in Messages
    OBVIOUS
  <2>2. QED BY ONLY <1>2, <2>1, SentByAppend
<1>3. {} \in SUBSET About(d) /\ {Size(d, FALSE)} \in SUBSET About(d)
      /\ {Size(d, TRUE), Discovery(d)} \in SUBSET About(d)
      /\ Discovery(d) \in About(d) /\ Size(d, TRUE) \in About(d) /\ Size(d, FALSE) \in About(d)
  BY DEF About
<1>4. /\ Size(d, TRUE) \notin {Size(d, FALSE)}
      /\ Size(d, FALSE) \notin {Size(d, TRUE), Discovery(d)}
  BY Letters
<1>5. ASSUME NEW m \in About(d), NEW S \in SUBSET About(d), m \notin S
      PROVE  /\ Sent(inbox', m) <=> Sent(inbox, m)
             /\ SentAfter(inbox, m, S) => SentAfter(inbox', m, S)
  <2>1. /\ Sent(q, m) <=> Sent(inbox, m)
        /\ SentAfter(inbox, m, S) => SentAfter(q, m, S)
    BY <1>2, <1>5
  <2> HIDE DEF q
  <2>2. /\ Sent(Append(q, b), m) <=> Sent(q, m)
        /\ SentAfter(q, m, S) => SentAfter(Append(q, b), m, S)
    BY <1>1, <1>2, <1>5
  <2>3. QED BY <1>1, <2>1, <2>2
<1>6. \A m \in About(d) : Sent(inbox', m) <=> Sent(inbox, m)
  <2>1. TAKE m \in About(d)
  <2>2. m \notin {}
    OBVIOUS
  <2>3. QED BY <1>3, <1>5, <2>2
<1>7. QED BY <1>3, <1>4, <1>5, <1>6 DEF SameMail

\* A size of what is gone is the last word about it.
LEMMA EmptySent ==
  ASSUME TypeOK, NEW d \in Dirs, inbox' = Append(inbox, Size(d, FALSE))
  PROVE  /\ SentAfter(inbox', Size(d, FALSE), {Size(d, TRUE), Discovery(d)})
         /\ Sent(inbox, Size(d, TRUE)) => Sent(inbox', Size(d, TRUE))
         /\ Sent(inbox, Discovery(d)) => Sent(inbox', Discovery(d))
<1>1. inbox \in Seq(Messages)
  BY DEF TypeOK, InboxType
<1>2. /\ Size(d, FALSE) \in Messages /\ Size(d, FALSE) \notin {Size(d, TRUE), Discovery(d)}
      /\ Size(d, TRUE) \notin {} /\ Discovery(d) \notin {}
  BY Letters
<1>3. SentAfter(Append(inbox, Size(d, FALSE)), Size(d, FALSE), {Size(d, TRUE), Discovery(d)})
  BY ONLY <1>1, <1>2, SentByAppend
<1>4. ASSUME NEW m PROVE Sent(inbox, m) => Sent(Append(inbox, Size(d, FALSE)), m)
  <2>1. m \notin {}
    OBVIOUS
  <2>2. QED BY ONLY <1>1, <1>2, <2>1, SentByAppend
<1>5. QED BY <1>3, <1>4

LEMMA FullSent ==
  ASSUME TypeOK, NEW d \in Dirs, inbox' = Append(inbox, Size(d, TRUE))
  PROVE  /\ Sent(inbox', Discovery(d)) <=> Sent(inbox, Discovery(d))
         /\ Sent(inbox', Size(d, FALSE)) <=> Sent(inbox, Size(d, FALSE))
         /\ Sent(inbox, Size(d, TRUE)) => Sent(inbox', Size(d, TRUE))
         /\ SentAfter(inbox', Size(d, TRUE), {Size(d, FALSE)})
<1>1. inbox \in Seq(Messages)
  BY DEF TypeOK, InboxType
<1>2. /\ Size(d, TRUE) \in Messages /\ Size(d, TRUE) \notin {Size(d, FALSE)}
      /\ Size(d, TRUE) # Size(d, FALSE) /\ Size(d, TRUE) # Discovery(d)
  BY Letters
<1>3. SentAfter(Append(inbox, Size(d, TRUE)), Size(d, TRUE), {Size(d, FALSE)})
  BY ONLY <1>1, <1>2, SentByAppend
<1>4. ASSUME NEW m PROVE Sent(Append(inbox, Size(d, TRUE)), m) <=> Sent(inbox, m) \/ m = Size(d, TRUE)
  <2>1. m \notin {}
    OBVIOUS
  <2>2. QED BY ONLY <1>1, <1>2, <2>1, SentByAppend
<1>5. QED BY <1>2, <1>3, <1>4

\* Events that are handled leave a refresh, a candidate, or what was reported, to follow.
LEMMA HandledFollowed ==
  ASSUME Context, NEW d \in Dirs, d \notin exposed, Followed(d), scan = "complete",
         NEW events, NEW known \in SUBSET Dirs, Handle(events, known),
         projects' = known, projects \subseteq known,
         projects' \cup registering' = projects \cup registering,
         UNCHANGED <<fs, discovered, task, walks, scan, inbox, tree>>,
         Noticed(d) => Noticed(d)' \/ <<d, "source">> \in events
  PROVE  /\ BeforeScan(d)' /\ Registered(d)' /\ Reported(d)' /\ HeldSizes(d)'
         /\ Appears(d)' /\ Disappears(d)'
<1>1. /\ Registered(d) /\ Reported(d) /\ HeldSizes(d) /\ Appears(d) /\ Disappears(d)
  BY DEF Followed
<1>2. /\ Wanted(d) => Wanted(d)'
      /\ refresh[d] = "running" => refresh'[d] \in {"running", "dirty"}
      /\ refresh[d] = "dirty" => refresh'[d] = "dirty"
      /\ refresh'[d] # "idle" => refresh[d] # "idle" \/ d \in projects'
      /\ candidate[d] # "no" => candidate'[d] # "no"
      /\ <<d, "source">> \in events =>
           \/ d \in projects' /\ Wanted(d)'
           \/ d \notin projects' /\ (fs[d] = "gone" \/ d \notin discovered) /\ candidate'[d] # "no"
           \/ d \notin projects' /\ fs[d] # "gone" /\ d \in discovered
  BY HandleNotices
<1>3. task[d] # "none" => refresh[d] \in {"running", "dirty"}
  BY ContextTypes DEF Context, InFlight
<1>4. BeforeScan(d)' /\ Registered(d)' /\ Reported(d)'
  BY <1>1, <1>2 DEF BeforeScan, Registered, Reported
<1>5. HeldSizes(d)'
  BY <1>1, <1>2, <1>3 DEF HeldSizes, Registered, Wanted
<1>6. CASE Noticed(d)' \/ ~Noticed(d)
  BY <1>1, <1>2, <1>4, <1>5, <1>6 DEF Appears, Disappears, Wanted
<1>7. CASE <<d, "source">> \in events /\ ~Noticed(d)'
  <2>1. Disappears(d)'
    BY <1>2, <1>7 DEF Disappears
  <2>2. CASE d \in projects' \/ d \notin discovered
    BY <1>2, <1>4, <1>5, <1>7, <2>1, <2>2 DEF Appears
  <2>3. CASE d \notin projects' /\ d \in discovered
    <3>1. \/ tree[d] = "absent" /\ Sent(inbox, Discovery(d))
          \/ tree[d] # "absent" /\ SentAfter(inbox, Size(d, TRUE), {Size(d, FALSE)})
          \/ tree[d] = "visible"
      BY <1>1, <2>3 DEF Reported
    <3>2. \A m, S : SentAfter(inbox, m, S) => Sent(inbox, m)
      BY DEF Sent, SentAfter
    <3>3. Appears(d)'
      BY <3>1, <3>2 DEF Appears
    <3>4. QED BY <1>4, <1>5, <2>1, <3>3
  <2>4. QED BY <1>4, <1>5, <2>1, <2>2, <2>3
<1>8. QED BY <1>4, <1>5, <1>6, <1>7

LEMMA DrainMessagesFollowed ==
  ASSUME Context, NEW d \in Dirs, Followed(d), DrainMessages
  PROVE  Followed(d)'
<1>1. /\ UNCHANGED <<fs, notify, discovered, task, walks, scan, unread, found, app, inbox, tree, exposed>>
      /\ projects' = projects \cup registering /\ registering' = {} /\ completing' = FALSE
  BY DEF DrainMessages, scanVars, appVars
<1>2. SUFFICES ASSUME d \notin exposed'
               PROVE  /\ BeforeScan(d)' /\ Registered(d)' /\ Reported(d)' /\ HeldSizes(d)'
                      /\ Appears(d)' /\ Disappears(d)'
  BY FollowedParts
<1>3. /\ BeforeScan(d) /\ Registered(d) /\ Reported(d) /\ HeldSizes(d)
      /\ Appears(d) /\ Disappears(d)
  BY <1>1, <1>2 DEF Followed
<1>4. CASE ~completing
  <2>1. UNCHANGED <<phase, buffered, refresh, candidate>>
    BY <1>4 DEF DrainMessages
  <2>2. Noticed(d)' <=> Noticed(d)
    BY <1>1, <2>1 DEF Noticed
  <2>3. BeforeScan(d)' /\ Registered(d)' /\ Reported(d)' /\ HeldSizes(d)' /\ Appears(d)' /\ Disappears(d)'
    BY <1>1, <1>3, <2>1, <2>2 DEF BeforeScan, Registered, Reported, HeldSizes, Appears, Disappears, Wanted
  <2>4. QED BY <2>3
\* The scan has been applied, and the events that were held back are handled.
<1>5. CASE completing
  <2>1. Handle(buffered, projects') /\ scan = "complete"
    BY <1>3, <1>5 DEF DrainMessages, Replayed, BeforeScan
  <2>2. Noticed(d) => Noticed(d)' \/ <<d, "source">> \in buffered
    BY <1>1 DEF Noticed
  <2>3. projects' \in SUBSET Dirs
    BY <1>1 DEF Context, TypeOK, WatcherTypes
  <2>4. QED BY <1>1, <1>2, <2>1, <2>2, <2>3, HandledFollowed
<1>6. QED BY <1>4, <1>5

LEMMA NotifyEventsFollowed ==
  ASSUME Context, NEW d \in Dirs, Followed(d), NotifyEvents
  PROVE  Followed(d)'
<1>1. /\ UNCHANGED <<fs, phase, registering, completing, projects, discovered, task, todo, walks, scan, unread,
                     found, app, inbox, tree, exposed>>
      /\ notify' = {} /\ notify # {}
  BY DEF NotifyEvents, scanVars, appVars
<1>2. CASE phase = "initializing"
  <2>1. buffered' = buffered \cup notify /\ UNCHANGED <<refresh, candidate>>
    BY <1>2 DEF NotifyEvents
  <2>2. Noticed(d) => Noticed(d)'
    BY <1>1, <2>1 DEF Noticed
  <2>3. SameDir(d) /\ SameMail(d)
    BY <1>1, <2>1, <2>2, MailUnchanged DEF SameDir
  <2>4. QED BY <2>3, FollowedIfSame
<1>3. CASE phase # "initializing"
  <2>1. Handle(notify, projects) /\ buffered' = buffered /\ phase = "ready"
    BY <1>1, <1>3, ContextTypes DEF NotifyEvents, Context, Starting
  <2>2. SUFFICES ASSUME d \notin exposed'
                 PROVE  /\ BeforeScan(d)' /\ Registered(d)' /\ Reported(d)' /\ HeldSizes(d)'
                        /\ Appears(d)' /\ Disappears(d)'
    BY FollowedParts
  <2>3. d \notin exposed /\ scan = "complete"
    BY <1>1, <2>1, <2>2 DEF Followed, BeforeScan
  <2>4. Noticed(d) => Noticed(d)' \/ <<d, "source">> \in notify
    BY <2>1 DEF Noticed
  <2>5. projects' \in SUBSET Dirs /\ Handle(notify, projects')
    BY <1>1, <2>1 DEF Context, TypeOK, WatcherTypes
  <2>6. QED BY <1>1, <2>3, <2>4, <2>5, HandledFollowed
<1>4. QED BY <1>2, <1>3

LEMMA RefreshFollowed ==
  ASSUME Context, NEW d \in Dirs, Followed(d), NEW k \in Keys, DrainDone(k) \/ Fire(k) \/ Expire(k)
  PROVE  Followed(d)'
<1>1. UNCHANGED <<fs, phase, registering, completing, projects, notify, buffered, candidate, discovered, walks,
                  scan, unread, found, app, inbox, tree, exposed>>
  BY DEF DrainDone, Fire, Expire, scanVars, appVars
<1>2. SameMail(d) /\ (Noticed(d)' <=> Noticed(d))
  BY <1>1, MailUnchanged DEF Noticed
<1>3. CASE k # d
  <2>1. refresh'[d] = refresh[d] /\ task'[d] = task[d]
    BY <1>3, ContextTypes DEF DrainDone, Fire, Expire
  <2>2. SameDir(d)
    BY <1>1, <1>2, <2>1 DEF SameDir
  <2>3. QED BY <1>2, <2>2, FollowedIfSame
<1>4. CASE k = d
  <2>1. SUFFICES ASSUME d \notin exposed'
                 PROVE  /\ BeforeScan(d)' /\ Registered(d)' /\ Reported(d)' /\ HeldSizes(d)'
                        /\ Appears(d)' /\ Disappears(d)'
    BY FollowedParts
  <2>2. /\ BeforeScan(d) /\ Registered(d) /\ Reported(d) /\ HeldSizes(d)
        /\ Appears(d) /\ Disappears(d)
    BY <1>1, <2>1 DEF Followed
  <2>3. task[d] # "none" <=> refresh[d] \in {"running", "dirty"}
    BY ContextTypes DEF Context, InFlight
  <2>4. \/ /\ task[d] = "done" /\ task'[d] = "none"
           /\ refresh[d] = "running" => refresh'[d] = "idle"
           /\ refresh[d] = "dirty" => refresh'[d] = "pending"
        \/ task[d] = "none" /\ refresh[d] \in {"pending", "overdue"}
           /\ refresh'[d] = "running" /\ task'[d] = "queued"
        \/ task' = task /\ refresh[d] = "pending" /\ refresh'[d] = "overdue"
    BY <1>4, <2>3, ContextTypes DEF DrainDone, Fire, Expire, Completed
  <2>5. BeforeScan(d)' /\ Registered(d)' /\ Reported(d)' /\ HeldSizes(d)'
    BY <1>1, <1>2, <2>2, <2>3, <2>4 DEF BeforeScan, Registered, Reported, HeldSizes
  <2>6. Appears(d)' /\ Disappears(d)'
    BY <1>1, <1>2, <2>2, <2>3, <2>4 DEF Appears, Disappears, Wanted
  <2>7. QED BY <2>5, <2>6
<1>5. QED BY <1>3, <1>4

LEMMA ReadFollowed ==
  ASSUME Context, NEW d \in Dirs, Followed(d), NEW e \in Dirs, ReadSize(e) \/ ReadCheckout(e)
  PROVE  Followed(d)'
<1>1. UNCHANGED <<fs, phase, registering, completing, projects, notify, buffered, refresh, candidate, discovered,
                  walks, scan, unread, found, app, inbox, tree, exposed>>
  BY DEF ReadSize, ReadCheckout, scanVars, appVars
<1>2. SameMail(d) /\ (Noticed(d)' <=> Noticed(d))
  BY <1>1, MailUnchanged DEF Noticed
<1>3. CASE ReadCheckout(e) \/ e # d
  <2>1. task'[d] = task[d]
    BY <1>3, ContextTypes DEF ReadSize, ReadCheckout
  <2>2. SameDir(d)
    BY <1>1, <1>2, <2>1 DEF SameDir
  <2>3. QED BY <1>2, <2>2, FollowedIfSame
<1>4. CASE ReadSize(e) /\ e = d
  <2>1. SUFFICES ASSUME d \notin exposed'
                 PROVE  /\ BeforeScan(d)' /\ Registered(d)' /\ Reported(d)' /\ HeldSizes(d)'
                        /\ Appears(d)' /\ Disappears(d)'
    BY FollowedParts
  <2>2. /\ BeforeScan(d) /\ Registered(d) /\ Reported(d) /\ HeldSizes(d)
        /\ Appears(d) /\ Disappears(d)
    BY <1>1, <2>1 DEF Followed
  <2>3. refresh[d] \in {"running", "dirty"}
    BY <1>4, ContextTypes DEF ReadSize, Context, InFlight
  <2>4. task[d] = "queued" /\ task'[d] = IF fs[d] = "gone" THEN "empty" ELSE "full"
    BY <1>4, ContextTypes DEF ReadSize
  <2>5. BeforeScan(d)' /\ Registered(d)' /\ Reported(d)' /\ HeldSizes(d)'
    BY <1>1, <1>2, <2>2, <2>4 DEF BeforeScan, Registered, Reported, HeldSizes
  <2>6. Appears(d)' /\ Disappears(d)'
    BY <1>1, <2>3, <2>4 DEF Appears, Disappears, Wanted
  <2>7. QED BY <2>5, <2>6
<1>5. QED BY <1>3, <1>4

LEMMA SendSizeFollowed ==
  ASSUME Context, NEW d \in Dirs, Followed(d), NEW e \in Dirs, SendSize(e)
  PROVE  Followed(d)'
<1>1. /\ UNCHANGED <<fs, phase, registering, completing, projects, notify, buffered, refresh, candidate,
                     discovered, walks, scan, unread, found, app, tree, exposed>>
      /\ task[e] \in {"empty", "full"} /\ inbox' = Append(inbox, Size(e, task[e] = "full"))
  BY DEF SendSize, scanVars
<1>2. Noticed(d)' <=> Noticed(d)
  BY <1>1 DEF Noticed
<1>3. CASE e # d
  <2>1. task'[d] = task[d]
    BY <1>3, ContextTypes DEF SendSize
  <2>2. \/ Size(e, task[e] = "full") = Size(e, TRUE)
        \/ Size(e, task[e] = "full") = Size(e, FALSE)
    BY <1>1 DEF Size
  <2>3. SameMail(d)
    BY <1>1, <1>3, <2>2, Letters, LettersOfOthers, MailOfOthersSent DEF About, Context
  <2>4. SameDir(d)
    BY <1>1, <1>2, <2>1 DEF SameDir
  <2>5. QED BY <2>3, <2>4, FollowedIfSame
<1>4. CASE e = d
  <2>1. SUFFICES ASSUME d \notin exposed'
                 PROVE  /\ BeforeScan(d)' /\ Registered(d)' /\ Reported(d)' /\ HeldSizes(d)'
                        /\ Appears(d)' /\ Disappears(d)'
    BY FollowedParts
  <2>2. /\ BeforeScan(d) /\ Registered(d) /\ Reported(d) /\ HeldSizes(d)
        /\ Appears(d) /\ Disappears(d)
    BY <1>1, <2>1 DEF Followed
  <2>3. refresh[d] \in {"running", "dirty"} /\ d \in projects
    BY <1>1, <1>4, <2>2, ContextTypes DEF Context, InFlight, Registered
  <2>4. scan = "complete" /\ tree[d] # "absent"
    BY <2>2, <2>3, ContextTypes DEF BeforeScan, Registered
  <2>5. task'[d] = "done"
    BY <1>4, ContextTypes DEF SendSize
  <2>6. BeforeScan(d)' /\ Registered(d)' /\ Reported(d)' /\ HeldSizes(d)'
    BY <1>1, <1>2, <2>2, <2>3, <2>4, <2>5 DEF BeforeScan, Registered, Reported, HeldSizes
  <2>7. CASE task[d] = "full"
    <3>1. inbox' = Append(inbox, Size(d, TRUE))
      BY <1>1, <1>4, <2>7 DEF Size
    <3>2. Sent(inbox', Size(d, TRUE))
      BY <3>1, Letters, MailSent DEF Context, About
    <3>3. Appears(d)'
      BY <1>1, <2>4, <3>2 DEF Appears
    <3>4. Disappears(d)'
      BY <1>1, <1>2, <2>2, <2>7 DEF Disappears, HeldSizes, Wanted
    <3>5. QED BY <2>6, <3>3, <3>4
  <2>8. CASE task[d] = "empty"
    <3>1. inbox' = Append(inbox, Size(d, FALSE))
      BY <1>1, <1>4, <2>8 DEF Size
    <3>2. /\ SentAfter(inbox', Size(d, FALSE), {Size(d, TRUE), Discovery(d)})
          /\ Sent(inbox, Size(d, TRUE)) => Sent(inbox', Size(d, TRUE))
          /\ Sent(inbox, Discovery(d)) => Sent(inbox', Discovery(d))
      BY <3>1, EmptySent DEF Context
    <3>3. Appears(d)'
      BY <1>1, <1>2, <2>2, <2>8, <3>2 DEF Appears, Wanted
    <3>4. Disappears(d)'
      BY <2>5, <3>2 DEF Disappears
    <3>5. QED BY <2>6, <3>3, <3>4
  <2>9. QED BY <1>1, <1>4, <2>7, <2>8
<1>5. QED BY <1>3, <1>4

LEMMA ProbeFollowed ==
  ASSUME Context, NEW d \in Dirs, Followed(d), NEW e \in Dirs, Due(e) \/ Probe(e)
  PROVE  Followed(d)'
<1>1. /\ UNCHANGED <<fs, phase, registering, completing, projects, notify, buffered, refresh, task, walks, scan,
                     unread, found, app, tree, exposed>>
  BY DEF Due, Probe, scanVars, appVars
<1>2. Noticed(d)' <=> Noticed(d)
  BY <1>1 DEF Noticed
<1>3. CASE e # d
  <2>1. candidate'[d] = candidate[d] /\ (d \in discovered' <=> d \in discovered)
    <3>1. candidate'[d] = candidate[d]
      BY <1>3, ContextTypes DEF Due, Probe
    <3>2. discovered' \in {discovered, discovered \ {e}, discovered \cup {e}}
      BY DEF Due, Probe, Forgotten
    <3>3. QED BY <1>3, <3>1, <3>2
  <2>2. SameMail(d)
    <3>1. CASE inbox' = inbox
      BY <3>1, MailUnchanged
    <3>2. CASE inbox' = Append(inbox, Size(e, FALSE))
      BY <1>3, <3>2, Letters, LettersOfOthers, MailOfOthersSent DEF About, Context
    <3>3. CASE inbox' = inbox \o <<Discovery(e), Size(e, TRUE)>>
      <4>1. Discovery(e) \in Messages /\ Size(e, TRUE) \in Messages
            /\ Discovery(e) \notin About(d) /\ Size(e, TRUE) \notin About(d)
        BY <1>3, Letters, LettersOfOthers DEF About
      <4>2. inbox \in Seq(Messages)
        BY ContextTypes
      <4>3. inbox \o <<Discovery(e), Size(e, TRUE)>> = Append(Append(inbox, Discovery(e)), Size(e, TRUE))
        BY ONLY <4>1, <4>2, SentTogether
      <4>4. inbox' = Append(Append(inbox, Discovery(e)), Size(e, TRUE))
        BY ONLY <3>3, <4>3
      <4>5. QED BY <4>1, <4>2, <4>4, PairOfOthersSent
    <3>4. QED BY <3>1, <3>2, <3>3 DEF Due, Probe, Discovery, appVars
  <2>3. SameDir(d)
    BY <1>1, <1>2, <2>1 DEF SameDir
  <2>4. QED BY <2>2, <2>3, FollowedIfSame
<1>4. CASE e = d
  <2>1. SUFFICES ASSUME d \notin exposed'
                 PROVE  /\ BeforeScan(d)' /\ Registered(d)' /\ Reported(d)' /\ HeldSizes(d)'
                        /\ Appears(d)' /\ Disappears(d)'
    BY FollowedParts
  <2>2. /\ BeforeScan(d) /\ Registered(d) /\ Reported(d) /\ HeldSizes(d)
        /\ Appears(d) /\ Disappears(d)
    BY <1>1, <2>1 DEF Followed
  <2>3. scan = "complete"
    <3>1. candidate[d] # "no"
      BY <1>4 DEF Due, Probe
    <3>2. QED BY <2>2, <3>1 DEF Context, Starting, BeforeScan
  <2>4. BeforeScan(d)' /\ Registered(d)' /\ HeldSizes(d)'
    BY <1>1, <1>2, <2>2, <2>3 DEF BeforeScan, Registered, HeldSizes
  <2>5. CASE Due(e)
    <3>1. candidate'[d] = "due" /\ candidate[d] = "waiting" /\ UNCHANGED <<discovered, inbox>>
      BY <1>4, <2>5, ContextTypes DEF Due, appVars
    <3>2. Reported(d)' /\ Appears(d)' /\ Disappears(d)'
      BY <1>1, <1>2, <2>2, <3>1 DEF Reported, Appears, Disappears, Wanted
    <3>3. QED BY <2>4, <3>2
  <2>6. CASE Probe(e) /\ fs[d] = "gone"
    <3>1. d \notin discovered' /\ inbox' = Append(inbox, Size(d, FALSE))
      BY <1>4, <2>6 DEF Probe, Forgotten
    <3>2. SentAfter(inbox', Size(d, FALSE), {Size(d, TRUE), Discovery(d)})
      BY <3>1, EmptySent DEF Context
    <3>3. Reported(d)' /\ Appears(d)'
      BY <1>1, <2>6, <3>1 DEF Reported, Appears
    <3>4. Disappears(d)'
      BY <1>1, <1>2, <2>2, <2>6, <3>2 DEF Disappears, HeldSizes, Wanted
    <3>5. QED BY <2>4, <3>3, <3>4
  <2>7. CASE Probe(e) /\ fs[d] = "project" /\ d \notin discovered
    <3>1. inbox' = inbox \o <<Discovery(d), Size(d, TRUE)>>
      BY <1>4, <2>7 DEF Probe, Discovery
    <3>2. /\ Sent(inbox', Discovery(d)) /\ Sent(inbox', Size(d, TRUE))
          /\ SentAfter(inbox', Size(d, TRUE), {Size(d, FALSE)})
      <4>1. Discovery(d) \in Messages /\ Size(d, TRUE) \in Messages
        BY Letters
      <4>2. inbox \in Seq(Messages)
        BY ContextTypes
      <4>3. inbox \o <<Discovery(d), Size(d, TRUE)>> = Append(Append(inbox, Discovery(d)), Size(d, TRUE))
        BY ONLY <4>1, <4>2, SentTogether
      <4>4. inbox' = Append(Append(inbox, Discovery(d)), Size(d, TRUE))
        BY ONLY <3>1, <4>3
      <4>5. QED BY <4>2, <4>4, PairSent
    <3>3. Reported(d)' /\ Appears(d)' /\ Disappears(d)'
      BY <1>1, <2>7, <3>2 DEF Reported, Appears, Disappears
    <3>4. QED BY <2>4, <3>3
  <2>8. CASE Probe(e) /\ fs[d] # "gone" /\ ~(fs[d] = "project" /\ d \notin discovered)
    <3>1. UNCHANGED <<discovered, inbox>>
      BY <1>4, <2>8 DEF Probe
    <3>2. Reported(d)' /\ Appears(d)' /\ Disappears(d)'
      BY <1>1, <1>2, <2>2, <2>8, <3>1 DEF Reported, Appears, Disappears, Wanted
    <3>3. QED BY <2>4, <3>2
  <2>9. QED BY <2>5, <2>6, <2>7, <2>8
<1>5. QED BY <1>3, <1>4

LEMMA WalkFollowed ==
  ASSUME Context, NEW d \in Dirs, Followed(d), NEW e \in Dirs, StartWalk(e) \/ SendWalk(e)
  PROVE  Followed(d)'
<1>1. /\ UNCHANGED <<fs, phase, registering, completing, projects, notify, buffered, refresh, candidate,
                     discovered, task, scan, unread, found, app, tree, exposed>>
  BY DEF StartWalk, SendWalk, watcherVars, scanVars, appVars
<1>2. Noticed(d)' <=> Noticed(d)
  BY <1>1 DEF Noticed
<1>3. CASE e # d
  <2>1. d \in walks' <=> d \in walks
    BY <1>3 DEF StartWalk, SendWalk
  <2>2. CASE StartWalk(e)
    BY <1>1, <1>2, <2>1, <2>2, MailUnchanged, FollowedIfSame DEF StartWalk, appVars, SameDir
  <2>3. CASE SendWalk(e)
    <3>1. inbox' = Append(inbox, Size(e, TRUE))
      BY <2>3 DEF SendWalk
    <3>2. Size(e, TRUE) \in Messages /\ Size(e, TRUE) \notin About(d)
      BY <1>3, Letters, LettersOfOthers DEF About
    <3>3. SameMail(d)
      BY <3>1, <3>2, MailOfOthersSent DEF Context
    <3>4. QED BY <1>1, <1>2, <2>1, <3>3, FollowedIfSame DEF SameDir
  <2>4. QED BY <2>2, <2>3
<1>4. CASE e = d
  <2>1. SUFFICES ASSUME d \notin exposed'
                 PROVE  /\ BeforeScan(d)' /\ Registered(d)' /\ Reported(d)' /\ HeldSizes(d)'
                        /\ Appears(d)' /\ Disappears(d)'
    BY FollowedParts
  <2>2. /\ BeforeScan(d) /\ Registered(d) /\ Reported(d) /\ HeldSizes(d)
        /\ Appears(d) /\ Disappears(d)
    BY <1>1, <2>1 DEF Followed
  <2>3. fs[d] # "gone"
    BY <1>4, <2>2 DEF StartWalk, SendWalk, HeldSizes
  <2>4. /\ Sent(inbox', Discovery(d)) <=> Sent(inbox, Discovery(d))
        /\ Sent(inbox', Size(d, FALSE)) <=> Sent(inbox, Size(d, FALSE))
        /\ Sent(inbox, Size(d, TRUE)) => Sent(inbox', Size(d, TRUE))
        /\ SentAfter(inbox, Size(d, TRUE), {Size(d, FALSE)}) => SentAfter(inbox', Size(d, TRUE), {Size(d, FALSE)})
    <3>1. CASE StartWalk(e)
      BY <3>1 DEF StartWalk, appVars
    <3>2. CASE SendWalk(e)
      <4>1. inbox' = Append(inbox, Size(d, TRUE))
        BY <1>4, <3>2 DEF SendWalk
      <4>2. QED BY <4>1, FullSent DEF Context
    <3>3. QED BY <3>1, <3>2
  <2>5. BeforeScan(d)' /\ Registered(d)' /\ Reported(d)' /\ HeldSizes(d)'
    BY <1>1, <1>2, <2>2, <2>3, <2>4 DEF BeforeScan, Registered, Reported, HeldSizes
  <2>6. Appears(d)' /\ Disappears(d)'
    BY <1>1, <1>2, <2>2, <2>3, <2>4 DEF Appears, Disappears, Wanted
  <2>7. QED BY <2>5, <2>6
<1>5. QED BY <1>3, <1>4

LEMMA ScanFollowed ==
  ASSUME Context, NEW d \in Dirs, Followed(d), SendScan \/ \E e \in Dirs : ScanDir(e)
  PROVE  Followed(d)'
<1>1. /\ UNCHANGED <<fs, phase, registering, completing, projects, notify, buffered, refresh, candidate,
                     discovered, task, walks, app, tree, exposed>>
  BY DEF SendScan, ScanDir, watcherVars, appVars
<1>2. SameMail(d)
  <2>1. CASE SendScan
    <3>1. inbox' = Append(inbox, ScanResult)
      BY <2>1 DEF SendScan, ScanResult
    <3>2. ScanResult \in Messages /\ ScanResult \notin About(d)
      BY Letters DEF About
    <3>3. QED BY <3>1, <3>2, MailOfOthersSent DEF Context
  <2>2. CASE \E e \in Dirs : ScanDir(e)
    BY <2>2, MailUnchanged DEF ScanDir, appVars
  <2>3. QED BY <2>1, <2>2
<1>3. Sent(inbox', Discovery(d)) <=> Sent(inbox, Discovery(d))
  BY <1>2 DEF SameMail, About
<1>4. Noticed(d)' <=> Noticed(d)
  BY <1>1 DEF Noticed
<1>5. scan # "complete" /\ scan' # "complete" /\ found \cap unread = {}
  BY DEF SendScan, ScanDir, Context, ScanOnce, scanVars
<1>6. d \notin unread' => \/ d \notin unread /\ (d \in found' <=> d \in found)
                          \/ d \in found' <=> fs[d] = "project"
  <2>1. CASE SendScan
    BY <2>1 DEF SendScan
  <2>2. CASE \E e \in Dirs : ScanDir(e)
    <3>1. PICK e \in Dirs : ScanDir(e)
      BY <2>2
    <3>2. CASE e = d
      BY <1>5, <3>1, <3>2 DEF ScanDir
    <3>3. CASE e # d
      BY <3>1, <3>3 DEF ScanDir
    <3>4. QED BY <3>2, <3>3
  <2>3. QED BY <2>1, <2>2
<1>7. SUFFICES ASSUME d \notin exposed'
               PROVE  /\ BeforeScan(d)' /\ Registered(d)' /\ Reported(d)' /\ HeldSizes(d)'
                      /\ Appears(d)' /\ Disappears(d)'
  BY FollowedParts
<1>8. BeforeScan(d) /\ Registered(d) /\ Reported(d) /\ HeldSizes(d)
  BY <1>1, <1>7 DEF Followed
<1>9. BeforeScan(d)' /\ Registered(d)' /\ HeldSizes(d)' /\ Appears(d)' /\ Disappears(d)'
  BY <1>1, <1>3, <1>4, <1>5, <1>6, <1>8 DEF BeforeScan, Registered, HeldSizes, Appears, Disappears
<1>10. Reported(d)'
  BY <1>1, <1>5, <1>8 DEF Context, Starting, BeforeScan, Reported
<1>11. QED BY <1>9, <1>10

\* The tree of a scan that is applied shows what the disk holds, or an event says otherwise.
LEMMA ScanResultFollowed ==
  ASSUME Context, NEW d \in Dirs, Followed(d), HandleMessage, Head(inbox) = ScanResult
  PROVE  Followed(d)'
<1>0. Head(inbox).type = "ScanResult"
  BY DEF ScanResult
<1>1. /\ UNCHANGED <<fs, phase, projects, notify, buffered, refresh, candidate, discovered, task, walks, unread,
                     found, exposed>>
      /\ HandleScanResult /\ inbox # << >> /\ inbox' = Tail(inbox)
  BY <1>0 DEF HandleMessage
<1>2. Noticed(d)' <=> Noticed(d)
  BY <1>1 DEF Noticed
<1>3. SUFFICES ASSUME d \notin exposed'
               PROVE  /\ BeforeScan(d)' /\ Registered(d)' /\ Reported(d)' /\ HeldSizes(d)'
                      /\ Appears(d)' /\ Disappears(d)'
  BY FollowedParts
<1>4. BeforeScan(d) /\ Registered(d) /\ HeldSizes(d)
  BY <1>1, <1>3 DEF Followed
<1>5. scan = "sent" /\ unread = {}
  <2>1. Sent(inbox, ScanResult)
    BY <1>1, MailRead DEF Context
  <2>2. QED BY <2>1 DEF Context, ScanOnce
<1>6. /\ phase # "ready" /\ d \notin registering \cup projects /\ ~Sent(inbox, Discovery(d))
      /\ (d \in found <=> fs[d] = "project") \/ Noticed(d)
  BY <1>4, <1>5 DEF BeforeScan
<1>7. refresh[d] = "idle" /\ candidate[d] = "no" /\ discovered = {} /\ task[d] = "none"
  BY <1>6, ContextTypes DEF Context, Starting, InFlight
<1>8. /\ tree'[d] = IF d \in found THEN "visible" ELSE "absent"
      /\ registering' = registering \cup found /\ scan' = "complete"
  BY <1>1 DEF HandleScanResult
<1>9. ~Sent(inbox', Discovery(d))
  BY <1>1, <1>6, MailRead DEF Context, About
<1>10. BeforeScan(d)' /\ Registered(d)' /\ Reported(d)' /\ HeldSizes(d)'
  BY <1>1, <1>2, <1>4, <1>6, <1>7, <1>8 DEF BeforeScan, Registered, Reported, HeldSizes
<1>11. Appears(d)' /\ Disappears(d)'
  BY <1>1, <1>2, <1>6, <1>7, <1>8, <1>9 DEF Appears, Disappears
<1>12. QED BY <1>10, <1>11

LEMMA DiscoveryFollowed ==
  ASSUME Context, NEW d \in Dirs, Followed(d), HandleMessage, Head(inbox) = Discovery(d)
  PROVE  Followed(d)'
<1>0. Head(inbox).type = "ProjectDiscovered" /\ Head(inbox).dir = d
  BY DEF Discovery
<1>h. HandleDiscovered(d)
  BY <1>0 DEF HandleMessage
<1>1. /\ UNCHANGED <<fs, phase, projects, notify, buffered, refresh, candidate, discovered, task, walks, unread,
                     found, exposed, completing, scan>>
      /\ inbox # << >> /\ inbox' = Tail(inbox)
      /\ IF tree[d] = "absent"
         THEN tree' = [tree EXCEPT ![d] = "visible"] /\ registering' = registering \cup {d}
         ELSE UNCHANGED <<tree, registering>>
  BY <1>h DEF HandleMessage, HandleDiscovered
<1>2. Noticed(d)' <=> Noticed(d)
  BY <1>1 DEF Noticed
<1>3. SUFFICES ASSUME d \notin exposed'
               PROVE  /\ BeforeScan(d)' /\ Registered(d)' /\ Reported(d)' /\ HeldSizes(d)'
                      /\ Appears(d)' /\ Disappears(d)'
  BY FollowedParts
<1>4. /\ BeforeScan(d) /\ Registered(d) /\ Reported(d) /\ HeldSizes(d)
      /\ Appears(d) /\ Disappears(d)
  BY <1>1, <1>3 DEF Followed
<1>5. /\ Sent(inbox, Discovery(d))
      /\ Sent(inbox, Size(d, TRUE)) <=> Sent(inbox', Size(d, TRUE))
      /\ Sent(inbox, Size(d, FALSE)) <=> Sent(inbox', Size(d, FALSE))
      /\ SentAfter(inbox, Size(d, TRUE), {Size(d, FALSE)}) => SentAfter(inbox', Size(d, TRUE), {Size(d, FALSE)})
      /\ SentAfter(inbox, Size(d, FALSE), {Size(d, TRUE), Discovery(d)})
           => SentAfter(inbox', Size(d, FALSE), {Size(d, TRUE), Discovery(d)})
      /\ Sent(inbox', Discovery(d)) => Sent(inbox, Discovery(d))
  <2>1. Head(inbox) # Size(d, TRUE) /\ Head(inbox) # Size(d, FALSE)
    BY Letters
  <2>2. About(d) = {Discovery(d), Size(d, TRUE), Size(d, FALSE)} /\ TypeOK
    BY DEF About, Context
  <2>3. QED BY <1>1, <2>1, <2>2, MailRead
<1>6. scan = "complete"
  BY <1>4, <1>5 DEF BeforeScan
<1>7. tree'[d] = IF tree[d] = "absent" THEN "visible" ELSE tree[d]
  BY <1>1, ContextTypes
<1>8. BeforeScan(d)' /\ Registered(d)' /\ HeldSizes(d)'
  BY <1>1, <1>2, <1>4, <1>6, <1>7 DEF BeforeScan, Registered, HeldSizes
<1>9. Reported(d)'
  BY <1>1, <1>4, <1>5, <1>7 DEF Reported
<1>10. Appears(d)' /\ Disappears(d)'
  BY <1>1, <1>2, <1>4, <1>5, <1>7 DEF Appears, Disappears, Wanted
<1>11. QED BY <1>8, <1>9, <1>10

LEMMA FullSizeFollowed ==
  ASSUME Context, NEW d \in Dirs, Followed(d), HandleMessage, Head(inbox) = Size(d, TRUE)
  PROVE  Followed(d)'
<1>0. Head(inbox).type = "DiskUsage" /\ Head(inbox).dir = d /\ Head(inbox).full = TRUE
  BY DEF Size
<1>h. HandleSize(d, TRUE)
  BY <1>0 DEF HandleMessage
<1>1. /\ UNCHANGED <<fs, phase, projects, notify, buffered, refresh, candidate, discovered, task, walks, unread,
                     found, exposed, registering, completing, scan>>
      /\ inbox # << >> /\ inbox' = Tail(inbox)
  BY <1>h DEF HandleMessage, HandleSize
<1>2. Noticed(d)' <=> Noticed(d)
  BY <1>1 DEF Noticed
<1>3. SUFFICES ASSUME d \notin exposed'
               PROVE  /\ BeforeScan(d)' /\ Registered(d)' /\ Reported(d)' /\ HeldSizes(d)'
                      /\ Appears(d)' /\ Disappears(d)'
  BY FollowedParts
<1>4. /\ BeforeScan(d) /\ Registered(d) /\ Reported(d) /\ HeldSizes(d)
      /\ Appears(d) /\ Disappears(d)
  BY <1>1, <1>3 DEF Followed
<1>5. /\ Sent(inbox, Size(d, TRUE))
      /\ Sent(inbox, Discovery(d)) <=> Sent(inbox', Discovery(d))
      /\ Sent(inbox, Size(d, FALSE)) <=> Sent(inbox', Size(d, FALSE))
      /\ SentAfter(inbox, Size(d, TRUE), {Size(d, FALSE)})
           => SentAfter(inbox', Size(d, TRUE), {Size(d, FALSE)}) \/ ~Sent(inbox', Size(d, FALSE))
      /\ SentAfter(inbox, Size(d, FALSE), {Size(d, TRUE), Discovery(d)})
           => SentAfter(inbox', Size(d, FALSE), {Size(d, TRUE), Discovery(d)})
  <2>1. Head(inbox) # Discovery(d) /\ Head(inbox) # Size(d, FALSE)
    BY Letters
  <2>2. About(d) = {Discovery(d), Size(d, TRUE), Size(d, FALSE)} /\ TypeOK
    BY DEF About, Context
  <2>3. QED BY <1>1, <2>1, <2>2, MailRead
<1>6. tree'[d] = IF tree[d] = "absent" THEN "absent" ELSE "visible"
  BY <1>h, ContextTypes DEF HandleSize
<1>7. BeforeScan(d)' /\ Registered(d)' /\ Reported(d)' /\ HeldSizes(d)'
  BY <1>1, <1>2, <1>4, <1>5, <1>6 DEF BeforeScan, Registered, Reported, HeldSizes
<1>8. Appears(d)' /\ Disappears(d)'
  BY <1>1, <1>2, <1>4, <1>5, <1>6 DEF Appears, Disappears, Wanted
<1>9. QED BY <1>7, <1>8

LEMMA EmptySizeFollowed ==
  ASSUME Context, NEW d \in Dirs, Followed(d), HandleMessage, Head(inbox) = Size(d, FALSE)
  PROVE  Followed(d)'
<1>0. Head(inbox).type = "DiskUsage" /\ Head(inbox).dir = d /\ Head(inbox).full = FALSE
  BY DEF Size
<1>h. HandleSize(d, FALSE)
  BY <1>0 DEF HandleMessage
<1>1. /\ UNCHANGED <<fs, phase, projects, notify, buffered, refresh, candidate, discovered, task, walks, unread,
                     found, exposed, registering, completing, scan>>
      /\ inbox # << >> /\ inbox' = Tail(inbox)
  BY <1>h DEF HandleMessage, HandleSize
<1>2. Noticed(d)' <=> Noticed(d)
  BY <1>1 DEF Noticed
<1>3. SUFFICES ASSUME d \notin exposed'
               PROVE  /\ BeforeScan(d)' /\ Registered(d)' /\ Reported(d)' /\ HeldSizes(d)'
                      /\ Appears(d)' /\ Disappears(d)'
  BY FollowedParts
<1>4. /\ BeforeScan(d) /\ Registered(d) /\ Reported(d) /\ HeldSizes(d)
      /\ Appears(d) /\ Disappears(d)
  BY <1>1, <1>3 DEF Followed
<1>5. /\ Sent(inbox, Size(d, FALSE))
      /\ Sent(inbox, Discovery(d)) <=> Sent(inbox', Discovery(d))
      /\ Sent(inbox, Size(d, TRUE)) <=> Sent(inbox', Size(d, TRUE))
      /\ SentAfter(inbox, Size(d, TRUE), {Size(d, FALSE)}) => SentAfter(inbox', Size(d, TRUE), {Size(d, FALSE)})
      /\ SentAfter(inbox, Size(d, FALSE), {Size(d, TRUE), Discovery(d)})
           => \/ SentAfter(inbox', Size(d, FALSE), {Size(d, TRUE), Discovery(d)})
              \/ ~Sent(inbox', Size(d, TRUE)) /\ ~Sent(inbox', Discovery(d))
  <2>1. Head(inbox) # Discovery(d) /\ Head(inbox) # Size(d, TRUE)
    BY Letters
  <2>2. About(d) = {Discovery(d), Size(d, TRUE), Size(d, FALSE)} /\ TypeOK
    BY DEF About, Context
  <2>3. QED BY <1>1, <2>1, <2>2, MailRead
<1>6. tree'[d] = IF tree[d] = "absent" THEN "absent" ELSE IF fs[d] = "gone" THEN "deleted" ELSE tree[d]
  BY <1>h, ContextTypes DEF HandleSize
<1>7. BeforeScan(d)' /\ Registered(d)' /\ Reported(d)' /\ HeldSizes(d)'
  BY <1>1, <1>2, <1>4, <1>5, <1>6 DEF BeforeScan, Registered, Reported, HeldSizes
<1>8. Appears(d)' /\ Disappears(d)'
  BY <1>1, <1>2, <1>4, <1>5, <1>6 DEF Appears, Disappears, Wanted
<1>9. QED BY <1>7, <1>8

LEMMA MessageFollowed ==
  ASSUME Context, NEW d \in Dirs, Followed(d), HandleMessage
  PROVE  Followed(d)'
<1>1. inbox # << >> /\ inbox' = Tail(inbox) /\ Head(inbox) \in Messages
  BY ContextTypes DEF HandleMessage
<1>2. CASE Head(inbox) = ScanResult
  BY <1>2, ScanResultFollowed
<1>3. CASE Head(inbox) \in About(d)
  BY <1>3, DiscoveryFollowed, FullSizeFollowed, EmptySizeFollowed DEF About
\* A message about another directory.
<1>4. CASE Head(inbox) # ScanResult /\ Head(inbox) \notin About(d)
  <2>1. PICK e \in Dirs : \/ Head(inbox) = Discovery(e)
                          \/ \E full \in BOOLEAN : Head(inbox) = Size(e, full)
    BY <1>1, <1>4 DEF Messages, ScanResult, Discovery, Size
  <2>2. e # d
    BY <1>4, <2>1 DEF About
  <2>3. /\ UNCHANGED <<fs, phase, projects, notify, buffered, refresh, candidate, discovered, task, walks, unread,
                       found, exposed>>
    BY DEF HandleMessage
  <2>4. UNCHANGED <<completing, scan>> /\ tree'[d] = tree[d] /\ (d \in registering' <=> d \in registering)
    <3>1. CASE Head(inbox) = Discovery(e)
      <4>1. Head(inbox).type = "ProjectDiscovered" /\ Head(inbox).dir = e
        BY <3>1 DEF Discovery
      <4>2. HandleDiscovered(e)
        BY <4>1 DEF HandleMessage
      <4>3. QED BY <2>2, <4>2, ContextTypes DEF HandleDiscovered
    <3>2. CASE \E full \in BOOLEAN : Head(inbox) = Size(e, full)
      <4>1. PICK full \in BOOLEAN : Head(inbox) = Size(e, full)
        BY <3>2
      <4>2. Head(inbox).type = "DiskUsage" /\ Head(inbox).dir = e /\ Head(inbox).full = full
        BY <4>1 DEF Size
      <4>3. HandleSize(e, full)
        BY <4>2 DEF HandleMessage
      <4>4. QED BY <2>2, <4>3, ContextTypes DEF HandleSize
    <3>3. QED BY <2>1, <3>1, <3>2
  <2>5. Noticed(d)' <=> Noticed(d)
    BY <2>3 DEF Noticed
  <2>6. SameDir(d)
    BY <2>3, <2>4, <2>5 DEF SameDir
  <2>7. SameMail(d)
    BY <1>1, <1>4, MailOfOthersRead DEF Context
  <2>8. QED BY <2>6, <2>7, FollowedIfSame
<1>5. QED BY <1>2, <1>3, <1>4

LEMMA RespawnFollowed ==
  ASSUME Context, NEW d \in Dirs, Followed(d), Respawn
  PROVE  Followed(d)'
<1>1. /\ UNCHANGED <<fs, registering, completing, walks, scan, unread, found, inbox, tree, exposed>>
      /\ app # "idle" /\ Watcher("initializing")
  BY DEF Respawn, scanVars
<1>2. /\ phase' = "initializing" /\ projects' = {} /\ discovered' = {}
      /\ refresh'[d] = "idle" /\ candidate'[d] = "no" /\ task'[d] = "none"
  BY <1>1, ContextTypes DEF Watcher
<1>3. scan # "complete" /\ phase = "unwatched" /\ ~Noticed(d)
  BY <1>1 DEF Context, Starting, Noticed
<1>4. d \notin exposed' => BeforeScan(d) /\ HeldSizes(d)
  BY <1>1 DEF Followed
<1>5. d \notin exposed' => /\ BeforeScan(d)' /\ Registered(d)' /\ Reported(d)' /\ HeldSizes(d)'
                           /\ Appears(d)' /\ Disappears(d)'
  BY <1>1, <1>2, <1>3, <1>4 DEF BeforeScan, Registered, Reported, HeldSizes, Appears, Disappears
<1>6. QED BY <1>5, FollowedParts

LEMMA RescanFollowed ==
  ASSUME Context, NEW d \in Dirs, Rescan
  PROVE  Followed(d)'
<1>1. /\ registering' = {} /\ completing' = FALSE /\ walks' = {} /\ scan' = "reading" /\ unread' = Dirs
      /\ inbox' = << >> /\ tree'[d] = "absent" /\ Watcher("unwatched")
  BY DEF Rescan
<1>2. /\ phase' = "unwatched" /\ projects' = {} /\ discovered' = {}
      /\ refresh'[d] = "idle" /\ candidate'[d] = "no" /\ task'[d] = "none"
  BY <1>1, ContextTypes DEF Watcher
<1>3. ~Sent(inbox', Discovery(d))
  BY <1>1 DEF Sent
<1>4. /\ BeforeScan(d)' /\ Registered(d)' /\ Reported(d)' /\ HeldSizes(d)'
      /\ Appears(d)' /\ Disappears(d)'
  BY <1>1, <1>2, <1>3 DEF BeforeScan, Registered, Reported, HeldSizes, Appears, Disappears
<1>5. QED BY <1>4, FollowedParts

LEMMA ReconfigureFollowed ==
  ASSUME Context, NEW d \in Dirs, Followed(d), Reconfigure
  PROVE  Followed(d)'
<1>1. /\ UNCHANGED <<fs, scan, unread, found, inbox, tree>> /\ Watcher("initializing") /\ completing' = TRUE
      /\ registering' = {e \in Dirs : tree[e] # "absent"}
      /\ walks' = walks \cup {e \in Dirs : task[e] = "full"}
  BY DEF Reconfigure, scanVars, appVars
<1>2. /\ phase' = "initializing" /\ projects' = {} /\ discovered' = {}
      /\ refresh'[d] = "idle" /\ candidate'[d] = "no" /\ task'[d] = "none"
  BY <1>1, ContextTypes DEF Watcher
<1>3. SUFFICES ASSUME d \notin exposed'
               PROVE  /\ BeforeScan(d)' /\ Registered(d)' /\ Reported(d)' /\ HeldSizes(d)'
                      /\ Appears(d)' /\ Disappears(d)'
  BY FollowedParts
\* Nothing about it is under way in the watcher that is replaced.
<1>4. /\ d \notin exposed /\ scan = "complete" /\ candidate[d] = "no" /\ refresh[d] = "idle"
      /\ \A e \in notify \cup buffered : e[1] # d
  BY <1>3 DEF Reconfigure
<1>5. ~Noticed(d)
  <2>1. <<d, "source">>[1] = d
    OBVIOUS
  <2>2. QED BY <1>4, <2>1 DEF Noticed
<1>6. task[d] = "none"
  BY <1>4, ContextTypes DEF Context, InFlight
<1>7. HeldSizes(d) /\ Appears(d) /\ Disappears(d)
  BY <1>4 DEF Followed
<1>8. BeforeScan(d)' /\ Registered(d)' /\ Reported(d)' /\ HeldSizes(d)'
  BY <1>1, <1>2, <1>4, <1>6, <1>7 DEF BeforeScan, Registered, Reported, HeldSizes
<1>9. Appears(d)' /\ Disappears(d)'
  BY <1>1, <1>2, <1>4, <1>5, <1>6, <1>7 DEF Appears, Disappears, Wanted
<1>10. QED BY <1>8, <1>9

LEMMA DismissFollowed ==
  ASSUME Context, NEW d \in Dirs, Followed(d), NEW e \in Dirs, Dismiss(e)
  PROVE  Followed(d)'
<1>1. /\ UNCHANGED <<fs, phase, registering, completing, projects, notify, buffered, refresh, candidate,
                     discovered, task, walks, scan, unread, found, inbox, exposed>>
      /\ tree[e] = "deleted" /\ tree' = [tree EXCEPT ![e] = "dismissed"]
  BY DEF Dismiss, watcherVars, scanVars
<1>2. Noticed(d)' <=> Noticed(d)
  BY <1>1 DEF Noticed
<1>3. tree'[d] = tree[d] \/ (tree[d] = "deleted" /\ tree'[d] = "dismissed")
  BY <1>1, ContextTypes
<1>4. d \notin exposed' => /\ BeforeScan(d)' /\ Registered(d)' /\ Reported(d)' /\ HeldSizes(d)'
                           /\ Appears(d)' /\ Disappears(d)'
  BY <1>1, <1>2, <1>3 DEF Followed, BeforeScan, Registered, Reported, HeldSizes, Appears, Disappears, Wanted
<1>5. QED BY <1>4, FollowedParts

LEMMA FollowedStep ==
  ASSUME Context, NEW d \in Dirs, Followed(d), [Next]_vars
  PROVE  Followed(d)'
<1>1. CASE Disk
  BY <1>1, DiskFollowed
<1>2. CASE DrainMessages \/ NotifyEvents
  BY <1>2, DrainMessagesFollowed, NotifyEventsFollowed
<1>3. CASE \E k \in Keys : DrainDone(k) \/ Fire(k) \/ Expire(k)
  BY <1>3, RefreshFollowed
<1>4. CASE \E e \in Dirs : Due(e) \/ Probe(e)
  BY <1>4, ProbeFollowed
<1>5. CASE \E e \in Dirs : ReadSize(e) \/ ReadCheckout(e)
  BY <1>5, ReadFollowed
<1>6. CASE \E e \in Dirs : SendSize(e)
  BY <1>6, SendSizeFollowed
<1>7. CASE \E e \in Dirs : StartWalk(e) \/ SendWalk(e)
  BY <1>7, WalkFollowed
<1>8. CASE SendScan \/ \E e \in Dirs : ScanDir(e)
  BY <1>8, ScanFollowed
<1>9. CASE HandleMessage
  BY <1>9, MessageFollowed
<1>10. CASE Respawn \/ Rescan \/ Reconfigure
  BY <1>10, RespawnFollowed, RescanFollowed, ReconfigureFollowed
<1>11. CASE \E e \in Dirs : Dismiss(e)
  BY <1>11, DismissFollowed
<1>12. CASE UNCHANGED vars
  <2>1. SameDir(d) /\ SameMail(d)
    BY <1>12 DEF vars, watcherVars, scanVars, appVars, SameDir, SameMail, Noticed
  <2>2. QED BY <2>1, FollowedIfSame
<1>13. QED
  BY <1>1, <1>2, <1>3, <1>4, <1>5, <1>6, <1>7, <1>8, <1>9, <1>10, <1>11, <1>12
     DEF Next, Loop, Time, Tasks, App

FollowInv == Starting /\ ScanOnce /\ \A d \in Dirs : Followed(d)

LEMMA FollowInit == Init => FollowInv
<1> SUFFICES ASSUME Init PROVE FollowInv
  OBVIOUS
<1>1. Starting
  BY DEF Init, Starting, Keys
<1>2. ScanOnce
  BY DEF Init, ScanOnce, Sent, SentOnce
<1>3. ASSUME NEW d \in Dirs PROVE Followed(d)
  <2>1. refresh[d] = "idle" /\ task[d] = "none" /\ tree[d] = "absent"
    BY DEF Init, Keys
  <2>2. BeforeScan(d)
    BY <2>1 DEF Init, BeforeScan, Sent
  <2>3. Registered(d) /\ Reported(d) /\ HeldSizes(d) /\ Appears(d) /\ Disappears(d)
    BY <2>1 DEF Init, Registered, Reported, HeldSizes, Appears, Disappears
  <2>4. QED BY <2>2, <2>3 DEF Followed
<1>4. QED BY <1>1, <1>2, <1>3 DEF FollowInv

LEMMA FollowStep == IInv /\ FollowInv /\ [Next]_vars => FollowInv'
<1> SUFFICES ASSUME IInv, FollowInv, [Next]_vars PROVE FollowInv'
  OBVIOUS
<1>1. Context
  BY DEF IInv, FollowInv, Context
<1>2. Starting' /\ ScanOnce'
  BY <1>1, StartingStep, ScanOnceStep DEF Context
<1>3. \A d \in Dirs : Followed(d)'
  BY <1>1, FollowedStep DEF FollowInv
<1>4. QED BY <1>2, <1>3 DEF FollowInv

\* README.md, "New projects will automatically appear and deleted projects will disappear":
\* for any number of directories and any bound of the channel, a directory about which
\* nothing is under way is in the tree if it holds a project and not if it is gone, unless a
\* change of it fell into one of the gaps.
THEOREM TreeFollows == Spec => []TreeFollowsDisk
<1>1. IInv /\ FollowInv => TreeFollowsDisk
  <2> SUFFICES ASSUME IInv, FollowInv, NEW d \in Dirs \ exposed, ~UnderWay(d)
               PROVE  /\ fs[d] = "project" => tree[d] = "visible"
                      /\ fs[d] = "gone" => tree[d] # "visible"
    BY DEF TreeFollowsDisk
  <2>1. Appears(d) /\ Disappears(d) /\ Context
    BY DEF FollowInv, Followed, IInv, Context
  <2>2. scan = "complete" /\ inbox = << >> /\ candidate[d] = "no" /\ refresh[d] = "idle"
        /\ \A e \in notify \cup buffered : e[1] # d
    BY DEF UnderWay
  <2>3. ~Noticed(d)
    <3>1. <<d, "source">>[1] = d
      OBVIOUS
    <3>2. QED BY <2>2, <3>1 DEF Noticed
  <2>4. \A m, S : ~Sent(inbox, m) /\ ~SentAfter(inbox, m, S)
    BY <2>2 DEF Sent, SentAfter
  <2>5. QED BY <2>1, <2>2, <2>3, <2>4 DEF Appears, Disappears, Wanted
<1>2. QED BY <1>1, InvInit, InvStep, FollowInit, FollowStep, PTL DEF Spec
=============================================================================
