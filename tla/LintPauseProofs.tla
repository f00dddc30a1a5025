-------------------------- MODULE LintPauseProofs --------------------------
(***************************************************************************)
(* Pauses.  The application sets the pause flags itself, sends the         *)
(* supervisor a message that sets them again, and writes a marker on disk  *)
(* which later scans read back: three records of one wish, updated at      *)
(* different times by two threads.  PauseInv says why they agree in the    *)
(* end, for any user, any scans and any failures: but for the projects     *)
(* whose marker the disk refused.                                          *)
(***************************************************************************)
EXTENDS LintRuntimeProofs

Places == 1..Len(queue)

LEMMA Grown ==
  ASSUME queue \in Seq(Msg), NEW m \in Msg, queue' = Append(queue, m)
  PROVE  /\ Len(queue) + 1 \in Places' /\ queue'[Len(queue) + 1] = m
         /\ \A i \in Places : i \in Places' /\ queue'[i] = queue[i] /\ i < Len(queue) + 1
         /\ \A i \in Places' : i \in Places \/ i = Len(queue) + 1
BY DEF Places

LEMMA Shrunk ==
  ASSUME queue \in Seq(Msg), queue # <<>>, queue' = Tail(queue)
  PROVE  /\ 1 \in Places /\ Head(queue) = queue[1]
         /\ \A i \in Places' : i + 1 \in Places /\ i + 1 # 1 /\ queue'[i] = queue[i + 1]
         /\ \A i \in Places : i # 1 => i - 1 \in Places' /\ queue'[i - 1] = queue[i]
BY DEF Places
-----------------------------------------------------------------------------
(* Flags, messages and markers agree on what the user wants.               *)

Flip(m) == m.kind \in {"Pause", "Resume"}
About(m, p) == m.kind \in {"PauseProject", "ResumeProject"} /\ p \in m.to

\* What the user last asked for p: the marker about to be written, or the one written.
Intended(p) == IF markerDue.project = p THEN markerDue.paused ELSE p \in marker

\* The disk refused the marker, and no other is about to be written.
Refused(p) == p \in unmarked /\ markerDue.project # p

\* Projects that have a worker, or will have once this request is handled.
Watched(p) ==
  \/ pc[p] # "none" /\ p \notin supStop /\ ~(supPc \in {"join", "drainJoin"} /\ p = supProject)
  \/ supPc \in {"reconcile", "join"} /\ p \in supSpawn

\* The last toggle on the channel is the user's last; without one the flag is right.
GlobalAgrees ==
  /\ \A i \in Places : Flip(queue[i]) =>
       \/ \E j \in Places : i < j /\ Flip(queue[j])
       \/ (queue[i].kind = "Pause") <=> wantPaused
  /\ (\E i \in Places : Flip(queue[i])) \/ (globallyPaused <=> wantPaused)
LastWins(p) ==
  \A i \in Places : About(queue[i], p) =>
    \/ \E j \in Places : i < j /\ About(queue[j], p)
    \/ (queue[i].kind = "PauseProject") <=> Intended(p)
ProjectAgrees(p) ==
  ~Refused(p) =>
    /\ LastWins(p)
    /\ Watched(p) => (\E i \in Places : About(queue[i], p)) \/ (p \in pausedProjects <=> Intended(p))

\* A scan that reads the markers before the one that is due comes before its toggle, too.
MarkerInTime ==
  \A p \in Projects : markerDue.project = p =>
    \A i \in Places : queue[i].kind \in {"Sync", "Register"} =>
      \E j \in Places : i < j /\ About(queue[j], p)

\* So does one that is being handled.
ReadInTime ==
  supPc \in Syncing => \A p \in Projects : markerDue.project = p => \E j \in Places : About(queue[j], p)
StopsWhileReconciling == supPc \in {"recv"} \cup Emitting => supStop = {}

PauseInv ==
  /\ GlobalAgrees /\ (\A p \in Projects : ProjectAgrees(p))
  /\ MarkerInTime /\ ReadInTime /\ StopsWhileReconciling

pauseWish == <<globallyPaused, pausedProjects, marker, unmarked, markerDue, wantPaused>>

\* Steps that neither talk nor listen, and start to watch no project.
LEMMA PauseQuiet ==
  ASSUME PauseInv, UNCHANGED <<queue, pauseWish>>, StopsWhileReconciling',
         supPc' \in Syncing => supPc \in Syncing,
         \A p \in Projects : Watched(p)' => Watched(p)
  PROVE  PauseInv'
<1>1. UNCHANGED <<queue, globallyPaused, pausedProjects, marker, unmarked, markerDue, wantPaused>>
  BY DEF pauseWish
<1>2. GlobalAgrees' /\ MarkerInTime'
  BY <1>1 DEF PauseInv, GlobalAgrees, MarkerInTime, Places, Flip, About
<1>3. ReadInTime'
  BY <1>1 DEF PauseInv, ReadInTime, Places, About
<1>4. ASSUME NEW p \in Projects PROVE ProjectAgrees(p)'
  <2>1. ProjectAgrees(p)
    BY DEF PauseInv
  <2>2. LastWins(p)' = LastWins(p) /\ Refused(p)' = Refused(p) /\ Intended(p)' = Intended(p)
    BY <1>1 DEF LastWins, Refused, Intended, Places, About
  <2>3. (\E i \in Places : About(queue[i], p)) = (\E i \in Places' : About(queue'[i], p))
    BY <1>1 DEF Places, About
  <2>4. QED BY <1>1, <2>1, <2>2, <2>3 DEF ProjectAgrees, About
<1>5. QED BY <1>2, <1>3, <1>4 DEF PauseInv

\* A message does not change what the others say of a project it is not about.
LEMMA SendElsewhere ==
  ASSUME PauseInv, queue \in Seq(Msg), NEW m \in Msg, queue' = Append(queue, m),
         NEW p \in Projects, ~About(m, p), Intended(p)' = Intended(p), Refused(p)' = Refused(p),
         p \in pausedProjects' <=> p \in pausedProjects, UNCHANGED <<supVars, pc>>
  PROVE  ProjectAgrees(p)'
<1>1. Watched(p)' = Watched(p)
  BY DEF Watched, supVars
<1>2. \A i \in Places : About(queue[i], p) => i \in Places' /\ About(queue'[i], p)
  BY Grown DEF About
<1>3. \A i \in Places' : About(queue'[i], p) => i \in Places /\ queue'[i] = queue[i]
  BY Grown DEF About
<1>4. ProjectAgrees(p)
  BY DEF PauseInv
<1>5. QED BY <1>1, <1>2, <1>3, <1>4 DEF ProjectAgrees, LastWins

LEMMA ReadGrown ==
  ASSUME PauseInv, queue \in Seq(Msg), NEW m \in Msg, queue' = Append(queue, m),
         UNCHANGED <<markerDue, supPc>>
  PROVE  ReadInTime'
<1>1. SUFFICES ASSUME supPc \in Syncing, NEW p \in Projects, markerDue.project = p
               PROVE  \E j \in Places' : About(queue'[j], p)
  BY DEF ReadInTime, About
<1>2. PICK j \in Places : About(queue[j], p)
  BY <1>1 DEF PauseInv, ReadInTime
<1>3. QED BY <1>2, Grown

\* Messages other than toggles.
LEMMA PauseSend ==
  ASSUME PauseInv, queue \in Seq(Msg), NEW m \in Msg, queue' = Append(queue, m),
         m.kind \notin {"Pause", "Resume", "PauseProject", "ResumeProject"},
         m.kind \in {"Sync", "Register"} => markerDue.project = NoProject,
         UNCHANGED <<pauseWish, supVars, pc>>
  PROVE  PauseInv'
<1>1. GlobalAgrees'
  BY Grown DEF PauseInv, GlobalAgrees, Flip, pauseWish
<1>2. ASSUME NEW p \in Projects PROVE ProjectAgrees(p)'
  BY SendElsewhere DEF Intended, Refused, pauseWish, About
<1>3. MarkerInTime'
  <2>1. SUFFICES ASSUME NEW p \in Projects, markerDue.project = p, NEW i \in Places',
                        queue'[i].kind \in {"Sync", "Register"}
                 PROVE  \E j \in Places' : i < j /\ About(queue'[j], p)
    BY DEF MarkerInTime, pauseWish, About
  <2>2. i # Len(queue) + 1
    BY <2>1, Grown, RuntimeAssumption
  <2>3. i \in Places /\ queue'[i] = queue[i]
    BY <2>1, <2>2, Grown
  <2>4. PICK j \in Places : i < j /\ About(queue[j], p)
    BY <2>1, <2>3 DEF PauseInv, MarkerInTime
  <2>5. QED BY <2>4, Grown
<1>4. StopsWhileReconciling'
  BY DEF PauseInv, StopsWhileReconciling, supVars
<1>5. ReadInTime'
  BY ReadGrown DEF pauseWish, supVars
<1>6. QED BY <1>1, <1>2, <1>3, <1>4, <1>5 DEF PauseInv

\* The user pauses or resumes everything.
LEMMA SendFlip ==
  ASSUME PauseInv, queue \in Seq(Msg), markerDue.project = NoProject,
         NEW kind \in {"Pause", "Resume"}, Send(kind, {}), wantPaused' = (kind = "Pause"),
         UNCHANGED <<pausedProjects, marker, unmarked, markerDue, supVars, pc>>
  PROVE  PauseInv'
<1> DEFINE m == [kind |-> kind, to |-> {}]
<1>1. m \in Msg /\ queue' = Append(queue, m) /\ m.kind = kind /\ m.to = {}
  BY DEF Send, Msg
<1> HIDE DEF m
<1>2. GlobalAgrees'
  <2>1. Len(queue) + 1 \in Places' /\ Flip(queue'[Len(queue) + 1])
    BY <1>1, Grown DEF Flip
  <2>2. \A i \in Places' : i < Len(queue) + 1 \/ queue'[i] = m
    BY <1>1, Grown
  <2>3. QED BY <1>1, <2>1, <2>2 DEF GlobalAgrees
<1>3. ASSUME NEW p \in Projects PROVE ProjectAgrees(p)'
  BY <1>1, SendElsewhere DEF Intended, Refused, About
<1>4. MarkerInTime'
  BY RuntimeAssumption DEF MarkerInTime
<1>5. StopsWhileReconciling'
  BY DEF PauseInv, StopsWhileReconciling, supVars
<1>6. ReadInTime'
  BY <1>1, ReadGrown DEF supVars
<1>7. QED BY <1>2, <1>3, <1>4, <1>5, <1>6 DEF PauseInv

\* The user pauses or resumes one project.
LEMMA SendTurn ==
  ASSUME PauseInv, queue \in Seq(Msg), markerDue.project = NoProject,
         NEW p \in Projects, NEW kind \in {"PauseProject", "ResumeProject"}, Send(kind, {p}),
         markerDue' = [project |-> p, paused |-> (kind = "PauseProject")],
         \A q \in Projects : q # p => (q \in pausedProjects' <=> q \in pausedProjects),
         UNCHANGED <<globallyPaused, wantPaused, marker, unmarked, supVars, pc>>
  PROVE  PauseInv'
<1> DEFINE m == [kind |-> kind, to |-> {p}]
<1>1. m \in Msg /\ queue' = Append(queue, m) /\ m.kind = kind /\ m.to = {p}
  BY DEF Send, Msg
<1> HIDE DEF m
<1>2. markerDue'.project = p /\ markerDue'.paused = (kind = "PauseProject")
  OBVIOUS
<1>3. Len(queue) + 1 \in Places' /\ About(queue'[Len(queue) + 1], p)
  BY <1>1, Grown DEF About
<1>4. \A i \in Places' : i < Len(queue) + 1 \/ queue'[i] = m
  BY <1>1, Grown
<1>5. GlobalAgrees'
  BY <1>1, Grown DEF PauseInv, GlobalAgrees, Flip
<1>6. ASSUME NEW q \in Projects PROVE ProjectAgrees(q)'
  <2>1. CASE q = p
    <3>1. LastWins(p)'
      BY <1>1, <1>2, <1>3, <1>4 DEF LastWins, Intended
    <3>2. QED BY <1>3, <2>1, <3>1 DEF ProjectAgrees
  <2>2. CASE q # p
    <3>1. Intended(q)' = Intended(q)
      BY <1>2, <2>2, RuntimeAssumption DEF Intended
    <3>4. Refused(q)' = Refused(q)
      BY <1>2, <2>2, RuntimeAssumption DEF Refused
    <3>2. ~About(m, q)
      BY <1>1, <2>2 DEF About
    <3>3. QED BY <1>1, <2>2, <3>1, <3>2, <3>4, SendElsewhere
  <2>3. QED BY <2>1, <2>2
<1>7. MarkerInTime'
  <2>1. \A i \in Places' : queue'[i].kind \in {"Sync", "Register"} => i < Len(queue) + 1
    BY <1>1, <1>4
  <2>2. QED BY <1>2, <1>3, <2>1 DEF MarkerInTime
<1>8. StopsWhileReconciling'
  BY DEF PauseInv, StopsWhileReconciling, supVars
<1>9. ReadInTime'
  BY <1>2, <1>3 DEF ReadInTime
<1>10. QED BY <1>5, <1>6, <1>7, <1>8, <1>9 DEF PauseInv

\* The application steps.
LEMMA PauseOfApplication ==
  ASSUME TypeOK, PauseInv, Application
  PROVE  PauseInv'
<1>0. queue \in Seq(Msg)
  BY DEF TypeOK, ChannelType
<1>1. CASE SyncProjects
  BY <1>0, <1>1, PauseSend DEF SyncProjects, AppFree, Send, Msg, AppFrame, threadVars, pauseWish, appVars, markerVars
<1>2. CASE PauseAll
  BY <1>0, <1>2, SendFlip DEF PauseAll, AppFree, AppFrame, threadVars, markerVars
<1>3. CASE ResumeAll
  BY <1>0, <1>3, SendFlip DEF ResumeAll, AppFree, AppFrame, threadVars, markerVars
<1>4. CASE WriteMarker
  <2>1. UNCHANGED <<queue, globallyPaused, pausedProjects, wantPaused, supVars, pc>>
    BY <1>4 DEF WriteMarker, AppFrame, threadVars, markerVars
  <2>2. markerDue'.project = NoProject /\ markerDue.paused \in BOOLEAN
    BY <1>4 DEF WriteMarker, TypeOK, WorldType
  <2>3. MarkerInTime' /\ ReadInTime'
    BY <2>2, RuntimeAssumption DEF MarkerInTime, ReadInTime
  <2>4. GlobalAgrees'
    BY <2>1 DEF PauseInv, GlobalAgrees, Places, Flip
  <2>5. ASSUME NEW p \in Projects, ~Refused(p)'
        PROVE  ~Refused(p) /\ (Intended(p)' <=> Intended(p))
    <3>1. p \notin unmarked' /\ (Intended(p)' <=> p \in marker')
      BY <2>2, <2>5, RuntimeAssumption DEF Refused, Intended
    <3>2. CASE markerDue.project = p
      <4>1. marker' = IF markerDue.paused THEN marker \cup {p} ELSE marker \ {p}
        BY <1>4, <3>1, <3>2 DEF WriteMarker
      <4>2. (p \in marker') <=> markerDue.paused
        BY <2>2, <4>1
      <4>3. QED BY <3>1, <3>2, <4>2 DEF Refused, Intended
    <3>3. CASE markerDue.project # p
      <4>1. (p \in marker' <=> p \in marker) /\ p \notin unmarked
        BY <1>4, <3>1, <3>3 DEF WriteMarker
      <4>2. QED BY <3>1, <3>3, <4>1 DEF Refused, Intended
    <3>4. QED BY <3>2, <3>3
  <2>6. ASSUME NEW p \in Projects PROVE ProjectAgrees(p)'
    <3>1. SUFFICES ASSUME ~Refused(p)'
                   PROVE  LastWins(p)' /\ (Watched(p)' => \/ \E i \in Places' : About(queue'[i], p)
                                                          \/ p \in pausedProjects' <=> Intended(p)')
      BY DEF ProjectAgrees, About
    <3>2. ~Refused(p) /\ (Intended(p)' <=> Intended(p)) /\ ProjectAgrees(p)
      BY <2>5, <3>1 DEF PauseInv
    <3>3. LastWins(p)'
      BY <2>1, <3>2 DEF ProjectAgrees, LastWins, Places, About
    <3>4. Watched(p)' = Watched(p) /\ Places' = Places
      BY <2>1 DEF Watched, supVars, Places
    <3>5. QED BY <2>1, <3>2, <3>3, <3>4 DEF ProjectAgrees
  <2>7. StopsWhileReconciling'
    BY <2>1 DEF PauseInv, StopsWhileReconciling, supVars
  <2>8. QED BY <2>3, <2>4, <2>6, <2>7 DEF PauseInv
<1>5. CASE DropHandles
  BY <1>5, PauseQuiet DEF DropHandles, pauseVars, appVars, markerVars, supVars, threadVars, pauseWish, Watched,
     PauseInv, StopsWhileReconciling
<1>6. ASSUME NEW p \in Projects, Edit(p) PROVE PauseInv'
  BY <1>0, <1>6, PauseSend DEF Edit, Send, Msg, AppFrame, threadVars, pauseWish, appVars, markerVars
<1>7. ASSUME NEW p \in Projects, PauseProject(p) PROVE PauseInv'
  BY <1>0, <1>7, SendTurn DEF PauseProject, AppFree, AppFrame, threadVars, markerVars
<1>8. ASSUME NEW p \in Projects, ResumeProject(p) PROVE PauseInv'
  BY <1>0, <1>8, SendTurn DEF ResumeProject, AppFree, AppFrame, threadVars, markerVars
<1>9. ASSUME NEW p \in Projects, NoticeDir(p) PROVE PauseInv'
  <2>1. PICK kind \in {"Register", "Unregister"} : Send(kind, {p})
    BY <1>9 DEF NoticeDir
  <2>2. QED BY <1>0, <1>9, <2>1, PauseSend DEF NoticeDir, AppFree, Send, Msg, AppFrame, threadVars, markerVars, pauseWish
<1>10. QED BY <1>1, <1>2, <1>3, <1>4, <1>5, <1>6, <1>7, <1>8, <1>9 DEF Application

\* What the messages that stay on the channel say stays true.
LEMMA PauseTail ==
  ASSUME PauseInv, queue \in Seq(Msg), queue # <<>>, queue' = Tail(queue),
         UNCHANGED <<marker, unmarked, markerDue, wantPaused>>
  PROVE  /\ \A i \in Places' : Flip(queue'[i]) =>
              \/ \E j \in Places' : i < j /\ Flip(queue'[j])
              \/ (queue'[i].kind = "Pause") <=> wantPaused
         /\ MarkerInTime'
<1>1. ASSUME NEW i \in Places', Flip(queue'[i]), ~((queue'[i].kind = "Pause") <=> wantPaused)
      PROVE  \E j \in Places' : i < j /\ Flip(queue'[j])
  <2>0. i + 1 \in Places /\ Flip(queue[i + 1]) /\ ~((queue[i + 1].kind = "Pause") <=> wantPaused)
    BY <1>1, Shrunk
  <2>1. PICK j \in Places : i + 1 < j /\ Flip(queue[j])
    BY <2>0 DEF PauseInv, GlobalAgrees
  <2>2. j - 1 \in Places' /\ queue'[j - 1] = queue[j] /\ i < j - 1
    BY <2>1, Shrunk DEF Places
  <2>3. QED BY <2>1, <2>2
<1>3. ASSUME NEW p \in Projects, markerDue.project = p, NEW i \in Places',
             queue'[i].kind \in {"Sync", "Register"}
      PROVE  \E j \in Places' : i < j /\ About(queue'[j], p)
  <2>1. PICK j \in Places : i + 1 < j /\ About(queue[j], p)
    BY <1>3, Shrunk DEF PauseInv, MarkerInTime
  <2>2. j - 1 \in Places' /\ queue'[j - 1] = queue[j] /\ i < j - 1
    BY <2>1, Shrunk DEF Places
  <2>3. QED BY <2>1, <2>2 DEF About
<1>4. MarkerInTime'
  BY <1>3 DEF MarkerInTime, About
<1>5. QED BY <1>1, <1>4

LEMMA PauseTailOf ==
  ASSUME PauseInv, queue \in Seq(Msg), queue # <<>>, queue' = Tail(queue),
         UNCHANGED <<marker, unmarked, markerDue>>, NEW p \in Projects
  PROVE  /\ Refused(p)' = Refused(p) /\ Intended(p)' = Intended(p)
         /\ ~Refused(p) => LastWins(p)'
<1>1. Refused(p)' = Refused(p) /\ Intended(p)' = Intended(p)
  BY DEF Refused, Intended
<1>2. ASSUME ~Refused(p), NEW i \in Places', About(queue'[i], p),
             ~((queue'[i].kind = "PauseProject") <=> Intended(p)')
      PROVE  \E j \in Places' : i < j /\ About(queue'[j], p)
  <2>1. Intended(p)' = Intended(p)
    BY DEF Intended
  <2>0. /\ i + 1 \in Places /\ About(queue[i + 1], p)
        /\ ~((queue[i + 1].kind = "PauseProject") <=> Intended(p))
    BY <1>2, <2>1, Shrunk
  <2>2. PICK j \in Places : i + 1 < j /\ About(queue[j], p)
    BY <1>2, <2>0 DEF PauseInv, ProjectAgrees, LastWins
  <2>3. j - 1 \in Places' /\ queue'[j - 1] = queue[j] /\ i < j - 1
    BY <2>2, Shrunk DEF Places
  <2>4. QED BY <2>2, <2>3 DEF About
<1>3. ASSUME ~Refused(p) PROVE LastWins(p)'
  BY <1>2, <1>3 DEF LastWins, About
<1>4. QED BY <1>1, <1>3

\* A toggle that is not the first message is on the channel still.
LEMMA FlipsLeft ==
  ASSUME queue \in Seq(Msg), queue # <<>>, queue' = Tail(queue)
  PROVE  /\ (\E i \in Places : Flip(queue[i])) => Flip(Head(queue)) \/ \E i \in Places' : Flip(queue'[i])
         /\ \A p \in Projects : (\E i \in Places : About(queue[i], p)) =>
              About(Head(queue), p) \/ \E i \in Places' : About(queue'[i], p)
<1>1. ASSUME NEW i \in Places, Flip(queue[i]), ~Flip(Head(queue)) PROVE \E j \in Places' : Flip(queue'[j])
  <2>1. i # 1
    BY <1>1, Shrunk
  <2>2. i - 1 \in Places' /\ queue'[i - 1] = queue[i]
    BY <2>1, Shrunk
  <2>3. QED BY <1>1, <2>2
<1>2. ASSUME NEW p \in Projects, NEW i \in Places, About(queue[i], p), ~About(Head(queue), p)
      PROVE  \E j \in Places' : About(queue'[j], p)
  <2>1. i # 1
    BY <1>2, Shrunk
  <2>2. i - 1 \in Places' /\ queue'[i - 1] = queue[i]
    BY <2>1, Shrunk
  <2>3. QED BY <1>2, <2>2
<1>3. QED BY <1>1, <1>2

\* Messages other than toggles are handled without a new project to watch.
LEMMA PauseTake ==
  ASSUME PauseInv, queue \in Seq(Msg), queue # <<>>, queue' = Tail(queue),
         Head(queue).kind \notin {"Pause", "Resume", "PauseProject", "ResumeProject"},
         UNCHANGED pauseWish, StopsWhileReconciling',
         supPc' \in Syncing => Head(queue).kind = "Sync", \A p \in Projects : Watched(p)' => Watched(p)
  PROVE  PauseInv'
<1>1. ~Flip(Head(queue)) /\ \A p \in Projects : ~About(Head(queue), p)
  BY DEF Flip, About
<1>2. UNCHANGED <<marker, unmarked, markerDue, wantPaused, globallyPaused, pausedProjects>>
  BY DEF pauseWish
<1>3. GlobalAgrees'
  BY <1>1, <1>2, PauseTail, FlipsLeft DEF PauseInv, GlobalAgrees
<1>4. ASSUME NEW p \in Projects PROVE ProjectAgrees(p)'
  <2>1. Intended(p)' = Intended(p) /\ Refused(p)' = Refused(p) /\ (~Refused(p) => LastWins(p)')
    BY <1>2, PauseTailOf
  <2>2. ProjectAgrees(p)
    BY DEF PauseInv
  <2>3. ~Refused(p) /\ Watched(p)' => \/ \E i \in Places' : About(queue'[i], p)
                                      \/ p \in pausedProjects' <=> Intended(p)'
    BY <1>1, <1>2, <2>1, <2>2, FlipsLeft DEF ProjectAgrees
  <2>4. QED BY <2>1, <2>3 DEF ProjectAgrees, About
<1>5. ReadInTime'
  <2>1. SUFFICES ASSUME supPc' \in Syncing, NEW p \in Projects, markerDue.project = p
                 PROVE  \E j \in Places' : About(queue'[j], p)
    BY <1>2 DEF ReadInTime, About
  <2>2. 1 \in Places /\ queue[1].kind = "Sync"
    BY <2>1, Shrunk
  <2>3. PICK j \in Places : 1 < j /\ About(queue[j], p)
    BY <2>1, <2>2 DEF PauseInv, MarkerInTime
  <2>4. j - 1 \in Places' /\ queue'[j - 1] = queue[j]
    BY <2>3, Shrunk DEF Places
  <2>5. QED BY <2>3, <2>4
<1>6. QED BY <1>2, <1>3, <1>4, <1>5, PauseTail DEF PauseInv

\* A message is taken off the channel.
LEMMA Received ==
  ASSUME TypeOK, NEW kind, Receive(kind)
  PROVE  /\ queue \in Seq(Msg) /\ queue # <<>> /\ queue' = Tail(queue)
         /\ Head(queue).kind = kind /\ To \in SUBSET Projects /\ supPc = "recv"
         /\ 1 \in Places /\ Head(queue) = queue[1]
<1>1. queue \in Seq(Msg)
  BY DEF TypeOK, ChannelType
<1>2. queue # <<>> /\ queue' = Tail(queue) /\ Head(queue).kind = kind /\ supPc = "recv"
  BY DEF Receive
<1>3. QED BY <1>1, <1>2, ReceiveType, Shrunk

\* A scan: the markers are read back.
LEMMA PauseOfSync ==
  ASSUME TypeOK, PauseInv, SyncPauses
  PROVE  PauseInv'
<1>1. UNCHANGED <<queue, marker, unmarked, markerDue, wantPaused, globallyPaused>> /\ Places' = Places
  BY DEF SyncPauses, SupFrame, appVars, markerVars, Places
<1>2. GlobalAgrees' /\ MarkerInTime'
  BY <1>1 DEF PauseInv, GlobalAgrees, MarkerInTime, Flip, About
<1>3. supPc = "emit" /\ supPc' = "reconcile"
  BY DEF SyncPauses
<1>4. ASSUME NEW p \in Projects, Watched(p)' PROVE p \in supSpawn \cap present
  BY <1>4 DEF SyncPauses, Watched, Workers, threadVars
<1>5. ASSUME NEW p \in Projects, Watched(p)', ~\E i \in Places' : About(queue'[i], p)
      PROVE  p \in pausedProjects' <=> Intended(p)'
  <2>1. markerDue.project # p
    BY <1>1, <1>3, <1>5 DEF PauseInv, ReadInTime, Syncing
  <2>2. p \in pausedProjects' <=> p \in marker
    BY <1>4, <1>5 DEF SyncPauses, PersistedPauses
  <2>3. QED BY <1>1, <2>1, <2>2 DEF Intended
<1>6. ASSUME NEW p \in Projects PROVE ProjectAgrees(p)'
  <2>1. LastWins(p)' = LastWins(p) /\ Refused(p)' = Refused(p)
    BY <1>1 DEF LastWins, Refused, Intended, About
  <2>2. ~Refused(p) => LastWins(p)
    BY DEF PauseInv, ProjectAgrees
  <2>3. QED BY <1>5, <2>1, <2>2 DEF ProjectAgrees, About
<1>7. StopsWhileReconciling' /\ ReadInTime'
  BY <1>3 DEF StopsWhileReconciling, ReadInTime, Emitting, Syncing
<1>8. QED BY <1>2, <1>6, <1>7 DEF PauseInv

\* A project is registered: its marker is read back if it gets a worker.
LEMMA PauseOfRegister ==
  ASSUME TypeOK, PauseInv, HandleRegister
  PROVE  PauseInv'
<1>1. /\ queue \in Seq(Msg) /\ queue # <<>> /\ queue' = Tail(queue) /\ supPc = "recv"
      /\ Head(queue).kind = "Register" /\ 1 \in Places /\ Head(queue) = queue[1]
  BY Received DEF HandleRegister
<1>2. UNCHANGED <<marker, unmarked, markerDue, wantPaused, globallyPaused>>
  BY DEF HandleRegister, SupFrame, appVars, markerVars
<1>3. ~Flip(Head(queue)) /\ \A p \in Projects : ~About(Head(queue), p)
  BY <1>1 DEF Flip, About
<1>4. GlobalAgrees'
  BY <1>1, <1>2, <1>3, PauseTail, FlipsLeft DEF PauseInv, GlobalAgrees
<1>5. PICK r \in To : /\ Spawn({r} \cap present, DiscoveryImmediate)
                      /\ pausedProjects' = IF r \notin present THEN pausedProjects
                                           ELSE (pausedProjects \ {r}) \cup (marker \cap {r})
  BY DEF HandleRegister
<1>6. ASSUME NEW p \in Projects, ~Refused(p), Watched(p)', ~\E i \in Places' : About(queue'[i], p)
      PROVE  p \in pausedProjects' <=> Intended(p)'
  <2>1. ~\E i \in Places : About(queue[i], p)
    BY <1>1, <1>3, <1>6, FlipsLeft
  <2>2. markerDue.project # p /\ Intended(p)' = (p \in marker) /\ Intended(p) = (p \in marker)
    BY <1>1, <1>2, <2>1 DEF PauseInv, MarkerInTime, Intended
  <2>3. CASE r \in present /\ p = r
    BY <1>5, <2>2, <2>3
  <2>4. CASE ~(r \in present /\ p = r)
    <3>1. p \in pausedProjects' <=> p \in pausedProjects
      BY <1>5, <2>4
    <3>2. Watched(p)
      <4>1. supStop = {} /\ supStop' = {} /\ supPc' = "hydrate"
        BY <1>1 DEF HandleRegister, PauseInv, StopsWhileReconciling
      <4>2. pc'[p] = pc[p]
        BY <1>5, <2>4 DEF Spawn, Workers, TypeOK, WorkerType
      <4>3. QED BY <1>1, <1>6, <4>1, <4>2 DEF Watched
    <3>3. QED BY <1>6, <2>1, <2>2, <3>1, <3>2 DEF PauseInv, ProjectAgrees
  <2>5. QED BY <2>3, <2>4
<1>7. ASSUME NEW p \in Projects PROVE ProjectAgrees(p)'
  <2>1. Refused(p)' = Refused(p) /\ (~Refused(p) => LastWins(p)')
    BY <1>1, <1>2, PauseTailOf
  <2>2. QED BY <1>6, <2>1 DEF ProjectAgrees, About
<1>8. StopsWhileReconciling' /\ ReadInTime'
  BY <1>1 DEF HandleRegister, PauseInv, StopsWhileReconciling, ReadInTime, Syncing
<1>9. QED BY <1>1, <1>2, <1>4, <1>7, <1>8, PauseTail DEF PauseInv

\* A toggle of everything is handled.
LEMMA PauseOfFlip ==
  ASSUME TypeOK, PauseInv, HandlePause \/ HandleResume
  PROVE  PauseInv'
<1>1. PICK kind \in {"Pause", "Resume"} : Receive(kind) /\ globallyPaused' = (kind = "Pause")
  BY DEF HandlePause, HandleResume
<1>2. /\ queue \in Seq(Msg) /\ queue # <<>> /\ queue' = Tail(queue)
      /\ Head(queue).kind = kind /\ 1 \in Places /\ Head(queue) = queue[1]
  BY <1>1, Received
<1>3. UNCHANGED <<marker, unmarked, markerDue, wantPaused, pausedProjects, supVars, pc>>
  BY DEF HandlePause, HandleResume, KillFrame, ResumeFrame, SupFrame, appVars, markerVars, threadVars
<1>4. Flip(Head(queue)) /\ \A p \in Projects : ~About(Head(queue), p)
  BY <1>2 DEF Flip, About
<1>5. (\E i \in Places' : Flip(queue'[i])) \/ (globallyPaused' <=> wantPaused')
  <2>1. CASE \E j \in Places : 1 < j /\ Flip(queue[j])
    <3>1. PICK j \in Places : j # 1 /\ Flip(queue[j])
      BY <2>1 DEF Places
    <3>2. j - 1 \in Places' /\ queue'[j - 1] = queue[j]
      BY <1>2, <3>1, Shrunk
    <3>3. QED BY <3>1, <3>2
  <2>2. CASE (queue[1].kind = "Pause") <=> wantPaused
    BY <1>1, <1>2, <1>3, <2>2
  <2>3. QED BY <1>2, <1>4, <2>1, <2>2 DEF PauseInv, GlobalAgrees
<1>6. GlobalAgrees'
  BY <1>2, <1>3, <1>5, PauseTail DEF GlobalAgrees
<1>7. ASSUME NEW p \in Projects PROVE ProjectAgrees(p)'
  <2>1. Intended(p)' = Intended(p) /\ Watched(p)' = Watched(p)
    BY <1>3 DEF Intended, Watched, supVars
  <2>2. Refused(p)' = Refused(p) /\ (~Refused(p) => LastWins(p)')
    BY <1>2, <1>3, PauseTailOf
  <2>3. ProjectAgrees(p)
    BY DEF PauseInv
  <2>4. ~Refused(p) /\ Watched(p)' => \/ \E i \in Places' : About(queue'[i], p)
                                      \/ p \in pausedProjects' <=> Intended(p)'
    BY <1>2, <1>3, <1>4, <2>1, <2>3, FlipsLeft DEF ProjectAgrees
  <2>5. QED BY <2>2, <2>4 DEF ProjectAgrees, About
<1>8. StopsWhileReconciling' /\ ReadInTime'
  BY <1>1, <1>3 DEF PauseInv, StopsWhileReconciling, ReadInTime, Syncing, Receive, supVars
<1>9. QED BY <1>2, <1>3, <1>6, <1>7, <1>8, PauseTail DEF PauseInv

\* A toggle of one project is handled.
LEMMA PauseOfTurn ==
  ASSUME TypeOK, PauseInv, HandlePauseProject \/ HandleResumeProject
  PROVE  PauseInv'
<1>1. PICK kind \in {"PauseProject", "ResumeProject"} :
        /\ Receive(kind)
        /\ pausedProjects' = IF kind = "PauseProject" THEN pausedProjects \cup To ELSE pausedProjects \ To
  BY DEF HandlePauseProject, HandleResumeProject
<1>2. /\ queue \in Seq(Msg) /\ queue # <<>> /\ queue' = Tail(queue)
      /\ Head(queue).kind = kind /\ 1 \in Places /\ Head(queue) = queue[1]
  BY <1>1, Received
<1>3. UNCHANGED <<marker, unmarked, markerDue, wantPaused, globallyPaused, supVars, pc>>
  BY DEF HandlePauseProject, HandleResumeProject, KillFrame, ResumeFrame, SupFrame, appVars, markerVars, threadVars
<1>4. ~Flip(Head(queue)) /\ \A p \in Projects : About(Head(queue), p) <=> p \in To
  BY <1>2 DEF Flip, About, To
<1>5. GlobalAgrees'
  BY <1>2, <1>3, <1>4, PauseTail, FlipsLeft DEF PauseInv, GlobalAgrees
<1>6. ASSUME NEW p \in Projects PROVE ProjectAgrees(p)'
  <2>1. Intended(p)' = Intended(p) /\ Watched(p)' = Watched(p)
    BY <1>3 DEF Intended, Watched, supVars
  <2>2. Refused(p)' = Refused(p) /\ (~Refused(p) => LastWins(p)')
    BY <1>2, <1>3, PauseTailOf
  <2>3. ProjectAgrees(p)
    BY DEF PauseInv
  <2>4. ASSUME ~Refused(p), Watched(p)', ~\E i \in Places' : About(queue'[i], p)
        PROVE  p \in pausedProjects' <=> Intended(p)'
    <3>1. CASE p \in To
      <4>1. ASSUME NEW j \in Places, 1 < j, About(queue[j], p) PROVE FALSE
        <5>1. j # 1
          BY <4>1 DEF Places
        <5>2. j - 1 \in Places' /\ queue'[j - 1] = queue[j]
          BY <1>2, <5>1, Shrunk
        <5>3. QED BY <2>4, <4>1, <5>2 DEF About
      <4>2. (queue[1].kind = "PauseProject") <=> Intended(p)
        BY <1>2, <1>4, <2>3, <2>4, <3>1, <4>1 DEF ProjectAgrees, LastWins
      <4>3. QED BY <1>1, <1>2, <2>1, <3>1, <4>2
    <3>2. CASE p \notin To
      <4>1. p \in pausedProjects' <=> p \in pausedProjects
        BY <1>1, <3>2
      <4>2. ~\E i \in Places : About(queue[i], p)
        BY <1>2, <1>4, <2>4, <3>2, FlipsLeft
      <4>3. QED BY <2>1, <2>3, <2>4, <4>1, <4>2 DEF ProjectAgrees
    <3>3. QED BY <3>1, <3>2
  <2>5. QED BY <2>2, <2>4 DEF ProjectAgrees, About
<1>7. StopsWhileReconciling' /\ ReadInTime'
  BY <1>1, <1>3 DEF PauseInv, StopsWhileReconciling, ReadInTime, Syncing, Receive, supVars
<1>8. QED BY <1>2, <1>3, <1>5, <1>6, <1>7, PauseTail DEF PauseInv

\* A worker moves by itself and never ends its own thread for good: joining does.
LEMMA WorkerMoves ==
  ASSUME TypeOK, NEW p \in Projects, Worker(p) \/ ChildExits(p)
  PROVE  /\ WorkerFrame
         /\ \A q \in Projects : pc'[q] = "none" <=> pc[q] = "none"
         /\ \A q \in Projects : q # p => pc'[q] = pc[q]
<1>0. pc \in [Projects -> Running \cup {"none", "idle", "hold", "post", "remember", "exited"}]
  BY DEF TypeOK, WorkerType
<1>1. WorkerFrame
  BY DEF Worker, ReceiveTrigger, ExitThread, HoldBack, RememberHeld, SkipRun, StartRun, Announce,
     ProjectRemoved, Interrupted, RunEndsEarly, SpawnCommand, PutInSlot, Reap, Finish, AfterRun,
     RememberInterrupted, ChildExits
<1>2. pc' = pc \/ (pc[p] # "none" /\ \E to : to # "none" /\ Goto(p, to))
  <2>1. CASE ReceiveTrigger(p) \/ SkipRun(p) \/ ChildExits(p)
    BY <2>1 DEF ReceiveTrigger, SkipRun, ChildExits, threadVars
  <2>2. CASE ExitThread(p) \/ HoldBack(p) \/ RememberHeld(p) \/ StartRun(p)
    <3>1. pc[p] # "none" /\ \E to \in {"exited", "hold", "idle", "announce", "post"} : Goto(p, to)
      BY <2>2 DEF ExitThread, HoldBack, RememberHeld, StartRun
    <3>2. QED BY <3>1
  <2>3. CASE Announce(p) \/ ProjectRemoved(p) \/ Interrupted(p) \/ PutInSlot(p)
    <3>1. pc[p] # "none" /\ \E to \in {"check", "post", "wait"} : Goto(p, to)
      BY <2>3 DEF Announce, ProjectRemoved, Interrupted, RunEndsEarly, PutInSlot
    <3>2. QED BY <3>1
  <2>4. CASE SpawnCommand(p) \/ Reap(p) \/ Finish(p)
    <3>1. pc[p] # "none" /\ (pc' = pc \/ \E to \in {"spawned", "check", "post"} : Goto(p, to))
      BY <2>4 DEF SpawnCommand, RecordCommand, MayProceed, Reap, Finish, Abort
    <3>2. QED BY <3>1
  <2>5. CASE AfterRun(p) \/ RememberInterrupted(p)
    <3>1. pc[p] # "none" /\ \E to \in {"remember", "idle"} : Goto(p, to)
      BY <2>5 DEF AfterRun, NextAfterRun, RememberInterrupted
    <3>2. QED BY <3>1
  <2>6. QED BY <2>1, <2>2, <2>3, <2>4, <2>5 DEF Worker
<1>3. QED BY <1>0, <1>1, <1>2 DEF Goto

\* The supervisor between two messages, and those that change no pause.
LEMMA PauseOfSupervisor ==
  ASSUME TypeOK, PauseInv, Supervisor
  PROVE  PauseInv'
<1>1. CASE SyncPauses
  BY <1>1, PauseOfSync
<1>13. CASE HandleSync
  <2>1. queue \in Seq(Msg) /\ queue # <<>> /\ queue' = Tail(queue) /\ Head(queue).kind = "Sync" /\ supPc = "recv"
    BY <1>13, Received DEF HandleSync
  <2>2. supPc' = "emit" /\ UNCHANGED <<supStop, supProject, pc>>
    BY <1>13 DEF HandleSync, threadVars
  <2>3. \A p \in Projects : Watched(p)' => Watched(p)
    BY <2>1, <2>2 DEF Watched
  <2>4. UNCHANGED pauseWish /\ StopsWhileReconciling'
    BY <1>13, <2>1, <2>2 DEF HandleSync, SupFrame, appVars, markerVars, pauseVars, pauseWish, PauseInv,
       StopsWhileReconciling
  <2>5. QED BY <2>1, <2>3, <2>4, PauseTake
<1>2. CASE HandleRegister
  BY <1>2, PauseOfRegister
<1>3. CASE HandlePause \/ HandleResume
  BY <1>3, PauseOfFlip
<1>4. CASE HandlePauseProject \/ HandleResumeProject
  BY <1>4, PauseOfTurn
<1>5. CASE HandleUnregister
  <2>1. queue \in Seq(Msg) /\ queue # <<>> /\ queue' = Tail(queue) /\ Head(queue).kind = "Unregister"
    BY <1>5, Received DEF HandleUnregister
  <2>2. \A p \in Projects : Watched(p)' => Watched(p)
    BY <1>5, <2>1 DEF HandleUnregister, Receive, Watched, threadVars, PauseInv, StopsWhileReconciling
  <2>3. UNCHANGED pauseWish /\ StopsWhileReconciling'
    BY <1>5 DEF HandleUnregister, SupFrame, appVars, markerVars, pauseVars, pauseWish,
       StopsWhileReconciling, Emitting, Syncing
  <2>5. supPc' \notin Syncing
    BY <1>5 DEF HandleUnregister, Syncing
  <2>4. QED BY <2>1, <2>2, <2>3, <2>5, PauseTake
<1>6. CASE HandleTrigger
  <2>1. queue \in Seq(Msg) /\ queue # <<>> /\ queue' = Tail(queue) /\ Head(queue).kind = "Trigger"
    BY <1>6, Received DEF HandleTrigger
  <2>2. \A p \in Projects : Watched(p)' => Watched(p)
    BY <1>6 DEF HandleTrigger, Watched, threadVars, supVars
  <2>3. UNCHANGED pauseWish /\ StopsWhileReconciling'
    BY <1>6 DEF HandleTrigger, SupFrame, appVars, markerVars, pauseVars, pauseWish, supVars, PauseInv,
       StopsWhileReconciling
  <2>5. supPc' \notin Syncing
    BY <1>6 DEF HandleTrigger, Receive, supVars, Syncing
  <2>4. QED BY <2>1, <2>2, <2>3, <2>5, PauseTake
<1>7. ASSUME AnyHydrate \/ AnyInsert \/ AnyTell PROVE PauseInv'
  <2>1. UNCHANGED <<queue, pauseWish, supStop, supSpawn, pc>>
    BY <1>7 DEF AnyHydrate, AnyInsert, AnyTell, Hydrate, Insert, Tell, EmitFrame, SupFrame, appVars, markerVars,
       pauseVars, pauseWish, threadVars
  <2>2. /\ supPc \in Emitting /\ supPc' \in Emitting \cup {"recv"}
        /\ supPc' \in Syncing => supPc \in Syncing
    BY <1>7 DEF AnyHydrate, AnyInsert, AnyTell, Hydrate, Insert, Tell, Emitting, Syncing
  <2>3. supPc \notin {"join", "drainJoin", "reconcile"} /\ supPc' \notin {"join", "drainJoin", "reconcile"}
    BY <2>2 DEF Emitting, Syncing
  <2>4. StopsWhileReconciling' /\ \A p \in Projects : Watched(p)' => Watched(p)
    BY <2>1, <2>2, <2>3 DEF Watched, PauseInv, StopsWhileReconciling
  <2>5. QED BY <2>1, <2>2, <2>4, PauseQuiet
<1>8. ASSUME StopWorker("reconcile", "join") \/ StopWorker("drain", "drainJoin") PROVE PauseInv'
  <2>1. UNCHANGED <<queue, pauseWish>>
    BY <1>8 DEF StopWorker, SupFrame, appVars, markerVars, pauseVars, pauseWish
  <2>2. StopsWhileReconciling' /\ \A p \in Projects : Watched(p)' => Watched(p)
    BY <1>8 DEF StopWorker, threadVars, Watched, StopsWhileReconciling, Emitting, Syncing
  <2>4. supPc' \in Syncing => supPc \in Syncing
    BY <1>8 DEF StopWorker, Syncing
  <2>3. QED BY <2>1, <2>2, <2>4, PauseQuiet
<1>9. ASSUME JoinWorker("join", "reconcile") \/ JoinWorker("drainJoin", "drain") PROVE PauseInv'
  <2>1. UNCHANGED <<queue, pauseWish>>
    BY <1>9 DEF JoinWorker, SupFrame, appVars, markerVars, pauseVars, pauseWish
  <2>2. StopsWhileReconciling' /\ \A p \in Projects : Watched(p)' => Watched(p)
    BY <1>9 DEF JoinWorker, Watched, StopsWhileReconciling, Emitting, Syncing, TypeOK, WorkerType
  <2>4. supPc' \in Syncing => supPc \in Syncing
    BY <1>9 DEF JoinWorker, Syncing
  <2>3. QED BY <2>1, <2>2, <2>4, PauseQuiet
<1>10. CASE SpawnMissing
  <2>1. UNCHANGED <<queue, pauseWish>>
    BY <1>10 DEF SpawnMissing, SupFrame, appVars, markerVars, pauseVars, pauseWish
  <2>2. StopsWhileReconciling' /\ \A p \in Projects : Watched(p)' => Watched(p)
    BY <1>10 DEF SpawnMissing, Spawn, Workers, Watched, StopsWhileReconciling, Emitting, Syncing, TypeOK, WorkerType
  <2>4. supPc' \in Syncing => supPc \in Syncing
    BY <1>10 DEF SpawnMissing, Syncing
  <2>3. QED BY <2>1, <2>2, <2>4, PauseQuiet
<1>11. CASE Drain \/ SupervisorExits
  <2>1. UNCHANGED <<queue, pauseWish>>
    BY <1>11 DEF Drain, SupervisorExits, SupFrame, appVars, markerVars, pauseVars, pauseWish
  <2>2. StopsWhileReconciling' /\ \A p \in Projects : Watched(p)' => Watched(p)
    BY <1>11 DEF Drain, SupervisorExits, threadVars, Watched, StopsWhileReconciling, Emitting, Syncing, PauseInv
  <2>4. supPc' \in Syncing => supPc \in Syncing
    BY <1>11 DEF Drain, SupervisorExits, Syncing
  <2>3. QED BY <2>1, <2>2, <2>4, PauseQuiet
<1>12. QED BY <1>1, <1>2, <1>3, <1>4, <1>5, <1>6, <1>7, <1>8, <1>9, <1>10, <1>11, <1>13
    DEF Supervisor, AnyHydrate, AnyInsert, AnyTell

LEMMA PauseStep ==
  ASSUME TypeOK, PauseInv, [Next]_vars
  PROVE  PauseInv'
<1>1. ASSUME NEW p \in Projects, Worker(p) \/ ChildExits(p) PROVE PauseInv'
  <2>1. UNCHANGED <<queue, pauseWish, supVars>>
    BY <1>1, WorkerMoves DEF WorkerFrame, appVars, markerVars, pauseWish
  <2>2. StopsWhileReconciling' /\ \A q \in Projects : Watched(q)' => Watched(q)
    BY <1>1, <2>1, WorkerMoves DEF supVars, Watched, PauseInv, StopsWhileReconciling
  <2>3. QED BY <2>1, <2>2, PauseQuiet DEF supVars
<1>2. ASSUME NEW p \in Projects, DirChanges(p) PROVE PauseInv'
  BY <1>2, PauseQuiet DEF DirChanges, AppFrame, appVars, markerVars, supVars, threadVars, pauseWish, Watched,
     PauseInv, StopsWhileReconciling
<1>3. CASE UNCHANGED vars
  BY <1>3, PauseQuiet DEF vars, pauseVars, appVars, markerVars, supVars, threadVars, pauseWish, Watched,
     PauseInv, StopsWhileReconciling
<1>4. QED BY <1>1, <1>2, <1>3, PauseOfApplication, PauseOfSupervisor DEF Next

LEMMA PauseInit == Init => PauseInv
<1> SUFFICES ASSUME Init PROVE PauseInv
  OBVIOUS
<1>1. Places = {} /\ globallyPaused = FALSE /\ wantPaused = FALSE
  <2>1. queue = <<>> /\ globallyPaused = FALSE /\ wantPaused = FALSE
    BY DEF Init
  <2>2. QED BY <2>1 DEF Places
<1>2. \A p \in Projects : ~Watched(p)
  BY DEF Init, Watched
<1>3. MarkerInTime /\ ReadInTime /\ StopsWhileReconciling
  BY <1>1 DEF Init, MarkerInTime, ReadInTime, Syncing, StopsWhileReconciling
<1>4. QED BY <1>1, <1>2, <1>3 DEF PauseInv, GlobalAgrees, ProjectAgrees, LastWins

LEMMA PauseAlways == Spec => [](TypeOK /\ PauseInv)
<1>1. TypeOK /\ PauseInv /\ [Next]_vars => PauseInv'
  BY PauseStep
<1>2. QED BY <1>1, PauseInit, TypeCorrect, PTL DEF Spec

\* RuntimeHandle::pause and its three siblings, sync_persisted_project_pauses and the
\* markers of the application: whatever the user toggles and however scans, registrations
\* and failing i/o interleave with it, once the channel is empty the flags are what the user
\* asked, and so are the markers the disk took.
THEOREM PausesSettle == Spec => []PauseConverges
<1>1. TypeOK /\ PauseInv => PauseConverges
  <2> SUFFICES ASSUME PauseInv, queue = <<>>, supPc = "recv", markerDue.project = NoProject
               PROVE  /\ globallyPaused = wantPaused
                      /\ \A p \in Workers \ unmarked : p \in pausedProjects <=> p \in marker
    BY DEF PauseConverges
  <2>1. Places = {}
    BY DEF Places
  <2>2. globallyPaused <=> wantPaused
    BY <2>1 DEF PauseInv, GlobalAgrees
  <2>3. ASSUME NEW p \in Workers \ unmarked PROVE p \in pausedProjects <=> p \in marker
    <3>1. p \in Projects /\ pc[p] # "none" /\ p \notin unmarked /\ markerDue.project # p
      BY <2>3, RuntimeAssumption DEF Workers
    <3>2. ProjectAgrees(p)
      BY <3>1 DEF PauseInv
    <3>3. ~Refused(p) /\ Watched(p) /\ (Intended(p) <=> p \in marker)
      BY <3>1 DEF Watched, Intended, Refused, PauseInv, StopsWhileReconciling
    <3>4. QED BY <2>1, <3>2, <3>3 DEF ProjectAgrees
  <2>4. QED BY <2>2, <2>3
<1>2. QED BY <1>1, PauseAlways, PTL
=============================================================================
