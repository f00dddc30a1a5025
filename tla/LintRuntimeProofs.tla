------------------------- MODULE LintRuntimeProofs -------------------------
(***************************************************************************)
(* For any number of projects and commands, any bound on the environment   *)
(* and any mix of i/o failures: types are respected, commands are owned by *)
(* their workers, and what the records and the spinner say of a run is     *)
(* true.  The inductive invariant is TypeOK /\ CommandOwned /\             *)
(* RecordsBacked, and HydratedBeforeRun and RunMarked on top of it when    *)
(* newly discovered projects are not linted at once.                       *)
(* On top of that, cached and displayed verdicts are the newest.           *)
(***************************************************************************)
EXTENDS LintRuntime, TLAPS

\* A step of sending startup statuses, after a Sync or after a Register.
AnyHydrate == Hydrate("emit", "emitInsert", "emitTell") \/ Hydrate("hydrate", "insert", "tell")
AnyInsert  == Insert("emitInsert", "emitTell") \/ Insert("insert", "tell")
AnyTell    == Tell("emitTell", "emit") \/ Tell("tell", "recv")

\* Sending a message leaves messages.
LEMMA SendType ==
  ASSUME queue \in Seq(Msg), NEW kind \in {"Register", "Unregister"},
         NEW to \in SUBSET Projects, Send(kind, to)
  PROVE  queue' \in Seq(Msg)
BY DEF Send, Msg

\* Taking a message off the channel leaves messages, and yields a set of projects.
LEMMA ReceiveType ==
  ASSUME queue \in Seq(Msg), NEW kind, Receive(kind)
  PROVE  queue' \in Seq(Msg) /\ To \in SUBSET Projects
<1>1. queue # <<>> /\ queue' = Tail(queue)
  BY DEF Receive
<1>2. Head(queue) \in Msg
  BY <1>1
<1>3. Tail(queue) \in Seq(Msg)
  BY <1>1
<1> QED BY <1>1, <1>2, <1>3 DEF To, Msg

\* Every step keeps the types.
LEMMA TypeStep ==
  ASSUME TypeOK, CommandOwned, [Next]_vars
  PROVE  TypeOK'
<1>1. ASSUME SyncProjects PROVE TypeOK'
  <2>1. ChannelType'
    BY <1>1 DEF SyncProjects, markerVars, Send, Msg, AppFrame, TypeOK, ChannelType
  <2>2. WorldType'
    BY <1>1 DEF SyncProjects, markerVars, Spend, Events, appVars, TypeOK, WorldType
  <2> QED BY <1>1, <2>1, <2>2 DEF SyncProjects, markerVars, AppFrame, appVars, supVars,
        threadVars, mailVars, childVars, diskVars, latestVars, resultVars, viewVars, shownVars,
        TypeOK, PauseType, SupervisorType, Emitting, Syncing, Inserting, Telling, WorkerType,
        CommandType, RecordType
<1>2. ASSUME PauseAll PROVE TypeOK'
  <2>1. ChannelType'
    BY <1>2 DEF PauseAll, markerVars, Send, Msg, AppFrame, TypeOK, ChannelType
  <2>2. PauseType'
    BY <1>2 DEF PauseAll, markerVars, AppFrame, TypeOK, PauseType
  <2>3. WorldType'
    BY <1>2 DEF PauseAll, markerVars, Spend, Events, TypeOK, WorldType
  <2> QED BY <1>2, <2>1, <2>2, <2>3 DEF PauseAll, markerVars, AppFrame, supVars, threadVars,
        mailVars, childVars, diskVars, latestVars, resultVars, viewVars, shownVars, TypeOK,
        SupervisorType, Emitting, Syncing, Inserting, Telling, WorkerType, CommandType, RecordType
<1>3. ASSUME ResumeAll PROVE TypeOK'
  <2>1. ChannelType'
    BY <1>3 DEF ResumeAll, markerVars, Send, Msg, AppFrame, TypeOK, ChannelType
  <2>2. PauseType'
    BY <1>3 DEF ResumeAll, markerVars, AppFrame, TypeOK, PauseType
  <2>3. WorldType'
    BY <1>3 DEF ResumeAll, markerVars, Spend, Events, TypeOK, WorldType
  <2> QED BY <1>3, <2>1, <2>2, <2>3 DEF ResumeAll, markerVars, AppFrame, supVars, threadVars,
        mailVars, childVars, diskVars, latestVars, resultVars, viewVars, shownVars, TypeOK,
        SupervisorType, Emitting, Syncing, Inserting, Telling, WorkerType, CommandType, RecordType
<1>4. ASSUME WriteMarker PROVE TypeOK'
  <2>1. WorldType'
    BY <1>4 DEF WriteMarker, markerVars, TypeOK, WorldType
  <2> QED BY <1>4, <2>1 DEF WriteMarker, markerVars, AppFrame, supVars, threadVars, mailVars,
        childVars, diskVars, latestVars, resultVars, viewVars, shownVars, TypeOK, ChannelType,
        PauseType, SupervisorType, Emitting, Syncing, Inserting, Telling, WorkerType, CommandType,
        RecordType
<1>5. ASSUME DropHandles PROVE TypeOK'
  <2>1. ChannelType'
    BY <1>5 DEF DropHandles, TypeOK, ChannelType
  <2> QED BY <1>5, <2>1 DEF DropHandles, pauseVars, supVars, threadVars, mailVars, childVars,
        diskVars, latestVars, resultVars, viewVars, shownVars, appVars, markerVars, TypeOK,
        PauseType, SupervisorType, Emitting, Syncing, Inserting, Telling, WorkerType, CommandType,
        RecordType, WorldType
<1>6. ASSUME NEW p \in Projects, Edit(p) PROVE TypeOK'
  <2>1. ChannelType'
    BY <1>6 DEF Edit, Send, Msg, AppFrame, TypeOK, ChannelType
  <2>2. RecordType'
    BY <1>6 DEF Edit, AppFrame, diskVars, latestVars, resultVars, viewVars, shownVars, TypeOK,
          RecordType
  <2>3. WorldType'
    BY <1>6 DEF Edit, Spend, Events, appVars, markerVars, TypeOK, WorldType
  <2> QED BY <1>6, <2>1, <2>2, <2>3 DEF Edit, AppFrame, appVars, markerVars, supVars, threadVars,
        mailVars, childVars, diskVars, latestVars, resultVars, viewVars, shownVars, TypeOK,
        PauseType, SupervisorType, Emitting, Syncing, Inserting, Telling, WorkerType, CommandType
<1>7. ASSUME NEW p \in Projects, PauseProject(p) PROVE TypeOK'
  <2>1. ChannelType'
    BY <1>7 DEF PauseProject, markerVars, Send, Msg, AppFrame, TypeOK, ChannelType
  <2>2. PauseType'
    BY <1>7 DEF PauseProject, markerVars, AppFrame, TypeOK, PauseType
  <2>3. WorldType'
    BY <1>7 DEF PauseProject, markerVars, Spend, Events, TypeOK, WorldType
  <2> QED BY <1>7, <2>1, <2>2, <2>3 DEF PauseProject, markerVars, AppFrame, supVars, threadVars,
        mailVars, childVars, diskVars, latestVars, resultVars, viewVars, shownVars, TypeOK,
        SupervisorType, Emitting, Syncing, Inserting, Telling, WorkerType, CommandType, RecordType
<1>8. ASSUME NEW p \in Projects, ResumeProject(p) PROVE TypeOK'
  <2>1. ChannelType'
    BY <1>8 DEF ResumeProject, markerVars, Send, Msg, AppFrame, TypeOK, ChannelType
  <2>2. PauseType'
    BY <1>8 DEF ResumeProject, markerVars, AppFrame, TypeOK, PauseType
  <2>3. WorldType'
    BY <1>8 DEF ResumeProject, markerVars, Spend, Events, TypeOK, WorldType
  <2> QED BY <1>8, <2>1, <2>2, <2>3 DEF ResumeProject, markerVars, AppFrame, supVars, threadVars,
        mailVars, childVars, diskVars, latestVars, resultVars, viewVars, shownVars, TypeOK,
        SupervisorType, Emitting, Syncing, Inserting, Telling, WorkerType, CommandType, RecordType
<1>9. ASSUME NEW p \in Projects, NoticeDir(p) PROVE TypeOK'
  <2>1. ChannelType'
    <3>1. Send("Register", {p}) \/ Send("Unregister", {p})
      BY <1>9 DEF NoticeDir, markerVars
    <3>2. queue' \in Seq(Msg)
      BY <3>1, SendType DEF TypeOK, ChannelType
    <3> QED BY <1>9, <3>2 DEF NoticeDir, markerVars, AppFrame, TypeOK, ChannelType
  <2>2. WorldType'
    BY <1>9 DEF NoticeDir, markerVars, TypeOK, WorldType
  <2> QED BY <1>9, <2>1, <2>2 DEF NoticeDir, markerVars, AppFrame, supVars, threadVars, mailVars,
        childVars, diskVars, latestVars, resultVars, viewVars, shownVars, TypeOK, PauseType,
        SupervisorType, Emitting, Syncing, Inserting, Telling, WorkerType, CommandType, RecordType
<1>10. ASSUME HandleSync PROVE TypeOK'
  <2>1. ChannelType' /\ To \in SUBSET Projects
    BY <1>10, ReceiveType DEF HandleSync, latestVars, TypeOK, ChannelType, SupFrame, resultVars
  <2>2. SupervisorType'
    BY <1>10, <2>1 DEF HandleSync, latestVars, TypeOK, SupervisorType, Emitting, Syncing,
          Inserting, Telling
  <2> QED BY <1>10, <2>1, <2>2 DEF HandleSync, latestVars, SupFrame, resultVars, pauseVars,
        threadVars, mailVars, childVars, viewVars, shownVars, appVars, markerVars, TypeOK,
        PauseType, WorkerType, CommandType, RecordType, WorldType
<1>45. ASSUME SyncPauses PROVE TypeOK'
  <2>1. PauseType'
    BY <1>45 DEF SyncPauses, latestVars, PersistedPauses, SupFrame, resultVars, appVars,
          markerVars, TypeOK, PauseType, SupervisorType, Emitting, Syncing, Inserting, Telling
  <2>2. SupervisorType'
    BY <1>45 DEF SyncPauses, latestVars, Workers, TypeOK, SupervisorType, Emitting, Syncing,
          Inserting, Telling
  <2> QED BY <1>45, <2>1, <2>2 DEF SyncPauses, latestVars, SupFrame, resultVars, threadVars,
        mailVars, childVars, viewVars, shownVars, appVars, markerVars, TypeOK, ChannelType,
        WorkerType, CommandType, RecordType, WorldType
<1>11. ASSUME HandleRegister PROVE TypeOK'
  <2>1. ChannelType' /\ To \in SUBSET Projects
    BY <1>11, ReceiveType DEF HandleRegister, latestVars, TypeOK, ChannelType, SupFrame, resultVars
  <2>2. PauseType'
    BY <1>11, <2>1 DEF HandleRegister, latestVars, SupFrame, resultVars, appVars, markerVars,
          TypeOK, PauseType
  <2>3. SupervisorType'
    BY <1>11, <2>1 DEF HandleRegister, latestVars, TypeOK, SupervisorType, Emitting, Syncing,
          Inserting, Telling
  <2>4. WorkerType'
    BY <1>11, <2>1, RuntimeAssumption DEF HandleRegister, latestVars, Spawn, Workers, Running,
          TypeOK, WorkerType
  <2> QED BY <1>11, <2>1, <2>2, <2>3, <2>4 DEF HandleRegister, latestVars, SupFrame, resultVars,
        childVars, viewVars, shownVars, appVars, markerVars, TypeOK, CommandType, RecordType,
        WorldType
<1>12. ASSUME AnyHydrate PROVE TypeOK'
  <2>1. SupervisorType'
    BY <1>12 DEF AnyHydrate, Hydrate, EmitFrame, SupFrame, resultVars, Missed, DiskStatus,
          Rewrite, RemovalFails, latestVars, viewVars, shownVars, RecordType, Verdict, Cached,
          TypeOK, SupervisorType, Emitting, Syncing, Inserting, Telling
  <2>2. RecordType'
    BY <1>12 DEF AnyHydrate, Hydrate, EmitFrame, SupFrame, resultVars, Missed, DiskStatus,
          Rewrite, RemovalFails, latestVars, viewVars, shownVars, SupervisorType, Emitting,
          Syncing, Inserting, Telling, Verdict, Cached, TypeOK, RecordType
  <2> QED BY <1>12, <2>1, <2>2 DEF AnyHydrate, Hydrate, EmitFrame, SupFrame, resultVars, Missed,
        DiskStatus, Rewrite, RemovalFails, latestVars, viewVars, shownVars, pauseVars, threadVars,
        mailVars, childVars, appVars, markerVars, TypeOK, ChannelType, PauseType, WorkerType,
        CommandType, WorldType
<1>13. ASSUME AnyInsert PROVE TypeOK'
  <2>1. SupervisorType'
    BY <1>13 DEF AnyInsert, Insert, EmitFrame, SupFrame, resultVars, latestVars, shownVars,
          TypeOK, SupervisorType, Emitting, Syncing, Inserting, Telling
  <2>2. RecordType'
    BY <1>13 DEF AnyInsert, Insert, EmitFrame, SupFrame, resultVars, latestVars, shownVars,
          SupervisorType, Emitting, Syncing, Inserting, Telling, Verdict, Cached, TypeOK,
          RecordType
  <2> QED BY <1>13, <2>1, <2>2 DEF AnyInsert, Insert, EmitFrame, SupFrame, resultVars, latestVars,
        shownVars, pauseVars, threadVars, mailVars, childVars, appVars, markerVars, TypeOK,
        ChannelType, PauseType, WorkerType, CommandType, WorldType
<1>46. ASSUME AnyTell PROVE TypeOK'
  <2>1. SupervisorType'
    BY <1>46 DEF AnyTell, Tell, EmitFrame, SupFrame, resultVars, StartupShown, latestVars, TypeOK,
          SupervisorType, Emitting, Syncing, Inserting, Telling
  <2>2. RecordType'
    BY <1>46 DEF AnyTell, Tell, EmitFrame, SupFrame, resultVars, StartupShown, latestVars,
          SupervisorType, Emitting, Syncing, Inserting, Telling, Verdict, Cached, TypeOK,
          RecordType
  <2> QED BY <1>46, <2>1, <2>2 DEF AnyTell, Tell, EmitFrame, SupFrame, resultVars, StartupShown,
        latestVars, pauseVars, threadVars, mailVars, childVars, appVars, markerVars, TypeOK,
        ChannelType, PauseType, WorkerType, CommandType, WorldType
<1>14. ASSUME HandleUnregister PROVE TypeOK'
  <2>1. ChannelType' /\ To \in SUBSET Projects
    BY <1>14, ReceiveType DEF HandleUnregister, latestVars, TypeOK, ChannelType, SupFrame,
          resultVars
  <2>2. SupervisorType'
    BY <1>14, <2>1 DEF HandleUnregister, latestVars, Workers, TypeOK, SupervisorType, Emitting,
          Syncing, Inserting, Telling
  <2> QED BY <1>14, <2>1, <2>2 DEF HandleUnregister, latestVars, SupFrame, resultVars, pauseVars,
        threadVars, mailVars, childVars, viewVars, shownVars, appVars, markerVars, TypeOK,
        PauseType, WorkerType, CommandType, RecordType, WorldType
<1>15. ASSUME HandleTrigger PROVE TypeOK'
  <2>1. ChannelType' /\ To \in SUBSET Projects
    BY <1>15, ReceiveType DEF HandleTrigger, latestVars, TypeOK, ChannelType, SupFrame, resultVars
  <2>2. WorkerType'
    BY <1>15, <2>1 DEF HandleTrigger, latestVars, threadVars, TypeOK, WorkerType
  <2>3. RecordType'
    BY <1>15, <2>1 DEF HandleTrigger, latestVars, SupFrame, resultVars, viewVars, shownVars,
          TypeOK, RecordType
  <2> QED BY <1>15, <2>1, <2>2, <2>3 DEF HandleTrigger, latestVars, SupFrame, resultVars,
        pauseVars, supVars, threadVars, childVars, viewVars, shownVars, appVars, markerVars,
        TypeOK, PauseType, SupervisorType, Emitting, Syncing, Inserting, Telling, CommandType,
        WorldType
<1>16. ASSUME HandlePause PROVE TypeOK'
  <2>1. ChannelType' /\ To \in SUBSET Projects
    BY <1>16, ReceiveType DEF HandlePause, TypeOK, ChannelType, KillFrame, latestVars, SupFrame,
          resultVars
  <2>2. PauseType'
    BY <1>16, <2>1 DEF HandlePause, KillFrame, latestVars, SupFrame, resultVars, appVars,
          markerVars, TypeOK, PauseType
  <2>3. CommandType'
    BY <1>16, <2>1 DEF HandlePause, KillSlots, TypeOK, CommandType
  <2> QED BY <1>16, <2>1, <2>2, <2>3 DEF HandlePause, KillFrame, latestVars, supVars, threadVars,
        mailVars, viewVars, shownVars, SupFrame, resultVars, appVars, markerVars, TypeOK,
        SupervisorType, Emitting, Syncing, Inserting, Telling, WorkerType, RecordType, WorldType
<1>17. ASSUME HandlePauseProject PROVE TypeOK'
  <2>1. ChannelType' /\ To \in SUBSET Projects
    BY <1>17, ReceiveType DEF HandlePauseProject, TypeOK, ChannelType, KillFrame, latestVars,
          SupFrame, resultVars
  <2>2. PauseType'
    BY <1>17, <2>1 DEF HandlePauseProject, KillFrame, latestVars, SupFrame, resultVars, appVars,
          markerVars, TypeOK, PauseType
  <2>3. CommandType'
    BY <1>17, <2>1 DEF HandlePauseProject, KillSlots, TypeOK, CommandType
  <2> QED BY <1>17, <2>1, <2>2, <2>3 DEF HandlePauseProject, KillFrame, latestVars, supVars,
        threadVars, mailVars, viewVars, shownVars, SupFrame, resultVars, appVars, markerVars,
        TypeOK, SupervisorType, Emitting, Syncing, Inserting, Telling, WorkerType, RecordType,
        WorldType
<1>18. ASSUME HandleResume PROVE TypeOK'
  <2>1. ChannelType' /\ To \in SUBSET Projects
    BY <1>18, ReceiveType DEF HandleResume, TypeOK, ChannelType, ResumeFrame, latestVars,
          SupFrame, resultVars
  <2>2. PauseType'
    BY <1>18, <2>1 DEF HandleResume, ResumeCatchUp, ResumeFrame, latestVars, SupFrame, resultVars,
          appVars, markerVars, TypeOK, PauseType
  <2>3. WorkerType'
    BY <1>18, <2>1 DEF HandleResume, ResumeCatchUp, ResumeFrame, latestVars, threadVars, TypeOK,
          WorkerType
  <2> QED BY <1>18, <2>1, <2>2, <2>3 DEF HandleResume, ResumeFrame, latestVars, supVars,
        threadVars, childVars, viewVars, shownVars, SupFrame, resultVars, appVars, markerVars,
        TypeOK, SupervisorType, Emitting, Syncing, Inserting, Telling, CommandType, RecordType,
        WorldType
<1>19. ASSUME HandleResumeProject PROVE TypeOK'
  <2>1. ChannelType' /\ To \in SUBSET Projects
    BY <1>19, ReceiveType DEF HandleResumeProject, TypeOK, ChannelType, ResumeFrame, latestVars,
          SupFrame, resultVars
  <2>2. PauseType'
    BY <1>19, <2>1 DEF HandleResumeProject, ResumeCatchUp, ResumeFrame, latestVars, SupFrame,
          resultVars, appVars, markerVars, TypeOK, PauseType
  <2>3. WorkerType'
    BY <1>19, <2>1 DEF HandleResumeProject, ResumeCatchUp, ResumeFrame, latestVars, threadVars,
          TypeOK, WorkerType
  <2> QED BY <1>19, <2>1, <2>2, <2>3 DEF HandleResumeProject, ResumeFrame, latestVars, supVars,
        threadVars, childVars, viewVars, shownVars, SupFrame, resultVars, appVars, markerVars,
        TypeOK, SupervisorType, Emitting, Syncing, Inserting, Telling, CommandType, RecordType,
        WorldType
<1>20. ASSUME StopWorker("reconcile", "join") PROVE TypeOK'
  <2>1. SupervisorType'
    BY <1>20 DEF StopWorker, latestVars, TypeOK, SupervisorType, Emitting, Syncing, Inserting,
          Telling
  <2>2. WorkerType'
    BY <1>20 DEF StopWorker, latestVars, SupervisorType, Emitting, Syncing, Inserting, Telling,
          RaiseStopFlag, threadVars, TypeOK, WorkerType
  <2>3. CommandType'
    BY <1>20 DEF StopWorker, latestVars, KillSlots, TypeOK, CommandType
  <2> QED BY <1>20, <2>1, <2>2, <2>3 DEF StopWorker, latestVars, SupFrame, resultVars, pauseVars,
        threadVars, viewVars, shownVars, appVars, markerVars, TypeOK, ChannelType, PauseType,
        RecordType, WorldType
<1>21. ASSUME JoinWorker("join", "reconcile") PROVE TypeOK'
  <2>1. SupervisorType'
    BY <1>21 DEF JoinWorker, Show, latestVars, shownVars, TypeOK, SupervisorType, Emitting,
          Syncing, Inserting, Telling
  <2>2. WorkerType'
    BY <1>21 DEF JoinWorker, Show, latestVars, shownVars, SupervisorType, Emitting, Syncing,
          Inserting, Telling, Running, TypeOK, WorkerType
  <2>3. RecordType'
    BY <1>21 DEF JoinWorker, Show, latestVars, shownVars, SupervisorType, Emitting, Syncing,
          Inserting, Telling, Terminal, SupFrame, resultVars, Cached, TypeOK, RecordType
  <2> QED BY <1>21, <2>1, <2>2, <2>3 DEF JoinWorker, Show, latestVars, shownVars, SupFrame,
        resultVars, pauseVars, childVars, appVars, markerVars, TypeOK, ChannelType, PauseType,
        CommandType, WorldType
<1>22. ASSUME SpawnMissing PROVE TypeOK'
  <2>1. SupervisorType'
    BY <1>22 DEF SpawnMissing, latestVars, TypeOK, SupervisorType, Emitting, Syncing, Inserting,
          Telling
  <2>2. WorkerType'
    <3>1. cmd' \in [Projects -> 1..(NumCommands + 1)]
      BY <1>22, RuntimeAssumption DEF SpawnMissing, latestVars, Spawn, TypeOK, WorkerType
    <3>2. /\ failed' \in [Projects -> BOOLEAN]
          /\ sched' \in [Projects -> BOOLEAN] /\ stop' \in [Projects -> BOOLEAN]
      BY <1>22 DEF SpawnMissing, latestVars, Spawn, TypeOK, WorkerType
    <3> QED BY <1>22, <3>1, <3>2 DEF SpawnMissing, latestVars, Spawn, Running, TypeOK, WorkerType
  <2> QED BY <1>22, <2>1, <2>2 DEF SpawnMissing, latestVars, SupFrame, resultVars, pauseVars,
        childVars, viewVars, shownVars, appVars, markerVars, TypeOK, ChannelType, PauseType,
        CommandType, RecordType, WorldType
<1>23. ASSUME Drain PROVE TypeOK'
  <2>1. SupervisorType'
    BY <1>23 DEF Drain, latestVars, Drained, Workers, TypeOK, SupervisorType, Emitting, Syncing,
          Inserting, Telling
  <2> QED BY <1>23, <2>1 DEF Drain, latestVars, SupFrame, resultVars, pauseVars, threadVars,
        mailVars, childVars, viewVars, shownVars, appVars, markerVars, TypeOK, ChannelType,
        PauseType, WorkerType, CommandType, RecordType, WorldType
<1>24. ASSUME StopWorker("drain", "drainJoin") PROVE TypeOK'
  <2>1. SupervisorType'
    BY <1>24 DEF StopWorker, latestVars, TypeOK, SupervisorType, Emitting, Syncing, Inserting,
          Telling
  <2>2. WorkerType'
    BY <1>24 DEF StopWorker, latestVars, SupervisorType, Emitting, Syncing, Inserting, Telling,
          RaiseStopFlag, threadVars, TypeOK, WorkerType
  <2>3. CommandType'
    BY <1>24 DEF StopWorker, latestVars, KillSlots, TypeOK, CommandType
  <2> QED BY <1>24, <2>1, <2>2, <2>3 DEF StopWorker, latestVars, SupFrame, resultVars, pauseVars,
        threadVars, viewVars, shownVars, appVars, markerVars, TypeOK, ChannelType, PauseType,
        RecordType, WorldType
<1>25. ASSUME JoinWorker("drainJoin", "drain") PROVE TypeOK'
  <2>1. SupervisorType'
    BY <1>25 DEF JoinWorker, Show, latestVars, shownVars, TypeOK, SupervisorType, Emitting,
          Syncing, Inserting, Telling
  <2>2. WorkerType'
    BY <1>25 DEF JoinWorker, Show, latestVars, shownVars, SupervisorType, Emitting, Syncing,
          Inserting, Telling, Running, TypeOK, WorkerType
  <2>3. RecordType'
    BY <1>25 DEF JoinWorker, Show, latestVars, shownVars, SupervisorType, Emitting, Syncing,
          Inserting, Telling, Terminal, SupFrame, resultVars, Cached, TypeOK, RecordType
  <2> QED BY <1>25, <2>1, <2>2, <2>3 DEF JoinWorker, Show, latestVars, shownVars, SupFrame,
        resultVars, pauseVars, childVars, appVars, markerVars, TypeOK, ChannelType, PauseType,
        CommandType, WorldType
<1>26. ASSUME SupervisorExits PROVE TypeOK'
  <2>1. SupervisorType'
    BY <1>26 DEF SupervisorExits, latestVars, TypeOK, SupervisorType, Emitting, Syncing,
          Inserting, Telling
  <2> QED BY <1>26, <2>1 DEF SupervisorExits, latestVars, SupFrame, resultVars, pauseVars,
        threadVars, mailVars, childVars, viewVars, shownVars, appVars, markerVars, TypeOK,
        ChannelType, PauseType, WorkerType, CommandType, RecordType, WorldType
<1>27. ASSUME NEW p \in Projects, ReceiveTrigger(p) PROVE TypeOK'
  <2>1. WorkerType'
    BY <1>27 DEF ReceiveTrigger, WorkerFrame, threadVars, TypeOK, WorkerType
  <2> QED BY <1>27, <2>1 DEF ReceiveTrigger, WorkerFrame, threadVars, childVars, diskVars,
        latestVars, resultVars, viewVars, shownVars, supVars, appVars, markerVars, TypeOK,
        ChannelType, PauseType, SupervisorType, Emitting, Syncing, Inserting, Telling,
        CommandType, RecordType, WorldType
<1>28. ASSUME NEW p \in Projects, ExitThread(p) PROVE TypeOK'
  <2>1. WorkerType'
    BY <1>28 DEF ExitThread, WorkerFrame, Goto, Running, TypeOK, WorkerType
  <2> QED BY <1>28, <2>1 DEF ExitThread, WorkerFrame, childVars, diskVars, latestVars, resultVars,
        viewVars, shownVars, supVars, appVars, markerVars, TypeOK, ChannelType, PauseType,
        SupervisorType, Emitting, Syncing, Inserting, Telling, CommandType, RecordType, WorldType
<1>29. ASSUME NEW p \in Projects, HoldBack(p) PROVE TypeOK'
  <2>1. WorkerType'
    BY <1>29 DEF HoldBack, WorkerFrame, Goto, Running, TypeOK, WorkerType
  <2> QED BY <1>29, <2>1 DEF HoldBack, WorkerFrame, childVars, diskVars, latestVars, resultVars,
        viewVars, shownVars, supVars, appVars, markerVars, TypeOK, ChannelType, PauseType,
        SupervisorType, Emitting, Syncing, Inserting, Telling, CommandType, RecordType, WorldType
<1>30. ASSUME NEW p \in Projects, RememberHeld(p) PROVE TypeOK'
  <2>1. PauseType'
    BY <1>30 DEF RememberHeld, Show, RememberCatchUp, WorkerFrame, appVars, markerVars, TypeOK,
          PauseType
  <2>2. WorkerType'
    BY <1>30 DEF RememberHeld, Show, WorkerFrame, Goto, Running, TypeOK, WorkerType
  <2>3. RecordType'
    BY <1>30 DEF RememberHeld, Show, Terminal, diskVars, latestVars, resultVars, Cached, TypeOK,
          RecordType
  <2> QED BY <1>30, <2>1, <2>2, <2>3 DEF RememberHeld, Show, WorkerFrame, childVars, diskVars,
        latestVars, resultVars, supVars, appVars, markerVars, TypeOK, ChannelType, SupervisorType,
        Emitting, Syncing, Inserting, Telling, CommandType, WorldType
<1>31. ASSUME NEW p \in Projects, SkipRun(p) PROVE TypeOK'
  <2>1. WorkerType'
    BY <1>31 DEF SkipRun, WorkerFrame, threadVars, TypeOK, WorkerType
  <2>2. RecordType'
    BY <1>31 DEF SkipRun, diskVars, latestVars, resultVars, viewVars, shownVars, TypeOK, RecordType
  <2> QED BY <1>31, <2>1, <2>2 DEF SkipRun, WorkerFrame, threadVars, childVars, diskVars,
        latestVars, resultVars, viewVars, shownVars, supVars, appVars, markerVars, TypeOK,
        ChannelType, PauseType, SupervisorType, Emitting, Syncing, Inserting, Telling,
        CommandType, WorldType
<1>32. ASSUME NEW p \in Projects, StartRun(p) PROVE TypeOK'
  <2>1. WorkerType'
    BY <1>32, RuntimeAssumption DEF StartRun, Rewrite, latestVars, resultVars, WorkerFrame, Goto,
          Running, TypeOK, WorkerType
  <2>2. CommandType'
    BY <1>32 DEF StartRun, Rewrite, latestVars, resultVars, TypeOK, CommandType
  <2>3. RecordType'
    BY <1>32 DEF StartRun, Rewrite, latestVars, resultVars, viewVars, shownVars, Verdict, TypeOK,
          RecordType
  <2> QED BY <1>32, <2>1, <2>2, <2>3 DEF StartRun, Rewrite, latestVars, resultVars, WorkerFrame,
        viewVars, shownVars, supVars, appVars, markerVars, TypeOK, ChannelType, PauseType,
        SupervisorType, Emitting, Syncing, Inserting, Telling, WorldType
<1>33. ASSUME NEW p \in Projects, Announce(p) PROVE TypeOK'
  <2>1. WorkerType'
    BY <1>33 DEF Announce, Show, WorkerFrame, Goto, Running, TypeOK, WorkerType
  <2>2. RecordType'
    BY <1>33 DEF Announce, Show, Terminal, diskVars, latestVars, resultVars, Cached, TypeOK,
          RecordType
  <2> QED BY <1>33, <2>1, <2>2 DEF Announce, Show, WorkerFrame, childVars, diskVars, latestVars,
        resultVars, supVars, appVars, markerVars, TypeOK, ChannelType, PauseType, SupervisorType,
        Emitting, Syncing, Inserting, Telling, CommandType, WorldType
<1>34. ASSUME NEW p \in Projects, ProjectRemoved(p) PROVE TypeOK'
  <2>1. WorkerType'
    BY <1>34 DEF ProjectRemoved, RunEndsEarly, Rewrite, RemovalFails, Show, resultVars,
          WorkerFrame, Goto, Running, TypeOK, WorkerType
  <2>2. RecordType'
    BY <1>34 DEF ProjectRemoved, RunEndsEarly, Rewrite, RemovalFails, Show, resultVars, Terminal,
          Cached, TypeOK, RecordType
  <2> QED BY <1>34, <2>1, <2>2 DEF ProjectRemoved, RunEndsEarly, Rewrite, RemovalFails, Show,
        resultVars, WorkerFrame, childVars, supVars, appVars, markerVars, TypeOK, ChannelType,
        PauseType, SupervisorType, Emitting, Syncing, Inserting, Telling, CommandType, WorldType
<1>35. ASSUME NEW p \in Projects, Interrupted(p) PROVE TypeOK'
  <2>1. WorkerType'
    BY <1>35 DEF Interrupted, RunEndsEarly, Rewrite, RemovalFails, Show, resultVars, WorkerFrame,
          Goto, Running, TypeOK, WorkerType
  <2>2. RecordType'
    BY <1>35 DEF Interrupted, RunEndsEarly, Rewrite, RemovalFails, Show, resultVars, Terminal,
          Cached, TypeOK, RecordType
  <2> QED BY <1>35, <2>1, <2>2 DEF Interrupted, RunEndsEarly, Rewrite, RemovalFails, Show,
        resultVars, WorkerFrame, childVars, supVars, appVars, markerVars, TypeOK, ChannelType,
        PauseType, SupervisorType, Emitting, Syncing, Inserting, Telling, CommandType, WorldType
<1>36. ASSUME NEW p \in Projects, SpawnCommand(p) PROVE TypeOK'
  <2>1. WorkerType'
    <3>1. cmd' \in [Projects -> 1..(NumCommands + 1)]
      BY <1>36, RuntimeAssumption DEF SpawnCommand, RecordCommand, Abort, Guard, Rewrite,
            RemovalFails, Show, latestVars, resultVars, viewVars, shownVars, diskVars,
            CommandsLeft, TypeOK, WorkerType
    <3>2. failed' \in [Projects -> BOOLEAN]
      BY <1>36 DEF SpawnCommand, RecordCommand, Abort, Guard, Rewrite, RemovalFails, Show,
            latestVars, resultVars, viewVars, shownVars, diskVars, TypeOK, WorkerType
    <3>3. pc' \in [Projects -> Running \cup {"none", "idle", "hold", "post", "remember", "exited"}]
      BY <1>36 DEF SpawnCommand, RecordCommand, Abort, Guard, Rewrite, RemovalFails, Show,
            latestVars, resultVars, viewVars, shownVars, diskVars, Goto, Running, TypeOK,
            WorkerType
    <3> QED BY <1>36, <3>1, <3>2, <3>3
        DEF SpawnCommand, RecordCommand, Abort, Guard, Rewrite, RemovalFails, Show, latestVars,
          resultVars, viewVars, shownVars, diskVars, WorkerFrame, TypeOK, WorkerType
  <2>2. CommandType'
    BY <1>36 DEF SpawnCommand, RecordCommand, Abort, Guard, Rewrite, RemovalFails, Show,
          latestVars, resultVars, viewVars, shownVars, diskVars, TypeOK, CommandType
  <2>3. RecordType'
    BY <1>36 DEF SpawnCommand, RecordCommand, Abort, Guard, Rewrite, RemovalFails, Show,
          latestVars, resultVars, viewVars, shownVars, diskVars, Terminal, Verdict, Cached,
          TypeOK, RecordType
  <2> QED BY <1>36, <2>1, <2>2, <2>3 DEF SpawnCommand, RecordCommand, Abort, Guard, Rewrite,
        RemovalFails, Show, latestVars, resultVars, viewVars, shownVars, diskVars, WorkerFrame,
        supVars, appVars, markerVars, TypeOK, ChannelType, PauseType, SupervisorType, Emitting,
        Syncing, Inserting, Telling, WorldType
<1>37. ASSUME NEW p \in Projects, PutInSlot(p) PROVE TypeOK'
  <2>1. WorkerType'
    BY <1>37 DEF PutInSlot, WorkerFrame, Goto, Running, TypeOK, WorkerType
  <2>2. CommandType'
    BY <1>37 DEF PutInSlot, TypeOK, CommandType
  <2> QED BY <1>37, <2>1, <2>2 DEF PutInSlot, WorkerFrame, diskVars, latestVars, resultVars,
        viewVars, shownVars, supVars, appVars, markerVars, TypeOK, ChannelType, PauseType,
        SupervisorType, Emitting, Syncing, Inserting, Telling, RecordType, WorldType
<1>38. ASSUME NEW p \in Projects, Reap(p) PROVE TypeOK'
  <2>1. WorkerType'
    <3>1. cmd' \in [Projects -> 1..(NumCommands + 1)]
      BY <1>38, CommandOwned, RuntimeAssumption DEF Reap, RecordCommand, Abort, Guard, Rewrite,
            RemovalFails, Show, latestVars, resultVars, viewVars, shownVars, CommandOwned, TypeOK,
            WorkerType
    <3>2. failed' \in [Projects -> BOOLEAN]
      BY <1>38 DEF Reap, RecordCommand, Abort, Guard, Rewrite, RemovalFails, Show, latestVars,
            resultVars, viewVars, shownVars, TypeOK, WorkerType
    <3> QED BY <1>38, <3>1, <3>2
        DEF Reap, RecordCommand, Abort, Guard, Rewrite, RemovalFails, Show, latestVars,
          resultVars, viewVars, shownVars, WorkerFrame, Goto, Running, TypeOK, WorkerType
  <2>2. CommandType'
    BY <1>38 DEF Reap, RecordCommand, Abort, Guard, Rewrite, RemovalFails, Show, latestVars,
          resultVars, viewVars, shownVars, AwaitChild, TypeOK, CommandType
  <2>3. RecordType'
    BY <1>38 DEF Reap, RecordCommand, Abort, Guard, Rewrite, RemovalFails, Show, latestVars,
          resultVars, viewVars, shownVars, Terminal, Verdict, Cached, TypeOK, RecordType
  <2> QED BY <1>38, <2>1, <2>2, <2>3 DEF Reap, RecordCommand, Abort, Guard, Rewrite, RemovalFails,
        Show, latestVars, resultVars, viewVars, shownVars, WorkerFrame, supVars, appVars,
        markerVars, TypeOK, ChannelType, PauseType, SupervisorType, Emitting, Syncing, Inserting,
        Telling, WorldType
<1>39. ASSUME NEW p \in Projects, Finish(p) PROVE TypeOK'
  <2>1. WorkerType'
    BY <1>39 DEF Finish, Abort, Guard, Rewrite, RemovalFails, Show, latestVars, resultVars,
          viewVars, shownVars, WorkerFrame, Goto, Running, TypeOK, WorkerType
  <2>2. RecordType'
    BY <1>39 DEF Finish, Abort, Guard, Rewrite, RemovalFails, Show, latestVars, resultVars,
          viewVars, shownVars, CacheVerdict, Cover, Terminal, Verdict, Cached, TypeOK, RecordType
  <2> QED BY <1>39, <2>1, <2>2 DEF Finish, Abort, Guard, Rewrite, RemovalFails, Show, latestVars,
        resultVars, viewVars, shownVars, WorkerFrame, childVars, supVars, appVars, markerVars,
        TypeOK, ChannelType, PauseType, SupervisorType, Emitting, Syncing, Inserting, Telling,
        CommandType, WorldType
<1>40. ASSUME NEW p \in Projects, AfterRun(p) PROVE TypeOK'
  <2>1. WorkerType'
    BY <1>40 DEF AfterRun, NextAfterRun, WorkerFrame, Goto, Running, TypeOK, WorkerType
  <2> QED BY <1>40, <2>1 DEF AfterRun, WorkerFrame, childVars, diskVars, latestVars, resultVars,
        viewVars, shownVars, supVars, appVars, markerVars, TypeOK, ChannelType, PauseType,
        SupervisorType, Emitting, Syncing, Inserting, Telling, CommandType, RecordType, WorldType
<1>41. ASSUME NEW p \in Projects, RememberInterrupted(p) PROVE TypeOK'
  <2>1. PauseType'
    BY <1>41 DEF RememberInterrupted, RememberCatchUp, WorkerFrame, appVars, markerVars, TypeOK,
          PauseType
  <2>2. WorkerType'
    BY <1>41 DEF RememberInterrupted, WorkerFrame, Goto, Running, TypeOK, WorkerType
  <2> QED BY <1>41, <2>1, <2>2 DEF RememberInterrupted, WorkerFrame, childVars, diskVars,
        latestVars, resultVars, viewVars, shownVars, supVars, appVars, markerVars, TypeOK,
        ChannelType, SupervisorType, Emitting, Syncing, Inserting, Telling, CommandType,
        RecordType, WorldType
<1>42. ASSUME NEW p \in Projects, ChildExits(p) PROVE TypeOK'
  <2>1. CommandType'
    BY <1>42 DEF ChildExits, TypeOK, CommandType
  <2> QED BY <1>42, <2>1 DEF ChildExits, WorkerFrame, threadVars, diskVars, latestVars,
        resultVars, viewVars, shownVars, supVars, appVars, markerVars, TypeOK, ChannelType,
        PauseType, SupervisorType, Emitting, Syncing, Inserting, Telling, WorkerType, RecordType,
        WorldType
<1>43. ASSUME NEW p \in Projects, DirChanges(p) PROVE TypeOK'
  <2>1. WorldType'
    BY <1>43 DEF DirChanges, Spend, Events, appVars, markerVars, TypeOK, WorldType
  <2> QED BY <1>43, <2>1 DEF DirChanges, AppFrame, appVars, markerVars, supVars, threadVars,
        mailVars, childVars, diskVars, latestVars, resultVars, viewVars, shownVars, TypeOK,
        ChannelType, PauseType, SupervisorType, Emitting, Syncing, Inserting, Telling, WorkerType,
        CommandType, RecordType
<1>44. CASE UNCHANGED vars
  BY <1>44 DEF vars, pauseVars, supVars, threadVars, mailVars, childVars, diskVars, latestVars,
        resultVars, viewVars, shownVars, appVars, markerVars, TypeOK, ChannelType, PauseType,
        SupervisorType, Emitting, Syncing, Inserting, Telling, WorkerType, CommandType,
        RecordType, WorldType
<1> QED BY <1>1, <1>2, <1>3, <1>4, <1>5, <1>6, <1>7, <1>8, <1>9, <1>10, <1>11, <1>12, <1>13,
    <1>14, <1>15, <1>16, <1>17, <1>18, <1>19, <1>20, <1>21, <1>22, <1>23, <1>24, <1>25, <1>26,
    <1>27, <1>28, <1>29, <1>30, <1>31, <1>32, <1>33, <1>34, <1>35, <1>36, <1>37, <1>38, <1>39,
    <1>40, <1>41, <1>42, <1>43, <1>44, <1>45, <1>46
    DEF Next, Application, Supervisor, AnyHydrate, AnyInsert, AnyTell, Worker

\* Every step keeps commands owned.
LEMMA CommandStep ==
  ASSUME TypeOK, CommandOwned, [Next]_vars
  PROVE  CommandOwned'
<1>1. ASSUME Application \/ (\E p \in Projects : DirChanges(p)) PROVE CommandOwned'
  BY <1>1 DEF Application, SyncProjects, markerVars, PauseAll, ResumeAll, WriteMarker,
        DropHandles, Edit, PauseProject, ResumeProject, NoticeDir, DirChanges, AppFrame,
        threadVars, childVars, CommandOwned
<1>2. ASSUME HandleRegister PROVE CommandOwned'
  BY <1>2 DEF HandleRegister, latestVars, SupFrame, resultVars, childVars, Spawn, Workers,
        WorkerType, CommandType, TypeOK, CommandOwned
<1>3. ASSUME HandlePause PROVE CommandOwned'
  BY <1>3 DEF HandlePause, KillFrame, latestVars, threadVars, SupFrame, resultVars, KillSlots,
        CommandType, TypeOK, CommandOwned
<1>4. ASSUME HandlePauseProject PROVE CommandOwned'
  BY <1>4 DEF HandlePauseProject, KillFrame, latestVars, threadVars, SupFrame, resultVars,
        KillSlots, CommandType, TypeOK, CommandOwned
<1>5. ASSUME StopWorker("reconcile", "join") PROVE CommandOwned'
  BY <1>5 DEF StopWorker, latestVars, SupFrame, resultVars, threadVars, KillSlots, CommandType,
        TypeOK, CommandOwned
<1>6. ASSUME JoinWorker("join", "reconcile") PROVE CommandOwned'
  BY <1>6 DEF JoinWorker, Show, latestVars, shownVars, SupFrame, resultVars, childVars,
        WorkerType, CommandType, TypeOK, CommandOwned
<1>7. ASSUME SpawnMissing PROVE CommandOwned'
  BY <1>7 DEF SpawnMissing, latestVars, SupFrame, resultVars, childVars, Spawn, Workers,
        WorkerType, CommandType, TypeOK, CommandOwned
<1>8. ASSUME StopWorker("drain", "drainJoin") PROVE CommandOwned'
  BY <1>8 DEF StopWorker, latestVars, SupFrame, resultVars, threadVars, KillSlots, CommandType,
        TypeOK, CommandOwned
<1>9. ASSUME JoinWorker("drainJoin", "drain") PROVE CommandOwned'
  BY <1>9 DEF JoinWorker, Show, latestVars, shownVars, SupFrame, resultVars, childVars,
        WorkerType, CommandType, TypeOK, CommandOwned
<1>10. ASSUME NEW p \in Projects, ExitThread(p) PROVE CommandOwned'
  BY <1>10 DEF ExitThread, WorkerFrame, childVars, Goto, WorkerType, CommandType, TypeOK,
    CommandOwned
<1>11. ASSUME NEW p \in Projects, HoldBack(p) PROVE CommandOwned'
  BY <1>11 DEF HoldBack, WorkerFrame, childVars, Goto, WorkerType, CommandType, TypeOK,
    CommandOwned
<1>12. ASSUME NEW p \in Projects, RememberHeld(p) PROVE CommandOwned'
  BY <1>12 DEF RememberHeld, Show, WorkerFrame, childVars, Goto, WorkerType, CommandType, TypeOK,
        CommandOwned
<1>13. ASSUME NEW p \in Projects, StartRun(p) PROVE CommandOwned'
  BY <1>13 DEF StartRun, Rewrite, latestVars, resultVars, WorkerFrame, Goto, WorkerType,
        CommandType, TypeOK, CommandOwned
<1>14. ASSUME NEW p \in Projects, Announce(p) PROVE CommandOwned'
  BY <1>14 DEF Announce, Show, WorkerFrame, childVars, Goto, WorkerType, CommandType, TypeOK,
        CommandOwned
<1>15. ASSUME NEW p \in Projects, ProjectRemoved(p) PROVE CommandOwned'
  BY <1>15 DEF ProjectRemoved, RunEndsEarly, Rewrite, RemovalFails, Show, resultVars, WorkerFrame,
        childVars, Goto, WorkerType, CommandType, TypeOK, CommandOwned
<1>16. ASSUME NEW p \in Projects, Interrupted(p) PROVE CommandOwned'
  BY <1>16 DEF Interrupted, RunEndsEarly, Rewrite, RemovalFails, Show, resultVars, WorkerFrame,
        childVars, Goto, WorkerType, CommandType, TypeOK, CommandOwned
<1>17. ASSUME NEW p \in Projects, SpawnCommand(p) PROVE CommandOwned'
  BY <1>17 DEF SpawnCommand, RecordCommand, Abort, Guard, Rewrite, RemovalFails, Show, latestVars,
        resultVars, viewVars, shownVars, diskVars, WorkerFrame, Goto, WorkerType, CommandType,
        CommandsLeft, MayProceed, TypeOK, CommandOwned
<1>18. ASSUME NEW p \in Projects, PutInSlot(p) PROVE CommandOwned'
  BY <1>18 DEF PutInSlot, WorkerFrame, Goto, WorkerType, CommandType, TypeOK, CommandOwned
<1>19. ASSUME NEW p \in Projects, Reap(p) PROVE CommandOwned'
  BY <1>19 DEF Reap, RecordCommand, Abort, Guard, Rewrite, RemovalFails, Show, latestVars,
        resultVars, viewVars, shownVars, WorkerFrame, Goto, WorkerType, CommandType, AwaitChild,
        TypeOK, CommandOwned
<1>20. ASSUME NEW p \in Projects, Finish(p) PROVE CommandOwned'
  BY <1>20 DEF Finish, Abort, Guard, Rewrite, RemovalFails, Show, latestVars, resultVars,
        viewVars, shownVars, WorkerFrame, childVars, Goto, WorkerType, CommandType, MayProceed,
        TypeOK, CommandOwned
<1>21. ASSUME NEW p \in Projects, AfterRun(p) PROVE CommandOwned'
  BY <1>21 DEF AfterRun, WorkerFrame, childVars, Goto, WorkerType, CommandType, NextAfterRun,
    TypeOK, CommandOwned
<1>22. ASSUME NEW p \in Projects, RememberInterrupted(p) PROVE CommandOwned'
  BY <1>22 DEF RememberInterrupted, WorkerFrame, childVars, Goto, WorkerType, CommandType,
    TypeOK, CommandOwned
<1>23. ASSUME NEW p \in Projects, ChildExits(p) PROVE CommandOwned'
  BY <1>23 DEF ChildExits, WorkerFrame, threadVars, CommandType, TypeOK, CommandOwned
<1>24. ASSUME \/ HandleSync \/ SyncPauses \/ AnyHydrate \/ AnyInsert \/ AnyTell \/ HandleUnregister
             \/ HandleTrigger \/ HandleResume \/ HandleResumeProject \/ Drain \/ SupervisorExits
       PROVE CommandOwned'
  BY <1>24 DEF HandleSync, latestVars, SyncPauses, AnyHydrate, Hydrate, EmitFrame, SupFrame,
        resultVars, Missed, DiskStatus, Rewrite, RemovalFails, viewVars, shownVars, AnyInsert,
        Insert, AnyTell, Tell, StartupShown, HandleUnregister, HandleTrigger, HandleResume,
        HandleResumeProject, Drain, SupervisorExits, threadVars, childVars, ResumeFrame,
        CommandOwned
<1>25. ASSUME NEW p \in Projects, ReceiveTrigger(p) \/ SkipRun(p) PROVE CommandOwned'
  BY <1>25 DEF ReceiveTrigger, SkipRun, WorkerFrame, threadVars, childVars, CommandOwned
<1>26. CASE UNCHANGED vars
  BY <1>26 DEF vars, threadVars, childVars, CommandOwned
<1> QED BY <1>1, <1>2, <1>3, <1>4, <1>5, <1>6, <1>7, <1>8, <1>9, <1>10, <1>11, <1>12, <1>13,
    <1>14, <1>15, <1>16, <1>17, <1>18, <1>19, <1>20, <1>21, <1>22, <1>23, <1>24, <1>25, <1>26 DEF Next, Supervisor, AnyHydrate, AnyInsert, AnyTell, Worker

\* Every step keeps Running records backed by a run or not yet hydrated.
LEMMA RecordsStep ==
  ASSUME TypeOK, RecordsBacked, [Next]_vars
  PROVE  RecordsBacked'
<1>1. ASSUME Application \/ (\E p \in Projects : DirChanges(p)) PROVE RecordsBacked'
  BY <1>1 DEF Application, SyncProjects, markerVars, PauseAll, ResumeAll, WriteMarker,
        DropHandles, Edit, PauseProject, ResumeProject, NoticeDir, DirChanges, AppFrame, supVars,
        threadVars, diskVars, latestVars, resultVars, viewVars, shownVars, InRun, Running,
        RecordsBacked, Inserting
<1>2. ASSUME HandleSync PROVE RecordsBacked'
  BY <1>2 DEF HandleSync, latestVars, SupFrame, resultVars, threadVars, viewVars, shownVars,
        InRun, Running, SupervisorType, Emitting, Syncing, Inserting, Telling, WorkerType,
        RecordType, TypeOK, RecordsBacked
<1>3. ASSUME HandleRegister PROVE RecordsBacked'
  BY <1>3 DEF HandleRegister, latestVars, SupFrame, resultVars, viewVars, shownVars, InRun,
        Running, SupervisorType, Emitting, Syncing, Inserting, Telling, WorkerType, RecordType,
        Spawn, Workers, TypeOK, RecordsBacked
<1>4. ASSUME AnyHydrate PROVE RecordsBacked'
  BY <1>4 DEF AnyHydrate, Hydrate, EmitFrame, SupFrame, resultVars, Missed, DiskStatus, Rewrite,
        RemovalFails, latestVars, viewVars, shownVars, threadVars, InRun, Running, SupervisorType,
        Emitting, Syncing, Inserting, Telling, WorkerType, RecordType, Cached, Verdict, TypeOK,
        RecordsBacked
<1>30. ASSUME AnyTell PROVE RecordsBacked'
  BY <1>30 DEF AnyTell, Tell, EmitFrame, SupFrame, resultVars, StartupShown, latestVars,
        threadVars, InRun, Running, SupervisorType, Emitting, Syncing, Inserting, Telling,
        WorkerType, RecordType, Cached, Verdict, TypeOK, RecordsBacked
<1>31. ASSUME SyncPauses PROVE RecordsBacked'
  BY <1>31 DEF SyncPauses, latestVars, SupFrame, resultVars, threadVars, viewVars, shownVars,
        InRun, Running, SupervisorType, Emitting, Syncing, Inserting, Telling, WorkerType,
        RecordType, TypeOK, RecordsBacked
<1>5. ASSUME AnyInsert PROVE RecordsBacked'
  BY <1>5 DEF AnyInsert, Insert, EmitFrame, SupFrame, resultVars, latestVars, shownVars,
        threadVars, InRun, Running, SupervisorType, Emitting, Syncing, Inserting, Telling,
        WorkerType, RecordType, Cached, Verdict, TypeOK, RecordsBacked
<1>6. ASSUME HandleUnregister PROVE RecordsBacked'
  BY <1>6 DEF HandleUnregister, latestVars, SupFrame, resultVars, threadVars, viewVars, shownVars,
        InRun, Running, SupervisorType, Emitting, Syncing, Inserting, Telling, WorkerType,
        RecordType, TypeOK, RecordsBacked
<1>7. ASSUME StopWorker("reconcile", "join") PROVE RecordsBacked'
  BY <1>7 DEF StopWorker, latestVars, SupFrame, resultVars, threadVars, viewVars, shownVars,
        InRun, Running, SupervisorType, Emitting, Syncing, Inserting, Telling, WorkerType,
        RecordType, TypeOK, RecordsBacked
<1>8. ASSUME JoinWorker("join", "reconcile") PROVE RecordsBacked'
  BY <1>8 DEF JoinWorker, Show, latestVars, shownVars, SupFrame, resultVars, InRun, Running,
        SupervisorType, Emitting, Syncing, Inserting, Telling, WorkerType, RecordType, TypeOK,
        RecordsBacked
<1>9. ASSUME SpawnMissing PROVE RecordsBacked'
  BY <1>9 DEF SpawnMissing, latestVars, SupFrame, resultVars, viewVars, shownVars, InRun, Running,
        SupervisorType, Emitting, Syncing, Inserting, Telling, WorkerType, RecordType, Spawn,
        Workers, TypeOK, RecordsBacked
<1>10. ASSUME Drain PROVE RecordsBacked'
  BY <1>10 DEF Drain, latestVars, SupFrame, resultVars, threadVars, viewVars, shownVars, InRun,
        Running, SupervisorType, Emitting, Syncing, Inserting, Telling, WorkerType, RecordType,
        TypeOK, RecordsBacked
<1>11. ASSUME StopWorker("drain", "drainJoin") PROVE RecordsBacked'
  BY <1>11 DEF StopWorker, latestVars, SupFrame, resultVars, threadVars, viewVars, shownVars,
        InRun, Running, SupervisorType, Emitting, Syncing, Inserting, Telling, WorkerType,
        RecordType, TypeOK, RecordsBacked
<1>12. ASSUME JoinWorker("drainJoin", "drain") PROVE RecordsBacked'
  BY <1>12 DEF JoinWorker, Show, latestVars, shownVars, SupFrame, resultVars, InRun, Running,
        SupervisorType, Emitting, Syncing, Inserting, Telling, WorkerType, RecordType, TypeOK,
        RecordsBacked
<1>13. ASSUME SupervisorExits PROVE RecordsBacked'
  BY <1>13 DEF SupervisorExits, latestVars, SupFrame, resultVars, threadVars, viewVars, shownVars,
        InRun, Running, SupervisorType, Emitting, Syncing, Inserting, Telling, WorkerType,
        RecordType, TypeOK, RecordsBacked
<1>14. ASSUME NEW p \in Projects, ExitThread(p) PROVE RecordsBacked'
  BY <1>14 DEF ExitThread, WorkerFrame, diskVars, latestVars, resultVars, viewVars, shownVars,
        supVars, Goto, InRun, Running, WorkerType, RecordType, SupervisorType, Emitting, Syncing,
        Inserting, Telling, TypeOK, RecordsBacked
<1>15. ASSUME NEW p \in Projects, HoldBack(p) PROVE RecordsBacked'
  BY <1>15 DEF HoldBack, WorkerFrame, diskVars, latestVars, resultVars, viewVars, shownVars,
        supVars, Goto, InRun, Running, WorkerType, RecordType, SupervisorType, Emitting, Syncing,
        Inserting, Telling, TypeOK, RecordsBacked
<1>16. ASSUME NEW p \in Projects, RememberHeld(p) PROVE RecordsBacked'
  BY <1>16 DEF RememberHeld, Show, WorkerFrame, diskVars, latestVars, resultVars, supVars, Goto,
        InRun, Running, WorkerType, RecordType, SupervisorType, Emitting, Syncing, Inserting,
        Telling, TypeOK, RecordsBacked
<1>17. ASSUME NEW p \in Projects, StartRun(p) PROVE RecordsBacked'
  BY <1>17 DEF StartRun, Rewrite, latestVars, resultVars, WorkerFrame, viewVars, shownVars,
        supVars, Goto, InRun, Running, WorkerType, RecordType, SupervisorType, Emitting, Syncing,
        Inserting, Telling, TypeOK, RecordsBacked
<1>18. ASSUME NEW p \in Projects, Announce(p) PROVE RecordsBacked'
  BY <1>18 DEF Announce, Show, WorkerFrame, diskVars, latestVars, resultVars, supVars, Goto,
        InRun, Running, WorkerType, RecordType, SupervisorType, Emitting, Syncing, Inserting,
        Telling, Verdict, Cached, TypeOK, RecordsBacked
<1>19. ASSUME NEW p \in Projects, ProjectRemoved(p) PROVE RecordsBacked'
  BY <1>19 DEF ProjectRemoved, RunEndsEarly, Rewrite, RemovalFails, Show, resultVars, WorkerFrame,
        supVars, Goto, InRun, Running, WorkerType, RecordType, SupervisorType, Emitting, Syncing,
        Inserting, Telling, Cached, TypeOK, RecordsBacked
<1>20. ASSUME NEW p \in Projects, Interrupted(p) PROVE RecordsBacked'
  BY <1>20 DEF Interrupted, RunEndsEarly, Rewrite, RemovalFails, Show, resultVars, WorkerFrame,
        supVars, Goto, InRun, Running, WorkerType, RecordType, SupervisorType, Emitting, Syncing,
        Inserting, Telling, TypeOK, RecordsBacked
<1>21. ASSUME NEW p \in Projects, SpawnCommand(p) PROVE RecordsBacked'
  BY <1>21 DEF SpawnCommand, RecordCommand, Abort, Guard, Rewrite, RemovalFails, Show, latestVars,
        resultVars, viewVars, shownVars, diskVars, WorkerFrame, supVars, Goto, InRun, Running,
        WorkerType, RecordType, SupervisorType, Emitting, Syncing, Inserting, Telling, MayProceed,
        TypeOK, RecordsBacked
<1>22. ASSUME NEW p \in Projects, PutInSlot(p) PROVE RecordsBacked'
  BY <1>22 DEF PutInSlot, WorkerFrame, diskVars, latestVars, resultVars, viewVars, shownVars,
        supVars, Goto, InRun, Running, WorkerType, RecordType, SupervisorType, Emitting, Syncing,
        Inserting, Telling, TypeOK, RecordsBacked
<1>23. ASSUME NEW p \in Projects, Reap(p) PROVE RecordsBacked'
  BY <1>23 DEF Reap, RecordCommand, Abort, Guard, Rewrite, RemovalFails, Show, latestVars,
        resultVars, viewVars, shownVars, WorkerFrame, supVars, Goto, InRun, Running, WorkerType,
        RecordType, SupervisorType, Emitting, Syncing, Inserting, Telling, Cached, TypeOK,
        RecordsBacked
<1>24. ASSUME NEW p \in Projects, Finish(p) PROVE RecordsBacked'
  BY <1>24 DEF Finish, Abort, Guard, Rewrite, RemovalFails, Show, latestVars, resultVars,
        viewVars, shownVars, WorkerFrame, supVars, Goto, InRun, Running, WorkerType, RecordType,
        SupervisorType, Emitting, Syncing, Inserting, Telling, CacheVerdict, Verdict, Cached,
        MayProceed, TypeOK, RecordsBacked
<1>25. ASSUME NEW p \in Projects, AfterRun(p) PROVE RecordsBacked'
  BY <1>25 DEF AfterRun, WorkerFrame, diskVars, latestVars, resultVars, viewVars, shownVars,
        supVars, Goto, InRun, Running, WorkerType, RecordType, SupervisorType, Emitting, Syncing,
        Inserting, Telling, NextAfterRun, TypeOK, RecordsBacked
<1>26. ASSUME NEW p \in Projects, RememberInterrupted(p) PROVE RecordsBacked'
  BY <1>26 DEF RememberInterrupted, WorkerFrame, diskVars, latestVars, resultVars, viewVars,
        shownVars, supVars, Goto, InRun, Running, WorkerType, RecordType, SupervisorType,
        Emitting, Syncing, Inserting, Telling, TypeOK, RecordsBacked
<1>27. ASSUME HandleTrigger \/ HandlePause \/ HandlePauseProject \/ HandleResume \/ HandleResumeProject PROVE RecordsBacked'
  BY <1>27 DEF HandleTrigger, latestVars, HandlePause, HandlePauseProject, HandleResume,
        HandleResumeProject, SupFrame, resultVars, supVars, threadVars, viewVars, shownVars,
        KillFrame, ResumeFrame, InRun, Running, RecordsBacked, Inserting
<1>28. ASSUME NEW p \in Projects, ReceiveTrigger(p) \/ SkipRun(p) \/ ChildExits(p) PROVE RecordsBacked'
  BY <1>28 DEF ReceiveTrigger, SkipRun, ChildExits, WorkerFrame, threadVars, diskVars, latestVars,
        resultVars, viewVars, shownVars, supVars, InRun, Running, RecordsBacked, Inserting
<1>29. CASE UNCHANGED vars
  BY <1>29 DEF vars, supVars, threadVars, diskVars, latestVars, resultVars, viewVars, shownVars,
        InRun, Running, RecordsBacked, Inserting
<1> QED BY <1>1, <1>2, <1>3, <1>4, <1>5, <1>6, <1>7, <1>8, <1>9, <1>10, <1>11, <1>12, <1>13,
    <1>14, <1>15, <1>16, <1>17, <1>18, <1>19, <1>20, <1>21, <1>22, <1>23, <1>24, <1>25, <1>26,
    <1>27, <1>28, <1>29, <1>30, <1>31 DEF Next, Supervisor, AnyHydrate, AnyInsert, AnyTell, Worker

\* No worker of an unhydrated project gets anything to do.
LEMMA HydratedStep ==
  ASSUME TypeOK, DiscoveryImmediate = FALSE, HydratedBeforeRun, [Next]_vars
  PROVE  HydratedBeforeRun'
<1>1. ASSUME Application \/ (\E p \in Projects : DirChanges(p)) PROVE HydratedBeforeRun'
  BY <1>1 DEF Application, SyncProjects, markerVars, PauseAll, ResumeAll, WriteMarker,
        DropHandles, Edit, PauseProject, ResumeProject, NoticeDir, DirChanges, AppFrame, supVars,
        threadVars, mailVars, viewVars, shownVars, HydratedBeforeRun, Syncing, Inserting
<1>2. ASSUME HandleSync PROVE HydratedBeforeRun'
  BY <1>2 DEF HandleSync, latestVars, SupFrame, resultVars, threadVars, mailVars, viewVars,
        shownVars, SupervisorType, Emitting, Syncing, Inserting, Telling, WorkerType, RecordType,
        Receive, TypeOK, HydratedBeforeRun
<1>36. ASSUME SyncPauses PROVE HydratedBeforeRun'
  BY <1>36 DEF SyncPauses, latestVars, SupFrame, resultVars, threadVars, mailVars, viewVars,
        shownVars, SupervisorType, Emitting, Syncing, Inserting, Telling, WorkerType, RecordType,
        Workers, TypeOK, HydratedBeforeRun
<1>37. ASSUME AnyTell PROVE HydratedBeforeRun'
  BY <1>37 DEF AnyTell, Tell, EmitFrame, SupFrame, resultVars, StartupShown, latestVars,
        threadVars, mailVars, SupervisorType, Emitting, Syncing, Inserting, Telling, WorkerType,
        RecordType, TypeOK, HydratedBeforeRun
<1>3. ASSUME HandleRegister PROVE HydratedBeforeRun'
  <2>1. PICK r \in To : supEmit' = {r} /\ Spawn({r} \cap present, DiscoveryImmediate)
    BY <1>3 DEF HandleRegister, latestVars
  <2>2. supPc = "recv" /\ supPc' = "hydrate" /\ statusCache' = statusCache
    BY <1>3 DEF HandleRegister, latestVars, Receive, viewVars, shownVars
  <2> SUFFICES ASSUME NEW q \in Projects, statusCache[q] = "miss", pc'[q] # "none"
               PROVE  /\ q = r /\ pc'[q] = "idle" /\ inbox'[q] = 0
                      /\ ~sched'[q] /\ ~stop'[q]
    BY <2>1, <2>2 DEF HydratedBeforeRun, Syncing, Inserting
  <2>3. pc[q] = "none"
    BY <2>2 DEF HydratedBeforeRun, Syncing, Inserting
  <2>4. q \in ({r} \cap present) \ Workers
    BY <2>1, <2>3 DEF Spawn, TypeOK, WorkerType, Workers
  <2>5. sched'[q] = DiscoveryImmediate /\ stop'[q] = FALSE /\ inbox'[q] = 0 /\ pc'[q] = "idle"
    BY <2>1, <2>4 DEF Spawn, TypeOK, WorkerType
  <2> QED BY <2>4, <2>5
<1>4. ASSUME AnyHydrate PROVE HydratedBeforeRun'
  <2>1. ASSUME NEW at, NEW insertAt, NEW tellAt, Hydrate(at, insertAt, tellAt)
        PROVE  /\ UNCHANGED <<statusCache, supSpawn, pc, inbox, sched, stop>> /\ supPc = at
               /\ \E q \in supEmit : /\ supEmit' = supEmit \ {q} /\ supProject' = q
                                     /\ \/ statusCache[q] # "miss" /\ supPc' = tellAt
                                        \/ statusCache[q] = "miss" /\ supPc' = insertAt
    BY <2>1 DEF Hydrate, EmitFrame, threadVars, mailVars, viewVars, Missed
  <2>2. CASE Hydrate("emit", "emitInsert", "emitTell")
    <3>1. PICK q \in supEmit : /\ supEmit' = supEmit \ {q} /\ supProject' = q
                               /\ \/ statusCache[q] # "miss" /\ supPc' = "emitTell"
                                  \/ statusCache[q] = "miss" /\ supPc' = "emitInsert"
      BY <2>1, <2>2
    <3>2. UNCHANGED <<statusCache, supSpawn, pc, inbox, sched, stop>> /\ supPc = "emit"
      BY <2>1, <2>2
    <3>3. QED BY <3>1, <3>2 DEF HydratedBeforeRun, Syncing, Inserting
  <2>3. CASE Hydrate("hydrate", "insert", "tell")
    <3>1. PICK q \in supEmit : /\ supEmit' = supEmit \ {q} /\ supProject' = q
                               /\ \/ statusCache[q] # "miss" /\ supPc' = "tell"
                                  \/ statusCache[q] = "miss" /\ supPc' = "insert"
      BY <2>1, <2>3
    <3>2. UNCHANGED <<statusCache, supSpawn, pc, inbox, sched, stop>> /\ supPc = "hydrate"
      BY <2>1, <2>3
    <3>3. QED BY <3>1, <3>2 DEF HydratedBeforeRun, Syncing, Inserting
  <2>4. QED BY <1>4, <2>2, <2>3 DEF AnyHydrate
<1>5. ASSUME AnyInsert PROVE HydratedBeforeRun'
  BY <1>5 DEF AnyInsert, Insert, EmitFrame, SupFrame, resultVars, latestVars, shownVars,
        threadVars, mailVars, SupervisorType, Emitting, Syncing, Inserting, Telling, WorkerType,
        RecordType, Cached, Verdict, TypeOK, HydratedBeforeRun
<1>6. ASSUME HandleUnregister PROVE HydratedBeforeRun'
  BY <1>6 DEF HandleUnregister, latestVars, SupFrame, resultVars, threadVars, mailVars, viewVars,
        shownVars, SupervisorType, Emitting, Syncing, Inserting, Telling, WorkerType, RecordType,
        Receive, Workers, TypeOK, HydratedBeforeRun
<1>7. ASSUME HandleTrigger PROVE HydratedBeforeRun'
  BY <1>7 DEF HandleTrigger, latestVars, SupFrame, resultVars, supVars, threadVars, viewVars,
        shownVars, SupervisorType, Emitting, Syncing, Inserting, Telling, WorkerType, RecordType,
        Receive, TypeOK, HydratedBeforeRun
<1>8. ASSUME HandlePause PROVE HydratedBeforeRun'
  BY <1>8 DEF HandlePause, KillFrame, latestVars, supVars, threadVars, mailVars, viewVars,
        shownVars, SupFrame, resultVars, SupervisorType, Emitting, Syncing, Inserting, Telling,
        WorkerType, RecordType, TypeOK, HydratedBeforeRun
<1>9. ASSUME HandleResume PROVE HydratedBeforeRun'
  BY <1>9 DEF HandleResume, ResumeFrame, latestVars, supVars, threadVars, viewVars, shownVars,
        SupFrame, resultVars, SupervisorType, Emitting, Syncing, Inserting, Telling, WorkerType,
        RecordType, ResumeCatchUp, Receive, TypeOK, HydratedBeforeRun
<1>10. ASSUME HandleResumeProject PROVE HydratedBeforeRun'
  BY <1>10 DEF HandleResumeProject, ResumeFrame, latestVars, supVars, threadVars, viewVars,
        shownVars, SupFrame, resultVars, SupervisorType, Emitting, Syncing, Inserting, Telling,
        WorkerType, RecordType, ResumeCatchUp, Receive, TypeOK, HydratedBeforeRun
<1>11. ASSUME StopWorker("reconcile", "join") PROVE HydratedBeforeRun'
  BY <1>11 DEF StopWorker, latestVars, SupFrame, resultVars, threadVars, viewVars, shownVars,
        SupervisorType, Emitting, Syncing, Inserting, Telling, WorkerType, RecordType, TypeOK,
        HydratedBeforeRun
<1>12. ASSUME JoinWorker("join", "reconcile") PROVE HydratedBeforeRun'
  BY <1>12 DEF JoinWorker, Show, latestVars, shownVars, SupFrame, resultVars, SupervisorType,
        Emitting, Syncing, Inserting, Telling, WorkerType, RecordType, TypeOK, HydratedBeforeRun
<1>13. ASSUME SpawnMissing PROVE HydratedBeforeRun'
  BY <1>13 DEF SpawnMissing, latestVars, SupFrame, resultVars, viewVars, shownVars,
        SupervisorType, Emitting, Syncing, Inserting, Telling, WorkerType, RecordType, Spawn,
        Workers, TypeOK, HydratedBeforeRun
<1>14. ASSUME Drain PROVE HydratedBeforeRun'
  BY <1>14 DEF Drain, latestVars, SupFrame, resultVars, threadVars, mailVars, viewVars, shownVars,
        SupervisorType, Emitting, Syncing, Inserting, Telling, WorkerType, RecordType, TypeOK,
        HydratedBeforeRun
<1>15. ASSUME StopWorker("drain", "drainJoin") PROVE HydratedBeforeRun'
  BY <1>15 DEF StopWorker, latestVars, SupFrame, resultVars, threadVars, viewVars, shownVars,
        SupervisorType, Emitting, Syncing, Inserting, Telling, WorkerType, RecordType, TypeOK,
        HydratedBeforeRun
<1>16. ASSUME JoinWorker("drainJoin", "drain") PROVE HydratedBeforeRun'
  BY <1>16 DEF JoinWorker, Show, latestVars, shownVars, SupFrame, resultVars, SupervisorType,
        Emitting, Syncing, Inserting, Telling, WorkerType, RecordType, TypeOK, HydratedBeforeRun
<1>17. ASSUME SupervisorExits PROVE HydratedBeforeRun'
  BY <1>17 DEF SupervisorExits, latestVars, SupFrame, resultVars, threadVars, mailVars, viewVars,
        shownVars, SupervisorType, Emitting, Syncing, Inserting, Telling, WorkerType, RecordType,
        TypeOK, HydratedBeforeRun
<1>18. ASSUME NEW p \in Projects, ReceiveTrigger(p) PROVE HydratedBeforeRun'
  BY <1>18 DEF ReceiveTrigger, WorkerFrame, threadVars, viewVars, shownVars, supVars,
        SupervisorType, Emitting, Syncing, Inserting, Telling, WorkerType, RecordType, TypeOK,
        HydratedBeforeRun
<1>19. ASSUME NEW p \in Projects, ExitThread(p) PROVE HydratedBeforeRun'
  BY <1>19 DEF ExitThread, WorkerFrame, viewVars, shownVars, supVars, SupervisorType, Emitting,
        Syncing, Inserting, Telling, WorkerType, RecordType, Goto, TypeOK, HydratedBeforeRun
<1>20. ASSUME NEW p \in Projects, HoldBack(p) PROVE HydratedBeforeRun'
  BY <1>20 DEF HoldBack, WorkerFrame, viewVars, shownVars, supVars, SupervisorType, Emitting,
        Syncing, Inserting, Telling, WorkerType, RecordType, Goto, TypeOK, HydratedBeforeRun
<1>21. ASSUME NEW p \in Projects, RememberHeld(p) PROVE HydratedBeforeRun'
  BY <1>21 DEF RememberHeld, Show, WorkerFrame, supVars, SupervisorType, Emitting, Syncing,
        Inserting, Telling, WorkerType, RecordType, Goto, TypeOK, HydratedBeforeRun
<1>22. ASSUME NEW p \in Projects, SkipRun(p) PROVE HydratedBeforeRun'
  BY <1>22 DEF SkipRun, WorkerFrame, threadVars, viewVars, shownVars, supVars, SupervisorType,
        Emitting, Syncing, Inserting, Telling, WorkerType, RecordType, TypeOK, HydratedBeforeRun
<1>23. ASSUME NEW p \in Projects, StartRun(p) PROVE HydratedBeforeRun'
  BY <1>23 DEF StartRun, Rewrite, latestVars, resultVars, WorkerFrame, viewVars, shownVars,
        supVars, SupervisorType, Emitting, Syncing, Inserting, Telling, WorkerType, RecordType,
        Goto, TypeOK, HydratedBeforeRun
<1>24. ASSUME NEW p \in Projects, Announce(p) PROVE HydratedBeforeRun'
  BY <1>24 DEF Announce, Show, WorkerFrame, supVars, SupervisorType, Emitting, Syncing, Inserting,
        Telling, WorkerType, RecordType, Goto, Cached, Verdict, TypeOK, HydratedBeforeRun
<1>25. ASSUME NEW p \in Projects, ProjectRemoved(p) PROVE HydratedBeforeRun'
  BY <1>25 DEF ProjectRemoved, RunEndsEarly, Rewrite, RemovalFails, Show, resultVars, WorkerFrame,
        supVars, SupervisorType, Emitting, Syncing, Inserting, Telling, WorkerType, RecordType,
        Goto, Cached, Verdict, Terminal, TypeOK, HydratedBeforeRun
<1>26. ASSUME NEW p \in Projects, Interrupted(p) PROVE HydratedBeforeRun'
  BY <1>26 DEF Interrupted, RunEndsEarly, Rewrite, RemovalFails, Show, resultVars, WorkerFrame,
        supVars, SupervisorType, Emitting, Syncing, Inserting, Telling, WorkerType, RecordType,
        Goto, Cached, Verdict, Terminal, TypeOK, HydratedBeforeRun
<1>27. ASSUME NEW p \in Projects, SpawnCommand(p) PROVE HydratedBeforeRun'
  BY <1>27 DEF SpawnCommand, RecordCommand, Abort, Guard, Rewrite, RemovalFails, Show, latestVars,
        resultVars, viewVars, shownVars, diskVars, WorkerFrame, supVars, SupervisorType, Emitting,
        Syncing, Inserting, Telling, WorkerType, RecordType, Goto, MayProceed, Cached, Verdict,
        Terminal, TypeOK, HydratedBeforeRun
<1>28. ASSUME NEW p \in Projects, PutInSlot(p) PROVE HydratedBeforeRun'
  BY <1>28 DEF PutInSlot, WorkerFrame, viewVars, shownVars, supVars, SupervisorType, Emitting,
        Syncing, Inserting, Telling, WorkerType, RecordType, Goto, TypeOK, HydratedBeforeRun
<1>29. ASSUME NEW p \in Projects, Reap(p) PROVE HydratedBeforeRun'
  BY <1>29 DEF Reap, RecordCommand, Abort, Guard, Rewrite, RemovalFails, Show, latestVars,
        resultVars, viewVars, shownVars, WorkerFrame, supVars, SupervisorType, Emitting, Syncing,
        Inserting, Telling, WorkerType, RecordType, Goto, Cached, Verdict, TypeOK,
        HydratedBeforeRun
<1>30. ASSUME NEW p \in Projects, Finish(p) PROVE HydratedBeforeRun'
  BY <1>30 DEF Finish, Abort, Guard, Rewrite, RemovalFails, Show, latestVars, resultVars,
        viewVars, shownVars, WorkerFrame, supVars, SupervisorType, Emitting, Syncing, Inserting,
        Telling, WorkerType, RecordType, Goto, CacheVerdict, Verdict, Cached, MayProceed, TypeOK,
        HydratedBeforeRun
<1>31. ASSUME NEW p \in Projects, AfterRun(p) PROVE HydratedBeforeRun'
  BY <1>31 DEF AfterRun, WorkerFrame, viewVars, shownVars, supVars, SupervisorType, Emitting,
        Syncing, Inserting, Telling, WorkerType, RecordType, Goto, TypeOK, HydratedBeforeRun
<1>32. ASSUME NEW p \in Projects, RememberInterrupted(p) PROVE HydratedBeforeRun'
  BY <1>32 DEF RememberInterrupted, WorkerFrame, viewVars, shownVars, supVars, SupervisorType,
        Emitting, Syncing, Inserting, Telling, WorkerType, RecordType, Goto, TypeOK,
        HydratedBeforeRun
<1>33. ASSUME HandlePauseProject PROVE HydratedBeforeRun'
  BY <1>33 DEF HandlePauseProject, KillFrame, latestVars, supVars, threadVars, mailVars, viewVars,
        shownVars, SupFrame, resultVars, HydratedBeforeRun, Syncing, Inserting
<1>34. ASSUME NEW p \in Projects, ChildExits(p) PROVE HydratedBeforeRun'
  BY <1>34 DEF ChildExits, WorkerFrame, threadVars, viewVars, shownVars, supVars,
        HydratedBeforeRun, Syncing, Inserting
<1>35. CASE UNCHANGED vars
  BY <1>35 DEF vars, supVars, threadVars, mailVars, viewVars, shownVars, HydratedBeforeRun,
        Syncing, Inserting
<1> QED BY <1>1, <1>2, <1>3, <1>4, <1>5, <1>6, <1>7, <1>8, <1>9, <1>10, <1>11, <1>12, <1>13,
    <1>14, <1>15, <1>16, <1>17, <1>18, <1>19, <1>20, <1>21, <1>22, <1>23, <1>24, <1>25, <1>26,
    <1>27, <1>28, <1>29, <1>30, <1>31, <1>32, <1>33, <1>34, <1>35, <1>36, <1>37 DEF Next, Supervisor, AnyHydrate, AnyInsert, AnyTell, Worker

\* Every step keeps record and spinner with the run.
LEMMA RunMarkedStep ==
  ASSUME TypeOK, CommandOwned, HydratedBeforeRun, RunMarked, [Next]_vars
  PROVE  RunMarked'
<1>1. ASSUME Application \/ (\E p \in Projects : DirChanges(p)) PROVE RunMarked'
  BY <1>1 DEF Application, SyncProjects, markerVars, PauseAll, ResumeAll, WriteMarker,
        DropHandles, Edit, PauseProject, ResumeProject, NoticeDir, DirChanges, AppFrame,
        threadVars, diskVars, latestVars, resultVars, viewVars, shownVars, InRun, Running,
        RunMarked
<1>2. ASSUME HandleSync \/ SyncPauses PROVE RunMarked'
  BY <1>2 DEF HandleSync, latestVars, SyncPauses, SupFrame, resultVars, viewVars, shownVars,
        threadVars, InRun, Running, RunMarked
<1>25. ASSUME AnyTell PROVE RunMarked'
  BY <1>25 DEF AnyTell, Tell, EmitFrame, SupFrame, resultVars, StartupShown, latestVars,
        threadVars, InRun, Running, SupervisorType, Emitting, Syncing, Inserting, Telling,
        WorkerType, RecordType, Cached, Verdict, HydratedBeforeRun, TypeOK, RunMarked
<1>3. ASSUME HandleRegister PROVE RunMarked'
  BY <1>3 DEF HandleRegister, latestVars, SupFrame, resultVars, viewVars, shownVars, InRun,
        Running, SupervisorType, Emitting, Syncing, Inserting, Telling, WorkerType, RecordType,
        StartupShown, Cached, Verdict, HydratedBeforeRun, Spawn, Workers, TypeOK, RunMarked
<1>4. ASSUME AnyHydrate PROVE RunMarked'
  BY <1>4 DEF AnyHydrate, Hydrate, EmitFrame, SupFrame, resultVars, Missed, DiskStatus, Rewrite,
        RemovalFails, latestVars, viewVars, shownVars, threadVars, InRun, Running, SupervisorType,
        Emitting, Syncing, Inserting, Telling, WorkerType, RecordType, StartupShown, Cached,
        Verdict, HydratedBeforeRun, TypeOK, RunMarked
<1>5. ASSUME AnyInsert PROVE RunMarked'
  BY <1>5 DEF AnyInsert, Insert, EmitFrame, SupFrame, resultVars, latestVars, shownVars,
        threadVars, InRun, Running, SupervisorType, Emitting, Syncing, Inserting, Telling,
        WorkerType, RecordType, StartupShown, Cached, Verdict, HydratedBeforeRun, TypeOK,
        RunMarked
<1>6. ASSUME JoinWorker("join", "reconcile") PROVE RunMarked'
  BY <1>6 DEF JoinWorker, Show, latestVars, shownVars, SupFrame, resultVars, InRun, Running,
        SupervisorType, Emitting, Syncing, Inserting, Telling, WorkerType, RecordType,
        StartupShown, Cached, Verdict, HydratedBeforeRun, Terminal, TypeOK, RunMarked
<1>7. ASSUME SpawnMissing PROVE RunMarked'
  BY <1>7 DEF SpawnMissing, latestVars, SupFrame, resultVars, viewVars, shownVars, InRun, Running,
        SupervisorType, Emitting, Syncing, Inserting, Telling, WorkerType, RecordType,
        StartupShown, Cached, Verdict, HydratedBeforeRun, Spawn, Workers, TypeOK, RunMarked
<1>8. ASSUME JoinWorker("drainJoin", "drain") PROVE RunMarked'
  BY <1>8 DEF JoinWorker, Show, latestVars, shownVars, SupFrame, resultVars, InRun, Running,
        SupervisorType, Emitting, Syncing, Inserting, Telling, WorkerType, RecordType,
        StartupShown, Cached, Verdict, HydratedBeforeRun, Terminal, TypeOK, RunMarked
<1>9. ASSUME NEW p \in Projects, ExitThread(p) PROVE RunMarked'
  BY <1>9 DEF ExitThread, WorkerFrame, diskVars, latestVars, resultVars, viewVars, shownVars,
        Goto, InRun, Running, WorkerType, RecordType, Cached, Verdict, HydratedBeforeRun, Syncing,
        Inserting, TypeOK, RunMarked
<1>10. ASSUME NEW p \in Projects, HoldBack(p) PROVE RunMarked'
  BY <1>10 DEF HoldBack, WorkerFrame, diskVars, latestVars, resultVars, viewVars, shownVars, Goto,
        InRun, Running, WorkerType, RecordType, Cached, Verdict, HydratedBeforeRun, Syncing,
        Inserting, TypeOK, RunMarked
<1>11. ASSUME NEW p \in Projects, RememberHeld(p) PROVE RunMarked'
  BY <1>11 DEF RememberHeld, Show, WorkerFrame, diskVars, latestVars, resultVars, Goto, InRun,
        Running, WorkerType, RecordType, Cached, Verdict, HydratedBeforeRun, Syncing, Inserting,
        Terminal, TypeOK, RunMarked
<1>12. ASSUME NEW p \in Projects, StartRun(p) PROVE RunMarked'
  BY <1>12 DEF StartRun, Rewrite, latestVars, resultVars, WorkerFrame, viewVars, shownVars, Goto,
        InRun, Running, WorkerType, RecordType, Cached, Verdict, HydratedBeforeRun, Syncing,
        Inserting, TypeOK, RunMarked
<1>13. ASSUME NEW p \in Projects, Announce(p) PROVE RunMarked'
  BY <1>13 DEF Announce, Show, WorkerFrame, diskVars, latestVars, resultVars, Goto, InRun,
        Running, WorkerType, RecordType, Cached, Verdict, HydratedBeforeRun, Syncing, Inserting,
        Terminal, TypeOK, RunMarked
<1>14. ASSUME NEW p \in Projects, ProjectRemoved(p) PROVE RunMarked'
  BY <1>14 DEF ProjectRemoved, RunEndsEarly, Rewrite, RemovalFails, Show, resultVars, WorkerFrame,
        Goto, InRun, Running, WorkerType, RecordType, Cached, Verdict, HydratedBeforeRun, Syncing,
        Inserting, Terminal, TypeOK, RunMarked
<1>15. ASSUME NEW p \in Projects, Interrupted(p) PROVE RunMarked'
  BY <1>15 DEF Interrupted, RunEndsEarly, Rewrite, RemovalFails, Show, resultVars, WorkerFrame,
        Goto, InRun, Running, WorkerType, RecordType, Cached, Verdict, HydratedBeforeRun, Syncing,
        Inserting, Terminal, TypeOK, RunMarked
<1>16. ASSUME NEW p \in Projects, SpawnCommand(p) PROVE RunMarked'
  BY <1>16 DEF SpawnCommand, RecordCommand, Abort, Guard, Rewrite, RemovalFails, Show, latestVars,
        resultVars, viewVars, shownVars, diskVars, WorkerFrame, Goto, InRun, Running, WorkerType,
        RecordType, Cached, Verdict, HydratedBeforeRun, Syncing, Inserting, MayProceed, Terminal, TypeOK,
        RunMarked
<1>17. ASSUME NEW p \in Projects, PutInSlot(p) PROVE RunMarked'
  BY <1>17 DEF PutInSlot, WorkerFrame, diskVars, latestVars, resultVars, viewVars, shownVars,
        Goto, InRun, Running, WorkerType, RecordType, Cached, Verdict, HydratedBeforeRun, Syncing,
        Inserting, TypeOK, RunMarked
<1>18. ASSUME NEW p \in Projects, Reap(p) PROVE RunMarked'
  BY <1>18 DEF Reap, RecordCommand, Abort, Guard, Rewrite, RemovalFails, Show, latestVars,
        resultVars, viewVars, shownVars, WorkerFrame, Goto, InRun, Running, WorkerType,
        RecordType, Cached, Verdict, HydratedBeforeRun, Syncing, Inserting, Terminal, TypeOK,
        RunMarked
<1>19. ASSUME NEW p \in Projects, Finish(p) PROVE RunMarked'
  <2>1. pc[p] = "check" /\ pc' = [pc EXCEPT ![p] = "post"]
    BY <1>19 DEF Finish, MayProceed, Abort, Goto
  <2>2. statusCache[p] # "miss" /\ latest[p] = "running"
    BY <2>1 DEF HydratedBeforeRun, RunMarked, InRun, Running
  <2>3. \A q \in Projects : pc'[q] = IF q = p THEN "post" ELSE pc[q]
    BY <2>1 DEF TypeOK, WorkerType
  <2>4. \A q \in Projects : q # p => (InRun(q)' <=> InRun(q))
    BY <2>3 DEF InRun, Running
  <2>5. ~InRun(p)'
    BY <2>3 DEF InRun, Running
  <2>6. CASE Guard(p)
    <3>1. CASE RemovalFails(p) /\ UNCHANGED viewVars
      BY <2>2, <2>4, <2>5, <3>1
         DEF RemovalFails, viewVars, shownVars, RunMarked
    <3>2. CASE /\ Rewrite(p, "none") /\ statusCache' = [statusCache EXCEPT ![p] = history[p]]
               /\ Show(p, history[p])
      <4>1. /\ latest' = [latest EXCEPT ![p] = "none"] /\ uncleared' = uncleared \ {p}
            /\ shown' = [shown EXCEPT ![p] = history[p]]
            /\ statusCache' = [statusCache EXCEPT ![p] = history[p]]
        BY <3>2 DEF Rewrite, Show
      <4>2. history[p] # "running" /\ history[p] # "miss"
        BY DEF TypeOK, RecordType, Cached, Verdict
      <4>3. QED BY <2>2, <2>4, <2>5, <4>1, <4>2 DEF RunMarked, TypeOK, RecordType
    <3>3. QED BY <2>2, <2>6, <3>1, <3>2 DEF Guard, Terminal
  <2>7. CASE ~Guard(p)
    <3>1. PICK verdict \in Verdict :
            /\ Rewrite(p, verdict) /\ CacheVerdict(p, verdict)
            /\ Show(p, Terminal(verdict, history'[p]))
            /\ history' = [history EXCEPT ![p] = verdict] \/ history' = history
      BY <1>19, <2>7 DEF Finish, Abort, Verdict
    <3>2. /\ latest' = [latest EXCEPT ![p] = verdict] /\ uncleared' = uncleared \ {p}
          /\ statusCache' = [statusCache EXCEPT ![p] = verdict]
          /\ shown' = [shown EXCEPT ![p] = history'[p]]
      BY <3>1 DEF Rewrite, Show, CacheVerdict, Terminal, Verdict
    <3>3. history'[p] # "running"
      BY <3>1 DEF TypeOK, RecordType, Cached, Verdict
    <3>4. verdict # "miss" /\ verdict # "running"
      BY DEF Verdict
    <3>5. QED BY <2>2, <2>4, <2>5, <3>2, <3>3, <3>4 DEF RunMarked, TypeOK, RecordType
  <2>8. QED BY <2>6, <2>7
<1>20. ASSUME NEW p \in Projects, AfterRun(p) PROVE RunMarked'
  BY <1>20 DEF AfterRun, WorkerFrame, diskVars, latestVars, resultVars, viewVars, shownVars, Goto,
        InRun, Running, WorkerType, RecordType, Cached, Verdict, HydratedBeforeRun, Syncing,
        Inserting, NextAfterRun, TypeOK, RunMarked
<1>21. ASSUME NEW p \in Projects, RememberInterrupted(p) PROVE RunMarked'
  BY <1>21 DEF RememberInterrupted, WorkerFrame, diskVars, latestVars, resultVars, viewVars,
        shownVars, Goto, InRun, Running, WorkerType, RecordType, Cached, Verdict,
        HydratedBeforeRun, Syncing, Inserting, TypeOK, RunMarked
<1>22. ASSUME HandleUnregister \/ HandleTrigger \/ HandlePause \/ HandlePauseProject \/ HandleResume \/ HandleResumeProject \/ StopWorker("reconcile", "join") \/ Drain \/ StopWorker("drain", "drainJoin") \/ SupervisorExits PROVE RunMarked'
  BY <1>22 DEF HandleUnregister, latestVars, HandleTrigger, HandlePause, HandlePauseProject,
        HandleResume, HandleResumeProject, StopWorker, Drain, SupervisorExits, SupFrame,
        resultVars, threadVars, viewVars, shownVars, KillFrame, ResumeFrame, InRun, Running,
        RunMarked
<1>23. ASSUME NEW p \in Projects, ReceiveTrigger(p) \/ SkipRun(p) \/ ChildExits(p) PROVE RunMarked'
  BY <1>23 DEF ReceiveTrigger, SkipRun, ChildExits, WorkerFrame, threadVars, diskVars, latestVars,
        resultVars, viewVars, shownVars, InRun, Running, RunMarked
<1>24. CASE UNCHANGED vars
  BY <1>24 DEF vars, threadVars, diskVars, latestVars, resultVars, viewVars, shownVars, InRun,
        Running, RunMarked
<1> QED BY <1>1, <1>2, <1>3, <1>4, <1>5, <1>6, <1>7, <1>8, <1>9, <1>10, <1>11, <1>12, <1>13,
    <1>14, <1>15, <1>16, <1>17, <1>18, <1>19, <1>20, <1>21, <1>22, <1>23, <1>24, <1>25 DEF Next, Supervisor, AnyHydrate, AnyInsert, AnyTell, Worker

-----------------------------------------------------------------------------
\* The runtime starts idle, with whatever the previous process left on disk.
LEMMA InitInv ==
  ASSUME Init
  PROVE  TypeOK /\ RuntimeInv
<1>1. TypeOK
  <2>1. ChannelType
    <3>1. queue = <<>> /\ closed = FALSE
      BY DEF Init
    <3>2. <<>> \in Seq(Msg)
      OBVIOUS
    <3> QED BY <3>1, <3>2 DEF ChannelType
  <2>2. PauseType
    BY DEF Init, PauseType
  <2>3. SupervisorType
    BY DEF Init, SupervisorType, Emitting, Syncing, Inserting, Telling, Cached
  <2>4. WorkerType
    BY RuntimeAssumption DEF Init, WorkerType, Running
  <2>5. CommandType /\ WorldType
    BY DEF Init, CommandType, WorldType
  <2>6. RecordType
    BY DEF Init, RecordType, DiskStatus, Cached, Verdict
  <2> QED BY <2>1, <2>2, <2>3, <2>4, <2>5, <2>6 DEF TypeOK
<1>2. CommandOwned /\ RecordsBacked /\ HydratedBeforeRun /\ RunMarked
  BY DEF Init, CommandOwned, RecordsBacked, Inserting, HydratedBeforeRun, Syncing, RunMarked,
        InRun, Running
<1> QED BY <1>1, <1>2 DEF RuntimeInv

\* Whatever the configuration, the first half of the invariant holds.
LEMMA OwnershipInvariant == Spec => [](TypeOK /\ CommandOwned /\ RecordsBacked)
<1>1. Init => TypeOK /\ CommandOwned /\ RecordsBacked
  BY InitInv DEF RuntimeInv
<1>2. TypeOK /\ CommandOwned /\ RecordsBacked /\ [Next]_vars
        => (TypeOK /\ CommandOwned /\ RecordsBacked)'
  BY TypeStep, CommandStep, RecordsStep
<1> QED BY <1>1, <1>2, PTL DEF Spec

\* Every variable keeps its type, for any number of projects and commands.
THEOREM TypeCorrect == Spec => []TypeOK
BY OwnershipInvariant, PTL

\* run_command and stop_worker: a command never outlives the worker that spawned
\* it, and the kill slot never holds a process already killed.
THEOREM CommandsAreOwned == Spec => []NoOrphanCommand
<1>1. CommandOwned => NoOrphanCommand
  BY DEF CommandOwned, NoOrphanCommand
<1> QED BY <1>1, OwnershipInvariant, PTL

\* RunFinalizeGuard and the hydration of stale records: Running in latest.json is
\* a live run, a record no one has looked at since the start, or one that could
\* not be removed and has not been rewritten since.
THEOREM RecordsAreBacked == Spec => []NoStrandedRunning
<1>1. RecordsBacked => NoStrandedRunning
  BY DEF RecordsBacked, Inserting, NoStrandedRunning
<1> QED BY <1>1, OwnershipInvariant, PTL

\* With deferred discovery the whole invariant holds.
LEMMA FullInvariant ==
  ASSUME DiscoveryImmediate = FALSE
  PROVE  Spec => [](TypeOK /\ RuntimeInv)
<1>1. Init => TypeOK /\ RuntimeInv
  BY InitInv
<1>2. TypeOK /\ RuntimeInv /\ [Next]_vars => (TypeOK /\ RuntimeInv)'
  BY TypeStep, CommandStep, RecordsStep, HydratedStep, RunMarkedStep, DiscoveryImmediate = FALSE
  DEF RuntimeInv
<1> QED BY <1>1, <1>2, PTL DEF Spec

\* With deferred discovery, hydrating a project never clears the record of a live
\* run: an external reader sees Running from the first command to the last.
THEOREM LiveRunsAreMarked ==
  ASSUME DiscoveryImmediate = FALSE
  PROVE  Spec => []LiveRunMarked
<1>1. RuntimeInv => LiveRunMarked
  BY DEF RuntimeInv, RunMarked, LiveRunMarked, InRun, Running
<1> QED BY <1>1, FullInvariant, PTL

\* With deferred discovery, every path out of a run stops the project's spinner,
\* unless the run's record could not be removed.
THEOREM SpinnerFollowsRun ==
  ASSUME DiscoveryImmediate = FALSE
  PROVE  Spec => []NoGhostSpinner
<1>1. RuntimeInv => NoGhostSpinner
  BY DEF RuntimeInv, RunMarked, NoGhostSpinner
<1> QED BY <1>1, FullInvariant, PTL

-----------------------------------------------------------------------------
(* Verdicts on display.                                                    *)

\* A verdict in latest.json is the newest; a verdict cached, on its way to the cache
\* or on display is that or the recorded one; what is on its way to the cache
\* concerns a project nobody has run.
Newest(status, p) == status \in Verdict => status \in {newest[p], history[p]}
NewestOnly ==
  /\ \A p \in Projects : /\ latest[p] \in Verdict => latest[p] = newest[p]
                         /\ Newest(statusCache[p], p)
                         /\ p \notin overtaken => Newest(shown[p], p)
  /\ supPc \in Inserting => statusCache[supProject] = "miss" /\ Newest(hydrated, supProject)

LEMMA NewestStep ==
  ASSUME TypeOK, HydratedBeforeRun, NewestOnly, [Next]_vars
  PROVE  NewestOnly'
<1>0. /\ latest \in [Projects -> Verdict \cup {"none", "running"}]
      /\ history \in [Projects -> Cached] /\ newest \in [Projects -> Cached]
      /\ statusCache \in [Projects -> Cached \cup {"miss"}]
      /\ shown \in [Projects -> Cached \cup {"running", "stale"}]
      /\ \A p \in Projects : history[p] \notin {"none", "running", "stale", "miss"}
  BY DEF TypeOK, RecordType, Cached, Verdict
<1>1. \A p \in Projects : Newest(DiskStatus(p), p)
  BY DEF NewestOnly, Newest, DiskStatus
<1>2. ASSUME UNCHANGED <<diskVars, viewVars>>,
             supPc' \in Inserting => supPc' = supPc /\ UNCHANGED <<supProject, hydrated>>
      PROVE  NewestOnly'
  BY <1>2 DEF NewestOnly, Newest, diskVars, latestVars, resultVars, viewVars, shownVars
<1>3. CASE Application
  <2>1. UNCHANGED <<diskVars, viewVars, supVars>>
    <3>1. CASE SyncProjects \/ PauseAll \/ ResumeAll \/ WriteMarker \/ DropHandles
      BY <3>1 DEF SyncProjects, markerVars, PauseAll, ResumeAll, WriteMarker, DropHandles, AppFrame
    <3>2. ASSUME NEW q \in Projects, Edit(q) \/ PauseProject(q) \/ ResumeProject(q) \/ NoticeDir(q)
          PROVE  UNCHANGED <<diskVars, viewVars, supVars>>
      BY <3>2 DEF Edit, PauseProject, markerVars, ResumeProject, NoticeDir, AppFrame
    <3>3. QED BY <1>3, <3>1, <3>2 DEF Application
  <2>2. QED BY <1>2, <2>1 DEF supVars
<1>4. CASE HandleSync \/ SyncPauses
  BY <1>2, <1>4 DEF HandleSync, latestVars, SyncPauses, SupFrame, resultVars, diskVars, viewVars,
        shownVars, Inserting
<1>5. CASE HandleRegister
  BY <1>2, <1>5 DEF HandleRegister, latestVars, SupFrame, resultVars, diskVars, viewVars,
        shownVars, Inserting
<1>6. CASE AnyHydrate
  <2>1. PICK q \in Projects :
          /\ supProject' = q
          /\ supPc' \in Inserting => statusCache[q] = "miss" /\ hydrated' = DiskStatus(q)
          /\ \/ UNCHANGED latestVars \/ Rewrite(q, "none") \/ RemovalFails(q)
    BY <1>6 DEF AnyHydrate, Hydrate, EmitFrame, SupFrame, resultVars, Missed, DiskStatus, Rewrite,
          RemovalFails, latestVars, viewVars, shownVars, TypeOK, SupervisorType, Emitting,
          Syncing, Inserting, Telling
  <2>2. /\ history' = history /\ newest' = newest /\ statusCache' = statusCache
        /\ shown' = shown /\ overtaken' = overtaken
    BY <1>6 DEF AnyHydrate, Hydrate, EmitFrame, SupFrame, resultVars, Missed, DiskStatus, Rewrite,
          RemovalFails, latestVars, viewVars, shownVars
  <2>3. \A p \in Projects : latest'[p] \in {latest[p], "none"}
    BY <1>0, <2>1 DEF Rewrite, RemovalFails, latestVars
  <2>4. QED BY <1>1, <2>1, <2>2, <2>3 DEF NewestOnly, Newest, Verdict
<1>7. CASE AnyInsert
  <2>1. /\ history' = history /\ newest' = newest /\ latest' = latest /\ shown' = shown
        /\ overtaken' = overtaken /\ supPc' \notin Inserting /\ supProject \in Projects
    BY <1>7 DEF AnyInsert, Insert, EmitFrame, SupFrame, resultVars, latestVars, shownVars, TypeOK,
          SupervisorType, Emitting, Syncing, Inserting, Telling
  <2>2. Newest(hydrated, supProject)
    BY <1>7 DEF AnyInsert, Insert, EmitFrame, SupFrame, resultVars, latestVars, shownVars,
          NewestOnly, Inserting
  <2>3. \A p \in Projects : statusCache'[p] = IF p = supProject THEN hydrated ELSE statusCache[p]
    BY <1>0, <1>7 DEF AnyInsert, Insert, EmitFrame, SupFrame, resultVars, latestVars, shownVars
  <2>4. QED BY <2>1, <2>2, <2>3 DEF NewestOnly, Newest
<1>8. CASE AnyTell
  <2>1. /\ history' = history /\ newest' = newest /\ latest' = latest /\ statusCache' = statusCache
        /\ supPc' \notin Inserting /\ supProject \in Projects
    BY <1>8 DEF AnyTell, Tell, EmitFrame, SupFrame, resultVars, StartupShown, latestVars, TypeOK,
          SupervisorType, Emitting, Syncing, Inserting, Telling
  <2>2. \A p \in Projects : p # supProject => shown'[p] = shown[p] /\ (p \in overtaken' <=> p \in overtaken)
    BY <1>0, <1>8 DEF AnyTell, Tell, EmitFrame, SupFrame, resultVars, StartupShown, latestVars
  <2>3. supProject \notin overtaken' => \/ shown'[supProject] = "running"
                                         \/ shown'[supProject] = statusCache[supProject]
    BY <1>0, <1>8, <2>1 DEF AnyTell, Tell, EmitFrame, SupFrame, resultVars, StartupShown, latestVars
  <2>4. QED BY <2>1, <2>2, <2>3 DEF NewestOnly, Newest, Verdict
<1>9. CASE HandleUnregister \/ HandleTrigger
  BY <1>2, <1>9 DEF HandleUnregister, latestVars, HandleTrigger, Receive, SupFrame, resultVars,
        supVars, diskVars, viewVars, shownVars, Inserting
<1>10. CASE HandlePause \/ HandlePauseProject \/ HandleResume \/ HandleResumeProject
  BY <1>2, <1>10 DEF HandlePause, HandlePauseProject, HandleResume, HandleResumeProject,
        KillFrame, latestVars, ResumeFrame, SupFrame, resultVars, supVars, diskVars, viewVars,
        shownVars
<1>11. CASE StopWorker("reconcile", "join") \/ StopWorker("drain", "drainJoin")
  BY <1>2, <1>11 DEF StopWorker, latestVars, SupFrame, resultVars, diskVars, viewVars, shownVars,
        Inserting
<1>12. CASE JoinWorker("join", "reconcile") \/ JoinWorker("drainJoin", "drain")
  <2>1. /\ history' = history /\ newest' = newest /\ latest' = latest /\ statusCache' = statusCache
        /\ supPc' \notin Inserting
    BY <1>12 DEF JoinWorker, Show, latestVars, shownVars, SupFrame, resultVars, Inserting
  <2>2. \A p \in Projects : \/ shown'[p] = shown[p] /\ (p \in overtaken' <=> p \in overtaken)
                            \/ shown'[p] = history[p]
    BY <1>0, <1>12 DEF JoinWorker, Show, latestVars, shownVars, Terminal
  <2>3. QED BY <2>1, <2>2 DEF NewestOnly, Newest
<1>13. CASE SpawnMissing \/ Drain \/ SupervisorExits
  BY <1>2, <1>13 DEF SpawnMissing, latestVars, Drain, SupervisorExits, SupFrame, resultVars,
        diskVars, viewVars, shownVars, Inserting
<1>14. ASSUME NEW p \in Projects, Worker(p) PROVE NewestOnly'
  <2>1. UNCHANGED supVars
    BY <1>14 DEF Worker, ReceiveTrigger, ExitThread, HoldBack, RememberHeld, Show, SkipRun,
          StartRun, Rewrite, latestVars, resultVars, Announce, ProjectRemoved, Interrupted,
          RunEndsEarly, RemovalFails, SpawnCommand, RecordCommand, Abort, Guard, viewVars,
          shownVars, diskVars, PutInSlot, Reap, Finish, AfterRun, RememberInterrupted, WorkerFrame
  <2>2. ASSUME pc[p] \notin {"none", "idle"} PROVE ~(supPc \in Inserting /\ supProject = p)
    BY <2>2 DEF HydratedBeforeRun, Syncing, Inserting, NewestOnly
  \* A worker touches its own project only, and whatever it publishes is as new as can be.
  <2>3. ASSUME \A q \in Projects \ {p} :
                 /\ latest'[q] = latest[q] /\ statusCache'[q] = statusCache[q] /\ shown'[q] = shown[q]
                 /\ history'[q] = history[q] /\ newest'[q] = newest[q] /\ (q \in overtaken' <=> q \in overtaken),
               latest'[p] \in Verdict => latest'[p] = newest'[p],
               statusCache'[p] \in Verdict => statusCache'[p] \in {newest'[p], history'[p]},
               p \notin overtaken' /\ shown'[p] \in Verdict => shown'[p] \in {newest'[p], history'[p]},
               ~(supPc \in Inserting /\ supProject = p) \/ UNCHANGED <<statusCache, history, newest>>
        PROVE  NewestOnly'
    <3>1. \A q \in Projects : /\ latest'[q] \in Verdict => latest'[q] = newest'[q]
                              /\ Newest(statusCache[q], q)' /\ (q \notin overtaken' => Newest(shown[q], q)')
      BY <2>3 DEF NewestOnly, Newest
    <3>2. supPc' \in Inserting => statusCache'[supProject'] = "miss" /\ Newest(hydrated, supProject)'
      BY <2>1, <2>3 DEF NewestOnly, Newest, supVars, TypeOK, SupervisorType, Emitting, Syncing,
            Inserting, Telling
    <3>3. QED BY <3>1, <3>2 DEF NewestOnly
  <2>4. /\ latest[p] \in Verdict => latest[p] = newest[p]
        /\ Newest(statusCache[p], p) /\ (p \notin overtaken => Newest(shown[p], p))
    BY DEF NewestOnly
  <2>5. CASE ReceiveTrigger(p) \/ ExitThread(p) \/ HoldBack(p) \/ SkipRun(p)
    BY <2>3, <2>4, <2>5 DEF ReceiveTrigger, ExitThread, HoldBack, SkipRun, diskVars, latestVars,
          resultVars, viewVars, shownVars, Newest
  <2>6. CASE PutInSlot(p) \/ AfterRun(p) \/ RememberInterrupted(p)
    BY <2>3, <2>4, <2>6 DEF PutInSlot, AfterRun, RememberInterrupted, diskVars, latestVars,
          resultVars, viewVars, shownVars, Newest
  <2>7. CASE RememberHeld(p)
    BY <1>0, <2>3, <2>4, <2>7 DEF RememberHeld, Show, Terminal, diskVars, latestVars, resultVars,
          Newest, Verdict
  <2>8. CASE StartRun(p)
    BY <1>0, <2>3, <2>4, <2>8 DEF StartRun, Rewrite, latestVars, resultVars, viewVars, shownVars,
          Newest, Verdict
  <2>9. CASE Announce(p)
    <3>1. ~(supPc \in Inserting /\ supProject = p) /\ UNCHANGED <<history, newest, latest>>
      BY <2>2, <2>9 DEF Announce, Show, diskVars, latestVars, resultVars
    <3>2. /\ \A q \in Projects \ {p} : /\ statusCache'[q] = statusCache[q] /\ shown'[q] = shown[q]
                                       /\ (q \in overtaken' <=> q \in overtaken)
          /\ statusCache'[p] \in {statusCache[p], "NoLog"} /\ shown'[p] \in {"running", history[p]}
      BY <1>0, <2>9 DEF Announce, Show, Terminal
    <3>3. QED BY <2>3, <2>4, <3>1, <3>2 DEF Newest, Verdict
  \* The record is removed or stays, and what is shown comes from the history.
  <2>10. ASSUME ~(supPc \in Inserting /\ supProject = p), UNCHANGED resultVars,
                \/ UNCHANGED latestVars \/ RemovalFails(p)
                \/ \E status \in {"none", "running"} : Rewrite(p, status),
                \/ UNCHANGED viewVars
                \/ /\ statusCache' = [statusCache EXCEPT ![p] = statusCache'[p]]
                   /\ statusCache'[p] \in {statusCache[p], history[p], "NoLog"}
                   /\ \E status \in {"stale", history[p]} : Show(p, status)
         PROVE  NewestOnly'
    <3>1. /\ \A q \in Projects \ {p} : latest'[q] = latest[q]
          /\ latest'[p] \in {latest[p], "none", "running"}
      BY <1>0, <2>10 DEF Rewrite, RemovalFails, latestVars
    <3>2. /\ \A q \in Projects \ {p} : /\ statusCache'[q] = statusCache[q] /\ shown'[q] = shown[q]
                                       /\ (q \in overtaken' <=> q \in overtaken)
          /\ statusCache'[p] \in {statusCache[p], history[p], "NoLog"}
          /\ \/ shown'[p] = shown[p] /\ (p \in overtaken' <=> p \in overtaken)
             \/ shown'[p] \in {"stale", history[p]}
      BY <1>0, <2>10 DEF Show, viewVars, shownVars
    <3>3. UNCHANGED <<history, newest>>
      BY <2>10 DEF resultVars
    <3>4. QED BY <2>3, <2>4, <2>10, <3>1, <3>2, <3>3 DEF Newest, Verdict
  <2>11. CASE ProjectRemoved(p) \/ Interrupted(p)
    <3>1. ~(supPc \in Inserting /\ supProject = p)
      BY <2>2, <2>11 DEF ProjectRemoved, Interrupted
    <3>2. PICK status \in {"NoLog", "stale"}, cached \in {"NoLog", statusCache[p]} :
            RunEndsEarly(p, status, cached)
      BY <2>11 DEF ProjectRemoved, Interrupted
    <3>3. \/ UNCHANGED latestVars \/ RemovalFails(p)
          \/ \E record \in {"none", "running"} : Rewrite(p, record)
      BY <3>2 DEF RunEndsEarly, Rewrite, RemovalFails, Show, resultVars
    <3>4. /\ statusCache' = [statusCache EXCEPT ![p] = statusCache'[p]]
          /\ statusCache'[p] \in {statusCache[p], history[p], "NoLog"}
      BY <1>0, <3>2 DEF RunEndsEarly, Rewrite, RemovalFails, Show, resultVars
    <3>5. \E display \in {"stale", history[p]} : Show(p, display)
      BY <3>2 DEF RunEndsEarly, Rewrite, RemovalFails, Show, resultVars, Terminal
    <3>6. UNCHANGED resultVars
      BY <3>2 DEF RunEndsEarly, Rewrite, RemovalFails, Show, resultVars
    <3>7. QED BY <2>10, <3>1, <3>3, <3>4, <3>5, <3>6
  \* RunFinalizeGuard.
  <2>12. ASSUME Guard(p), UNCHANGED resultVars, pc[p] \notin {"none", "idle"} PROVE NewestOnly'
    <3>1. CASE UNCHANGED viewVars
      BY <2>2, <2>10, <2>12, <3>1 DEF Guard
    <3>2. CASE /\ Rewrite(p, "none") /\ statusCache' = [statusCache EXCEPT ![p] = history[p]]
               /\ Show(p, history[p])
      <4>1. /\ statusCache' = [statusCache EXCEPT ![p] = statusCache'[p]]
            /\ statusCache'[p] \in {statusCache[p], history[p], "NoLog"}
        BY <1>0, <3>2
      <4>2. QED BY <2>2, <2>10, <2>12, <3>2, <4>1
    <3>3. QED BY <2>12, <3>1, <3>2 DEF Guard, Terminal
  <2>13. ASSUME RecordCommand(p), pc[p] \notin {"none", "idle"} PROVE NewestOnly'
    <3>1. CASE Rewrite(p, "running") /\ UNCHANGED viewVars
      BY <2>2, <2>10, <2>13, <3>1 DEF RecordCommand
    <3>2. CASE Guard(p)
      BY <2>12, <2>13, <3>2 DEF RecordCommand
    <3>3. QED BY <2>13, <3>1, <3>2 DEF RecordCommand, Abort, Guard, Rewrite, RemovalFails, Show,
          latestVars, resultVars, viewVars, shownVars
  <2>14. CASE Reap(p)
    BY <2>13, <2>14 DEF Reap, RecordCommand, Abort, Guard, Rewrite, RemovalFails, Show,
          latestVars, resultVars, viewVars, shownVars
  <2>15. CASE SpawnCommand(p)
    <3>1. CASE UNCHANGED <<diskVars, viewVars>>
      BY <1>2, <2>1, <3>1 DEF supVars
    <3>2. CASE RecordCommand(p)
      BY <2>13, <2>15, <3>2 DEF SpawnCommand, RecordCommand, Abort, Guard, Rewrite, RemovalFails,
            Show, latestVars, resultVars, viewVars, shownVars, diskVars, MayProceed
    <3>3. QED BY <2>15, <3>1, <3>2 DEF SpawnCommand, RecordCommand, Abort, Guard, Rewrite,
          RemovalFails, Show, latestVars, resultVars, viewVars, shownVars, diskVars
  <2>16. CASE Finish(p)
    <3>1. ~(supPc \in Inserting /\ supProject = p) /\ pc[p] = "check"
      BY <2>2, <2>16 DEF Finish, Abort, Guard, Rewrite, RemovalFails, Show, latestVars,
            resultVars, viewVars, shownVars, MayProceed
    <3>2. CASE Guard(p) /\ UNCHANGED resultVars
      BY <2>12, <3>1, <3>2
    <3>3. ASSUME NEW verdict \in Verdict, Rewrite(p, verdict), newest' = [newest EXCEPT ![p] = verdict],
                 history' = [history EXCEPT ![p] = verdict] \/ history' = history,
                 CacheVerdict(p, verdict), Show(p, Terminal(verdict, history'[p]))
          PROVE  NewestOnly'
      <4>1. /\ \A q \in Projects \ {p} :
                 /\ latest'[q] = latest[q] /\ statusCache'[q] = statusCache[q] /\ shown'[q] = shown[q]
                 /\ history'[q] = history[q] /\ newest'[q] = newest[q] /\ (q \in overtaken' <=> q \in overtaken)
            /\ latest'[p] = verdict /\ newest'[p] = verdict /\ statusCache'[p] = verdict
            /\ shown'[p] = history'[p]
        BY <1>0, <3>3 DEF Rewrite, CacheVerdict, Show, Terminal, Verdict
      <4>2. QED BY <2>3, <3>1, <4>1
    <3>4. QED BY <2>16, <3>2, <3>3 DEF Finish, Abort, Guard, Rewrite, RemovalFails, Show,
          latestVars, resultVars, viewVars, shownVars, Verdict
  <2>17. QED BY <1>14, <2>5, <2>6, <2>7, <2>8, <2>9, <2>11, <2>14, <2>15, <2>16 DEF Worker
<1>15. ASSUME NEW p \in Projects, ChildExits(p) \/ DirChanges(p) PROVE NewestOnly'
  BY <1>2, <1>15 DEF ChildExits, DirChanges, WorkerFrame, AppFrame, supVars
<1>16. CASE UNCHANGED vars
  BY <1>2, <1>16 DEF vars, supVars
<1>17. CASE Supervisor
  BY <1>4, <1>5, <1>6, <1>7, <1>8, <1>9, <1>10, <1>11, <1>12, <1>13, <1>17
  DEF Supervisor, AnyHydrate, AnyInsert, AnyTell
<1>18. QED BY <1>3, <1>14, <1>15, <1>16, <1>17 DEF Next

\* publish_status, cached_status_for_project and the channel between them: with
\* deferred discovery no interleaving of hydration, runs, pauses and failing i/o leaves
\* an older verdict in the cache, or on display unless a startup status was overtaken.
THEOREM VerdictsAreNewest ==
  ASSUME DiscoveryImmediate = FALSE
  PROVE  Spec => []VerdictIsNewest
<1>1. Init => NewestOnly
  <2>1. SUFFICES ASSUME Init PROVE NewestOnly
    OBVIOUS
  <2>2. /\ \A p \in Projects : /\ statusCache[p] = "miss" /\ shown[p] = "NoLog"
                               /\ newest[p] = DiskStatus(p)
        /\ supPc = "recv"
    BY <2>1 DEF Init
  <2>3. QED BY <2>2 DEF NewestOnly, Newest, DiskStatus, Verdict, Inserting
<1>2. TypeOK /\ RuntimeInv /\ NewestOnly /\ [Next]_vars => NewestOnly'
  BY NewestStep DEF RuntimeInv
<1>3. TypeOK /\ NewestOnly => VerdictIsNewest
  BY DEF NewestOnly, Newest, VerdictIsNewest, Workers
<1>4. QED BY <1>1, <1>2, <1>3, FullInvariant, PTL DEF Spec
=============================================================================
