------------------------- MODULE RunLifecycleProofs -------------------------
(***************************************************************************)
(* The process as a client of the coordinator, for any runs, scenarios,    *)
(* crashes and lapses.  Every step of the process is one call of the       *)
(* coordinator or leaves its document alone, so what CoordinatorProofs     *)
(* shows of arbitrary clients holds of this one.  That a step IS a call    *)
(* needs an invariant of the process: the run and the token a task, a      *)
(* watchdog tick or a record hands to the coordinator were issued to it.   *)
(***************************************************************************)
EXTENDS RunLifecycle, CoordinatorProofs

\* What a task carries from one await to the next.
TaskHandles ==
    task # NoTask =>
        /\ task.pc # "none"
        /\ task.target \in Runs
        /\ task.token \in IssuedTokens
        /\ task.run \in IF task.kind = "external" THEN {Operator} ELSE Runs
        /\ task.kind = "external" => task.pc \in {"started", "external", "extclear"}

\* What a tick carries; while it still holds the lease it acts on, its claim
\* is on it.
WatchdogHandles ==
    watchdog.pc # "idle" =>
        /\ watchdog.run \in Runs
        /\ watchdog.token \in IssuedTokens
        /\ watchdog.pc \in {"clean", "release", "dirty"}
              /\ active_lease = Fenced(watchdog.run, watchdog.token)
           => cleanup_claim.claimant = Watchdog

\* What lease.json keeps over a crash.
RecordHandles == \A r \in Runs : record[r].token < next_fencing_token

RunInv ==
    /\ CoordInv
    /\ RunTypeOK
    /\ TaskHandles
    /\ WatchdogHandles
    /\ RecordHandles

\* The parts of a step that is not about the coordinator.
ProcessTypes ==
    /\ task \in Tasks
    /\ current \in [run : Runs \cup {NoRun, Operator},
                    status : {"none", "running", "succeeded", "failed", "dirty"}]
    /\ session \in [status : {"pending", "blocked", "active", "recovering", "clean", "dirty"},
                    effect : {"none", "open", "ended"}, goal : {"open", "met", "missed"}]
    /\ watchdog \in [pc : {"idle", "claim", "clean", "release", "dirty", "finish"},
                     run : Runs \cup {NoRun}, token : Nat, applier : Appliers]
    /\ record \in [Runs -> [status : {"none", "unknown", "capsule", "pending", "blocked",
                                      "active", "recovering", "clean", "dirty"},
                            effect : {"none", "open", "ended"}, token : Nat]]
    /\ effect \subseteq Runs /\ closed \subseteq Runs
    /\ captures \subseteq Runs /\ unused \subseteq Runs
    /\ crashes \in 0..MaxCrashes /\ lapses \in 0..MaxLapses
    /\ failures \in 0..MaxFailures

LEMMA TypesSplit == RunTypeOK <=> TypeOK /\ ProcessTypes
  <1>1. UNION {effect, closed, captures, unused} \subseteq Runs
          <=> /\ effect \subseteq Runs /\ closed \subseteq Runs
              /\ captures \subseteq Runs /\ unused \subseteq Runs
    OBVIOUS
  <1> QED
    BY <1>1 DEF RunTypeOK, ProcessTypes

LEMMA InitRunInv == RunInit => RunInv
  <1> SUFFICES ASSUME RunInit PROVE RunInv
    OBVIOUS
  <1>1. CoordInv /\ TypeOK
    BY InitCoordInv DEF RunInit, CoordInv
  <1>2. ProcessTypes
    BY LifecycleAssumption
    DEF RunInit, ProcessTypes, Tasks, NoTask, NoSession, NoRecord, WatchdogIdle
  <1>3. TaskHandles /\ WatchdogHandles /\ RecordHandles
    BY DEF RunInit, Init, TaskHandles, WatchdogHandles, RecordHandles, WatchdogIdle, NoRecord
  <1> QED
    BY <1>1, <1>2, <1>3, TypesSplit DEF RunInv

-----------------------------------------------------------------------------
\* Each caller's part: a step that calls the coordinator passes it handles
\* that were issued.
LEMMA StartCalls == ASSUME RunInv, StartStep PROVE [Call]_coordVars
  <1> USE LifecycleAssumption, CoordinatorAssumption
      DEF RunInv, CoordInv, TypeOK, TokensIssued, IssuedTokens, Fenced, NoFenced, FencedRuns
  <1>1. ASSUME NEW r \in Runs, StartRun(r) PROVE Call
    BY <1>1 DEF StartRun, Call
  <1>2. ASSUME NEW r \in Runs, StartCleanup(r) PROVE Call
    <2>1. CASE Acquire(r)
      BY <2>1 DEF Call
    <2>2. CASE dirty_run # NoFenced /\ ClaimCleanup(dirty_run.run, dirty_run.token, r)
      <3>1. dirty_run.run \in Runs /\ dirty_run.token \in IssuedTokens /\ r \in Claimants
        BY <2>2
      <3> QED
        BY <2>2, <3>1 DEF Call
    <2> QED
      BY <1>2, <2>1, <2>2 DEF StartCleanup
  <1>3. ASSUME NEW s \in Scenarios, ReadoptOrphan(s) PROVE Call
    <2>1. PICK r \in NewestOrphan(s) : ReadoptDirty(r, record[r].token)
      BY <1>3 DEF ReadoptOrphan
    <2>2. r \in Runs /\ record[r].token \in IssuedTokens
      BY <2>1, TypesSplit DEF NewestOrphan, Orphans, RecordHandles, ProcessTypes
    <2> QED
      BY <2>1, <2>2 DEF Call
  <1>4. ASSUME NEW s \in Scenarios, StartExternalCleanup(s) PROVE Call
    <2>1. dirty_run.run \in Runs /\ dirty_run.token \in IssuedTokens /\ Operator \in Claimants
      BY <1>4 DEF StartExternalCleanup
    <2> QED
      BY <1>4, <2>1 DEF StartExternalCleanup, Call
  <1> QED
    BY <1>1, <1>2, <1>3, <1>4 DEF StartStep

\* A task that is at a step exists, and so do its handles.
LEMMA TaskHolds ==
    ASSUME RunInv, task.pc # "none" \/ task.beat # "off"
    PROVE  /\ task.target \in Runs /\ task.token \in IssuedTokens
           /\ task.run \in Claimants
           /\ task.run # Watchdog
           /\ task.kind # "external" => task.run \in Runs
  BY LifecycleAssumption DEF RunInv, TaskHandles, NoTask

LEMMA TaskCalls == ASSUME RunInv, TaskStep PROVE [Call]_coordVars
  <1>1. CASE task.pc = "none"
    BY <1>1 DEF TaskStep, At, OnLoop, InThread, Returned, Concludes, BindLeaseFails,
       StartUnwinds, TaskLaunched, LogNotOpened, Launched, DriverFails, HandlerFails,
       ProbeBlocks, ProbePasses, ApplyReturns, LevelApplied,
       LevelFails, TickHeartbeats, TickRefused, TickWaits, TickEscalates, TickDecides,
       TickRecovers, CleanupReturns, LevelEnded, TerminalCleaned, TerminalCleanupFailed,
       FailedRunCleaned, ScriptExits, ScriptReturned, HeartbeatJoined, ConcludeDirty,
       ConcludeClean, Capture, ConcludeManual, FailureCleanupClaims,
       FailureCleanupReturned, FailureCleanupUnclaims, ExternalCleanupReturns,
       ExternalCleanupRecorded, ExternalCleanupEnds
  <1>2. CASE task.pc # "none"
    <2> /\ task.target \in Runs /\ task.token \in IssuedTokens
        /\ task.run \in Claimants
      BY <1>2, TaskHolds
    <2> Operator \in Claimants
      BY LifecycleAssumption
    <2>1. ASSUME \/ StartUnwinds \/ TickHeartbeats \/ ConcludeDirty \/ ConcludeClean
          PROVE  [Call]_coordVars
      BY <2>1 DEF StartUnwinds, TickHeartbeats, ConcludeDirty, ConcludeClean,
         MarkDirtySuppressed, Call
    <2>2. ASSUME \/ ConcludeManual \/ FailureCleanupClaims \/ FailureCleanupReturned
                 \/ FailureCleanupUnclaims \/ ExternalCleanupEnds
          PROVE  [Call]_coordVars
      BY <2>2 DEF ConcludeManual, FailureCleanupClaims, FailureCleanupReturned,
         FailureCleanupUnclaims, ExternalCleanupEnds, MarkDirtySuppressed, Call
    <2> QED
      BY <2>1, <2>2 DEF TaskStep, BindLeaseFails,
       TaskLaunched, LogNotOpened, Launched, DriverFails, HandlerFails, ProbeBlocks,
       ProbePasses, ApplyReturns, LevelApplied,
       LevelFails, TickRefused, TickWaits, TickEscalates, TickDecides,
       TickRecovers, CleanupReturns, LevelEnded, TerminalCleaned, TerminalCleanupFailed,
       FailedRunCleaned, ScriptExits, ScriptReturned, HeartbeatJoined, Capture,
       ExternalCleanupReturns, ExternalCleanupRecorded
  <1> QED
    BY <1>1, <1>2

LEMMA WatchdogCalls == ASSUME RunInv, WatchdogStep PROVE [Call]_coordVars
  <1> USE LifecycleAssumption DEF RunInv, WatchdogHandles
  <1>1. ASSUME \/ WatchdogReleases \/ WatchdogMarksDirty \/ WatchdogFinishes
        PROVE  [Call]_coordVars
    BY <1>1 DEF WatchdogReleases, WatchdogMarksDirty, WatchdogFinishes, WatchdogAt, Call
  <1>2. ASSUME WatchdogClaims PROVE [Call]_coordVars
    BY <1>2 DEF WatchdogClaims, Call
  <1> QED
    BY <1>1, <1>2 DEF WatchdogStep, WatchdogDecides, WatchdogCleans

\* Every step of the process is one call of the coordinator, with handles it
\* issued, or leaves its document alone.
LEMMA StepCalls == RunInv /\ [RunNext]_runVars => [Call]_coordVars
  <1> SUFFICES ASSUME RunInv, [RunNext]_runVars PROVE [Call]_coordVars
    OBVIOUS
  <1>1. CASE HeartbeatStep
    BY <1>1, TaskHolds
    DEF HeartbeatStep, HeartbeatReturns, HeartbeatRaises, HeartbeatTaskFails, Call
  <1>2. CASE Crash \/ Lapse
    BY <1>2 DEF Crash, Lapse, Call
  <1>3. CASE UNCHANGED runVars
    BY <1>3 DEF runVars
  <1> QED
    BY <1>1, <1>2, <1>3, StartCalls, TaskCalls, WatchdogCalls DEF RunNext

\* Tokens are never taken back.
LEMMA TokensGrow ==
    ASSUME CoordInv, [Call]_coordVars
    PROVE  /\ next_fencing_token \in Nat /\ next_fencing_token' \in Nat
           /\ next_fencing_token <= next_fencing_token'
  BY StepCoordInv
  DEF CoordInv, TypeOK, Call, coordVars, Acquire, Heartbeat, Release, MarkDirty,
      ReadoptDirty, ClaimCleanup, ClaimExpiredCleanup, ClearDirty,
      FinishCleanupClaim, LeaseLapses

-----------------------------------------------------------------------------
\* The process's own part of the invariant, by who takes the step.  A step
\* that changes none of what a part speaks of keeps it because tokens are
\* never taken back.
TaskParts == ProcessTypes /\ TaskHandles /\ RecordHandles

\* A task begins with the handles start() gives it.
LEMMA StartedTask ==
    ASSUME NEW kind, NEW r, NEW target, NEW token, Started(kind, r, target, token)
    PROVE  task' = [pc |-> "started", kind |-> kind, run |-> r, target |-> target,
                    token |-> token, beat |-> "off", outcome |-> "none"]
  BY DEF Started, NoTask

LEMMA StartedParts ==
    ASSUME NEW kind \in {"adaptive", "cycle", "script", "cleanup", "manual", "external"},
           NEW r \in IF kind = "external" THEN {Operator} ELSE Runs,
           NEW target \in Runs, NEW token \in Nat \ {0}, token < next_fencing_token',
           next_fencing_token' \in Nat, Started(kind, r, target, token)
    PROVE  task' \in Tasks /\ TaskHandles'
  BY StartedTask DEF Tasks, TaskHandles, IssuedTokens

LEMMA StartParts == ASSUME RunInv, StartStep PROVE TaskParts'
  <1> USE LifecycleAssumption, CoordinatorAssumption, TypesSplit
  <1> CoordInv' /\ next_fencing_token' >= next_fencing_token
    BY StartCalls, StepCoordInv, TokensGrow DEF RunInv
  <1> /\ next_fencing_token \in Nat /\ next_fencing_token' \in Nat
      /\ next_fencing_token # 0
    BY DEF RunInv, CoordInv, TypeOK
  <1> DEFINE Parts(s) ==
        /\ s \in [Runs -> [status : {"none", "unknown", "capsule", "pending", "blocked",
                                     "active", "recovering", "clean", "dirty"},
                           effect : {"none", "open", "ended"}, token : Nat]]
        /\ \A x \in Runs : s[x].token = record[x].token
  <1>0. ASSUME task' \in Tasks, TaskHandles', Parts(record'), unused' \subseteq unused,
               UNCHANGED <<current, session, watchdog, effect, closed, captures, crashes, lapses, failures>>
        PROVE  TaskParts'
    <2>1. ProcessTypes'
      BY <1>0 DEF RunInv, ProcessTypes
    <2>2. RecordHandles'
      BY <1>0 DEF RunInv, RecordHandles, ProcessTypes
    <2> QED
      BY <1>0, <2>1, <2>2 DEF TaskParts
  <1>1. ASSUME UNCHANGED record PROVE Parts(record')
    BY <1>1 DEF RunInv, ProcessTypes
  <1> HIDE DEF Parts
  <1>2. ASSUME NEW r \in Runs, StartRun(r) PROVE TaskParts'
    <2>1. task' \in Tasks /\ TaskHandles'
      BY <1>2, StartedParts DEF StartRun, Acquire
    <2>2. Parts(record')
      <3>1. CASE UNCHANGED record
        BY <1>1, <3>1
      <3>2. CASE record' = [record EXCEPT ![r].status = "capsule"]
        BY <3>2 DEF RunInv, ProcessTypes, Parts
      <3> QED
        BY <1>2, <3>1, <3>2 DEF StartRun
    <2> QED
      BY <1>0, <1>2, <2>1, <2>2 DEF StartRun, CanStart
  <1>3. ASSUME NEW r \in Runs, StartCleanup(r) PROVE TaskParts'
    <2>1. ASSUME dirty_run # NoFenced, Started("manual", r, dirty_run.run, dirty_run.token)
          PROVE  task' \in Tasks /\ TaskHandles'
      <3>1. dirty_run.run \in Runs /\ dirty_run.token \in Nat \ {0}
            /\ dirty_run.token < next_fencing_token'
        BY <2>1 DEF RunInv, CoordInv, TypeOK, TokensIssued, NoFenced, FencedRuns, Fenced
      <3> QED
        BY <2>1, <3>1, StartedParts
    <2>2. ASSUME Acquire(r), Started("cleanup", r, r, next_fencing_token)
          PROVE  task' \in Tasks /\ TaskHandles'
      BY <2>2, StartedParts DEF Acquire
    <2>3. task' \in Tasks /\ TaskHandles'
      BY <1>3, <2>1, <2>2 DEF StartCleanup
    <2> QED
      BY <1>0, <1>1, <1>3, <2>3 DEF StartCleanup, CanStart, diskVars
  <1>4. ASSUME NEW s \in Scenarios, ReadoptOrphan(s) PROVE TaskParts'
    <2>1. task' \in Tasks /\ TaskHandles'
      BY <1>4 DEF RunInv, ProcessTypes, TaskHandles, IssuedTokens, ReadoptOrphan
    <2> QED
      BY <1>0, <1>1, <1>4, <2>1 DEF ReadoptOrphan, diskVars, boundVars
  <1>5. ASSUME NEW s \in Scenarios, StartExternalCleanup(s) PROVE TaskParts'
    <2>1. dirty_run.run \in Runs /\ dirty_run.token \in Nat \ {0}
          /\ dirty_run.token < next_fencing_token'
      BY <1>5 DEF StartExternalCleanup, RunInv, CoordInv, TypeOK, TokensIssued,
         NoFenced, FencedRuns, Fenced
    <2>2. task' \in Tasks /\ TaskHandles'
      BY <1>5, <2>1, StartedParts DEF StartExternalCleanup
    <2> QED
      BY <1>0, <1>1, <1>5, <2>2 DEF StartExternalCleanup, diskVars, boundVars
  <1> QED
    BY <1>2, <1>3, <1>4, <1>5 DEF StartStep

\* Persisting a session writes what the session says.
LEMMA PersistTypes ==
    ASSUME ProcessTypes, NEW r \in Runs,
           NEW s \in [status : {"pending", "blocked", "active", "recovering", "clean", "dirty"},
                      effect : {"none", "open", "ended"}, goal : {"open", "met", "missed"}],
           Persist(r, s)
    PROVE  /\ session' = s
           /\ record' \in [Runs -> [status : {"none", "unknown", "capsule", "pending", "blocked",
                                      "active", "recovering", "clean", "dirty"},
                            effect : {"none", "open", "ended"}, token : Nat]]
           /\ \A x \in Runs : record'[x].token = record[x].token
           /\ closed' \subseteq Runs /\ captures' = captures
  <1> DEFINE Records ==
        [status : {"none", "unknown", "capsule", "pending", "blocked",
                   "active", "recovering", "clean", "dirty"},
         effect : {"none", "open", "ended"}, token : Nat]
  <1> DEFINE marked == [record EXCEPT ![r].status = s.status]
  <1>1. /\ record \in [Runs -> Records]
        /\ s.effect \in {"none", "open", "ended"}
        /\ s.status \in {"pending", "blocked", "active", "recovering", "clean", "dirty"}
    BY DEF ProcessTypes
  <1>2. marked \in [Runs -> Records] /\ \A x \in Runs : marked[x].token = record[x].token
    BY <1>1
  <1>3. record' = [marked EXCEPT ![r].effect = s.effect]
    BY <1>1 DEF Persist
  <1> HIDE DEF marked
  <1>4. /\ record' \in [Runs -> Records]
        /\ \A x \in Runs : record'[x].token = marked[x].token
    BY <1>1, <1>2, <1>3
  <1> QED
    BY <1>2, <1>4 DEF ProcessTypes, Persist

\* Where the driver and its handler may raise, and with which session.
SessionTypes ==
    [status : {"pending", "blocked", "active", "recovering", "clean", "dirty"},
     effect : {"none", "open", "ended"}, goal : {"open", "met", "missed"}]

SessionPcs == {"probe", "apply", "sleep", "tick", "switch", "clean", "failclean"}

LEMMA RaisedSessions ==
    ASSUME session \in SessionTypes, NEW s \in HandlerInterrupted
    PROVE  s \in SessionTypes /\ task.pc \in SessionPcs /\ LoopIsFree
  <1> DEFINE Statuses == {"pending", "blocked", "active", "recovering", "clean", "dirty"}
  <1>1. /\ \A st \in Statuses : /\ [session EXCEPT !.status = st] \in SessionTypes
                                /\ \A e \in {"none", "open", "ended"} :
                                     [session EXCEPT !.status = st, !.effect = e] \in SessionTypes
        /\ [session EXCEPT !.effect = "open"] \in SessionTypes
    BY DEF SessionTypes
  <1> HIDE DEF SessionTypes
  <1>2. CASE s \in Interrupted
    <2>1. task.pc \in SessionPcs /\ LoopIsFree
      BY <1>2 DEF Interrupted, OnLoop, Returned, At, SessionPcs
    <2>2. s \in SessionTypes
      BY <1>1, <1>2 DEF Interrupted
    <2> QED
      BY <2>1, <2>2
  <1>3. CASE s \notin Interrupted
    <2>1. task.pc \in SessionPcs /\ LoopIsFree
      BY <1>3 DEF HandlerInterrupted, OnLoop, Returned, At, SessionPcs
    <2>2. s \in SessionTypes
      BY <1>1, <1>3 DEF HandlerInterrupted
    <2> QED
      BY <2>1, <2>2
  <1> QED
    BY <1>2, <1>3

\* The handler works where the driver does.
LEMMA HandlerSeesAll == Interrupted \subseteq HandlerInterrupted
  BY DEF Interrupted, HandlerInterrupted, OnLoop, Returned, At

LEMMA HandledSession == \A s \in SessionTypes : Handled(s) \in SessionTypes
  BY DEF SessionTypes, Handled

\* A failure of the driver or of its handler writes down a session or none,
\* and moves the task.
LEMMA FailureFacts ==
    ASSUME RunInv, DriverFails \/ HandlerFails
    PROVE  /\ task.pc \in SessionPcs
           /\ \E pc \in {"failclean", "join", "lost"} : Goto(pc)
           /\ \/ \E s \in SessionTypes : Persist(task.run, s)
              \/ session' \in SessionTypes /\ UNCHANGED diskVars
           /\ UNCHANGED <<coordVars, current, watchdog, effect, unused, crashes, lapses>>
           /\ failures' \in 0..MaxFailures /\ failures' > 0
           /\ LoopIsFree
  <1>1. session \in SessionTypes /\ failures \in 0..MaxFailures
    BY TypesSplit DEF RunInv, ProcessTypes, SessionTypes
  <1>2. /\ UNCHANGED <<coordVars, current, watchdog, effect, unused, crashes, lapses>>
        /\ failures' \in 0..MaxFailures /\ failures' > 0
    BY <1>1, LifecycleAssumption DEF DriverFails, HandlerFails
  <1>3. CASE DriverFails
    <2>1. PICK s \in Interrupted :
            \/ /\ Goto("failclean")
               /\ \/ session' = [s EXCEPT !.goal = "missed"] /\ UNCHANGED diskVars
                  \/ Persist(task.run, [s EXCEPT !.goal = "missed"])
            \/ Goto("join") /\ Persist(task.run, Handled(s))
      BY <1>3 DEF DriverFails
    <2>2. s \in SessionTypes /\ task.pc \in SessionPcs /\ LoopIsFree
      BY <1>1, RaisedSessions, HandlerSeesAll
    <2>3. Handled(s) \in SessionTypes /\ [s EXCEPT !.goal = "missed"] \in SessionTypes
      BY <2>2, HandledSession DEF SessionTypes
    <2> QED
      BY <1>2, <2>1, <2>2, <2>3
  <1>4. CASE HandlerFails
    <2>1. PICK s \in HandlerInterrupted :
            \/ session' = s /\ UNCHANGED diskVars
            \/ Persist(task.run, s)
            \/ Persist(task.run, Handled(s))
      BY <1>4 DEF HandlerFails
    <2>2. s \in SessionTypes /\ task.pc \in SessionPcs /\ LoopIsFree
      BY <1>1, RaisedSessions
    <2>3. Handled(s) \in SessionTypes
      BY <2>2, HandledSession
    <2> QED
      BY <1>2, <1>4, <2>1, <2>2, <2>3 DEF HandlerFails
  <1> QED
    BY <1>3, <1>4

\* The steps of the adaptive session: none of them touches the handles.
LEMMA SessionParts ==
    ASSUME RunInv,
           \/ ProbeBlocks \/ ProbePasses \/ ApplyReturns \/ LevelApplied \/ LevelFails
           \/ TickHeartbeats \/ TickRefused \/ TickWaits \/ TickEscalates
           \/ TickDecides \/ TickRecovers \/ CleanupReturns \/ LevelEnded
           \/ TerminalCleaned \/ TerminalCleanupFailed \/ FailedRunCleaned
           \/ DriverFails \/ HandlerFails
    PROVE  TaskParts'
  <1> USE LifecycleAssumption, TypesSplit
  <1> DEFINE Fails == DriverFails \/ HandlerFails
  <1>0. ASSUME Fails
        PROVE  /\ task.pc \in SessionPcs
               /\ \E pc \in {"failclean", "join", "lost"} : Goto(pc)
               /\ \/ \E s \in SessionTypes : Persist(task.run, s)
                  \/ session' \in SessionTypes /\ UNCHANGED diskVars
               /\ UNCHANGED <<coordVars, current, watchdog, effect, unused, crashes, lapses>>
               /\ failures' \in 0..MaxFailures
    BY <1>0, FailureFacts
  <1>1. next_fencing_token' = next_fencing_token
    BY <1>0 DEF ProbeBlocks, ProbePasses, ApplyReturns, LevelApplied, LevelFails,
       TickHeartbeats, TickRefused, TickWaits, TickEscalates, TickDecides, TickRecovers,
       CleanupReturns, LevelEnded, TerminalCleaned, TerminalCleanupFailed,
       FailedRunCleaned, Heartbeat, coordVars
  <1>2. task.pc \in {"probe", "apply", "sleep", "tick", "switch", "clean", "failclean"}
    BY <1>0 DEF SessionPcs, ProbeBlocks, ProbePasses, ApplyReturns, LevelApplied, LevelFails,
       TickHeartbeats, TickRefused, TickWaits, TickEscalates, TickDecides, TickRecovers,
       CleanupReturns, LevelEnded, TerminalCleaned, TerminalCleanupFailed,
       FailedRunCleaned, OnLoop, InThread, Returned, At
  <1>3. task.run \in Runs /\ task.kind # "external" /\ task # NoTask
    BY <1>2 DEF RunInv, TaskHandles, NoTask
  <1> DEFINE Moves == \/ \E pc \in {"probe", "apply", "sleep", "tick", "switch", "clean",
                                    "failclean", "join", "lost"} : Goto(pc)
                      \/ \E outcome \in {"ok", "failed"} : Yields(outcome)
  <1>4. Moves
    BY <1>0 DEF ProbeBlocks, ProbePasses, ApplyReturns, LevelApplied, LevelFails,
       TickHeartbeats, TickRefused, TickWaits, TickEscalates, TickDecides, TickRecovers,
       CleanupReturns, LevelEnded, TerminalCleaned, TerminalCleanupFailed, FailedRunCleaned
  <1>5. task' \in Tasks /\ TaskHandles'
    <2>1. /\ task \in Tasks /\ task.target \in Runs /\ task.token \in IssuedTokens
          /\ IssuedTokens' = IssuedTokens
      BY <1>1, <1>3 DEF RunInv, ProcessTypes, TaskHandles, IssuedTokens
    <2>2. ASSUME NEW pc \in {"probe", "apply", "sleep", "tick", "switch", "clean",
                             "failclean", "join", "lost"}, Goto(pc)
          PROVE  task' \in Tasks /\ TaskHandles'
      BY <1>3, <2>1, <2>2 DEF TaskHandles, Tasks, Goto
    <2>3. ASSUME NEW outcome \in {"ok", "failed"}, Yields(outcome)
          PROVE  task' \in Tasks /\ TaskHandles'
      BY <1>2, <1>3, <2>1, <2>3 DEF TaskHandles, Tasks, Yields
    <2> QED
      BY <1>4, <2>2, <2>3
  <1>6. effect' \subseteq Runs
    BY <1>0, <1>3 DEF RunInv, ProcessTypes, ProbeBlocks, ProbePasses, ApplyReturns, LevelApplied,
       LevelFails, TickHeartbeats, TickRefused, TickWaits, TickEscalates, TickDecides,
       TickRecovers, CleanupReturns, AfterCleanup, LevelEnded, TerminalCleaned,
       TerminalCleanupFailed, FailedRunCleaned
  <1>7. /\ UNCHANGED <<current, watchdog, unused, crashes, lapses>>
        /\ failures' \in 0..MaxFailures
    BY <1>0 DEF RunInv, ProcessTypes, boundVars, ProbeBlocks, ProbePasses, ApplyReturns, LevelApplied, LevelFails,
       TickHeartbeats, TickRefused, TickWaits, TickEscalates, TickDecides, TickRecovers,
       CleanupReturns, LevelEnded, TerminalCleaned, TerminalCleanupFailed, FailedRunCleaned
  <1> DEFINE Sessions == SessionTypes
  <1>8. \/ \E s \in Sessions : Persist(task.run, s)
        \/ session' \in Sessions /\ UNCHANGED diskVars
    <2>1. session \in Sessions
      BY DEF RunInv, ProcessTypes, SessionTypes
    <2> HIDE DEF Sessions
    <2>2. /\ \A st \in {"pending", "blocked", "active", "recovering", "clean", "dirty"} :
                /\ [session EXCEPT !.status = st] \in Sessions
                /\ \A e \in {"none", "open", "ended"} :
                      [session EXCEPT !.status = st, !.effect = e] \in Sessions
          /\ \A e \in {"none", "open", "ended"} : [session EXCEPT !.effect = e] \in Sessions
          /\ \A g \in {"open", "met", "missed"} : [session EXCEPT !.goal = g] \in Sessions
      BY <2>1 DEF Sessions, SessionTypes
    <2>3. CASE ProbeBlocks \/ ProbePasses \/ ApplyReturns \/ LevelApplied \/ LevelFails
      BY <2>1, <2>2, <2>3 DEF ProbeBlocks, ProbePasses, ApplyReturns, LevelApplied, LevelFails
    <2>4. CASE TickHeartbeats \/ TickRefused \/ TickWaits \/ TickEscalates
               \/ TickDecides \/ TickRecovers
      BY <2>1, <2>2, <2>4 DEF TickHeartbeats, TickRefused, TickWaits, TickEscalates,
         TickDecides, TickRecovers
    <2>5. CASE CleanupReturns \/ LevelEnded \/ TerminalCleaned \/ TerminalCleanupFailed
               \/ FailedRunCleaned
      BY <2>1, <2>2, <2>5 DEF CleanupReturns, LevelEnded, TerminalCleaned,
         TerminalCleanupFailed, FailedRunCleaned
    <2>6. CASE Fails
      BY <1>0, <2>6 DEF Sessions
    <2> QED
      BY <2>3, <2>4, <2>5, <2>6
  <1>9. ProcessTypes' /\ RecordHandles'
    <2>1. ASSUME NEW s \in Sessions, Persist(task.run, s) PROVE ProcessTypes' /\ RecordHandles'
      BY <1>1, <1>3, <1>5, <1>6, <1>7, <2>1, PersistTypes
      DEF RunInv, ProcessTypes, RecordHandles, SessionTypes
    <2>2. ASSUME session' \in Sessions, UNCHANGED diskVars PROVE ProcessTypes' /\ RecordHandles'
      BY <1>1, <1>5, <1>6, <1>7, <2>2
      DEF RunInv, ProcessTypes, RecordHandles, SessionTypes, diskVars
    <2> QED
      BY <1>8, <2>1, <2>2
  <1> QED
    BY <1>5, <1>9 DEF TaskParts

\* A step that leaves the session and the records alone and either ends the
\* task or moves it on keeps the task's part of the invariant.
LEMMA KeepsParts ==
    ASSUME RunInv, [Call]_coordVars,
           task' = NoTask \/ (task' \in Tasks /\ TaskHandles'),
           current' = current \/ \E status \in {"succeeded", "failed", "dirty"} :
                                    current' = [current EXCEPT !.status = status],
           effect' \subseteq Runs, closed' \subseteq Runs, captures' \subseteq Runs,
           UNCHANGED <<session, watchdog, record, boundVars>>
    PROVE  TaskParts'
  <1> USE LifecycleAssumption, CoordinatorAssumption, TypesSplit
  <1> /\ next_fencing_token \in Nat /\ next_fencing_token' \in Nat
      /\ next_fencing_token <= next_fencing_token'
    BY TokensGrow DEF RunInv
  <1>1. task' \in Tasks /\ TaskHandles'
    BY DEF TaskHandles, Tasks, NoTask
  <1>2. current' \in [run : Runs \cup {NoRun, Operator},
                      status : {"none", "running", "succeeded", "failed", "dirty"}]
    BY DEF RunInv, ProcessTypes
  <1>3. ProcessTypes'
    BY <1>1, <1>2 DEF RunInv, ProcessTypes, boundVars
  <1>4. RecordHandles'
    BY DEF RunInv, ProcessTypes, RecordHandles
  <1> QED
    BY <1>1, <1>3, <1>4 DEF TaskParts

\* Going to a step of the same kind of task keeps the handles.
LEMMA GoesOn ==
    ASSUME RunInv, [Call]_coordVars, task # NoTask,
           NEW pc \in {"probe", "script", "join", "conclude", "capture",
                       "fclean", "unclaim", "external", "extclear", "lost"},
           NEW beat \in {"off", "on", "raised", "failed"},
           NEW outcome \in {"none", "ok", "failed"},
           task.kind = "external" => pc \in {"external", "extclear"},
           task' = [task EXCEPT !.pc = pc, !.beat = beat, !.outcome = outcome]
    PROVE  task' \in Tasks /\ TaskHandles'
  <1>1. IssuedTokens \subseteq IssuedTokens'
    BY TokensGrow DEF RunInv, IssuedTokens
  <1>2. /\ task \in Tasks /\ task.target \in Runs /\ task.token \in IssuedTokens
        /\ task.run \in IF task.kind = "external" THEN {Operator} ELSE Runs
    BY TypesSplit DEF RunInv, ProcessTypes, TaskHandles
  <1>3. task' \in Tasks
    BY <1>2 DEF Tasks
  <1>4. /\ task'.target = task.target /\ task'.token = task.token /\ task'.pc = pc
        /\ task'.run = task.run /\ task'.kind = task.kind
    BY <1>2 DEF Tasks
  <1> QED
    BY <1>1, <1>2, <1>3, <1>4 DEF TaskHandles

\* The task's first and last steps.
LEMMA LaunchParts ==
    ASSUME RunInv, BindLeaseFails \/ StartUnwinds \/ TaskLaunched \/ LogNotOpened
    PROVE  TaskParts'
  <1> USE TypesSplit
  <1>0. [Call]_coordVars
    BY TaskCalls DEF TaskStep
  <1>1. task # NoTask /\ task.pc = "started"
    BY DEF BindLeaseFails, StartUnwinds, TaskLaunched, LogNotOpened, Launched, At, NoTask
  <1>2. ASSUME BindLeaseFails \/ StartUnwinds PROVE TaskParts'
    <2>1. /\ task' = NoTask
          /\ UNCHANGED <<current, session, watchdog, effect, diskVars, boundVars>>
      BY <1>2 DEF BindLeaseFails, StartUnwinds, Dies
    <2>2. effect \subseteq Runs /\ closed \subseteq Runs /\ captures \subseteq Runs
      BY DEF RunInv, ProcessTypes
    <2> QED
      BY <1>0, <2>1, <2>2, KeepsParts DEF diskVars
  <1>3. ASSUME TaskLaunched \/ LogNotOpened PROVE TaskParts'
    <2>1. PICK pc \in {"probe", "script", "external", "lost"} :
              Launched(pc) /\ (task.kind = "external" => pc = "external")
      BY <1>3 DEF TaskLaunched, LogNotOpened, FirstStep
    <2>5. failures' \in 0..MaxFailures
      BY <1>3, LifecycleAssumption DEF RunInv, ProcessTypes, TaskLaunched, LogNotOpened
    <2>9. task.kind # "external" => task.run \in Runs
      BY <1>1 DEF RunInv, TaskHandles
    <2>10. effect' = effect \/ (task.kind # "external" /\ effect' = effect \cup {task.run})
      BY <1>3 DEF TaskLaunched, LogNotOpened
    <2> DEFINE beat == IF task.kind \in {"manual", "external"} THEN "off" ELSE "on"
    <2>0. task \in Tasks
      BY DEF RunInv, ProcessTypes
    <2>2. task' = [task EXCEPT !.pc = pc, !.beat = beat, !.outcome = task.outcome]
      BY <2>1, <2>0 DEF Launched, Tasks
    <2>3. task' \in Tasks /\ TaskHandles'
      <3>1. task.outcome \in {"none", "ok", "failed"} /\ beat \in {"off", "on", "raised", "failed"}
        BY <2>0 DEF Tasks
      <3> HIDE DEF beat
      <3> QED
        BY <1>0, <1>1, <2>1, <2>2, <3>1, GoesOn
    <2>4. task.run \in Runs \cup {NoRun, Operator} /\ task.token \in Nat
          /\ task.token < next_fencing_token
      BY <1>1 DEF RunInv, ProcessTypes, TaskHandles, IssuedTokens, CoordInv, TypeOK, Tasks
    <2>6. /\ record' \in [Runs -> [status : {"none", "unknown", "capsule", "pending",
                            "blocked", "active", "recovering", "clean", "dirty"},
                            effect : {"none", "open", "ended"}, token : Nat]]
          /\ \A x \in Runs : record'[x].token < next_fencing_token
      BY <2>1, <2>4, <2>9 DEF RunInv, ProcessTypes, RecordHandles, Launched
    <2>7. ProcessTypes'
      BY <2>1, <2>5, <2>9, <2>10, <2>3, <2>4, <2>6
      DEF RunInv, ProcessTypes, Launched, NoSession
    <2>8. RecordHandles'
      BY <2>1, <2>6 DEF RecordHandles, Launched, coordVars
    <2> QED
      BY <2>3, <2>7, <2>8 DEF TaskParts
  <1> QED
    BY <1>2, <1>3

LEMMA ConcludeParts ==
    ASSUME RunInv,
           \/ ScriptExits \/ ScriptReturned \/ HeartbeatJoined
           \/ ConcludeDirty \/ ConcludeClean \/ Capture \/ ConcludeManual
           \/ FailureCleanupClaims \/ FailureCleanupReturned \/ FailureCleanupUnclaims
           \/ ExternalCleanupReturns \/ ExternalCleanupRecorded \/ ExternalCleanupEnds
    PROVE  TaskParts'
  <1> USE TypesSplit
  <1>0. [Call]_coordVars
    BY TaskCalls DEF TaskStep
  <1>1. task # NoTask
    BY DEF NoTask, ScriptExits, ScriptReturned, HeartbeatJoined, ConcludeDirty,
       ConcludeClean, Capture, ConcludeManual, FailureCleanupClaims,
       FailureCleanupReturned, FailureCleanupUnclaims, ExternalCleanupReturns,
       ExternalCleanupRecorded, ExternalCleanupEnds, At, OnLoop, InThread, Concludes
  <1>2. /\ task \in Tasks /\ task.target \in Runs
        /\ \/ task.pc \in {"started", "external", "extclear"}
           \/ task.kind # "external" /\ task.run \in Runs
    <2>1. task \in Tasks /\ TaskHandles
      BY DEF RunInv, ProcessTypes
    <2>2. CASE task.kind = "external"
      BY <1>1, <2>1, <2>2 DEF TaskHandles
    <2>3. CASE task.kind # "external"
      BY <1>1, <2>1, <2>3 DEF TaskHandles
    <2> QED
      BY <2>2, <2>3
  <1>3. UNCHANGED <<session, watchdog, record, boundVars>>
    BY DEF ScriptExits, ScriptReturned, HeartbeatJoined, ConcludeDirty,
       ConcludeClean, Capture, ConcludeManual, FailureCleanupClaims,
       FailureCleanupReturned, FailureCleanupUnclaims, ExternalCleanupReturns,
       ExternalCleanupRecorded, ExternalCleanupEnds, diskVars
  <1>4. effect' \subseteq Runs
    BY DEF RunInv, ProcessTypes, AfterCleanup, ScriptExits, ScriptReturned,
       HeartbeatJoined, ConcludeDirty,
       ConcludeClean, Capture, ConcludeManual, FailureCleanupClaims,
       FailureCleanupReturned, FailureCleanupUnclaims, ExternalCleanupReturns,
       ExternalCleanupRecorded, ExternalCleanupEnds
  <1>5. closed' \subseteq Runs
    BY <1>2 DEF RunInv, ProcessTypes, ScriptExits, ScriptReturned, HeartbeatJoined,
       ConcludeDirty, ConcludeClean, Capture, ConcludeManual, FailureCleanupClaims,
       FailureCleanupReturned, FailureCleanupUnclaims, ExternalCleanupReturns,
       ExternalCleanupRecorded, ExternalCleanupEnds, diskVars
  <1>6. captures' \subseteq Runs
    BY <1>2 DEF RunInv, ProcessTypes, ScriptExits, ScriptReturned, HeartbeatJoined,
       ConcludeDirty, ConcludeClean, Capture, ConcludeManual, FailureCleanupClaims,
       FailureCleanupReturned, FailureCleanupUnclaims, ExternalCleanupReturns,
       ExternalCleanupRecorded, ExternalCleanupEnds, diskVars, At
  <1>7. current' = current \/ \E status \in {"succeeded", "failed", "dirty"} :
                                 current' = [current EXCEPT !.status = status]
    BY DEF ScriptExits, ScriptReturned, HeartbeatJoined, ConcludeDirty,
       ConcludeClean, Capture, ConcludeManual, FailureCleanupClaims,
       FailureCleanupReturned, FailureCleanupUnclaims, ExternalCleanupReturns,
       ExternalCleanupRecorded, ExternalCleanupEnds, Ends, Dies
  <1> DEFINE Moves(pc, outcome) ==
        \E beat \in {"off", "on", "raised", "failed"} :
           task' = [task EXCEPT !.pc = pc, !.beat = beat, !.outcome = outcome]
  <1>8. task' = NoTask \/ \E pc \in {"script", "join", "conclude", "capture", "fclean",
                                    "unclaim", "external", "extclear"},
                            outcome \in {"none", "ok", "failed"} :
          Moves(pc, outcome) /\ (task.kind = "external" => pc \in {"external", "extclear"})
    <2>1. ASSUME ScriptExits \/ ExternalCleanupReturns
          PROVE  \E pc \in {"script", "fclean", "external"}, outcome \in {"ok", "failed"} :
                   Moves(pc, outcome) /\ (task.kind = "external" => pc = "external")
      <3>1. PICK outcome \in {"ok", "failed"} : task' = [task EXCEPT !.outcome = outcome]
        BY <2>1 DEF ScriptExits, ExternalCleanupReturns, Yields
      <3>2. /\ task.pc \in {"script", "fclean", "external"}
            /\ task.kind = "external" => task.pc = "external"
        BY <1>1, <2>1 DEF ScriptExits, ExternalCleanupReturns, InThread, At, RunInv, TaskHandles
      <3>3. task' = [task EXCEPT !.pc = task.pc, !.beat = task.beat, !.outcome = outcome]
        BY <1>2, <3>1 DEF Tasks
      <3>4. task.beat \in {"off", "on", "raised", "failed"}
        BY <1>2 DEF Tasks
      <3> QED
        BY <3>2, <3>3, <3>4
    <2>2. ASSUME ScriptReturned \/ HeartbeatJoined
          PROVE  task.kind # "external" /\ \E pc \in {"join", "conclude"},
                    outcome \in {"none", "ok", "failed"} : Moves(pc, outcome)
      <3>1. task.kind # "external"
        BY <1>1, <2>2 DEF ScriptReturned, HeartbeatJoined, OnLoop, At, RunInv, TaskHandles
      <3>2. task.outcome \in {"none", "ok", "failed"}
            /\ task.beat \in {"off", "on", "raised", "failed"}
        BY <1>2 DEF Tasks
      <3>3. ASSUME ScriptReturned PROVE Moves("join", task.outcome)
        <4>1. task' = [task EXCEPT !.pc = "join", !.beat = task.beat, !.outcome = task.outcome]
          BY <1>2, <3>3 DEF ScriptReturned, Tasks
        <4> QED
          BY <3>2, <4>1
      <3>4. ASSUME HeartbeatJoined PROVE Moves("conclude", task.outcome)
        <4> DEFINE beat == IF task.beat = "failed" THEN "failed" ELSE "off"
        <4>1. task' = [task EXCEPT !.pc = "conclude", !.beat = beat, !.outcome = task.outcome]
          BY <1>2, <3>4 DEF HeartbeatJoined, Tasks
        <4>2. beat \in {"off", "on", "raised", "failed"}
          OBVIOUS
        <4> QED
          BY <4>1, <4>2
      <3> HIDE DEF Moves
      <3> QED
        BY <2>2, <3>1, <3>2, <3>3, <3>4
    <2>3. ASSUME NEW pc, Goto(pc) PROVE Moves(pc, "none")
      <3>1. task' = [task EXCEPT !.pc = pc, !.beat = task.beat, !.outcome = "none"]
        BY <1>2, <2>3 DEF Goto, Tasks
      <3>2. task.beat \in {"off", "on", "raised", "failed"}
        BY <1>2 DEF Tasks
      <3> QED
        BY <3>1, <3>2
    <2>4. ASSUME \/ ConcludeDirty \/ ConcludeClean \/ Capture \/ ConcludeManual
                 \/ FailureCleanupClaims \/ FailureCleanupReturned
                 \/ FailureCleanupUnclaims \/ ExternalCleanupEnds
          PROVE  \/ task' = NoTask
                 \/ /\ task.kind # "external"
                    /\ \E pc \in {"capture", "fclean", "unclaim"} : Goto(pc)
      <3>1. task.pc \in {"conclude", "fclean", "unclaim", "capture", "extclear"}
        BY <2>4 DEF ConcludeDirty, ConcludeClean, Capture, ConcludeManual, FailureCleanupClaims,
           FailureCleanupReturned, FailureCleanupUnclaims, ExternalCleanupEnds,
           OnLoop, At, Concludes
      <3>2. task.pc # "extclear" => task.kind # "external"
        BY <1>2, <3>1
      <3>3. task.pc = "extclear" => task' = NoTask
        BY <2>4 DEF ConcludeDirty, ConcludeClean, Capture, ConcludeManual, FailureCleanupClaims,
           FailureCleanupReturned, FailureCleanupUnclaims, ExternalCleanupEnds,
           OnLoop, At, Concludes, Ends
      <3>4. ASSUME ConcludeDirty \/ ConcludeClean \/ Capture \/ ConcludeManual
            PROVE  task' = NoTask \/ Goto("capture")
        BY <3>4 DEF ConcludeDirty, ConcludeClean, Capture, ConcludeManual, Ends, Dies
      <3>5. ASSUME FailureCleanupClaims \/ FailureCleanupReturned \/ FailureCleanupUnclaims
            PROVE  task' = NoTask \/ Goto("fclean") \/ Goto("unclaim")
        BY <3>5 DEF FailureCleanupClaims, FailureCleanupReturned, FailureCleanupUnclaims, Ends
      <3>6. ASSUME ExternalCleanupEnds PROVE task' = NoTask
        BY <3>6 DEF ExternalCleanupEnds, Ends
      <3>7. task' = NoTask \/ Goto("capture") \/ Goto("fclean") \/ Goto("unclaim")
        BY <2>4, <3>4, <3>5, <3>6
      <3>8. task.pc \in {"conclude", "fclean", "unclaim", "capture"} => task.kind # "external"
        BY <3>2
      <3> QED
        BY <3>1, <3>3, <3>7, <3>8
    <2>5. ASSUME ExternalCleanupRecorded
          PROVE  \E outcome \in {"none", "ok", "failed"} : Moves("extclear", outcome)
      <3>1. task' = [task EXCEPT !.pc = "extclear", !.beat = task.beat, !.outcome = task.outcome]
        BY <1>2, <2>5 DEF ExternalCleanupRecorded, Tasks
      <3>2. task.outcome \in {"none", "ok", "failed"}
            /\ task.beat \in {"off", "on", "raised", "failed"}
        BY <1>2 DEF Tasks
      <3> QED
        BY <3>1, <3>2
    <2> HIDE DEF Moves
    <2> QED
      BY <2>1, <2>2, <2>3, <2>4, <2>5
  <1>9. task' = NoTask \/ (task' \in Tasks /\ TaskHandles')
    <2>1. CASE task' = NoTask
      BY <2>1
    <2>2. ASSUME NEW pc \in {"script", "join", "conclude", "capture", "fclean",
                             "unclaim", "external", "extclear"},
                 NEW outcome \in {"none", "ok", "failed"},
                 NEW beat \in {"off", "on", "raised", "failed"},
                 task.kind = "external" => pc \in {"external", "extclear"},
                 task' = [task EXCEPT !.pc = pc, !.beat = beat, !.outcome = outcome]
          PROVE  task' \in Tasks /\ TaskHandles'
      BY <1>0, <1>1, <2>2, GoesOn
    <2> QED
      BY <1>8, <2>1, <2>2
  <1> QED
    BY <1>0, <1>3, <1>4, <1>5, <1>6, <1>7, <1>9, KeepsParts

LEMMA TaskKeepsParts == ASSUME RunInv, TaskStep PROVE TaskParts'
  BY SessionParts, LaunchParts, ConcludeParts DEF TaskStep

LEMMA HeartbeatParts == ASSUME RunInv, HeartbeatStep PROVE TaskParts'
  <1> USE TypesSplit
  <1>1. next_fencing_token' = next_fencing_token
    BY DEF HeartbeatStep, HeartbeatReturns, HeartbeatRaises, HeartbeatTaskFails,
       Heartbeat, coordVars
  <1>2. \/ task' = task
        \/ \E beat \in {"raised", "failed"} : task' = [task EXCEPT !.beat = beat]
    BY DEF HeartbeatStep, HeartbeatReturns, HeartbeatRaises, HeartbeatTaskFails
  <1>3. task' \in Tasks
    BY <1>2 DEF RunInv, ProcessTypes, Tasks
  <1>4. task # NoTask
    BY DEF HeartbeatStep, HeartbeatReturns, HeartbeatRaises, HeartbeatTaskFails, NoTask
  <1>5. TaskHandles'
    BY <1>1, <1>2, <1>4 DEF RunInv, ProcessTypes, Tasks, TaskHandles, IssuedTokens
  <1>6. UNCHANGED <<current, session, watchdog, effect, diskVars, boundVars>>
    BY DEF HeartbeatStep, HeartbeatReturns, HeartbeatRaises, HeartbeatTaskFails
  <1> QED
    BY <1>1, <1>3, <1>5, <1>6
    DEF TaskParts, RunInv, ProcessTypes, RecordHandles, diskVars, boundVars

\* The tick works on its own copy of the lease.
LEMMA WatchdogParts == ASSUME RunInv, WatchdogStep PROVE TaskParts'
  <1> USE TypesSplit, LifecycleAssumption, CoordinatorAssumption
  <1>1. next_fencing_token' = next_fencing_token
    BY DEF WatchdogStep, WatchdogDecides, WatchdogClaims, WatchdogCleans, WatchdogReleases,
       WatchdogMarksDirty, WatchdogFinishes, ClaimExpiredCleanup, Release, MarkDirty,
       FinishCleanupClaim, coordVars
  <1>2. UNCHANGED <<task, current, session, captures, boundVars>>
    BY DEF WatchdogStep, WatchdogDecides, WatchdogClaims, WatchdogCleans, WatchdogReleases,
       WatchdogMarksDirty, WatchdogFinishes, diskVars
  <1>3. watchdog' \in [pc : {"idle", "claim", "clean", "release", "dirty", "finish"},
                       run : Runs \cup {NoRun}, token : Nat, applier : Appliers]
    <2>1. watchdog \in [pc : {"idle", "claim", "clean", "release", "dirty", "finish"},
                        run : Runs \cup {NoRun}, token : Nat, applier : Appliers]
      BY DEF RunInv, ProcessTypes
    <2>2. ASSUME WatchdogDecides
          PROVE  watchdog' = [watchdog EXCEPT !.pc = "claim", !.run = active_lease.run,
                                              !.token = active_lease.token]
                 /\ active_lease.run \in Runs \cup {NoRun} /\ active_lease.token \in Nat
      BY <2>2 DEF WatchdogDecides, RunInv, CoordInv, TypeOK, NoFenced, FencedRuns, Fenced
    <2>3. ASSUME \/ WatchdogClaims \/ WatchdogCleans \/ WatchdogReleases
                 \/ WatchdogMarksDirty \/ WatchdogFinishes
          PROVE  \/ WatchdogStops
                 \/ \E pc \in {"clean", "release", "dirty", "finish"} : WatchdogGoes(pc)
      BY <2>3 DEF WatchdogClaims, WatchdogCleans, WatchdogReleases, WatchdogMarksDirty,
         WatchdogFinishes
    <2>4. CASE WatchdogDecides
      BY <2>1, <2>2, <2>4
    <2>5. CASE WatchdogStops
      BY <2>1, <2>5 DEF WatchdogStops, WatchdogIdle
    <2>6. ASSUME NEW pc \in {"clean", "release", "dirty", "finish"}, WatchdogGoes(pc)
          PROVE  watchdog' \in [pc : {"idle", "claim", "clean", "release", "dirty", "finish"},
                                run : Runs \cup {NoRun}, token : Nat, applier : Appliers]
      BY <2>1, <2>6 DEF WatchdogGoes
    <2> QED
      BY <2>3, <2>4, <2>5, <2>6 DEF WatchdogStep
  <1>4. effect' \subseteq Runs /\ closed' \subseteq Runs
    BY DEF RunInv, ProcessTypes, WatchdogHandles, WatchdogStep, WatchdogDecides,
       WatchdogClaims, WatchdogCleans, WatchdogReleases, WatchdogMarksDirty,
       WatchdogFinishes, WatchdogAt, diskVars
  <1>5. \/ record' = record
        \/ record' = [record EXCEPT ![watchdog.run].status = "unknown"]
    BY DEF WatchdogStep, WatchdogDecides, WatchdogClaims, WatchdogCleans,
       WatchdogReleases, WatchdogMarksDirty, WatchdogFinishes, diskVars
  <1>6. /\ record' \in [Runs -> [status : {"none", "unknown", "capsule", "pending",
                            "blocked", "active", "recovering", "clean", "dirty"},
                            effect : {"none", "open", "ended"}, token : Nat]]
        /\ \A r \in Runs : record'[r].token = record[r].token
    BY <1>5 DEF RunInv, ProcessTypes
  <1>7. ProcessTypes'
    BY <1>2, <1>3, <1>4, <1>6 DEF RunInv, ProcessTypes, boundVars
  <1> QED
    BY <1>1, <1>2, <1>6, <1>7
    DEF TaskParts, RunInv, TaskHandles, RecordHandles, IssuedTokens

\* Memory is lost with its handles; records and document stay.
LEMMA EnvironmentParts == ASSUME RunInv, Crash \/ Lapse PROVE TaskParts'
  <1> USE TypesSplit, LifecycleAssumption, CoordinatorAssumption
  <1>1. next_fencing_token' = next_fencing_token
    BY DEF Crash, Lapse, LeaseLapses, coordVars
  <1>2. RecordHandles' /\ TaskHandles'
    BY <1>1 DEF RunInv, RecordHandles, TaskHandles, IssuedTokens, Crash, Lapse, diskVars
  <1>3. CASE Crash
    <2>1. /\ watchdog' \in [pc : {"idle", "claim", "clean", "release", "dirty", "finish"},
                         run : Runs \cup {NoRun}, token : Nat, applier : Appliers]
          /\ NoTask \in Tasks
      BY <1>3 DEF RunInv, ProcessTypes, Crash, WatchdogIdle, NoTask, Tasks
    <2>2. crashes' \in 0..MaxCrashes
      BY <1>3 DEF RunInv, ProcessTypes, Crash
    <2>3. ProcessTypes'
      BY <1>3, <2>1, <2>2 DEF RunInv, ProcessTypes, Crash, NoSession, diskVars
    <2> QED
      BY <1>2, <2>3 DEF TaskParts
  <1>4. CASE Lapse
    <2>1. lapses' \in 0..MaxLapses
      BY <1>4 DEF RunInv, ProcessTypes, Lapse
    <2>2. ProcessTypes'
      BY <1>4, <2>1 DEF RunInv, ProcessTypes, Lapse, diskVars
    <2> QED
      BY <1>2, <2>2 DEF TaskParts
  <1> QED
    BY <1>3, <1>4

-----------------------------------------------------------------------------
\* A lease the watchdog has claimed keeps that claim as long as it is held:
\* every other client of the coordinator is refused, and the tick itself
\* gives its claim up only once the lease is gone.
LEMMA ClaimStaysWithTick ==
    ASSUME RunInv, [RunNext]_runVars, ~WatchdogAt("finish"),
           active_lease # NoFenced, active_lease' = active_lease,
           cleanup_claim.claimant = Watchdog
    PROVE  cleanup_claim' = cleanup_claim
  <1>1. /\ Watchdog \in Claimants /\ Operator # Watchdog
        /\ task # NoTask => task.run # Watchdog
    BY LifecycleAssumption DEF RunInv, TaskHandles
  <1>2. /\ dirty_run = NoFenced /\ ~Idle
        /\ cleanup_claim # NoClaim
    BY <1>1, CoordinatorAssumption DEF RunInv, CoordInv, SingleOwner, NoClaim, ClaimBy, Idle
  <1>3. ASSUME NEW r, NEW t,
               \/ Acquire(r) \/ Release(r, t) \/ MarkDirty(r, t) \/ ReadoptDirty(r, t)
               \/ ClearDirty(r, t)
        PROVE  FALSE
    <2>1. t # 0 => Fenced(r, t) # NoFenced
      BY DEF Fenced, NoFenced
    <2> QED
      BY <1>2, <1>3, <2>1 DEF Acquire, Release, MarkDirty, ReadoptDirty, ClearDirty
  <1>4. ASSUME NEW r, NEW t, NEW c, ClaimCleanup(r, t, c) \/ ClaimExpiredCleanup(c)
        PROVE  FALSE
    BY <1>2, <1>4 DEF ClaimCleanup, ClaimExpiredCleanup
  <1>5. ASSUME NEW r, NEW t, NEW c, FinishCleanupClaim(r, t, c), c # Watchdog
        PROVE  FALSE
    BY <1>5 DEF FinishCleanupClaim, ClaimBy
  <1>6. ASSUME NEW r, NEW t, Heartbeat(r, t) \/ MarkDirtySuppressed(r, t) \/ LeaseLapses
        PROVE  cleanup_claim' = cleanup_claim
    BY <1>3, <1>6 DEF Heartbeat, MarkDirtySuppressed, LeaseLapses, coordVars
  <1>7. ASSUME UNCHANGED coordVars PROVE cleanup_claim' = cleanup_claim
    BY <1>7 DEF coordVars
  <1>8. CASE StartStep
    BY <1>3, <1>4, <1>8 DEF StartStep, StartRun, StartCleanup, ReadoptOrphan, StartExternalCleanup
  <1>9. CASE TaskStep
    <2>1. CASE task = NoTask
      BY <2>1, <1>7, <1>9 DEF NoTask, TaskStep, At, OnLoop, InThread, Returned, Concludes,
       BindLeaseFails,
       StartUnwinds, TaskLaunched, LogNotOpened, Launched, DriverFails, HandlerFails,
       ProbeBlocks, ProbePasses, ApplyReturns, LevelApplied,
       LevelFails, TickHeartbeats, TickRefused, TickWaits, TickEscalates, TickDecides,
       TickRecovers, CleanupReturns, LevelEnded, TerminalCleaned, TerminalCleanupFailed,
       FailedRunCleaned, ScriptExits, ScriptReturned, HeartbeatJoined, ConcludeDirty,
       ConcludeClean, Capture, ConcludeManual, FailureCleanupClaims,
       FailureCleanupReturned, FailureCleanupUnclaims, ExternalCleanupReturns,
       ExternalCleanupRecorded, ExternalCleanupEnds
    <2>2. CASE task # NoTask
      <3>1. task.run # Watchdog
        BY <1>1, <2>2
      <3>2. ASSUME StartUnwinds \/ TickHeartbeats \/ ConcludeDirty \/ ConcludeClean
                   \/ ConcludeManual
            PROVE  cleanup_claim' = cleanup_claim
        BY <1>3, <1>5, <1>6, <1>7, <3>1, <3>2
        DEF StartUnwinds, TickHeartbeats, ConcludeDirty, ConcludeClean, ConcludeManual
      <3>3. ASSUME FailureCleanupClaims \/ FailureCleanupReturned \/ FailureCleanupUnclaims
                   \/ ExternalCleanupEnds
            PROVE  cleanup_claim' = cleanup_claim
        BY <1>1, <1>3, <1>4, <1>5, <1>6, <1>7, <3>1, <3>3
        DEF FailureCleanupClaims, FailureCleanupReturned, FailureCleanupUnclaims,
            ExternalCleanupEnds
      <3> QED
        BY <1>7, <1>9, <3>2, <3>3 DEF TaskStep, BindLeaseFails,
         TaskLaunched, LogNotOpened, Launched, DriverFails, HandlerFails, ProbeBlocks,
       ProbePasses, ApplyReturns, LevelApplied,
         LevelFails, TickRefused, TickWaits, TickEscalates, TickDecides,
         TickRecovers, CleanupReturns, LevelEnded, TerminalCleaned, TerminalCleanupFailed,
         FailedRunCleaned, ScriptExits, ScriptReturned, HeartbeatJoined, Capture,
         ExternalCleanupReturns, ExternalCleanupRecorded
    <2> QED
      BY <2>1, <2>2
  <1>10. CASE HeartbeatStep
    BY <1>6, <1>7, <1>10 DEF HeartbeatStep, HeartbeatReturns, HeartbeatRaises, HeartbeatTaskFails
  <1>11. CASE WatchdogStep
    BY <1>3, <1>4, <1>7, <1>11 DEF WatchdogStep, WatchdogDecides, WatchdogClaims,
       WatchdogCleans, WatchdogReleases, WatchdogMarksDirty, WatchdogFinishes
  <1>12. CASE Crash \/ Lapse
    BY <1>6, <1>7, <1>12 DEF Crash, Lapse
  <1>13. CASE UNCHANGED runVars
    BY <1>7, <1>13 DEF runVars
  <1> QED
    BY <1>8, <1>9, <1>10, <1>11, <1>12, <1>13 DEF RunNext

\* Only the watchdog's own steps, and a crash, move its tick.
LEMMA TickMoves ==
    ASSUME [RunNext]_runVars
    PROVE  \/ watchdog' = watchdog \/ watchdog' = WatchdogIdle(watchdog.applier)
           \/ WatchdogStep
  BY DEF RunNext, runVars, StartStep, StartRun, StartCleanup, ReadoptOrphan,
     StartExternalCleanup, TaskStep, BindLeaseFails, StartUnwinds, TaskLaunched,
     LogNotOpened, Launched, DriverFails, HandlerFails,
     ProbeBlocks, ProbePasses, ApplyReturns, LevelApplied, LevelFails, TickHeartbeats,
     TickRefused, TickWaits, TickEscalates, TickDecides, TickRecovers, CleanupReturns,
     LevelEnded, TerminalCleaned, TerminalCleanupFailed, FailedRunCleaned, ScriptExits,
     ScriptReturned, HeartbeatJoined, ConcludeDirty, ConcludeClean, Capture,
     ConcludeManual, FailureCleanupClaims, FailureCleanupReturned,
     FailureCleanupUnclaims, ExternalCleanupReturns, ExternalCleanupRecorded,
     ExternalCleanupEnds, HeartbeatStep, HeartbeatReturns, HeartbeatRaises,
     HeartbeatTaskFails, Crash, Lapse

LEMMA TickParts == ASSUME RunInv, [RunNext]_runVars PROVE WatchdogHandles'
  <1> USE TypesSplit, LifecycleAssumption, CoordinatorAssumption
  <1>0. [Call]_coordVars /\ IssuedTokens \subseteq IssuedTokens'
    BY StepCalls, TokensGrow DEF RunInv, IssuedTokens
  <1>1. CASE watchdog' = WatchdogIdle(watchdog.applier)
    BY <1>1 DEF WatchdogHandles, WatchdogIdle
  <1>2. CASE watchdog' = watchdog /\ watchdog.pc # "idle"
    <2>1. watchdog.run \in Runs /\ watchdog.token \in IssuedTokens
      BY <1>2 DEF RunInv, WatchdogHandles
    <2>2. ASSUME watchdog.pc \in {"clean", "release", "dirty"},
                 active_lease' = Fenced(watchdog.run, watchdog.token)
          PROVE  cleanup_claim'.claimant = Watchdog
      <3>1. Fenced(watchdog.run, watchdog.token) # NoFenced
        BY <2>1 DEF Fenced, NoFenced, IssuedTokens
      <3>2. CASE active_lease' = active_lease
        <4>1. cleanup_claim.claimant = Watchdog
          BY <2>2, <3>2 DEF RunInv, WatchdogHandles
        <4> QED
          BY <2>2, <3>1, <3>2, <4>1, ClaimStaysWithTick DEF WatchdogAt
      <3>3. CASE active_lease' # active_lease
        <4>1. active_lease'.token = next_fencing_token
          BY <1>0, <2>2, <3>1, <3>3 DEF Call, coordVars, Acquire, Heartbeat, Release, MarkDirty,
             ReadoptDirty, ClaimCleanup, ClaimExpiredCleanup, ClearDirty,
             FinishCleanupClaim, LeaseLapses, Fenced
        <4>2. watchdog.token < next_fencing_token
          BY <2>1 DEF IssuedTokens, RunInv, CoordInv, TypeOK
        <4> QED
          BY <2>2, <4>1, <4>2 DEF Fenced, RunInv, CoordInv, TypeOK
      <3> QED
        BY <3>2, <3>3
    <2> QED
      BY <1>0, <1>2, <2>1, <2>2 DEF WatchdogHandles
  <1>3. CASE watchdog' = watchdog /\ watchdog.pc = "idle"
    BY <1>3 DEF WatchdogHandles
  <1>4. CASE WatchdogDecides
    <2>1. watchdog'.pc = "claim" /\ watchdog'.run = active_lease.run
          /\ watchdog'.token = active_lease.token
      BY <1>4 DEF WatchdogDecides, RunInv, ProcessTypes
    <2>2. active_lease # NoFenced
      BY <1>4 DEF WatchdogDecides, WatchdogDecision, Target, RunInv, CoordInv, TypeOK
    <2>3. active_lease.run \in Runs /\ active_lease.token \in IssuedTokens
      BY <2>2 DEF RunInv, CoordInv, TypeOK, TokensIssued, IssuedTokens, NoFenced, Fenced, FencedRuns
    <2> QED
      BY <1>0, <2>1, <2>3 DEF WatchdogHandles
  <1>5. CASE WatchdogClaims
    <2>1. watchdog.run \in Runs /\ watchdog.token \in IssuedTokens
      BY <1>5 DEF RunInv, WatchdogHandles, WatchdogClaims, WatchdogAt
    <2>2. CASE WatchdogStops
      BY <1>1, <2>2 DEF WatchdogStops
    <2>3. CASE ClaimExpiredCleanup(Watchdog) /\ WatchdogGoes("clean")
      <3>1. cleanup_claim'.claimant = Watchdog
        BY <2>3 DEF ClaimExpiredCleanup, ClaimBy
      <3>2. watchdog'.run = watchdog.run /\ watchdog'.token = watchdog.token
        BY <2>3 DEF WatchdogGoes, RunInv, ProcessTypes
      <3> QED
        BY <1>0, <2>1, <3>1, <3>2 DEF WatchdogHandles
    <2> QED
      BY <1>5, <2>2, <2>3 DEF WatchdogClaims
  <1>6. CASE WatchdogCleans \/ WatchdogReleases \/ WatchdogMarksDirty
    <2>1. /\ watchdog.run \in Runs /\ watchdog.token \in IssuedTokens
          /\ watchdog.pc \in {"clean", "release", "dirty"}
          /\ active_lease = Fenced(watchdog.run, watchdog.token)
               => cleanup_claim.claimant = Watchdog
      BY <1>6 DEF RunInv, WatchdogHandles, WatchdogCleans, WatchdogReleases,
         WatchdogMarksDirty, WatchdogAt
    <2>2. CASE WatchdogStops
      BY <1>1, <2>2 DEF WatchdogStops
    <2>3. ASSUME NEW pc \in {"release", "dirty"}, WatchdogGoes(pc), UNCHANGED coordVars
          PROVE  WatchdogHandles'
      <3>1. watchdog'.run = watchdog.run /\ watchdog'.token = watchdog.token
        BY <2>3 DEF WatchdogGoes, RunInv, ProcessTypes
      <3> QED
        BY <1>0, <2>1, <2>3, <3>1 DEF WatchdogHandles, coordVars
    <2>4. ASSUME WatchdogGoes("finish") PROVE WatchdogHandles'
      <3>1. watchdog'.run = watchdog.run /\ watchdog'.token = watchdog.token
            /\ watchdog'.pc = "finish"
        BY <2>4 DEF WatchdogGoes, RunInv, ProcessTypes
      <3> QED
        BY <1>0, <2>1, <3>1 DEF WatchdogHandles
    <2> QED
      BY <1>6, <2>2, <2>3, <2>4 DEF WatchdogCleans, WatchdogReleases, WatchdogMarksDirty
  <1>7. CASE WatchdogFinishes
    BY <1>1, <1>7 DEF WatchdogFinishes, WatchdogStops
  <1> QED
    BY TickMoves, <1>1, <1>2, <1>3, <1>4, <1>5, <1>6, <1>7 DEF WatchdogStep

-----------------------------------------------------------------------------
LEMMA StepRunInv == RunInv /\ [RunNext]_runVars => RunInv'
  <1> SUFFICES ASSUME RunInv, [RunNext]_runVars PROVE RunInv'
    OBVIOUS
  <1>1. CoordInv' /\ TypeOK'
    BY StepCalls, StepCoordInv DEF RunInv, CoordInv
  <1>2. TaskParts'
    <2>1. CASE UNCHANGED runVars
      BY <2>1, TypesSplit
      DEF runVars, coordVars, diskVars, boundVars, RunInv, TaskParts, ProcessTypes,
          TaskHandles, RecordHandles, IssuedTokens
    <2> QED
      BY <2>1, StartParts, TaskKeepsParts, HeartbeatParts, WatchdogParts, EnvironmentParts
      DEF RunNext
  <1>3. RunTypeOK'
    BY <1>1, <1>2, TypesSplit DEF TaskParts, RunTypeOK, ProcessTypes
  <1> QED
    BY <1>1, <1>2, <1>3, TickParts DEF TaskParts, RunInv

\* The process, its records and the coordinator's document stay well formed
\* through every interleaving, failure, crash and lapse.
THEOREM LifecycleSafety == RunSpec => []RunInv
  BY InitRunInv, StepRunInv, PTL DEF RunSpec

\* The type invariant alone.
THEOREM LifecycleTypes == RunSpec => []RunTypeOK
  BY LifecycleSafety, PTL DEF RunInv

\* The process never holds a lease and a DIRTY run at once.
THEOREM LifecycleSingleOwner == RunSpec => []SingleOwner
  BY LifecycleSafety, PTL DEF RunInv, CoordInv

\* No claim of the process outlives the run it was made for.
THEOREM LifecycleClaims == RunSpec => []ClaimNamesTarget
  BY LifecycleSafety, PTL DEF RunInv, CoordInv

\* A run whose lapsed lease is claimed never heartbeats its way back.
THEOREM LifecycleFence == RunSpec => ClaimIsTerminalFence
  <1>1. RunInv /\ [RunNext]_runVars
          => [cleanup_claim # NoClaim /\ lease_age = "lapsed" /\ active_lease' = active_lease
                => lease_age' = "lapsed"]_coordVars
    BY StepCalls, StepFence DEF RunInv
  <1> QED
    BY <1>1, LifecycleSafety, PTL DEF RunSpec, ClaimIsTerminalFence

\* The whole process implements the exclusive ownership of the testbed.
THEOREM LifecycleRefinesOwnership == RunSpec => ImplementsOwnership
  <1>1. RunInit => Ownership!Init
    BY InitRefines DEF RunInit
  <1>2. RunInv /\ [RunNext]_runVars => [Ownership!Next]_(Ownership!ownershipVars)
    BY StepCalls, StepRefines DEF RunInv
  <1> QED
    BY <1>1, <1>2, LifecycleSafety, PTL DEF RunSpec, ImplementsOwnership, Ownership!Spec

\* The steps that can take a lease away.
LEMMA LeaseEnders ==
    ASSUME RunInv, [RunNext]_runVars, active_lease # NoFenced, active_lease' # active_lease
    PROVE  \/ active_lease = Fenced(task.target, task.token)
           \/ WatchdogReleases \/ WatchdogMarksDirty
  <1>1. ASSUME NEW r, Acquire(r) PROVE FALSE
    BY <1>1 DEF Acquire, Idle
  <1>2. ASSUME NEW r, NEW t, Release(r, t) \/ MarkDirty(r, t) \/ MarkDirtySuppressed(r, t)
        PROVE  active_lease = Fenced(r, t)
    BY <1>2 DEF Release, MarkDirty, MarkDirtySuppressed, HoldsLease, coordVars
  <1>3. ASSUME NEW r, NEW t, NEW c,
               \/ Heartbeat(r, t) \/ ReadoptDirty(r, t) \/ ClearDirty(r, t)
               \/ ClaimCleanup(r, t, c) \/ ClaimExpiredCleanup(c)
               \/ FinishCleanupClaim(r, t, c) \/ LeaseLapses \/ UNCHANGED coordVars
        PROVE  FALSE
    BY <1>3 DEF Heartbeat, ReadoptDirty, ClearDirty, ClaimCleanup, ClaimExpiredCleanup,
       FinishCleanupClaim, LeaseLapses, coordVars
  <1>4. CASE StartStep
    BY <1>1, <1>3, <1>4 DEF StartStep, StartRun, StartCleanup, ReadoptOrphan, StartExternalCleanup
  <1>5. CASE TaskStep
    <2>1. ASSUME StartUnwinds \/ TickHeartbeats \/ ConcludeDirty \/ ConcludeClean
                 \/ ConcludeManual
          PROVE  active_lease = Fenced(task.target, task.token)
      BY <1>2, <1>3, <2>1
      DEF StartUnwinds, TickHeartbeats, ConcludeDirty, ConcludeClean, ConcludeManual
    <2>2. ASSUME FailureCleanupClaims \/ FailureCleanupReturned \/ FailureCleanupUnclaims
                 \/ ExternalCleanupEnds
          PROVE  active_lease = Fenced(task.target, task.token)
      BY <1>2, <1>3, <2>2
      DEF FailureCleanupClaims, FailureCleanupReturned, FailureCleanupUnclaims,
          ExternalCleanupEnds
    <2> QED
      BY <1>3, <1>5, <2>1, <2>2 DEF TaskStep, BindLeaseFails,
       TaskLaunched, LogNotOpened, Launched, DriverFails, HandlerFails, ProbeBlocks,
       ProbePasses, ApplyReturns, LevelApplied,
       LevelFails, TickRefused, TickWaits, TickEscalates, TickDecides,
       TickRecovers, CleanupReturns, LevelEnded, TerminalCleaned, TerminalCleanupFailed,
       FailedRunCleaned, ScriptExits, ScriptReturned, HeartbeatJoined, Capture,
       ExternalCleanupReturns, ExternalCleanupRecorded
  <1>6. CASE HeartbeatStep
    BY <1>3, <1>6 DEF HeartbeatStep, HeartbeatReturns, HeartbeatRaises, HeartbeatTaskFails
  <1>7. CASE WatchdogStep
    BY <1>3, <1>7 DEF WatchdogStep, WatchdogDecides, WatchdogClaims, WatchdogCleans,
       WatchdogFinishes
  <1>8. CASE Crash \/ Lapse
    BY <1>3, <1>8 DEF Crash, Lapse
  <1>9. CASE UNCHANGED runVars
    BY <1>3, <1>9 DEF runVars
  <1> QED
    BY <1>4, <1>5, <1>6, <1>7, <1>8, <1>9 DEF RunNext

\* A lease is only ever taken away by the run's own task, or by the watchdog
\* tick whose claim is on it; with either kind of applier.
THEOREM LifecycleNoForeignEnd == RunSpec => NoForeignEnd
  <1>1. ASSUME RunInv, [RunNext]_runVars, active_lease # NoFenced, active_lease' # active_lease
        PROVE  \/ active_lease = Fenced(task.target, task.token)
               \/ /\ active_lease = Fenced(watchdog.run, watchdog.token)
                  /\ cleanup_claim.claimant = Watchdog
    <2>1. CASE WatchdogReleases \/ WatchdogMarksDirty
      <3>1. active_lease = Fenced(watchdog.run, watchdog.token)
        BY <1>1, <2>1
        DEF WatchdogReleases, WatchdogMarksDirty, HoldsLease, coordVars
      <3> QED
        BY <1>1, <2>1, <3>1
        DEF RunInv, WatchdogHandles, WatchdogReleases, WatchdogMarksDirty, WatchdogAt
    <2> QED
      BY <1>1, <2>1, LeaseEnders
  <1>2. RunInv /\ [RunNext]_runVars
          => [active_lease # NoFenced /\ active_lease' # active_lease
                => \/ active_lease = Fenced(task.target, task.token)
                   \/ /\ active_lease = Fenced(watchdog.run, watchdog.token)
                      /\ cleanup_claim.claimant = Watchdog]_runVars
    BY <1>1
  <1> QED
    BY <1>2, LifecycleSafety, PTL DEF RunSpec, NoForeignEnd
=============================================================================
