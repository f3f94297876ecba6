---------------------------- MODULE RunLifecycle ----------------------------
(***************************************************************************)
(* One backend process driving the testbed: the runner's start handlers    *)
(* and its one execution task (runner.py), the adaptive session that task  *)
(* drives (adaptive_runtime.py, its control algorithm left open), the      *)
(* watchdog (watchdog_service.py), the run records on disk                 *)
(* (production_runtime.py), and the process crashing and starting again.   *)
(*                                                                         *)
(* The coordinator's document and the run records survive a crash; the     *)
(* injected effects do too.  All coroutines share one event loop: a step   *)
(* of a coroutine lasts until its next await, and here is one action per   *)
(* thing it does to shared state.  Apply, cleanup and heartbeat calls run  *)
(* in threads, scripts in subprocesses: those go on while the loop waits.  *)
(***************************************************************************)
EXTENDS Coordinator, FiniteSets

CONSTANTS
    Scenarios,
    ScenarioOf,      \* the scenario a run id was made for
    Adaptive,        \* scenarios of external manifests; the rest are scripts
    Watchdog, Operator, \* the claimants that are not runs
    Appliers,        \* what the watchdog may clean with: "blocking" (as in
                     \* production), "awaited"
    MaxCrashes,      \* bound of the model: crashes of the process
    MaxLapses,       \* bound of the model: lapses of a lease that is heartbeaten
    MaxFailures      \* bound of the model: failures of the driver's own calls

ASSUME LifecycleAssumption ==
    /\ ScenarioOf \in [Runs -> Scenarios]
    /\ Adaptive \subseteq Scenarios
    /\ Runs \cup {Watchdog, Operator} \subseteq Claimants
    /\ Watchdog \notin Runs /\ Operator \notin Runs /\ Watchdog # Operator
    /\ Appliers \subseteq {"blocking", "awaited"}
    /\ MaxCrashes \in Nat /\ MaxLapses \in Nat /\ MaxFailures \in Nat

VARIABLES
    task,     \* the execution task and start(), up to the awaits inside them
    current,  \* _current: the last run this process reported, and its status
    session,  \* the adaptive session in memory
    watchdog, \* the watchdog's tick
    effect,   \* the runs whose injection is live on the testbed
    record,   \* per run: state.json and lease.json
    closed,   \* the runs whose cleanup.json is flat and says succeeded
    captures, \* the runs a capture job was scheduled for
    unused,   \* run ids not handed out yet
    crashes, lapses, failures

diskVars == <<record, closed, captures>>
boundVars == <<unused, crashes, lapses, failures>>
runVars == <<coordVars, task, current, session, watchdog, effect, diskVars, boundVars>>

-----------------------------------------------------------------------------
NoTask == [pc |-> "none", kind |-> "none", run |-> NoRun, target |-> NoRun,
           token |-> 0, beat |-> "off", outcome |-> "none"]
NoSession == [status |-> "pending", effect |-> "none", goal |-> "open"]
WatchdogIdle(applier) ==
    [pc |-> "idle", run |-> NoRun, token |-> 0, applier |-> applier]
NoRecord == [status |-> "none", effect |-> "none", token |-> 0]

RunInit ==
    /\ Init
    /\ task = NoTask
    /\ current = [run |-> NoRun, status |-> "none"]
    /\ session = NoSession
    /\ \E applier \in Appliers : watchdog = WatchdogIdle(applier)
    /\ effect = {}
    /\ record = [r \in Runs |-> NoRecord]
    /\ closed = {} /\ captures = {}
    /\ unused = Runs
    /\ crashes = 0 /\ lapses = 0 /\ failures = 0

-----------------------------------------------------------------------------
\* Who holds the event loop.  Between two awaits nothing else runs on it; the
\* production watchdog never awaits at all.
Inline == {"started", "capture", "unclaim", "extclear"}
LoopIsFree ==
    \/ watchdog.pc = "idle"
    \/ watchdog.pc = "clean" /\ watchdog.applier = "awaited"

At(pc) == task.pc = pc
OnLoop(pc) == At(pc) /\ LoopIsFree
InThread(pc) == At(pc) /\ task.outcome = "none"
Returned(pc, outcome) == OnLoop(pc) /\ task.outcome = outcome

Goto(pc) == task' = [task EXCEPT !.pc = pc, !.outcome = "none"]
Yields(outcome) == task' = [task EXCEPT !.outcome = outcome]
\* Mutant: the task returns before _current is brought up to date.
EndsSilently(status) == task' = NoTask /\ UNCHANGED current

Ends(status) ==
    /\ task' = NoTask
    /\ current' = [current EXCEPT !.status = status]

\* An exception leaves _execute: the task is over and nobody says so.
Dies == task' = NoTask /\ UNCHANGED current

\* is_busy, or the execution lock is held.
Busy == task # NoTask \/ current.status = "running"
IsAdaptive(r) == ScenarioOf[r] \in Adaptive

\* persist_session: state.json, and cleanup.json in its nested form.
Persist(r, s) ==
    /\ session' = s
    /\ record' = [record EXCEPT ![r].status = s.status, ![r].effect = s.effect]
    /\ closed' = closed \ {r}
    /\ UNCHANGED captures

\* The effect of a run after a cleanup of it: gone when the cleanup says so,
\* gone or not when it does not.
AfterCleanup(r, outcome) ==
    IF outcome = "ok" THEN {effect \ {r}} ELSE {effect \ {r}, effect}

\* _run_intervals: what the clean-window check reads of a run's directory.  An
\* adaptive run's level without an end is open until a flat cleanup.json ends
\* it; a directory without a timeline is open forever.
OpenInterval(r) ==
    \/ record[r].status = "unknown"
    \/ record[r].effect = "open" /\ r \notin closed

\* _overlap_evidence and the coordinator's share of the clean-window check.
Isolated(r) ==
    /\ dirty_run = NoFenced
    /\ active_lease.run \in {NoRun, r}
    /\ \A x \in Runs \ {r} : ~OpenInterval(x)

\* find_orphaned_dirty_run: the newest run of the scenario that ended DIRTY
\* with an open level; later runs have greater tokens.
Orphans(s) ==
    {r \in Runs : /\ ScenarioOf[r] = s
                  /\ record[r].status = "dirty" /\ record[r].effect = "open"
                  /\ record[r].token # 0
                  /\ r \notin closed}
NewestOrphan(s) ==
    {r \in Orphans(s) : \A x \in Orphans(s) : record[x].token <= record[r].token}

\* Mutant: a failed run is reported and never written to the coordinator.
MarkDirtyForgotten(r, t) == UNCHANGED coordVars

\* _mark_dirty: a refusal of the coordinator is swallowed.
MarkDirtySuppressed(r, t) ==
    \/ MarkDirty(r, t)
    \/ ~HoldsLease(r, t) /\ UNCHANGED coordVars

MayFinishClaim(r, t, c) == cleanup_claim = ClaimBy(r, t, c)
MayClearDirty(r, t) ==
    dirty_run = Fenced(r, t) /\ cleanup_claim.run = r /\ cleanup_claim.token = t

-----------------------------------------------------------------------------
(* The start handlers: is_busy is read, the coordinator called and the task *)
(* created without an await in between.                                     *)

CanStart(r) ==
    /\ LoopIsFree
    /\ ~Busy
    /\ r \in unused
    /\ unused' = unused \ {r}

Started(kind, r, target, token) ==
    task' = [NoTask EXCEPT !.pc = "started", !.kind = kind, !.run = r,
                           !.target = target, !.token = token]

\* start(mode="run"); a "cycle" run skips the isolation checks.  The capsule
\* of an adaptive run is on disk before the lease is asked for.
StartRun(r) ==
    /\ CanStart(r)
    /\ Acquire(r)
    /\ \E kind \in IF IsAdaptive(r) THEN {"adaptive", "cycle"} ELSE {"script"} :
          Started(kind, r, r, next_fencing_token)
    /\ record' = IF IsAdaptive(r) THEN [record EXCEPT ![r].status = "capsule"] ELSE record
    /\ UNCHANGED <<current, session, watchdog, effect, closed, captures, crashes, lapses, failures>>

\* start(mode="cleanup") of a script: on a DIRTY testbed only as the claimed
\* cleanup of that scenario's run, else under a lease of its own.
StartCleanup(r) ==
    /\ CanStart(r)
    /\ ~IsAdaptive(r)
    /\ \/ /\ dirty_run # NoFenced
          /\ ScenarioOf[dirty_run.run] = ScenarioOf[r]
          /\ ClaimCleanup(dirty_run.run, dirty_run.token, r)
          /\ Started("manual", r, dirty_run.run, dirty_run.token)
       \/ /\ dirty_run = NoFenced
          /\ Acquire(r)
          /\ Started("cleanup", r, r, next_fencing_token)
    /\ UNCHANGED <<current, session, watchdog, effect, diskVars, crashes, lapses, failures>>

\* bind_lease raises outside start()'s try block: the lease stays behind.
BindLeaseFails ==
    /\ At("started") /\ task.kind \in {"adaptive", "cycle"}
    /\ Dies
    /\ UNCHANGED <<coordVars, session, watchdog, effect, diskVars, boundVars>>

\* start()'s except branch gives back what was taken.
StartUnwinds ==
    /\ At("started") /\ task.kind # "external"
    /\ IF task.kind = "manual"
       THEN FinishCleanupClaim(task.target, task.token, task.run)
       ELSE Release(task.target, task.token)
    /\ Dies
    /\ UNCHANGED <<session, watchdog, effect, diskVars, boundVars>>

FirstStep == CASE task.kind \in {"adaptive", "cycle"} -> "probe"
               [] task.kind = "external"              -> "external"
               [] OTHER                               -> "script"

\* The task exists; every kind that holds a lease heartbeats from a task of
\* its own.
Launched(pc) ==
    /\ At("started")
    /\ task' = [task EXCEPT !.pc = pc,
                            !.beat = IF task.kind \in {"manual", "external"} THEN "off" ELSE "on"]
    /\ current' = [run |-> task.run, status |-> "running"]
    /\ session' = NoSession
    /\ record' = IF task.kind \in {"adaptive", "cycle"}
                 THEN [record EXCEPT ![task.run].token = task.token] ELSE record
    /\ UNCHANGED <<coordVars, watchdog, closed, captures, unused, crashes, lapses>>

\* A script injects as it runs.
TaskLaunched ==
    /\ Launched(FirstStep)
    /\ effect' = IF task.kind = "script" THEN effect \cup {task.run} ELSE effect
    /\ UNCHANGED failures

\* The run's log cannot be opened: the exception leaves _execute with the
\* heartbeats already going.
LogNotOpened ==
    /\ task.kind # "external"
    /\ Launched("lost")
    /\ failures < MaxFailures /\ failures' = failures + 1
    /\ UNCHANGED effect

\* _start_external_dirty_cleanup, first half: a forgotten DIRTY run of the
\* scenario is put back into the coordinator.
ReadoptOrphan(s) ==
    /\ LoopIsFree /\ ~Busy /\ s \in Adaptive
    /\ dirty_run = NoFenced
    /\ \E r \in NewestOrphan(s) : ReadoptDirty(r, record[r].token)
    /\ UNCHANGED <<task, current, session, watchdog, effect, diskVars, boundVars>>

\* Second half: its cleanup is claimed.
StartExternalCleanup(s) ==
    /\ LoopIsFree /\ ~Busy /\ s \in Adaptive
    /\ dirty_run # NoFenced /\ ScenarioOf[dirty_run.run] = s
    /\ ClaimCleanup(dirty_run.run, dirty_run.token, Operator)
    /\ Started("external", Operator, dirty_run.run, dirty_run.token)
    /\ UNCHANGED <<current, session, watchdog, effect, diskVars, boundVars>>

-----------------------------------------------------------------------------
(* The adaptive run: _execute_adaptive driving AdaptiveRuntime.             *)

\* A check fails or the probe raises; a capsule that does not verify leaves no
\* session behind and nothing written.
ProbeBlocks ==
    /\ OnLoop("probe")
    /\ Goto("join")
    /\ \/ Persist(task.run, [session EXCEPT !.status = "blocked"])
       \/ session' = [session EXCEPT !.status = "blocked"] /\ UNCHANGED diskVars
    /\ UNCHANGED <<coordVars, current, watchdog, effect, boundVars>>

ProbePasses ==
    /\ OnLoop("probe")
    /\ task.kind = "cycle" \/ Isolated(task.run)
    /\ Goto("apply")
    /\ session' = [session EXCEPT !.status = "active"]
    /\ UNCHANGED <<coordVars, current, watchdog, effect, diskVars, boundVars>>

\* The thread in apply(): companions first, so a failure may leave a part.
ApplyReturns ==
    /\ InThread("apply")
    /\ \/ Yields("ok") /\ effect' = effect \cup {task.run}
       \/ Yields("failed") /\ effect' \in {effect, effect \cup {task.run}}
    /\ UNCHANGED <<coordVars, current, session, watchdog, diskVars, boundVars>>

LevelApplied ==
    /\ Returned("apply", "ok")
    /\ Goto("sleep")
    /\ Persist(task.run, [session EXCEPT !.effect = "open"])
    /\ UNCHANGED <<coordVars, current, watchdog, effect, boundVars>>

\* A level that does not apply or does not come off aborts the controller.
LevelFails ==
    /\ Returned("apply", "failed") \/ Returned("switch", "failed")
    /\ Goto("clean")
    /\ session' = [session EXCEPT !.goal = "missed"]
    /\ UNCHANGED <<coordVars, current, watchdog, effect, diskVars, boundVars>>

\* The tick's own heartbeat, before it looks at anything.
TickHeartbeats ==
    /\ At("sleep")
    /\ Heartbeat(task.target, task.token)
    /\ Goto("tick")
    /\ UNCHANGED <<current, session, watchdog, effect, diskVars, boundVars>>

\* The coordinator refuses it: the driver fails closed.
TickRefused ==
    /\ OnLoop("sleep")
    /\ ~HoldsLease(task.target, task.token) \/ cleanup_claim # NoClaim
    /\ IF session.status = "active"
       THEN /\ Goto("failclean")
            /\ session' = [session EXCEPT !.goal = "missed"]
            /\ UNCHANGED diskVars
       ELSE Goto("join") /\ Persist(task.run, [session EXCEPT !.status = "dirty"])
    /\ UNCHANGED <<coordVars, current, watchdog, effect, boundVars>>

TickWaits ==
    /\ OnLoop("tick")
    /\ Goto("sleep")
    /\ Persist(task.run, session)
    /\ UNCHANGED <<coordVars, current, watchdog, effect, boundVars>>

TickEscalates ==
    /\ OnLoop("tick") /\ session.status = "active"
    /\ Goto("switch")
    /\ UNCHANGED <<coordVars, current, session, watchdog, effect, diskVars, boundVars>>

\* The controller reaches its goal, gives it up or runs out of time.
TickDecides ==
    /\ OnLoop("tick") /\ session.status = "active"
    /\ Goto("clean")
    /\ \E goal \in {"met", "missed"} : session' = [session EXCEPT !.goal = goal]
    /\ UNCHANGED <<coordVars, current, watchdog, effect, diskVars, boundVars>>

\* Recovery is verified, or times out.
TickRecovers ==
    /\ OnLoop("tick") /\ session.status = "recovering"
    /\ Goto("join")
    /\ \E status \in {"clean", "dirty"} :
          Persist(task.run, [session EXCEPT !.status = status])
    /\ UNCHANGED <<coordVars, current, watchdog, effect, boundVars>>

\* The thread in transition_cleanup() or cleanup().
CleanupReturns ==
    /\ InThread("switch") \/ InThread("clean") \/ InThread("failclean")
    /\ \E outcome \in {"ok", "failed"} :
          Yields(outcome) /\ effect' \in AfterCleanup(task.run, outcome)
    /\ UNCHANGED <<coordVars, current, session, watchdog, diskVars, boundVars>>

LevelEnded ==
    /\ Returned("switch", "ok")
    /\ Goto("apply")
    /\ session' = [session EXCEPT !.effect = "ended"]
    /\ UNCHANGED <<coordVars, current, watchdog, effect, diskVars, boundVars>>

\* _cleanup_terminal after a cleanup that succeeded: a run without a level has
\* nothing to recover from; the first look at recovery is part of the step.
TerminalCleaned ==
    /\ Returned("clean", "ok")
    /\ IF session.effect = "none"
       THEN Goto("join") /\ Persist(task.run, [session EXCEPT !.status = "clean"])
       ELSE \E status \in {"clean", "recovering"} :
              /\ Goto(IF status = "clean" THEN "join" ELSE "sleep")
              /\ Persist(task.run, [session EXCEPT !.status = status, !.effect = "ended"])
    /\ UNCHANGED <<coordVars, current, watchdog, effect, boundVars>>

TerminalCleanupFailed ==
    /\ Returned("clean", "failed") \/ Returned("failclean", "failed")
    /\ Goto("join")
    /\ Persist(task.run, [session EXCEPT !.status = "dirty"])
    /\ UNCHANGED <<coordVars, current, watchdog, effect, boundVars>>

\* The driver's own cleanup has no ticks left to verify a recovery in: only
\* the look inside _cleanup_terminal can make the run CLEAN.
FailedRunCleaned ==
    /\ Returned("failclean", "ok")
    /\ Goto("join")
    /\ \E status \in {"clean", "dirty"} :
          Persist(task.run, [session EXCEPT !.status = status, !.effect = "ended"])
    /\ UNCHANGED <<coordVars, current, watchdog, effect, boundVars>>

\* Where a call of the driver may raise, and the session it leaves in memory:
\* the heartbeat or the tick itself, or the session being written down after
\* begin() or tick() returned.
Interrupted ==
    CASE OnLoop("sleep") -> {session}
      [] OnLoop("tick") ->
            {[session EXCEPT !.status = status] :
                status \in IF session.status = "active" THEN {"active"}
                           ELSE {"recovering", "clean", "dirty"}}
      [] Returned("apply", "ok") -> {[session EXCEPT !.effect = "open"]}
      [] Returned("clean", "ok") ->
            IF session.effect = "none" THEN {[session EXCEPT !.status = "clean"]}
            ELSE {[session EXCEPT !.status = status, !.effect = "ended"] :
                    status \in {"clean", "recovering"}}
      [] Returned("clean", "failed") -> {[session EXCEPT !.status = "dirty"]}
      [] OTHER -> {}

\* A session without a level is BLOCKED by the handler, whatever is injected.
Handled(s) ==
    [s EXCEPT !.status = IF s.effect = "none" THEN "blocked"
                         ELSE IF s.status = "clean" THEN "clean" ELSE "dirty"]

\* The handler cleans up an injection nobody has tried to clean up, and concludes.
DriverFails ==
    /\ failures < MaxFailures /\ failures' = failures + 1
    /\ \E s \in Interrupted :
          \/ /\ s.status = "active" /\ s.effect # "none"
             /\ Goto("failclean")
             /\ \/ session' = [s EXCEPT !.goal = "missed"] /\ UNCHANGED diskVars
                \/ Persist(task.run, [s EXCEPT !.goal = "missed"])
          \/ /\ s.status # "active" \/ s.effect = "none"
             /\ Goto("join")
             /\ Persist(task.run, Handled(s))
    /\ UNCHANGED <<coordVars, current, watchdog, effect, unused, crashes, lapses>>

\* Where its handler may raise in turn, before or after its own cleanup.
HandlerInterrupted ==
    CASE OnLoop("probe") -> {[session EXCEPT !.status = "blocked"]}
      [] Returned("failclean", "ok") ->
            {[session EXCEPT !.status = status, !.effect = "ended"] : status \in {"clean", "dirty"}}
      [] Returned("failclean", "failed") -> {[session EXCEPT !.status = "dirty"]}
      [] OTHER -> Interrupted

\* That exception leaves _execute before the place that ends the heartbeats.
HandlerFails ==
    /\ failures < MaxFailures /\ failures' = failures + 1
    /\ \E s \in HandlerInterrupted :
          \/ session' = s /\ UNCHANGED diskVars
          \/ Persist(task.run, s)
          \/ Persist(task.run, Handled(s))
    /\ Goto("lost")
    /\ UNCHANGED <<coordVars, current, watchdog, effect, unused, crashes, lapses>>

-----------------------------------------------------------------------------
(* Scripts, and the end of every run: the rest of _execute.                 *)

\* The runs whose effects the running script takes away when it succeeds.
ScriptCleans ==
    CASE task.kind = "script" -> {task.run}
      [] OTHER                -> {r \in Runs : ScenarioOf[r] = ScenarioOf[task.target]}

\* A script, or its cleanup, exits or is killed.
ScriptExits ==
    /\ InThread("script") \/ InThread("fclean")
    /\ \/ Yields("ok") /\ effect' = effect \ ScriptCleans
       \/ Yields("failed") /\ effect' \in {effect, effect \ ScriptCleans}
    /\ UNCHANGED <<coordVars, current, session, watchdog, diskVars, boundVars>>

ScriptReturned ==
    /\ OnLoop("script") /\ task.outcome # "none"
    /\ task' = [task EXCEPT !.pc = "join"]
    /\ UNCHANGED <<coordVars, current, session, watchdog, effect, diskVars, boundVars>>

\* The heartbeat task: a refused call ends it, once the loop has seen it.
HeartbeatReturns ==
    /\ task.beat = "on"
    /\ Heartbeat(task.target, task.token)
    /\ UNCHANGED <<task, current, session, watchdog, effect, diskVars, boundVars>>

HeartbeatRaises ==
    /\ task.beat = "on"
    /\ ~HoldsLease(task.target, task.token) \/ cleanup_claim # NoClaim
    /\ task' = [task EXCEPT !.beat = "raised"]
    /\ UNCHANGED <<coordVars, current, session, watchdog, effect, diskVars, boundVars>>

HeartbeatTaskFails ==
    /\ task.beat = "raised" /\ LoopIsFree
    /\ task' = [task EXCEPT !.beat = "failed"]
    /\ UNCHANGED <<coordVars, current, session, watchdog, effect, diskVars, boundVars>>

\* The heartbeat task is cancelled; only a failure it ended with is kept.
HeartbeatJoined ==
    /\ OnLoop("join")
    /\ task' = [task EXCEPT !.pc = "conclude",
                            !.beat = IF @ = "failed" THEN "failed" ELSE "off"]
    /\ UNCHANGED <<coordVars, current, session, watchdog, effect, diskVars, boundVars>>

Concludes(kinds) == OnLoop("conclude") /\ task.kind \in kinds
HeartbeatFailed == task.beat = "failed"

\* Mutant: a cleanup that failed still gives the testbed back.
MustMarkDirtyOnHeartbeatOnly ==
    task.kind \in {"adaptive", "cycle", "cleanup"} /\ HeartbeatFailed

\* The conclusions that leave the testbed DIRTY.
MustMarkDirty ==
    \/ task.kind \in {"adaptive", "cycle"} /\ (session.status = "dirty" \/ HeartbeatFailed)
    \/ task.kind = "cleanup" /\ (task.outcome = "failed" \/ HeartbeatFailed)

\* Mutant: the DIRTY branch falls through to the capture.
ConcludeDirtyThenCapture ==
    /\ Concludes({"adaptive", "cycle", "cleanup"}) /\ MustMarkDirty
    /\ MarkDirtySuppressed(task.target, task.token)
    /\ Goto("capture")
    /\ UNCHANGED <<current, session, watchdog, effect, diskVars, boundVars>>

ConcludeDirty ==
    /\ Concludes({"adaptive", "cycle", "cleanup"}) /\ MustMarkDirty
    /\ MarkDirtySuppressed(task.target, task.token)
    /\ Ends("dirty")
    /\ UNCHANGED <<session, watchdog, effect, diskVars, boundVars>>

\* The lease goes back; a script that succeeded needs nothing else.
ConcludeClean ==
    /\ \/ Concludes({"adaptive", "cycle", "cleanup"}) /\ ~MustMarkDirty
       \/ Concludes({"script"}) /\ task.outcome = "ok" /\ ~HeartbeatFailed
    /\ IF HoldsLease(task.target, task.token)
       THEN /\ Release(task.target, task.token)
            /\ IF task.kind \in {"adaptive", "cycle"}
               THEN Goto("capture") /\ UNCHANGED current
               ELSE Ends("succeeded")
       ELSE Dies /\ UNCHANGED coordVars
    /\ UNCHANGED <<session, watchdog, effect, diskVars, boundVars>>

\* _schedule_capture: only a CLEAN run whose controller succeeded is captured.
\* It may raise before or after the job is scheduled: the run has failed then.
Capture ==
    /\ At("capture")
    /\ LET captured == IF session.status = "clean" /\ session.goal = "met"
                       THEN captures \cup {task.run} ELSE captures
       IN  \/ /\ captures' = captured
              /\ Ends(IF session.status = "clean" THEN "succeeded" ELSE "failed")
           \/ session.status = "clean" /\ captures' \in {captures, captured} /\ Ends("failed")
    /\ UNCHANGED <<coordVars, session, watchdog, effect, record, closed, boundVars>>

\* The claimed cleanup of a DIRTY script run.
ConcludeManual ==
    /\ Concludes({"manual"})
    /\ IF task.outcome = "ok"
       THEN IF MayClearDirty(task.target, task.token)
            THEN ClearDirty(task.target, task.token) /\ Ends("succeeded")
            ELSE Dies /\ UNCHANGED coordVars
       ELSE IF MayFinishClaim(task.target, task.token, task.run)
            THEN FinishCleanupClaim(task.target, task.token, task.run) /\ Ends("dirty")
            ELSE Dies /\ UNCHANGED coordVars
    /\ UNCHANGED <<session, watchdog, effect, diskVars, boundVars>>

\* _attempt_failure_cleanup: claim, run the script's cleanup, release or mark.
FailureCleanupClaims ==
    /\ Concludes({"script"}) /\ (task.outcome = "failed" \/ HeartbeatFailed)
    /\ IF Target = Fenced(task.target, task.token) /\ cleanup_claim = NoClaim
       THEN /\ ClaimCleanup(task.target, task.token, task.run)
            /\ Goto("fclean") /\ UNCHANGED current
       ELSE MarkDirtySuppressed(task.target, task.token) /\ Ends("dirty")
    /\ UNCHANGED <<session, watchdog, effect, diskVars, boundVars>>

FailureCleanupReturned ==
    /\ OnLoop("fclean") /\ task.outcome # "none"
    /\ IF task.outcome = "ok" /\ HoldsLease(task.target, task.token)
       THEN Release(task.target, task.token) /\ Ends("failed")
       ELSE /\ MarkDirtySuppressed(task.target, task.token)
            /\ Goto("unclaim") /\ UNCHANGED current
    /\ UNCHANGED <<session, watchdog, effect, diskVars, boundVars>>

\* Its finally block.
FailureCleanupUnclaims ==
    /\ At("unclaim")
    /\ IF MayFinishClaim(task.target, task.token, task.run) /\ dirty_run # NoFenced
       THEN FinishCleanupClaim(task.target, task.token, task.run)
       ELSE UNCHANGED coordVars
    /\ Ends("dirty")
    /\ UNCHANGED <<session, watchdog, effect, diskVars, boundVars>>

-----------------------------------------------------------------------------
(* _execute_external_dirty_cleanup.                                         *)

\* The thread, after an optional repair of the capsule.
ExternalCleanupReturns ==
    /\ InThread("external")
    /\ \E outcome \in {"ok", "failed"} :
          Yields(outcome) /\ effect' \in AfterCleanup(task.target, outcome)
    /\ UNCHANGED <<coordVars, current, session, watchdog, diskVars, boundVars>>

\* cleanup.json is written flat; a capsule that does not verify writes nothing.
ExternalCleanupRecorded ==
    /\ OnLoop("external") /\ task.outcome # "none"
    /\ task' = [task EXCEPT !.pc = "extclear"]
    /\ closed' \in IF task.outcome = "ok" THEN {closed \cup {task.target}}
                   ELSE {closed \ {task.target}, closed}
    /\ UNCHANGED <<coordVars, current, session, watchdog, effect, record, captures, boundVars>>

ExternalCleanupEnds ==
    /\ At("extclear")
    /\ IF task.outcome = "ok" /\ MayClearDirty(task.target, task.token)
       THEN ClearDirty(task.target, task.token) /\ Ends("succeeded")
       ELSE /\ IF MayFinishClaim(task.target, task.token, Operator)
               THEN FinishCleanupClaim(task.target, task.token, Operator)
               ELSE UNCHANGED coordVars
            /\ Ends("dirty")
    /\ UNCHANGED <<session, watchdog, effect, diskVars, boundVars>>

-----------------------------------------------------------------------------
(* WatchdogService.tick.  Only its cleanup can await; the rest of a tick    *)
(* runs on the loop without interruption, but not without the heartbeat     *)
(* threads.                                                                 *)

WatchdogAt(pc) == watchdog.pc = pc
WatchdogGoes(pc) == watchdog' = [watchdog EXCEPT !.pc = pc]
WatchdogStops == watchdog' = WatchdogIdle(watchdog.applier)

WatchdogDecides ==
    /\ WatchdogAt("idle") /\ task.pc \notin Inline
    /\ WatchdogDecision = "claim_cleanup"
    /\ watchdog' = [watchdog EXCEPT !.pc = "claim", !.run = active_lease.run,
                                   !.token = active_lease.token]
    /\ UNCHANGED <<coordVars, task, current, session, effect, diskVars, boundVars>>

\* The claim looks at the lease again: a heartbeat may have arrived.
WatchdogClaims ==
    /\ WatchdogAt("claim")
    /\ IF lease_age = "lapsed"
       THEN ClaimExpiredCleanup(Watchdog) /\ WatchdogGoes("clean")
       ELSE WatchdogStops /\ UNCHANGED coordVars
    /\ UNCHANGED <<task, current, session, effect, diskVars, boundVars>>

\* The capsule is verified and its cleanup run; a script run has no capsule.
\* Success is written to the run's directory before the coordinator is told.
WatchdogCleans ==
    /\ WatchdogAt("clean") /\ task.pc \notin Inline
    /\ \/ /\ record[watchdog.run].status # "none"
          /\ effect' = effect \ {watchdog.run}
          /\ closed' = closed \cup {watchdog.run}
          /\ WatchdogGoes("release")
       \/ /\ effect' \in IF record[watchdog.run].status = "none" THEN {effect}
                         ELSE {effect, effect \ {watchdog.run}}
          /\ WatchdogGoes("dirty")
          /\ UNCHANGED closed
    /\ UNCHANGED <<coordVars, task, current, session, record, captures, boundVars>>

WatchdogReleases ==
    /\ WatchdogAt("release")
    /\ IF HoldsLease(watchdog.run, watchdog.token)
       THEN Release(watchdog.run, watchdog.token) /\ WatchdogStops
       ELSE WatchdogGoes("dirty") /\ UNCHANGED coordVars
    /\ UNCHANGED <<task, current, session, effect, diskVars, boundVars>>

\* Mutant: a cleanup that failed is left at that.
WatchdogGivesUp ==
    /\ WatchdogAt("dirty")
    /\ WatchdogStops
    /\ UNCHANGED <<coordVars, task, current, session, effect, diskVars, boundVars>>

\* A refusal of mark_dirty leaves the tick: nothing is written and the claim
\* is not finished.
WatchdogMarksDirty ==
    /\ WatchdogAt("dirty")
    /\ IF HoldsLease(watchdog.run, watchdog.token)
       THEN MarkDirty(watchdog.run, watchdog.token) /\ WatchdogGoes("finish")
       ELSE WatchdogStops /\ UNCHANGED coordVars
    /\ UNCHANGED <<task, current, session, effect, diskVars, boundVars>>

\* Mutant: the claim is kept once the run is DIRTY.
WatchdogFinishesNothing ==
    /\ WatchdogAt("finish")
    /\ WatchdogStops
    /\ UNCHANGED <<coordVars, task, current, session, effect, diskVars, boundVars>>

\* The failure is written to the run's directory, which a script run only now
\* gets, and without a timeline.
WatchdogFinishes ==
    /\ WatchdogAt("finish")
    /\ IF MayFinishClaim(watchdog.run, watchdog.token, Watchdog)
       THEN FinishCleanupClaim(watchdog.run, watchdog.token, Watchdog)
       ELSE UNCHANGED coordVars
    /\ WatchdogStops
    /\ closed' = closed \ {watchdog.run}
    /\ record' = IF record[watchdog.run].status = "none"
                 THEN [record EXCEPT ![watchdog.run].status = "unknown"] ELSE record
    /\ UNCHANGED <<task, current, session, effect, captures, boundVars>>

-----------------------------------------------------------------------------
(* The environment.                                                         *)

\* The process dies and is started again: what it held in memory is gone.
Crash ==
    /\ crashes < MaxCrashes
    /\ crashes' = crashes + 1
    /\ task' = NoTask /\ session' = NoSession
    /\ watchdog' = WatchdogIdle(watchdog.applier)
    /\ current' = [run |-> NoRun, status |-> "none"]
    /\ UNCHANGED <<coordVars, effect, diskVars, unused, lapses, failures>>

\* Nobody renews the lease.  A lease that is renewed can still lapse, when the
\* loop or the disk stands still for longer than the lease.
Unattended == task.beat # "on" /\ task.pc \notin Inline \cup {"join", "conclude"}

Lapse ==
    /\ LeaseLapses
    /\ \/ Unattended /\ UNCHANGED lapses
       \/ ~Unattended /\ lapses < MaxLapses /\ lapses' = lapses + 1
    /\ UNCHANGED <<task, current, session, watchdog, effect, diskVars, unused, crashes, failures>>

-----------------------------------------------------------------------------
StartStep ==
    \/ \E r \in Runs : StartRun(r) \/ StartCleanup(r)
    \/ \E s \in Scenarios : ReadoptOrphan(s) \/ StartExternalCleanup(s)

TaskStep ==
    \/ BindLeaseFails \/ StartUnwinds \/ TaskLaunched \/ LogNotOpened
    \/ ProbeBlocks \/ ProbePasses \/ ApplyReturns \/ LevelApplied \/ LevelFails
    \/ TickHeartbeats \/ TickRefused \/ TickWaits \/ TickEscalates
    \/ TickDecides \/ TickRecovers
    \/ CleanupReturns \/ LevelEnded \/ TerminalCleaned \/ TerminalCleanupFailed
    \/ FailedRunCleaned \/ DriverFails \/ HandlerFails
    \/ ScriptExits \/ ScriptReturned \/ HeartbeatJoined
    \/ ConcludeDirty \/ ConcludeClean \/ Capture \/ ConcludeManual
    \/ FailureCleanupClaims \/ FailureCleanupReturned \/ FailureCleanupUnclaims
    \/ ExternalCleanupReturns \/ ExternalCleanupRecorded \/ ExternalCleanupEnds

HeartbeatStep == HeartbeatReturns \/ HeartbeatRaises \/ HeartbeatTaskFails

WatchdogStep ==
    \/ WatchdogDecides \/ WatchdogClaims \/ WatchdogCleans \/ WatchdogReleases
    \/ WatchdogMarksDirty \/ WatchdogFinishes

RunNext == StartStep \/ TaskStep \/ HeartbeatStep \/ WatchdogStep \/ Crash \/ Lapse

RunSpec == RunInit /\ [][RunNext]_runVars

\* The task, or the watchdog, waits for a call of profile-control.py, which
\* nothing bounds.
TaskInCall ==
    task.outcome = "none" /\ task.pc \in {"apply", "switch", "clean", "failclean", "external"}
WatchdogInCall == WatchdogAt("clean")

\* Coroutines and threads run on, the calls of profile-control.py excepted; a
\* lease nobody renews grows old; and a session that ticks for ever meets
\* max_injection_duration_sec or its recovery timeout.
Fairness ==
    /\ WF_runVars(~TaskInCall /\ TaskStep)
    /\ WF_runVars(HeartbeatStep)
    /\ WF_runVars(~WatchdogInCall /\ WatchdogStep)
    /\ WF_runVars(Unattended /\ Lapse)
    /\ SF_runVars(TickDecides)
    /\ SF_runVars(TickRecovers)

FairSpec == RunSpec /\ Fairness

-----------------------------------------------------------------------------
Tasks == [pc : {"none", "started", "probe", "apply", "sleep", "tick", "switch",
                "clean", "failclean", "script", "join", "conclude", "capture",
                "fclean", "unclaim", "external", "extclear", "lost"},
          kind : {"none", "adaptive", "cycle", "script", "cleanup", "manual", "external"},
          run : Runs \cup {NoRun, Operator}, target : Runs \cup {NoRun}, token : Nat,
          beat : {"off", "on", "raised", "failed"},
          outcome : {"none", "ok", "failed"}]

\* Type invariant of the process, its records and the testbed.
RunTypeOK ==
    /\ TypeOK
    /\ task \in Tasks
    /\ current \in [run : Runs \cup {NoRun, Operator},
                    status : {"none", "running", "succeeded", "failed", "dirty"}]
    /\ session \in [status : {"pending", "blocked", "active", "recovering", "clean", "dirty"},
                    effect : {"none", "open", "ended"}, goal : {"open", "met", "missed"}]
    /\ watchdog \in [pc : {"idle", "claim", "clean", "release", "dirty", "finish"},
                     run : Runs \cup {NoRun}, token : Nat, applier : Appliers]
    /\ record \in [Runs -> [status : {"none", "unknown", "capsule", "pending", "blocked",
                                      "active", "recovering", "clean", "dirty"},
                            effect : {"none", "open", "ended"}, token : Nat]]
    /\ UNION {effect, closed, captures, unused} \subseteq Runs
    /\ crashes \in 0..MaxCrashes /\ lapses \in 0..MaxLapses
    /\ failures \in 0..MaxFailures

\* A run whose handler found no level on record, and called it BLOCKED.
Misjudged(r) == failures > 0 /\ record[r].status = "blocked"

\* Whatever is still injected belongs to the run the coordinator holds: no path
\* through refusals, crashes and failures of the driver lets go of a live
\* injection.  One does, and is exempt: a first level fails half way, so does its
\* cleanup, and the driver fails on top of it: its handler finds no level on
\* record and calls the run BLOCKED.
EffectIsOwned == \A r \in effect : Target.run = r \/ Misjudged(r)

\* A lease is taken away only by the run's own task or by the watchdog tick
\* that claimed it, both under the token the lease was granted with.
NoForeignEnd ==
    [][active_lease # NoFenced /\ active_lease' # active_lease
         => \/ active_lease = Fenced(task.target, task.token)
            \/ /\ active_lease = Fenced(watchdog.run, watchdog.token)
               /\ cleanup_claim.claimant = Watchdog]_runVars

\* Somebody is still working under every cleanup claim: the watchdog's tick,
\* the operator's cleanup or the run's own task.  With an applier that awaits,
\* the run may be marked DIRTY by its own task meanwhile, and the watchdog's
\* tick is left by an exception before it gives up its claim.  (A cleanup whose
\* log cannot be opened strands its claim as well.)
ClaimHasLiveOwner ==
    cleanup_claim # NoClaim /\ watchdog.applier = "blocking" =>
        CASE cleanup_claim.claimant = Watchdog -> ~WatchdogAt("idle")
          [] OTHER -> task.run = cleanup_claim.claimant /\ (failures = 0 => ~At("lost"))

\* What the runner reports as running has a task that will end it; unless an
\* exception has left the driver's handler, or the log was not opened: then it
\* is reported for as long as the process lives.
ReportedRunIsAlive ==
    current.status = "running" => task # NoTask /\ (failures = 0 => ~At("lost"))

\* A run that is reported DIRTY is DIRTY at the coordinator, where it blocks
\* the next start.
ReportedDirtyIsHeld ==
    [][current'.status = "dirty" /\ current.status = "running"
         => dirty_run'.run = task.target]_runVars

\* No lease is granted while a run that recorded DIRTY is still injected.
DirtyBlocksNewRuns ==
    [][next_fencing_token' # next_fencing_token
         => \A r \in effect : record[r].status # "dirty"]_runVars

\* A capture is scheduled only for a run that recorded CLEAN and left nothing
\* injected, and such a run is never DIRTY afterwards.
CapturedRunsAreClean ==
    \A r \in captures :
        record[r].status = "clean" /\ r \notin effect /\ dirty_run.run # r

\* A lease that has lapsed is dealt with: it is given back or its run is DIRTY.
\* Only a cleanup of the watchdog that never returns keeps it, since nobody else
\* may claim it.
LapsedLeaseIsResolved ==
    (lease_age = "lapsed" ~> lease_age = "fresh") \/ <>[]WatchdogInCall
=============================================================================
