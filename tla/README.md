# Verification of rca-scenario-runner

TLA+ models of the backend of `nkia-ai-team/rca-scenario-runner`
(`src/backend/app`), model-checked with TLC and, where it says so below, proved
with TLAPS. The modules model what the code does: a property that a document or a
comment states and the code does not have is kept as a run that is expected to
fail (see *Findings*).

## 1. The system

The runner injects one fault scenario at a time into a shared testbed, waits
until the fault shows, takes it away, verifies that the testbed has recovered and
exports the recorded window as a case. One backend process (FastAPI, one asyncio
event loop) does it; subprocesses and worker threads do the blocking parts.

| part | code | state | operations |
|---|---|---|---|
| Coordinator | `coordinator.py`, `watchdog.py` | one JSON document: next fencing token, active lease, DIRTY run, cleanup claim | `acquire` `heartbeat` `release` `mark_dirty` `readopt_dirty` `claim_cleanup` `claim_expired_cleanup` `clear_dirty` `finish_cleanup_claim`, each under one flock |
| Runner | `runner.py` | `_current`, the execution task, the heartbeat task, the capture task | `start` (run, cycle, cleanup), `_execute`, `_execute_adaptive`, `_attempt_failure_cleanup`, the external DIRTY cleanup |
| Watchdog | `watchdog_service.py` | none of its own | `tick`: decide, claim, clean, release or mark DIRTY, finish the claim |
| Run records | `production_runtime.py` | per run: the capsule (contracts, hashes, plan, manifest), timeline, `state.json`, `lease.json`, `cleanup.json`, `result.json`, `model.json` | `prepare_capsule`, `verify_capsule`, `repair_capsule_contracts`, `bind_lease`, `persist_session`, orphan lookup |
| Adaptive controller | `adaptive.py` | `ControllerState`: phase, level, streak per gate | `start`, `advance`, `finalize_cleanup` (pure functions) |
| Adaptive runtime | `adaptive_runtime.py` | session status, level changes, cleanup and recovery evidence | `begin`, `tick`, level transition, terminal cleanup, recovery |
| Profile applier | `production_runtime.py` | `mutations.json` | composite `apply`, `cleanup` |
| Capture | `capture_orchestration.py`, `runner.py`, `production_runtime.py` | `capture-jobs.json`, checkpoints, markers | `schedule`, `tick`, `_capture_loop`, `snapshot_model`, `dump_stores` |
| Live queue | `live_queue.py` | `live-queue.json`: items, phase, cursor, run, retries, restarts, deadline | `start` `append_promoted` `resume` `cancel` `tick` |
| Preflight | `preflight.py`, `live_queue.py` | none | verdict, judge, sweep of open incidents |
| Topology collector | `topology_collector.py`, `live_queue.py` | a directory per cycle, a marker per run | `start` `run` `collect_once` `stop` |
| Clean window | `live_probes.py` | none; reads run directories | `_run_intervals`, `_overlap_evidence` |
| Observations | `observations.py` | registry, adapters, poller | `observe`, `poll` |
| Live probes, pass mode, pins, catalogue, API, frontend, scripts | see `PROJECT.json` | mostly none | readers, parsers, views |

How they interact. `start` asks the coordinator for the lease and creates the
execution task; that task drives an adaptive session or a script; a heartbeat task
renews the lease from a thread; the watchdog polls the coordinator on the same
event loop and calls the applier *without awaiting it*; the conclusion of the
task releases the lease or marks the run DIRTY and schedules a capture; a worker
thread works the captures off; the live queue polls all of them, gates each
injection with the preflight, keeps a topology collector going through a cycle
and starts the next run. What survives a crash is the coordinator's document, the
run directories, the capture file, the queue file and whatever is injected.

What is hard, and what makes each part correct:

* **Ownership** (interleaving, stale callers, crash): a live injection always
  belongs to the run the coordinator holds; nobody ends a lease with somebody
  else's token; a claim neither outlives its run nor its claimant.
* **Conclusion** (a refused call in the middle of an epilogue, heartbeat failing
  while the run ends): a run reported DIRTY is DIRTY; a captured run is CLEAN.
* **Control** (signals slower than ticks, blind gauges): evidence is independent,
  fresh and collected after the hold; a danger wins over success; every run ends.
* **Injection** (a composite apply or cleanup failing half way, a driver that
  fails, its handler failing too, a process that dies inside a call): CLEAN means that nothing is left and
  that recovery was seen, and what is on record covers what was on the testbed.
* **Repair** (a swap of several renames, a live tree that changes underneath): a
  capsule that verifies tells its own history, and the repair frees the run.
* **Capture** (two writers of one file, retries, crash between export and
  record, a command that never returns): no job is lost, one model per run, every
  job ends.
* **Queue** (retries, cycle restarts, resumes, crashes between start and record):
  what is done is proven and captured, a scenario is run again only for a reason
  that is counted, every queue comes to its end or stops for the operator.

The full list, each at its line, is under `hazards` in `PROJECT.json`.

## 2. The modules

| module | models | state variables and what they stand for |
|---|---|---|
| `TestbedOwnership` | the abstract promise of the coordinator | the testbed is free, owned or quarantined, under a number granted once, with at most one cleaner |
| `Coordinator` | `GlobalCoordinator`, `decide_watchdog` | the fields of the document; `lease_age` says whether the lease's two deadlines (always equal: `runner.py` passes the same seconds for both) have passed |
| `RunLifecycle` (extends `Coordinator`) | runner, watchdog, run records, testbed, crash | `task` with a `pc` per await of `_execute` and its callees, `task.beat` for the heartbeat task, `session`, `watchdog`, `effect` (what is injected), `record`/`closed` (the files), `captures`, `current` |
| `AdaptiveController` | `adaptive.py` | `ControllerState`; `Advance` is the function `advance` |
| `AdaptiveRuntime` (extends `CleanWindow`) | `adaptive_runtime.py`, the composite applier, the driver's exception handler, the run's directory, the cleanups of watchdog and operator after it | status, level changes, evidence; `awaits` (where the driver is), `handling`, `renewed` (the heartbeats go on); `journal` and `live` profiles; `held` (what the coordinator holds); `disk` (the documents with level changes); one clock; `touched` is history |
| `CleanWindow` | the clean-window check of `live_probes.py` | operators only: the intervals a directory gives, and their overlap with a window |
| `Capsule` | publication, verification and repair of a run's capsule | the live tree, the staging directory, the files of the run's directory one by one, the step of the run or repair |
| `CaptureScheduler` | jobs, worker loop, invoker | the jobs file, the state a tick has read, checkpoints, exports, what the event loop and the worker are in the middle of |
| `ScenarioSequence` | the abstract promise of the live queue | idle, active, paused or closed; the length of the list; how the first scenarios were settled |
| `LiveQueue` (extends `Preflight`, `TopologyCollector`) | `live_queue.py` in both modes and passes | `queue` is the file, `worker` the task of `_loop`, `starting` the tick that awaits `runner.start`; `runs`, `current`, `dirty`, `manual` are what the queue sees of runner, coordinator and captures |
| `Preflight` | `preflight.py`, the sweep | operators only: verdict and sweep over one check of each kind |
| `TopologyCollector` | `topology_collector.py` | whether a collector runs, the state of the scenario's directory (a collection that has begun and not written its manifest included), the marked runs, and those whose snapshots are gone |
| `CoordinatorProofs`, `RunLifecycleProofs`, `RunOwnershipProofs`, `AdaptiveProofs`, `AdaptiveRuntimeProofs`, `CapsuleProofs`, `CaptureProofs`, `LiveQueueProofs` | theorems about the module each is named for; `RunOwnershipProofs` is about `RunLifecycle` | |

`MCx` modules only give constants for TLC. `PROJECT.json` maps each definition to
the lines it models. Definitions whose comment begins with `Mutant:` are not part
of a specification: each is a plausible bug in the definition it precedes, and
with it in place a named property is violated. They show that the properties can
fail.

How they compose. `RunLifecycle` calls the coordinator's methods and leaves the
controller's decision open (`TickDecides`, `TickEscalates`). `AdaptiveRuntime` has
one session in detail (profiles, journal, clock, files), leaves the decision open
as well, and lets the watchdog and the operator follow one another where
`RunLifecycle` has their races. `AdaptiveController` is the decision. `LiveQueue`
sees of a run only what the code reads of it: what it came to and how far its
capture is; how a run and a capture get there is the other modules' business. Each
property is checked in the module that has the detail it needs.

Modelling decisions:

* **Atomicity.** A coordinator method is one step because it holds a file lock
  from read to replace. A coroutine's step lasts until its next await; `LoopIsFree`
  and `Inline` in `RunLifecycle` say who keeps the event loop. Threads (apply,
  cleanup, heartbeat) and subprocesses go on while the loop is kept. A method of
  the coordinator that raises changes nothing; the caller's `ELSE` branch is its
  handler, or `Dies` when the exception leaves `_execute`. An operation of the
  queue is one step because it holds the queue's lock from read to write; the tick
  that starts a run is two, since a fault may hit between `runner.start` and the
  write that records it. The swap of a repair is one step per rename or write.
* **The watchdog's applier.** In production it is synchronous (`"blocking"`);
  `WatchdogService` itself also supports one that awaits (`"awaited"`), where its
  cleanup overlaps the run's own conclusion. `watchdog.applier` says which; both are
  checked.
* **Failures of the driver.** A call of `_execute_adaptive` may raise between two
  ticks, in a tick, or while the session is written down after `begin` or `tick`
  (`Interrupted`, with the session each leaves in memory). Its handler
  (`runner.py:838-877`) then looks at that session: one with a level that nobody has
  cleaned up is cleaned up, any other with a level is concluded, one without a level
  is BLOCKED *whatever is injected* (`DriverFails`, `Handled`). The handler may raise
  in turn, before its cleanup, after it, or while it writes (`HandlerFails`). That
  exception leaves `_execute` before the heartbeat task is cancelled
  (`runner.py:619`): the task is `"lost"`, or the session's `awaits` is `"gone"`, and
  the heartbeats go on renewing a lease nobody works under. This is not a crash: the
  watchdog sees a lease that is alive. A log that cannot be opened (`runner.py:588`)
  ends the same way (`LogNotOpened`).
* **A collection is not atomic for a thread.** `collect_once` keeps the event loop
  from its first fetch to its manifest, and the export of a capture runs in a
  thread and a subprocess: `CollectionBegins` and `CollectionEnds` are two steps,
  `LoopIsFree` holds up everything that runs on the loop between them, and `JobEnds`
  is not held up.
* **Time.** The lifecycle, the captures and the queue know only whether a deadline
  has passed. The controller counts the seconds since a level began, the runtime
  has a clock that moves with each applier call and each tick.
* **Data.** Readings are reduced to what a condition concludes from them; a
  scenario to whether it is adaptive; a model to its version; a contract tree to
  the version of its executor and the target it compiles to, and a hash of it to
  the tree itself; preflight checks to one of each kind (without tolerance, with
  tolerance, open incidents); profiles to a set.
* **Branches the model shows to be unreachable** are left out of it: a queue item
  whose run is proven and whose `capture-complete.json` is missing, a capture job
  that disappears, `pending_retry_capture_run_id` (nothing sets it), "did not
  recover cleanly" (only a CLEAN session is published as accepted).

## 3. The runs

| run | states | shows |
|---|---|---|
| `lifecycle_crash` | 944 955 | four runs, one failure of the driver or its handler, one crash: what is injected is owned or was called BLOCKED, what is reported is true until an exception leaves the handler, a run reported DIRTY blocks the next; the coordinator stays consistent under its real callers and implements `TestbedOwnership` |
| `lifecycle_lapse` | 159 689 | three runs, one lapse of a renewed lease and one failure of the driver or its handler, with an applier that blocks the loop and one that awaits: every claim has a live owner, no lease ends at foreign hands, only CLEAN runs are captured; under fairness every lapse is resolved unless the watchdog's own call hangs |
| `adaptive` | 40 498 | a calibration of two levels with "all" gates, and an evaluation with "any" gates of two signals: independent, post-hold, fresh evidence, safety first; no level outlives its timeout and every run ends, whatever is observed |
| `runtime` | 247 869 | three levels, two companions and a primary profile, with partial failures, a driver that fails and fails again in its handler, and a crash anywhere, and the cleanups of the watchdog and the operator after it: CLEAN or given back means nothing is left, the effects stay inside the intervals on record, the testbed stays with the run only under heartbeats without a task or a call that never returns |
| `capsule` | 23 414 | publication and repair against a live tree that changes, with faults between any two steps: the history is complete, a capsule stays whole, a DIRTY run is freed |
| `capture` | 196 026 | a calibration and an evaluation capture, two attempts, a tick whose writes fail, a command that hangs, one crash, a drifting model: no job is lost, one model per run, exports are accounted for; jobs end and the event loop gets on unless a command hangs |
| `queue` | 735 038 | both modes and both passes with retries, restarts, resumes, skips, crashes, raising ticks, runs of the operator's own and a topology collector: what is done is proven and captured, re-runs are accounted for, a case has its own topology, also when it is exported beside a collection; it implements `ScenarioSequence`, and settles as long as leases and captures end and its worker lives |
| `lifecycle_stranded`, `lifecycle_forgotten`, `lifecycle_hung`, `runtime_window`, `adaptive_unreadable` | | expected violations, see *Findings* |

`Coordinator` has no run of its own: what any sequence of calls does to it is
proved, and `lifecycle_crash` checks the same properties with the callers the code
has. Properties that are proved for every value of the constants and say no more
than a type (`RunTypeOK`, `TypeOK` of the controller, the runtime and the captures)
are not in a run either; TLC agreed with each before it was proved.

Bounds. Every bound is a constant with a comment in its module.

* `MaxToken` (leases) of four lets three runs follow each other with a stale token
  of each left over. Four run ids of one adaptive and one script scenario are two
  generations of each, which is what a stale caller, an orphan and its successor
  need. A crash and a lapse are checked one at a time; with both faults at once
  findings 1 and 2 apply. `RunLifecycleProofs` and `RunOwnershipProofs` need none of
  these bounds.
* Two levels exercise the ladder and its top; a success gate of three samples at
  an interval of two seconds and a timeout of seven lets samples be repeated, held,
  dropped and completed.
* `Horizon` of `AdaptiveRuntime` lies beyond the longest session (six units of
  injection over three levels, a recovery of three, and the calls in between); it
  only stops the operator's attempts and the time between them. Two companions
  let a composite call fail before, at and after each kind of profile.
* Three versions of the executor, one of them defective, and two targets are a
  repair that helps, one that does not, and one that must be refused; three
  deployments change the live tree before, between and after two repairs; two
  faults interrupt a repair and the one that follows.
* `MaxFailures` is one: the driver's own failure and the one inside its handler are
  two actions that start from the same places, and `HandlerFails` is enabled
  wherever the handler could be, so one failure reaches each exit. (The bound counts
  failures of one process; the proofs need none.) The lapse run has one
  adaptive run id and two of scripts: a run, the one that follows it, and a cleanup.
* `MaxAttempts` of the captures is two (a failure that counts and one that is the
  last) and the queue's limits are one or two, instead of the code's values; each
  counter is compared only with its limit. `MaxFaults` of the captures is one tick
  whose writes fail: the tick's own, its handler's, or both.
* The queue's `Setups` combine a mode, a pass and the disturbances (resumes, faults,
  manual runs) in pairs or alone, over two scenarios of which the second is
  promoted while the first runs. With a topology collector there is one scenario:
  the directory of the next one is another directory, and `CollectorMovesOn` says
  so.

`CHECK_DEADLOCK FALSE` is given where runs, jobs, a queue or a session come to an end.

Fairness. Coroutines, threads and subprocesses of the runner make progress (weak
fairness of the steps of each): asyncio runs what is ready, and the scenario
scripts have timeouts (`runner.py:750`). The calls of `profile-control.py` have none
(`production_runtime.py:846`, `903`), so nothing is fair about a task, or a tick of the
watchdog, that waits for one (`TaskInCall`, `WatchdogInCall`; `Calls` in
`AdaptiveRuntime`), and the properties name what is left then: a lapsed lease is
resolved unless the watchdog's own cleanup never returns, and a session's testbed
unless one of its calls does not. Two assumptions of this kind remain: in
`AdaptiveRuntime` the watchdog's cleanup of a dead process returns, and in `Capsule`
the operator's does. A lease nobody renews
lapses, and the watchdog polls. `TickDecides` and
`TickRecovers` in `RunLifecycle` are strongly fair: the session checks
`max_injection_duration_sec` and its recovery timeout against the clock at each
tick, and this clock is not in that module; `AdaptiveRuntime.TestbedIsResolved` and
`AdaptiveController.EveryRunEnds` check the same with the clock and weak fairness
only.

The commands of a capture have no timeout where the model is copied with `docker cp`
(`production_runtime.py:1099`) and where the export script runs (1170). So
`CaptureScheduler` has `Hangs`, after which the worker and its lock never move, and
`JobsEnd` and `LoopGetsOn` say what holds unless that happens: neither failures,
nor retries, nor writes that fail, nor other jobs keep a job or the event loop
waiting for ever.

In `LiveQueue` only the worker, the collector and the deadlines are fair. `Tick` and
`Records` are strongly fair because every other task's turn on the event loop, a
collection's for instance, disables them for a moment and gives the loop back.
Nothing says that a run, a lease or a capture ends: findings 1 and 3 are runs
whose end the queue never sees, and a capture may hang. `QueueSettles` therefore has
them as its premise (again and again no lease is held; again and again no good run's
capture is pending), and excepts the worker that has ended because `_pause` raised
in its handler (`live_queue.py:1826-1827`).

No action of an operator is fair, with one
exception: `Capsule.DirtyRunIsFreed` says what a repair achieves, so it assumes an
operator who asks for it again and again. New runs, crashes, faults, deployments
and changes of a model are never fair.

## 4. What is proved

Everything below holds for every value of the constants, from the named `ASSUME`
of the module alone (null values are not members of the sets they extend, limits
are natural numbers). Each invariant was first checked with TLC. Every safety
invariant and every action property of a passing run is among these results, and
so are both refinements.

**`CoordinatorProofs`.** `CoordinatorSafety`: `Spec => []CoordInv`, the conjunction
of `TypeOK`, `SingleOwner`, `ClaimNamesTarget` and `TokensIssued`. None of the
first three is inductive alone: `mark_dirty` keeps the claim and moves the target
from the lease to the DIRTY record, so that the claim still names the target needs
`SingleOwner`; `acquire` needs both to hand out a document without a claim. There is
one lemma per method, combined in `StepCoordInv` over `[Call]_coordVars`: the bound
on tokens is in `Next` and the proofs do not use it. From the invariant follow
`CoordinatorSingleOwner`, `CoordinatorClaims`, the action property
`CoordinatorFence`, and `CoordinatorRefinesOwnership` by `InitRefines` and
`StepRefines`, which names the abstract step of each method.

**`RunLifecycleProofs`.** The same results, for the composed process. The key lemma
is `StepCalls`: every step of runner, heartbeat, watchdog and environment is one
call of a coordinator method, with a token that was issued, or leaves the document
alone; so the lemmas of `CoordinatorProofs` apply to it. That the tokens were
issued is the inductive part: `RunInv` is `CoordInv`, `RunTypeOK` and three
conjuncts about the handles that the task, the watchdog's tick and `lease.json`
hold. `LifecycleSafety`, `LifecycleTypes`, `LifecycleSingleOwner`,
`LifecycleClaims`, `LifecycleFence`, `LifecycleRefinesOwnership`, and
`LifecycleNoForeignEnd`: nobody takes a lease away but its own run and the watchdog
under its own claim, with either kind of applier and any number of lapses and
crashes.

**`RunOwnershipProofs`.** What is injected, and whose it is. `OwnershipInv` is
`RunInv` and one conjunct for each thing that follows from where the task stands:
what kind of task takes which step (`Kinds`), that a cleanup has its claim until it
ends (`Claimed`), at which awaits a run's effect may still be there (`Applied`),
that an id not handed out has left nothing anywhere (`Used`), that a session that
ended CLEAN is on disk before its task concludes (`Saved`), and that a captured run
is CLEAN and not the coordinator's (`Captured`). It holds with any lapses and
crashes, and gives `CapturesAreOfCleanRuns` (`CapturedRunsAreClean`) without a
condition. The others do not hold without one: findings 1 to 3 are their
violations. The condition is a history variable, not a constant, so that each
theorem speaks of every behaviour up to the event that spoils it. The exits of the
driver's handler are part of every step these proofs go through: a run that was
called BLOCKED over a cleanup that failed is the one exception of `EffectIsOwned` and
is in `Unlapsed` as well (`OnlyMisjudged`), and a task that an exception has ended is
at `"lost"`, where it still holds the lease its heartbeats renew.

* while no lease has lapsed under a live process (`lapses = 0`), `Unlapsed` says that
  a leased task holds its lease, fresh, unclaimed and heartbeaten, until it concludes
  or claims the cleanup of its own failure; no call of it is refused. Hence
  `EffectsAreOwned` (`EffectIsOwned`: what is injected is the coordinator's, or was
  misjudged), `ReportedRunsAreAlive` (`ReportedRunIsAlive`: until a failure of the
  driver's handler or of opening the log, what is reported as running has a task that
  goes on) and, for behaviours without such a lapse,
  `ReportedDirtyRunsAreHeld` (`ReportedDirtyIsHeld`) and `DirtyRunsBlock`: the
  property that `lifecycle_forgotten` violates holds without a lapse, whatever
  crashes, so the lapse is the only way to finding 2.
* until the process has died (`crashes = 0`), `Attended` says that a claim which is
  not the watchdog's is the present task's, and that the watchdog, whose applier
  keeps the loop, finds the lease and its claim as it left them. Hence
  `ClaimsHaveLiveOwners` (`ClaimHasLiveOwner`), with any lapses. (With the applier that
  awaits, the property says nothing: the run may be marked DIRTY under the tick's
  feet.)

**`AdaptiveProofs`.** `AdaptiveSuccess` (`SuccessIsSafe`), `AdaptiveDanger`
(`DangerIsNotWaitedOn`), `AdaptiveLevels` (`LevelsRunOut`) and `AdaptiveTypes`, for
any conditions, gates, limits and readings. The invariant says that the danger
gates of an undecided controller are unconfirmed, which is what makes a
confirmation the event of one tick; the proof follows `Advance` branch by branch.
A second invariant, `AdaptiveEvidence`, is about the samples: those of a gate are a
sample gap apart, so that as many as it counts need as much time; what is pending of
the veto and of the escalation was seen after the hold, unless the abort gate or a
failed cleanup ended the run (until the hold is over, each tick empties both
streaks); a success whose signal cannot be told is held for two gaps. From it follow `SamplesAreSpaced` (`SamplesAreIndependent`),
`PendingIsSeenAfterTheHold` (`PendingEvidenceIsPostHold`) and
`SuccessIsHeldForLimitedTime` (`HeldEvidenceIsBounded`). That a gate's gap is the
smallest of a set of intervals needs a lemma: every such set has a least element.

**`AdaptiveRuntimeProofs`.** `CleanIsEmpty` (`CleanLeavesNothing`), `CleanWasSeen`
(`CleanIsVerified`), `LevelsFollow` (`LevelsDoNotOverlap`), `LevelsStartClean`,
`EndIsFinal` (`NoInjectionAfterTheEnd`) and `RuntimeTypes`, for any profiles, number
of levels and limits, with failing calls, a driver that fails, a handler that fails
too, with or without heartbeats after it, and a crash anywhere. `CleanLeavesNothing`
excepts the session that was `Misjudged`: given back, and not CLEAN.
`SessionInv` adds to the properties that the journal is ahead of the testbed (what
is live has an intent, whoever died in between), that an untouched session has
nothing on the testbed, where the driver may be in each status, what the recovery
has counted, and that recorded times do not lie ahead of the clock.

`RecordedEffects` (`EffectsStayOnRecord`) says that for a run that was given back, with
a document that names a level, every time with something on the testbed lies inside
an interval the clean-window check reads, unless a later level failed half way and
its cleanup too. It does not say that every effect is on record: without such a
document none is (finding 4). It is proved in three steps, which
are the parts of `RecordInv`. The session's own levels cover every such time, except
those of a level that was applied half way and never recorded (`InMemory`); the
documents are written later than the levels change, but have an open end for as
long as there may be effects (`Written`); and the reader of `CleanWindow` finds an
interval for every level of every document, and takes an open one to last for ever.
The assumption `Horizon + 4 <= Forever` says that the value which stands for "for
ever" is later than any time the model reaches (`Clock`).

**`CapsuleProofs`.** `CapsuleIsWhole` (`CapsuleStaysWhole`) and `CapsuleHistory`
(`HistoryIsComplete`). The invariant follows the swap: which files are already the
new ones at each of its steps, and that outside of it a capsule is whole unless a
fault hit inside one.

**`CaptureProofs`.** `CaptureModel` (`OneModelPerRun`), `CaptureCount`
(`ExportsAreAccountedFor`), `CaptureKeepsJobs` (`JobsAreKept`) and `CaptureTypes`.
`ExportsAreAccountedFor` is not inductive: `CaptureInv` counts exports exactly,
says that an open job has an attempt left, that a run is scheduled once, that
nothing is exported before the checkpoint, and that what a tick has read is what
is in the file until it writes, which is why two writers lose nothing.

**`LiveQueueProofs`.** For any setups, scenarios, retries, restarts and attempts, and
any crashes, resumes, raising ticks and manual runs. `QueueInv` is about the file
and the runs it speaks of: the cursor is inside the list until the last scenario is
settled and no later scenario was touched (`Cursor`); what each phase says of the
recorded run (`PhaseFits`); that run, and the one being started, are of the present
scenario (`OwnRun`); the queue lets go of a run that may still become a case only
with its scenario or when the operator resumes a cycle (`KeepsItsRun`); the done
runs are proven and captured and, with the skipped scenarios, are exactly what is
behind the cursor (`Done`); the runs of a scenario are bounded by the reasons
counted (`Accounted`); a marker of the collector belongs to a recorded run of the
present scenario (`Marked`).

* `DoneRunsAreProven` (`OnlyProvenRunsAreDone`) needs `PhaseFits` and `OwnRun`: the
  steps that settle a scenario look at the phase and the recorded run only.
* `ReRunsAreCounted` (`ReRunsAreAccountedFor`) is not inductive: a run that is in the
  file, or in `runner.start`, is one for which no reason has been counted yet, so
  the bound on the present scenario is tighter by one until there is such a run
  (`AtHand`).
* `AcceptedRunsStand` (`AcceptedRunIsNotRepeated`) needs `KeepsItsRun`: a v2 queue, even
  paused, keeps the run it has recorded, so the tick or resume that would start
  another one finds it.
* `CasesHaveTheirTopology` (`CaseHasItsTopology`) needs `Marked`: the run whose case is
  exported is the recorded one, so its directory has not been replaced, unless the
  operator resumed or the run was no good one; and its manifest lists it, unless a
  collection goes on beside the export or a fault interfered.
* `QueueRefinesSequence` (`ImplementsSequence`): every step of the queue settles the
  scenario at the cursor, appends to the list or changes between active and paused,
  or is a stutter of `ScenarioSequence`. `QueueTypes` is `TypeOK`.

**Only model-checked.** The liveness properties: `LapsedLeaseIsResolved` of the
lifecycle, `EveryRunEnds` of the controller, `TestbedIsResolved` of the runtime,
`DirtyRunIsFreed` of the capsule, `JobsEnd` and `LoopGetsOn` of the captures, and
`QueueSettles`. Fairness is stated with `ENABLED`, which the prover does not reason
about. The models define nothing by recursion, so no property needs induction over
data.

## 5. Findings

Each is a run TLC finds violated, with the sentence of the repository it
contradicts quoted in `PROJECT.json`.

1. `lifecycle_stranded`: a process that dies while a cleanup is claimed leaves the
   claim behind. The claim fences the watchdog of the next process out, and the
   lease is never released nor its run DIRTY (`coordinator.py:218`).
2. `lifecycle_forgotten`: the watchdog released the lapsed lease of a process that
   was only slow; when that run ends DIRTY, the coordinator refuses and the refusal
   is swallowed, so a new run starts beside the injection (`runner.py:1092`).
3. `lifecycle_hung`: in the same race a refused `release` leaves `_execute` by an
   exception, and the runner reports a running run until it is restarted
   (`runner.py:671`).
4. `runtime_window`: a run whose process dies half way through its first apply
   leaves the `timeline.json` of its capsule, with `"events": []`, and no other
   document. The clean-window check reads that as "no effect", so a window that
   holds the injection is found clean (`live_probes.py:2346`).
5. `adaptive_unreadable`: an observation whose reader raised carries no update
   interval, so evidence of success is dropped at once instead of being held for
   two intervals (`observations.py:193`).

The pass runs state what holds *besides* these: `EffectIsOwned` is checked with
crashes and without lapses, `ClaimHasLiveOwner` with lapses and without crashes, and
section 4 proves them under these conditions.
Further cases met while modelling, each an exemption in a property or a branch of
the model:

* A first level whose apply fails after a companion, and whose cleanup succeeds,
  ends CLEAN without a level change and without a recovery check
  (`adaptive_runtime.py:630-631` calls it untouched). `CleanIsVerified` speaks of
  sessions with a level.
* When the apply of a *later* level fails half way and its terminal cleanup too,
  the level before has its end on record already, so the end the operator's
  cleanup writes to `cleanup.json` is not read, although `runner.py:495-497` says it
  will be (exemption in `EffectsStayOnRecord`).
* When the driver fails while it writes down a first level that failed half way,
  and the cleanup had failed as well, its handler sees no level and calls the
  session BLOCKED (`runner.py:843`), and 671 releases the lease: the testbed is given
  back with a live injection and without any lapse, against the repository's
  `README.md:183`, by which a failed cleanup leaves the run DIRTY (`Misjudged`,
  exemption in `EffectIsOwned` and `CleanLeavesNothing`).
* An exception inside the driver's handler (`runner.py:840`, `868`, `873`) leaves
  `_execute` before 619 cancels the heartbeat task: the run is reported as running
  without a task, and its lease is renewed for as long as the process lives, so
  that the watchdog never claims it (`At("lost")` in `ReportedRunIsAlive`, the second
  disjunct of `TestbedIsResolved`). A log that cannot be opened (588) has the same
  end, and leaves a cleanup's claim behind (exemption in `ClaimHasLiveOwner`).
* A call of `profile-control.py` or a command of a capture that never returns holds
  its thread. A capture's worker also holds the flock of the jobs file, and the
  `schedule` of the next run waits for it on the event loop (`runner.py:968`), which
  stops the whole process (exemption in `JobsEnd` and `LoopGetsOn`); a cleanup of the
  watchdog keeps its claim, and in production the event loop (exemption in
  `LapsedLeaseIsResolved`).
* A worker of the queue whose `_pause` raises in the handler of its loop
  (`live_queue.py:1826-1827`) ends, with the queue still in an active phase (exemption
  in `QueueSettles`).
* The export of a capture runs beside the event loop, so a collection that goes on
  meanwhile adds snapshots that its manifest does not list yet, although
  `live_queue.py:1353-1355` speaks of a manifest that covers all (`"writing"` in
  `CaseHasItsTopology`).
* When `schedule` succeeds and `write_result` raises (`runner.py:968-971`), the run is
  not accepted and has a job: the queue restarts the cycle and wipes the snapshots
  its capture would take (`live_queue.py:1065`, `1357`; `~Proven` in
  `CaseHasItsTopology`).
* Resuming a cycle queue that was paused while a capture was pending wipes the
  topology directory the capture points at, and the case is exported with the next
  cycle's (`live_queue.py:1353-1357`, `production_runtime.py:1153-1155`; exemption in
  `CaseHasItsTopology`). The same resume injects again, although
  `live_queue.py:1128-1130` speaks of retrying only the capture: hence
  `AcceptedRunIsNotRepeated` is about the v2 queue.
* A fault inside the swap of a repair leaves a capsule that no later repair
  accepts (`interrupted` in `Capsule`); `runner.py:462` says that `plan.json` is
  untouched, while a repair replaces it.
* The repository's `README.md:217-219` says that each item proves success and capture
  before the next, and that the second item does not start before the first has
  passed that gate; a preflight skip moves on from any item, the first included,
  without a run (`skipped` in `OnlyProvenRunsAreDone`).
* A pause over a probe that raises leaves `preflight_attempts` (`live_queue.py:1498`)
  and `_probe_grace_since` (896) as they were: the resumed queue has what was left
  of them, not a fresh allowance.
* A run directory without documents is one open interval: a staging directory that
  a crash left behind (`production_runtime.py:204`), or the directory the watchdog
  makes for a script run, keeps every later window from being clean.

## 6. Not modelled

* Formatting, logging, history and the dry run; the catalogue and its validation;
  configuration switches and views; the frontend.
* Shell scripts and the testbed beyond exit codes and live effects; the metric,
  database, HTTP and Kubernetes readers of the live probes and of the preflight:
  what they read is an input of the models, how they read it is I/O.
* Freezing and thawing the trainer around a cycle: one external call each, whose
  failure is a disjunct of `TickNormal`, with no state the queue relies on later.
* Incident closing after an export: fail open, no state.
* The runs that `clean-window-excused.json` takes out of the clean-window check
  (`live_probes.py:1253-1256`): `Overlaps` is the check for a run without that file.
* The idempotency keys and the ledger of `profile-control.py`; two clocks.
* The registry and the poller of the observations; the times of `phases.json`.

## 7. Plan

Done: `TestbedOwnership` and `Coordinator`; `RunLifecycle`; `AdaptiveController` and
`AdaptiveRuntime`; `CaptureScheduler`; `LiveQueue` with `ScenarioSequence`,
`Preflight` and `TopologyCollector`; `Capsule`; `CleanWindow`; the proofs of section 4.

Left, in this order:

1. `Observations`: registry and poller, and the age of a reading when the controller
   sees it.
2. `ProfileApplier` with two clocks, the idempotency keys and the ledger of
   `profile-control.py`, shown to implement the abstract apply and cleanup of
   `AdaptiveRuntime`.
3. What a lapse leaves intact: which parts of `Unlapsed` hold again once the task that
   lost its lease has ended.
