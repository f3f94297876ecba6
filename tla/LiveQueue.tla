------------------------------ MODULE LiveQueue ------------------------------
(***************************************************************************)
(* The live queue (backend/app/live_queue.py): it takes the approved       *)
(* scenarios one after the other through injection and capture, either     *)
(* with a clean window between them (v2) or each in a cycle of its own     *)
(* with a golden reset, a normal lead-in, a buffer and a cooldown (cycle   *)
(* mode).                                                                  *)
(*                                                                         *)
(* Every operation holds the queue's lock from its read of live-queue.json *)
(* to its last write and is one step here, with one exception: a tick that *)
(* starts a run awaits runner.start, and records the run in a second step. *)
(*                                                                         *)
(* Of the runner, the coordinator and the capture scheduler the queue sees *)
(* what a run came to, whether a lease is held, whether a run is DIRTY and *)
(* how far a capture job is; RunLifecycle and CaptureScheduler have the    *)
(* detail.  Deadlines are reduced to whether they have come.               *)
(***************************************************************************)
EXTENDS Naturals, Sequences, FiniteSets, Preflight, TopologyCollector

CONSTANTS
    Setups,      \* how the process may be configured (CYCLE_MODE, SCENARIO_PASS,
                 \* TOPOLOGY_SNAPSHOT), each with bounds of the model: the scenarios
                 \* the registry ever approves, how often the operator resumes, the
                 \* process or a write fails, and the operator runs something himself
    MaxItems,    \* bound of the model: the most scenarios of any setup
    MaxRetries,  \* MAX_TRANSIENT_AUTO_RETRIES
    MaxAttempts, \* PREFLIGHT_MAX_ATTEMPTS
    MaxRestarts  \* MAX_CYCLE_RESTARTS

ASSUME QueueAssumption ==
    /\ Setups \subseteq [mode : {"v2", "cycle"}, pass : {"dataset", "smoke"},
                       topology : BOOLEAN, items : 1..MaxItems, resumes : Nat, faults : Nat, manuals : Nat]
    /\ MaxItems \in Nat \ {0} /\ MaxAttempts \in Nat \ {0}
    /\ MaxRetries \in Nat /\ MaxRestarts \in Nat

VARIABLES
    setup,      \* how the process is configured
    listed,     \* the registry approves scenarios 1..listed
    queue,      \* live-queue.json
    worker,     \* the task of _loop has not ended by an exception
    starting,   \* the run whose start a tick awaits, or 0
    runs,       \* the runs of this queue, in order: item, what became of it, its
                \* capture job, and whether the queue recorded its start
    current,    \* the run runner.get_current() reports, or 0 for any other
    dirty,      \* the coordinator holds a DIRTY run
    manual,     \* a run of the operator's own holds the lease, or did when it died
    resumes, faults, manuals

world == <<runs, current, dirty, manual>>
counters == <<resumes, faults, manuals>>
queueVars == <<setup, listed, queue, worker, starting, world, counters, topologyVars>>

Items == 1..MaxItems
Cycle == setup.mode = "cycle"
Captures == setup.pass = "dataset"

ActivePhases ==
    IF Cycle THEN {"cycle_reset", "cycle_normal", "cycle_buffer", "running",
                   "cycle_cooldown", "waiting_capture"}
    ELSE {"running", "waiting_capture", "waiting_clean_window"}
Active == queue.phase \in ActivePhases

\* LiveQueueState.  "waiting": the deadline of the phase, or of the next
\* recheck, has not come.
NoQueue ==
    [phase |-> "idle", items |-> 0, next |-> 0, run |-> 0, done |-> <<>>,
     skipped |-> {}, retries |-> [i \in Items |-> 0],
     restarts |-> [i \in Items |-> 0], attempts |-> 0, waiting |-> FALSE]

Item(q) == q.next + 1

Init ==
    /\ setup \in Setups
    /\ listed = 1 /\ queue = NoQueue /\ worker = TRUE /\ starting = 0
    /\ runs = <<>> /\ current = 0 /\ dirty = FALSE /\ manual = FALSE
    /\ resumes = 0 /\ faults = 0 /\ manuals = 0
    /\ TopologyInit

\* runner.is_busy, or a lease: of a run, of one a dead process left behind, or
\* of the operator's.
Live == {r \in DOMAIN runs : runs[r].end \in {"going", "orphan"}}
Leased == manual \/ Live # {}

\* _controller_evidence_error: CLEAN, SUCCEEDED and published in result.json.
\* (Only a CLEAN session is published, so "did not recover cleanly" cannot be
\* told from evidence that is missing.)
Proven(r) == runs[r].end = "accepted"

-----------------------------------------------------------------------------
\* What ticks and operations do to the file.
Stays == UNCHANGED <<world, starting>>

Pauses(q) == queue' = [q EXCEPT !.phase = "paused"] /\ Stays
Completes(q) ==
    queue' = [q EXCEPT !.phase = "completed", !.run = 0, !.waiting = FALSE] /\ Stays
Waits(q) == queue' = q /\ Stays

\* runner.start has returned: the run holds the lease and is the current one.
Starts(q) ==
    /\ queue' = q
    /\ runs' = Append(runs, [item |-> Item(q), end |-> "going", job |-> "none", kept |-> FALSE])
    /\ starting' = Len(runs')
    /\ current' = starting'
    /\ UNCHANGED <<dirty, manual>>

\* Mutant: the list goes on when the captured run was its last.
SettledOpenEnded(q, next) == queue' = next /\ Stays

\* The present scenario is done with: on to the next one, or the end.
Settled(q, next) ==
    IF q.next + 1 >= q.items THEN Completes(next)
    ELSE queue' = next /\ Stays

-----------------------------------------------------------------------------
\* The v2 queue.

\* _append_promoted_if_available: a registry that cannot be read now is tried
\* again with the next tick.
Refreshed == IF Cycle THEN {queue} ELSE {queue, [queue EXCEPT !.items = listed]}

Skipped(q) ==
    [q EXCEPT !.next = @ + 1, !.skipped = @ \cup {Item(q)}, !.attempts = 0, !.waiting = FALSE]

\* Mutant: a recheck does not count as an attempt.
RecheckUncounted(q) == queue' = [q EXCEPT !.waiting = TRUE] /\ Stays

Recheck(q) ==
    queue' = [q EXCEPT !.attempts = @ + 1, !.waiting = TRUE] /\ Stays

LastAttempt(q) == q.attempts + 1 >= MaxAttempts

\* _preflight_gate: a verdict that is not clean is looked at again, and after
\* the last attempt the scenario is skipped; a probe that raises shares the
\* attempts, and after the last one the queue pauses, its count as it was.
GateIsDirty(q) ==
    /\ ~q.waiting
    /\ IF LastAttempt(q)
       THEN Settled(q, Skipped(q))
       ELSE Recheck(q)
GateRaises(q) ==
    /\ ~q.waiting
    /\ IF LastAttempt(q) THEN Pauses(q) ELSE Recheck(q)
GateIsClean(q) == ~q.waiting

\* _tick_running without a run.  A start may be put off over midnight, may
\* find no golden state to restore, and may be refused by the runner.
TickStarts(q) ==
    /\ q.phase = "running" /\ q.run = 0
    /\ IF q.next >= q.items THEN Completes(q)
       ELSE IF Leased THEN Waits(q)
       ELSE \/ Waits(q)
            \/ \E s \in Signals, judged \in {"clean", "dirty", "absent"}, swept \in BOOLEAN :
                 IF Clean(AfterSweep(s, swept), judged)
                 THEN GateIsClean(q) /\ (Pauses(q) \/ Starts(q))
                 ELSE GateIsDirty(q)
            \/ GateRaises(q)

\* Mutant: a retry is not counted.
RetriedUncounted(q) ==
    \E early \in BOOLEAN :
        queue' = [q EXCEPT !.phase = "waiting_clean_window", !.run = 0, !.waiting = early]

\* Mutant: one retry too many.
RetriesLeftOffByOne(q) == q.retries[Item(q)] <= MaxRetries

RetriesLeft(q) == q.retries[Item(q)] < MaxRetries

\* The automatic retry of a transient failure, after a clean window of its own.
Retried(q) ==
    \E early \in BOOLEAN :
        queue' = [q EXCEPT !.phase = "waiting_clean_window", !.run = 0,
                           !.retries[Item(q)] = @ + 1, !.waiting = early]

\* What get_current() says of the queue's run; it says nothing of a run of an
\* earlier process, or when the operator has run something since.
Reported(q) == current = q.run
StillGoing(q) ==
    IF Reported(q) THEN runs[q.run].end = "going" ELSE Leased
ReportedBad(q) == Reported(q) /\ runs[q.run].end \in {"failed", "dirty"}

\* Mutant: the run's status is taken for its evidence.
TickFollowsStatus(q) ==
    /\ q.phase = "running" /\ q.run # 0
    /\ IF StillGoing(q) THEN Waits(q)
       ELSE IF ReportedBad(q) THEN Pauses(q)
       ELSE queue' = [q EXCEPT !.phase = "waiting_capture"] /\ Stays

\* _tick_running with a run.
TickFollows(q) ==
    /\ q.phase = "running" /\ q.run # 0
    /\ IF StillGoing(q) THEN Waits(q)
       ELSE IF ReportedBad(q) THEN Pauses(q)
       ELSE IF ~Proven(q.run)
       THEN IF runs[q.run].end = "transient" /\ RetriesLeft(q)
            THEN Retried(q) /\ Stays
            ELSE Pauses(q)
       ELSE IF Captures /\ runs[q.run].job = "none" THEN Pauses(q)
       ELSE queue' = [q EXCEPT !.phase = "waiting_capture"] /\ Stays

\* The capture is complete, or the pass captures nothing.
Captured(q) == Captures => runs[q.run].job = "completed"
CaptureFailed(q) == Captures /\ runs[q.run].job = "failed"

\* _tick_capture.
TickCapture(q) ==
    /\ q.phase = "waiting_capture"
    /\ IF CaptureFailed(q) THEN Pauses(q)
       ELSE IF ~Captured(q) THEN Waits(q)
       ELSE \E early \in BOOLEAN :
              Settled(q, [q EXCEPT !.phase = "waiting_clean_window", !.run = 0,
                                   !.next = @ + 1, !.done = Append(@, q.run),
                                   !.waiting = early])

\* _tick_clean_window.  What is not ready besides the lease pauses the queue,
\* a probe only after three minutes.
TickCleanWindow(q) ==
    /\ q.phase = "waiting_clean_window"
    /\ IF q.waiting THEN Waits(q)
       ELSE \/ Waits(q) \/ Pauses(q)
            \/ ~Leased /\ queue' = [q EXCEPT !.phase = "running"] /\ Stays

TickV2(q) == TickStarts(q) \/ TickFollows(q) \/ TickCapture(q) \/ TickCleanWindow(q)

-----------------------------------------------------------------------------
\* The cycle queue.
Rewound(q) == [q EXCEPT !.phase = "cycle_reset", !.run = 0, !.waiting = FALSE]

\* _restart_cycle.
Restarts(q) ==
    IF q.restarts[Item(q)] >= MaxRestarts THEN Pauses(q)
    ELSE queue' = [Rewound(q) EXCEPT !.restarts[Item(q)] = @ + 1] /\ Stays

\* The golden state is restored, which may fail.
TickReset(q) ==
    /\ q.phase = "cycle_reset"
    /\ IF q.next >= q.items THEN Completes(q)
       ELSE IF Leased THEN Waits(q)
       ELSE \/ Pauses(q)
            \/ queue' = [q EXCEPT !.phase = "cycle_normal", !.run = 0, !.waiting = TRUE] /\ Stays

\* The stack may turn out unhealthy at any time; the trainer is frozen at the
\* end, which may fail.
TickNormal(q) ==
    /\ q.phase = "cycle_normal"
    /\ \/ Restarts(q)
       \/ q.waiting /\ Waits(q)
       \/ ~q.waiting /\ Pauses(q)
       \/ /\ ~q.waiting
          /\ queue' = [q EXCEPT !.phase = "cycle_buffer", !.attempts = 0, !.waiting = TRUE]
          /\ Stays

TickBuffer(q) ==
    /\ q.phase = "cycle_buffer"
    /\ IF Leased \/ q.waiting THEN Waits(q)
       ELSE \/ Pauses(q)
            \/ \E s \in Signals, judged \in {"clean", "dirty", "absent"}, swept \in BOOLEAN :
                 IF Clean(AfterSweep(s, swept), judged) THEN Starts(q) ELSE Restarts(q)
            \/ Restarts(q)

TickCycleRunning(q) ==
    /\ q.phase = "running"
    /\ IF StillGoing(q) THEN Waits(q)
       ELSE IF ReportedBad(q) /\ runs[q.run].end = "dirty" THEN Pauses(q)
       ELSE IF ReportedBad(q) \/ ~Proven(q.run) THEN Restarts(q)
       ELSE IF Captures /\ runs[q.run].job = "none" THEN Pauses(q)
       ELSE \E early \in BOOLEAN :
              queue' = [q EXCEPT !.phase = "cycle_cooldown", !.waiting = early] /\ Stays

TickCooldown(q) ==
    /\ q.phase = "cycle_cooldown"
    /\ IF q.waiting THEN Waits(q)
       ELSE queue' = [q EXCEPT !.phase = "waiting_capture"] /\ Stays

TickCycleCapture(q) ==
    /\ q.phase = "waiting_capture"
    /\ IF CaptureFailed(q) THEN Pauses(q)
       ELSE IF ~Captured(q) THEN Waits(q)
       ELSE Settled(q, [Rewound(q) EXCEPT !.next = @ + 1, !.done = Append(@, q.run)])

TickCycle(q) ==
    \/ TickReset(q) \/ TickNormal(q) \/ TickBuffer(q)
    \/ TickCycleRunning(q) \/ TickCooldown(q) \/ TickCycleCapture(q)

-----------------------------------------------------------------------------
\* The topology collector lives from a cycle's reset to its end, whichever end
\* that is.
CollectorFollows ==
    IF ~setup.topology THEN UNCHANGED topologyVars
    ELSE IF queue'.next > queue.next THEN CollectorMovesOn
    ELSE IF queue.phase = "cycle_reset" /\ queue'.phase = "cycle_normal"
    THEN CollectorStarts({r \in DOMAIN runs : runs[r].item = Item(queue)})
    ELSE IF queue'.phase \in {"paused", "completed", "cycle_reset"} THEN CollectorStops
    ELSE UNCHANGED topologyVars

\* The worker.
Tick ==
    /\ worker /\ Active /\ starting = 0 /\ CollectorHasRun
    /\ IF dirty THEN Pauses(queue)
       ELSE \E q \in Refreshed : IF Cycle THEN TickCycle(q) ELSE TickV2(q)
    /\ CollectorFollows
    /\ UNCHANGED <<setup, worker, listed, counters>>

\* The second half of a tick that has started a run.
Records ==
    /\ starting # 0 /\ LoopIsFree
    /\ queue' = [queue EXCEPT !.phase = "running", !.run = starting,
                              !.attempts = 0, !.waiting = FALSE]
    /\ runs' = [runs EXCEPT ![starting].kept = TRUE]
    /\ starting' = 0
    /\ Marks(starting)
    /\ UNCHANGED <<setup, worker, listed, current, dirty, manual, counters>>

\* A tick raises, also between the start of a run and its record: the worker
\* pauses the queue as the file has it, or ends when that raises too.
TickRaises ==
    /\ worker /\ Active /\ faults < setup.faults /\ LoopIsFree
    /\ \/ queue' = [queue EXCEPT !.phase = "paused"] /\ CollectorStops /\ UNCHANGED worker
       \/ worker' = FALSE /\ (CollectorStops \/ UNCHANGED topologyVars) /\ UNCHANGED queue
    /\ starting' = 0
    /\ faults' = faults + 1
    /\ UNCHANGED <<setup, listed, world, resumes, manuals>>

\* The collector runs on its own between the worker's ticks.
Collects ==
    /\ CollectionBegins \/ CollectionEnds
    /\ UNCHANGED <<setup, worker, listed, queue, starting, world, counters>>
CollectRaises ==
    /\ CollectionFails /\ faults < setup.faults
    /\ faults' = faults + 1
    /\ UNCHANGED <<setup, worker, listed, queue, starting, world, resumes, manuals>>

\* The process dies, and the next one ticks on from the file.
Crash ==
    /\ faults < setup.faults
    /\ faults' = faults + 1
    /\ worker' = TRUE /\ starting' = 0 /\ current' = 0
    /\ runs' = [r \in DOMAIN runs |->
                  IF runs[r].end = "going" THEN [runs[r] EXCEPT !.end = "orphan"] ELSE runs[r]]
    /\ CollectorDies
    /\ UNCHANGED <<setup, listed, queue, dirty, manual, resumes, manuals>>

-----------------------------------------------------------------------------
\* The operator.
Ready == ~Leased /\ ~dirty /\ LoopIsFree
EnsuresWorker == worker' = TRUE

\* start().  A cycle queue may be started for the first approved scenarios only.
\* The runs of an earlier queue are not looked at any more.
Start ==
    /\ queue.phase \in {"idle", "completed"} /\ Ready
    /\ \E n \in IF Cycle THEN 1..listed ELSE {listed} :
         queue' = [NoQueue EXCEPT !.phase = IF Cycle THEN "cycle_reset" ELSE "running",
                                  !.items = n]
    /\ runs' = <<>> /\ current' = 0
    /\ CollectorMovesOn
    /\ EnsuresWorker
    /\ UNCHANGED <<setup, listed, starting, dirty, manual, counters>>

\* Mutant: a capture that has not failed is no reason not to run again.
ResumesAgain(r) == FALSE

\* The run of the paused scenario is good and its capture is not lost.
CaptureCanResume(r) ==
    /\ r # 0 /\ Proven(r)
    /\ runs[r].job \in {"pending", "completed"}

\* resume().  The list must be the registry's; a scenario that has been run is
\* run again after a clean window, if it is known when its run has ended.
Resumed ==
    LET again == [queue EXCEPT !.phase = "running", !.run = 0,
                               !.waiting = @ /\ queue.run = 0 /\ queue.attempts > 0]
    IN  IF Cycle THEN {[Rewound(queue) EXCEPT !.restarts = [i \in Items |-> 0]]}
        ELSE IF CaptureCanResume(queue.run)
        THEN {[queue EXCEPT !.phase = "waiting_capture"]}
        ELSE IF queue.run = 0 THEN {again}
        ELSE {again} \cup
             {[again EXCEPT !.phase = "waiting_clean_window", !.waiting = early] :
                early \in BOOLEAN}

Resume ==
    /\ queue.phase = "paused" /\ Ready /\ resumes < setup.resumes
    /\ ~Cycle => queue.items = listed
    /\ queue' \in Resumed
    /\ resumes' = resumes + 1
    /\ EnsuresWorker
    /\ UNCHANGED <<setup, listed, starting, world, faults, manuals, topologyVars>>

Cancel ==
    /\ queue.phase = "paused" /\ LoopIsFree
    /\ Completes(queue)
    /\ UNCHANGED <<setup, worker, listed, counters, topologyVars>>

\* append_promoted().
AppendPromoted ==
    /\ queue.phase \notin {"idle", "completed"} /\ starting = 0 /\ LoopIsFree
    /\ queue' = [queue EXCEPT !.items = listed]
    /\ Stays
    /\ EnsuresWorker
    /\ UNCHANGED <<setup, listed, counters, topologyVars>>

\* The registry: scenarios are only added at the end.
Promote ==
    /\ listed < setup.items
    /\ listed' = listed + 1
    /\ UNCHANGED <<setup, worker, queue, starting, world, counters, topologyVars>>

\* The operator runs something himself, and what he leaves DIRTY he cleans.
ManualStarts ==
    /\ Ready /\ manuals < setup.manuals
    /\ manual' = TRUE /\ current' = 0 /\ manuals' = manuals + 1
    /\ UNCHANGED <<setup, worker, listed, queue, starting, runs, dirty, resumes, faults, topologyVars>>
ManualEnds ==
    /\ manual /\ LoopIsFree
    /\ manual' = FALSE /\ dirty' \in BOOLEAN
    /\ UNCHANGED <<setup, worker, listed, queue, starting, runs, current, counters, topologyVars>>
DirtyCleaned ==
    /\ dirty /\ LoopIsFree
    /\ dirty' = FALSE /\ current' = 0
    /\ UNCHANGED <<setup, worker, listed, queue, starting, runs, manual, counters, topologyVars>>

-----------------------------------------------------------------------------
\* The runner and the captures.
EndsAs(r, end, job) ==
    /\ runs' = [runs EXCEPT ![r].end = end, ![r].job = job]
    /\ dirty' = (dirty \/ end = "dirty")
    /\ UNCHANGED <<setup, worker, listed, queue, starting, current, manual, resumes, manuals, topologyVars>>

\* An accepted run has its capture scheduled, and its result is written then: a
\* run whose result is not written has failed, and leaves a capture behind.  Of the
\* others, a transient one is reported as succeeded like an accepted one.
RunEnds(r) ==
    /\ runs[r].end = "going" /\ LoopIsFree
    /\ \/ /\ \/ EndsAs(r, "accepted", IF Captures THEN "pending" ELSE "none")
             \/ \E end \in {"transient", "failed", "dirty"} : EndsAs(r, end, "none")
          /\ UNCHANGED faults
       \/ /\ Captures /\ EndsAs(r, "failed", "pending")
          /\ faults < setup.faults /\ faults' = faults + 1

\* The watchdog ends the lease of a run whose process is gone.  (The process may
\* have gone before the result was written.)
OrphanEnds(r) ==
    /\ runs[r].end = "orphan" /\ LoopIsFree
    /\ \/ \E end \in {"transient", "failed", "dirty"} : EndsAs(r, end, "none")
       \/ Captures /\ EndsAs(r, "failed", "pending")
    /\ UNCHANGED faults

\* A capture ends, whose export has read the topology directory: it runs in a
\* thread, also while a collection is going on.
JobEnds(r) ==
    /\ runs[r].job = "pending"
    /\ \E job \in {"completed", "failed"} : runs' = [runs EXCEPT ![r].job = job]
    /\ UNCHANGED <<setup, worker, listed, queue, starting, current, dirty, manual, counters, topologyVars>>

\* The deadline comes.
TimePasses ==
    /\ queue.waiting /\ starting = 0
    /\ queue' = [queue EXCEPT !.waiting = FALSE]
    /\ UNCHANGED <<setup, worker, listed, starting, world, counters, topologyVars>>

Operator ==
    \/ Start \/ Resume \/ Cancel \/ AppendPromoted \/ Promote
    \/ ManualStarts \/ DirtyCleaned
Runner == \E r \in DOMAIN runs : RunEnds(r) \/ OrphanEnds(r)

Next ==
    \/ Tick \/ Records \/ TickRaises \/ Collects \/ CollectRaises \/ Crash \/ Operator
    \/ ManualEnds \/ Runner \/ TimePasses
    \/ \E r \in DOMAIN runs : JobEnds(r)

\* The worker polls, deadlines come, and between two collections the event loop
\* has its turn.  Nothing says that a run, a lease or a capture ends: RunLifecycle
\* and CaptureScheduler show when they do not.
Spec ==
    /\ Init /\ [][Next]_queueVars
    /\ SF_queueVars(Tick) /\ SF_queueVars(Records)
    /\ WF_queueVars(Collects) /\ WF_queueVars(TimePasses)

-----------------------------------------------------------------------------
(* Properties *)

Phases == {"idle", "paused", "completed"} \cup ActivePhases

Runs ==
    [item : Items, kept : BOOLEAN,
     end : {"going", "orphan", "accepted", "transient", "failed", "dirty"},
     job : {"none", "pending", "completed", "failed"}]

\* Every document the queue writes is one that LiveQueueState accepts when it is
\* read back: a rejected document would stop the worker for good.
TypeOK ==
    /\ queue.phase \in Phases /\ queue.items \in 0..MaxItems /\ queue.next \in 0..queue.items
    /\ queue.run \in 0..Len(runs) /\ starting \in 0..Len(runs) /\ current \in 0..Len(runs)
    /\ \A r \in DOMAIN runs : runs[r] \in Runs
    /\ queue.skipped \subseteq 1..queue.items
    /\ Len(queue.done) <= queue.next
    /\ queue.attempts \in 0..MaxAttempts
    /\ queue.retries \in [Items -> 0..MaxRetries]
    /\ queue.restarts \in [Items -> 0..MaxRestarts]
    /\ {i \in Items : queue.retries[i] + queue.restarts[i] > 0} \subseteq 1..queue.items
    /\ {queue.waiting, worker, dirty, manual, collecting} \subseteq BOOLEAN
    /\ bundle \in {"absent", "writing", "partial", "listed"}
    /\ lost \subseteq marked /\ marked \subseteq DOMAIN runs

\* Whatever is retried, restarted, resumed or lost, the queue's record of what
\* is done is true: each scenario behind the cursor was either skipped or is
\* done by a run of its own whose evidence is good and whose case is captured.
OnlyProvenRunsAreDone ==
    /\ \A k \in DOMAIN queue.done :
         /\ Proven(queue.done[k])
         /\ Captures => runs[queue.done[k]].job = "completed"
    /\ LET settled == {runs[queue.done[k]].item : k \in DOMAIN queue.done}
       IN  /\ settled \cup queue.skipped = 1..queue.next
           /\ settled \cap queue.skipped = {}
           /\ Cardinality(settled) = Len(queue.done)

\* A scenario is injected once, and once more only for a counted retry or
\* restart, for the operator's resume (which in cycle mode grants a new budget
\* of restarts), or for a start that a fault made the queue forget.
ReRunsAreAccountedFor ==
    \A i \in Items :
        Cardinality({r \in DOMAIN runs : runs[r].item = i}) <=
            1 + queue.retries[i] + queue.restarts[i] + faults
              + resumes * (IF Cycle THEN MaxRestarts + 1 ELSE 1)

\* The v2 queue never runs a scenario again whose recorded run is good and is
\* being captured or captured: not by a retry, and not when the operator resumes
\* a queue that was paused over something else.
AcceptedRunIsNotRepeated ==
    [][ ~Cycle /\ Len(runs') > Len(runs) =>
          \A r \in DOMAIN runs :
              runs[r].item = runs'[Len(runs')].item /\ runs[r].kept /\ Proven(r) =>
                  runs[r].job \in {"none", "failed"} ]_queueVars

\* The case of a good run is exported with the snapshots of its own cycle, unless
\* the operator has resumed a queue that was paused while its capture was pending:
\* no restart wipes the directory the capture still points at.  And the manifest
\* of any case describes its snapshots, but for what a collection that is going
\* on beside the export has written.
CaseHasItsTopology ==
    [][ \A r \in DOMAIN runs \cap DOMAIN runs' :
          /\ runs[r].job = "pending" /\ runs'[r].job = "completed"
          /\ r \in marked
          => IF r \in lost THEN resumes > 0 \/ ~Proven(r)
             ELSE bundle \in {"listed", "writing"} \/ faults > 0 ]_queueVars

\* The queue is a sequence of scenarios settled in order, whatever the phases,
\* retries and restarts it goes through.
Sequence == INSTANCE ScenarioSequence WITH
    state <- CASE Active -> "active"
               [] queue.phase = "completed" -> "closed"
               [] OTHER -> queue.phase,
    size <- queue.items,
    outcomes <- [k \in 1..queue.next |-> IF k \in queue.skipped THEN "skipped" ELSE "done"]
ImplementsSequence == Sequence!Spec

\* As long as no lease is held and no capture of a good run goes on for ever, an
\* active queue comes to its end or stops for the operator, unless its worker has
\* ended: no combination of rechecks, retries, restarts and clean windows keeps it
\* going for ever.
QueueSettles ==
    /\ []<>~Leased
    /\ []<>(\A r \in DOMAIN runs : Proven(r) => runs[r].job # "pending")
    => (Active ~> (~Active \/ ~worker))
=============================================================================
