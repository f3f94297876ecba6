-------------------------- MODULE CaptureScheduler --------------------------
(***************************************************************************)
(* Capture of accepted runs: CaptureScheduler                              *)
(* (backend/app/capture_orchestration.py), the loop that ticks it and the  *)
(* place that feeds it (runner.py), and what ProductionCaptureInvoker does *)
(* (production_runtime.py).                                                *)
(*                                                                         *)
(* Two threads.  The event loop concludes runs and schedules their jobs,   *)
(* and starts the ticks; a tick runs in a worker thread and holds the lock *)
(* of capture-jobs.json from its read of the file to its last write, the   *)
(* export itself included.  schedule() needs the same lock and is called   *)
(* on the event loop.                                                      *)
(*                                                                         *)
(* Times are reduced to two facts about a job: capture_end has not come,   *)
(* next_retry_at has not come.                                             *)
(***************************************************************************)
EXTENDS Naturals, Sequences

CONSTANTS
    Runs,        \* runs that succeed and end CLEAN
    Evaluations, \* the ones in evaluation mode
    MaxAttempts, \* MAX_CAPTURE_ATTEMPTS
    MaxDrift,    \* bound of the model: changes of the live model
    MaxCrashes,  \* bound of the model: crashes of the process
    MaxFaults    \* bound of the model: ticks with a write of the file that fails

ASSUME CaptureAssumption ==
    /\ Evaluations \subseteq Runs
    /\ MaxAttempts \in Nat \ {0} /\ MaxDrift \in Nat
    /\ MaxCrashes \in Nat /\ MaxFaults \in Nat

VARIABLES
    jobs,       \* capture-jobs.json
    early,      \* runs whose capture_end has not come
    resting,    \* runs whose next_retry_at has not come
    result,     \* runs with a result.json
    checkpoint, \* model.json of each run: the version of the model, or None
    exports,    \* the models the successful exports of a run were made with
    ended,      \* runs that have ended
    loop,       \* what the event loop is in the middle of
    worker,     \* the capture task and the tick it waits for
    seen,       \* the state read by the tick
    model,      \* version of the live model
    crashes,
    faults      \* ticks with a write of the file that has failed

files == <<jobs, result, checkpoint, exports>>
clock == <<early, resting>>
captureVars == <<files, clock, ended, loop, worker, seen, model, crashes, faults>>

NoJob == [status |-> "absent", attempts |-> 0]
None == MaxDrift + 1
Idle == [at |-> "idle"]
NoWorker == [at |-> "none"]
Listing == [at |-> "listing"]

Finished(job) == job.status \in {"completed", "failed"}
Pending == {r \in Runs : jobs[r].status \in {"pending", "model_requested"}}

Init ==
    /\ jobs = [r \in Runs |-> NoJob]
    /\ early = {} /\ resting = {} /\ result = {} /\ ended = {}
    /\ checkpoint = [r \in Runs |-> None]
    /\ exports = [r \in Runs |-> <<>>]
    /\ loop = Idle /\ worker = Listing /\ seen = jobs
    /\ model = 0 /\ crashes = 0 /\ faults = 0

\* Mutant: the lock is kept from one tick to the next.
LockedForTheRound ==
    worker.at \in {"ticks", "model", "checkpointed", "stores", "exported", "hung"}

\* flock: held for as long as a tick is past its read.
Locked == worker.at \in {"model", "checkpointed", "stores", "exported", "hung"}

-----------------------------------------------------------------------------
\* The event loop: _schedule_capture, after a run has ended CLEAN.  There is
\* no await in it: while it waits for the lock nothing else runs on the loop.
RunEnds(r) ==
    /\ loop = Idle /\ r \notin ended
    /\ ended' = ended \cup {r}
    /\ loop' = [at |-> "schedule", run |-> r]
    /\ UNCHANGED <<files, clock, worker, seen, model, crashes, faults>>

\* Mutant: the file is rewritten without the lock.
ScheduleUnlocked ==
    /\ loop.at = "schedule"
    /\ jobs' = [jobs EXCEPT ![loop.run] = [NoJob EXCEPT !.status = "pending"]]
    /\ early' \in {early, early \cup {loop.run}}
    /\ loop' = [loop EXCEPT !.at = "result"]
    /\ UNCHANGED <<resting, result, checkpoint, exports, ended, worker, seen, model, crashes, faults>>

\* schedule().  A long recovery may have used up the window after t2.
Schedule ==
    /\ loop.at = "schedule" /\ ~Locked
    /\ jobs' = [jobs EXCEPT ![loop.run] = [NoJob EXCEPT !.status = "pending"]]
    /\ early' \in {early, early \cup {loop.run}}
    /\ loop' = [loop EXCEPT !.at = "result"]
    /\ UNCHANGED <<resting, result, checkpoint, exports, ended, worker, seen, model, crashes, faults>>

\* Mutant: the worker is started with the process only.
WriteResultOnly ==
    /\ loop.at = "result"
    /\ result' = result \cup {loop.run}
    /\ loop' = Idle
    /\ UNCHANGED <<jobs, checkpoint, exports, clock, ended, worker, seen, model, crashes, faults>>

\* write_result, then ensure_capture_worker.
WriteResult ==
    /\ loop.at = "result"
    /\ result' = result \cup {loop.run}
    /\ loop' = Idle
    /\ worker' = IF worker = NoWorker THEN Listing ELSE worker
    /\ UNCHANGED <<jobs, checkpoint, exports, clock, ended, seen, model, crashes, faults>>

\* It raises before the job is scheduled, or before the result is written: the
\* run is reported failed and the worker is not looked after.
ScheduleCaptureFails ==
    /\ \/ loop.at = "schedule" /\ ~Locked
       \/ loop.at = "result"
    /\ loop' = Idle
    /\ UNCHANGED <<files, clock, ended, worker, seen, model, crashes, faults>>

\* _capture_loop: the unfinished jobs, one tick each; without any, the task
\* is done.
List ==
    /\ loop = Idle /\ worker = Listing
    /\ worker' = IF Pending = {} THEN NoWorker ELSE [at |-> "ticks", todo |-> Pending]
    /\ UNCHANGED <<files, clock, ended, loop, seen, model, crashes, faults>>

NextTick(todo) == IF todo = {} THEN Listing ELSE [at |-> "ticks", todo |-> todo]

-----------------------------------------------------------------------------
\* The worker thread: tick().
\* Mutant: the export is due as soon as it is scheduled.
DueAtOnce(r) == r \notin resting

Due(r) == r \notin early \cup resting

TickWaits(r) ==
    /\ loop = Idle /\ worker.at = "ticks" /\ r \in worker.todo
    /\ Finished(jobs[r]) \/ ~Due(r)
    /\ worker' = NextTick(worker.todo \ {r})
    /\ UNCHANGED <<files, clock, ended, loop, seen, model, crashes, faults>>

TickStarts(r) ==
    /\ loop = Idle /\ worker.at = "ticks" /\ r \in worker.todo
    /\ ~Finished(jobs[r]) /\ Due(r)
    /\ seen' = jobs
    /\ worker' = [at |-> IF jobs[r].status = "pending" THEN "model" ELSE "stores",
                  run |-> r, todo |-> worker.todo \ {r}]
    /\ UNCHANGED <<files, clock, ended, loop, model, crashes, faults>>

\* _write: the whole state as the tick knows it.
Writes(job) ==
    /\ seen' = [seen EXCEPT ![worker.run] = job]
    /\ jobs' = seen'

\* The handler of tick(), job being what the tick has made of it: one more
\* attempt, and a pause unless it was the last.
CountsFailure(job) ==
    LET attempts == job.attempts + 1
        terminal == attempts >= MaxAttempts
    IN  /\ Writes([status |-> IF terminal THEN "failed" ELSE job.status,
                   attempts |-> attempts])
        /\ resting' = IF terminal THEN resting \ {worker.run} ELSE resting \cup {worker.run}
        /\ worker' = NextTick(worker.todo)

\* The handler's own write fails: nothing of the tick is on record, and the next
\* one does it all again.
LosesFailure ==
    /\ worker' = NextTick(worker.todo)
    /\ UNCHANGED <<jobs, seen, resting>>

\* A call of the invoker fails.
Fails ==
    \/ CountsFailure(seen[worker.run]) /\ UNCHANGED faults
    \/ faults < MaxFaults /\ faults' = faults + 1 /\ LosesFailure

\* A write of the tick fails, and then its handler's or not.
WriteFails(job) ==
    /\ faults < MaxFaults /\ faults' = faults + 1
    /\ CountsFailure(job) \/ LosesFailure

\* snapshot_model: a checkpoint that exists is kept.
Checkpointed ==
    IF checkpoint[worker.run] = None THEN [checkpoint EXCEPT ![worker.run] = model]
    ELSE checkpoint

SnapshotModel ==
    /\ worker.at = "model"
    /\ checkpoint' = Checkpointed
    /\ worker' = [worker EXCEPT !.at = "checkpointed"]
    /\ UNCHANGED <<jobs, result, exports, clock, ended, loop, seen, model, crashes, faults>>

\* It may fail before or after the file is in its place.
SnapshotModelFails ==
    /\ worker.at = "model"
    /\ checkpoint' \in {checkpoint, Checkpointed}
    /\ Fails
    /\ UNCHANGED <<result, exports, early, ended, loop, model, crashes>>

\* The checkpoint is persisted before the slower dump of the stores.
WithModel == [seen[worker.run] EXCEPT !.status = "model_requested"]

RecordModel ==
    /\ worker.at = "checkpointed"
    /\ Writes(WithModel)
    /\ worker' = [worker EXCEPT !.at = "stores"]
    /\ UNCHANGED <<result, checkpoint, exports, clock, ended, loop, model, crashes, faults>>

RecordModelFails ==
    /\ worker.at = "checkpointed"
    /\ WriteFails(WithModel)
    /\ UNCHANGED <<result, checkpoint, exports, early, ended, loop, model, crashes>>

\* dump_stores needs the checkpoint and, for an evaluation, result.json.
CanDump(r) == checkpoint[r] # None /\ (r \in Evaluations => r \in result)
Exported(r) == [exports EXCEPT ![r] = Append(@, checkpoint[r])]

DumpStores ==
    /\ worker.at = "stores" /\ CanDump(worker.run)
    /\ exports' = Exported(worker.run)
    /\ worker' = [worker EXCEPT !.at = "exported"]
    /\ UNCHANGED <<jobs, result, checkpoint, clock, ended, loop, seen, model, crashes, faults>>

\* The script fails, or it has run and its marker cannot be written.
DumpStoresFails ==
    /\ worker.at = "stores"
    /\ \/ UNCHANGED exports
       \/ CanDump(worker.run) /\ exports' = Exported(worker.run)
    /\ Fails
    /\ UNCHANGED <<result, checkpoint, early, ended, loop, model, crashes>>

\* Mutant: the job stays as it is, the next tick exports once more.
CompleteUnrecorded ==
    /\ worker.at = "exported"
    /\ worker' = NextTick(worker.todo)
    /\ UNCHANGED <<files, clock, ended, loop, seen, model, crashes, faults>>

WithStores == [seen[worker.run] EXCEPT !.status = "completed"]

Complete ==
    /\ worker.at = "exported"
    /\ Writes(WithStores)
    /\ resting' = resting \ {worker.run}
    /\ worker' = NextTick(worker.todo)
    /\ UNCHANGED <<result, checkpoint, exports, early, ended, loop, model, crashes, faults>>

\* The handler then has a job that is completed: it is one that failed only if
\* the attempts have run out.
CompleteFails ==
    /\ worker.at = "exported"
    /\ WriteFails(WithStores)
    /\ UNCHANGED <<result, checkpoint, exports, early, ended, loop, model, crashes>>

\* docker cp of the model and the export script are waited for without a limit:
\* one that never returns, exported or not, keeps the worker and the lock.
Hangs ==
    /\ worker.at \in {"model", "stores"}
    /\ \/ UNCHANGED exports
       \/ worker.at = "stores" /\ CanDump(worker.run) /\ exports' = Exported(worker.run)
    /\ worker' = [worker EXCEPT !.at = "hung"]
    /\ UNCHANGED <<jobs, result, checkpoint, clock, ended, loop, seen, model, crashes, faults>>

-----------------------------------------------------------------------------
TimePasses ==
    /\ \/ \E r \in early : early' = early \ {r} /\ UNCHANGED resting
       \/ \E r \in resting : resting' = resting \ {r} /\ UNCHANGED early
    /\ UNCHANGED <<files, ended, loop, worker, seen, model, crashes, faults>>

\* The observer trains its model further.
ModelDrifts ==
    /\ model < MaxDrift
    /\ model' = model + 1
    /\ UNCHANGED <<files, clock, ended, loop, worker, seen, crashes, faults>>

\* The process dies, its lock with it; the next one starts the worker.
Crash ==
    /\ crashes < MaxCrashes
    /\ crashes' = crashes + 1
    /\ loop' = Idle /\ worker' = Listing
    /\ UNCHANGED <<files, clock, ended, seen, model, faults>>

OnLoop == Schedule \/ WriteResult \/ ScheduleCaptureFails
Work ==
    \/ List \/ \E r \in Runs : TickWaits(r) \/ TickStarts(r)
    \/ SnapshotModel \/ SnapshotModelFails \/ RecordModel \/ RecordModelFails
    \/ DumpStores \/ DumpStoresFails \/ Complete \/ CompleteFails

Next ==
    \/ \E r \in Runs : RunEnds(r)
    \/ OnLoop \/ Work \/ Hangs \/ TimePasses \/ ModelDrifts \/ Crash

\* The event loop runs what is ready, and so does the worker unless it hangs:
\* a call of the invoker returns or never does.  Nothing makes a run end, the
\* model change or the process crash.
Spec ==
    /\ Init /\ [][Next]_captureVars
    /\ WF_captureVars(OnLoop) /\ WF_captureVars(Work) /\ WF_captureVars(TimePasses)

-----------------------------------------------------------------------------
Job == [status : {"absent", "pending", "model_requested", "completed", "failed"},
        attempts : 0..MaxAttempts]
Active == {"model", "checkpointed", "stores", "exported", "hung"}

\* Type invariant: the file, the checkpoints and where the two threads are.
TypeOK ==
    /\ jobs \in [Runs -> Job] /\ seen \in [Runs -> Job]
    /\ early \subseteq Runs /\ resting \subseteq Runs
    /\ result \subseteq Runs /\ ended \subseteq Runs
    /\ checkpoint \in [Runs -> 0..None]
    /\ exports \in [Runs -> Seq(0..MaxDrift)]
    /\ loop \in {Idle} \cup [at : {"schedule", "result"}, run : Runs]
    /\ worker \in {NoWorker, Listing} \cup [at : {"ticks"}, todo : SUBSET Runs]
                  \cup [at : Active, run : Runs, todo : SUBSET Runs]
    /\ model \in 0..MaxDrift /\ crashes \in 0..MaxCrashes /\ faults \in 0..MaxFaults

\* Every export of a run is made with one and the same model, whatever was
\* retried or crashed between: the one taken when its window had closed.
OneModelPerRun ==
    \A r \in Runs :
        /\ checkpoint[r] # None => r \notin early
        /\ \A i \in DOMAIN exports[r] : exports[r][i] = checkpoint[r]

\* A job recorded as completed has been exported, and a run is exported again
\* only after a counted failure, a crash or a record that could not be written.
ExportsAreAccountedFor ==
    \A r \in Runs :
        /\ jobs[r].status = "completed" => exports[r] # <<>>
        /\ Len(exports[r]) <= 1 + jobs[r].attempts + crashes + faults

\* No write of the file loses the job of another run or takes a job back.
JobsAreKept ==
    [][\A r \in Runs :
          /\ jobs[r].status # "absent" => jobs'[r].status # "absent"
          /\ Finished(jobs[r]) => jobs'[r] = jobs[r]]_captureVars

\* Every job whose run has published its result, and every job while there is
\* a worker, is completed or given up, unless a command of the capture hangs: the
\* worker is never gone while such a job is left, also when its records could
\* not be written, and the attempts run out.  (A job whose run could not write
\* its result is left to the next run, or the next process.)
JobsEnd ==
    \A r \in Runs :
        (r \in Pending /\ (r \in result \/ worker # NoWorker))
            ~> (Finished(jobs[r]) \/ worker.at = "hung")

\* The event loop gets through schedule() however many jobs, failures and
\* retries the worker has before it; only a command that hangs keeps it waiting.
LoopGetsOn == loop # Idle ~> (loop = Idle \/ worker.at = "hung")
=============================================================================
