---------------------------- MODULE CaptureProofs ----------------------------
(***************************************************************************)
(* Theorems about CaptureScheduler, for any runs, attempts, crashes,        *)
(* failing writes and changes of the model.                                *)
(***************************************************************************)
EXTENDS CaptureScheduler, TLAPS

Unfinished == {"pending", "model_requested"}
Exporting(r) == worker.at = "exported" /\ worker.run = r
Hanging(r) == worker.at = "hung" /\ worker.run = r

\* A round is of jobs in the file.  What a tick has read is what is in the file
\* until it writes, and the job it works on is open and due.
TickIsFresh ==
    /\ worker.at \in {"ticks"} \cup Active => \A r \in worker.todo : jobs[r].status # "absent"
    /\ Locked => /\ seen = jobs
                 /\ jobs[worker.run].status \in Unfinished
                 /\ worker.run \notin early

\* Only an open job can fail once more.
AttemptsLeft ==
    \A r \in Runs : ~Finished(jobs[r]) => jobs[r].attempts < MaxAttempts

\* A run is scheduled at most once.
ScheduledOnce ==
    /\ loop.at \in {"schedule", "result"} => loop.run \in ended
    /\ \A r \in Runs :
          r \notin ended \/ loop = [at |-> "schedule", run |-> r] => jobs[r] = NoJob

\* Nothing is made before the job, and nothing exported before the checkpoint.
InOrder ==
    \A r \in Runs :
        /\ jobs[r].status = "absent" => checkpoint[r] = None
        /\ checkpoint[r] = None => exports[r] = <<>>

\* Every export is a counted failure, lost to a crash or to a failing write, the
\* one that hangs, or the one that completes the job.
Counted(r) ==
    /\ jobs[r].status = "completed" \/ Exporting(r) => exports[r] # <<>>
    /\ Len(exports[r]) <= jobs[r].attempts + crashes + faults + 1
    /\ \/ jobs[r].status = "completed" \/ Exporting(r) \/ Hanging(r)
       \/ Len(exports[r]) <= jobs[r].attempts + crashes + faults

ExportsCounted == \A r \in Runs : Counted(r)

CaptureInv ==
    /\ TypeOK
    /\ TickIsFresh
    /\ AttemptsLeft
    /\ ScheduledOnce
    /\ InOrder
    /\ OneModelPerRun
    /\ ExportsCounted

-----------------------------------------------------------------------------
\* Where the two threads are.
LEMMA Threads ==
    ASSUME TypeOK
    PROVE  /\ Locked => worker \in [at : Active, run : Runs, todo : SUBSET Runs]
           /\ worker.at = "ticks" => worker \in [at : {"ticks"}, todo : SUBSET Runs]
           /\ loop.at \in {"schedule", "result"}
                => loop \in [at : {"schedule", "result"}, run : Runs]
  BY DEF TypeOK, Locked, Active, Idle, NoWorker, Listing

\* The next job of a round, or the next round.
LEMMA NextTicks ==
    ASSUME NEW todo \in SUBSET Runs
    PROVE  /\ NextTick(todo) \in {NoWorker, Listing} \cup [at : {"ticks"}, todo : SUBSET Runs]
           /\ NextTick(todo).at \in {"listing", "ticks"}
  BY DEF NextTick, Listing, NoWorker

\* The invariant holds in the initial states.
LEMMA InitCapture == Init => CaptureInv
  <1> SUFFICES ASSUME Init PROVE CaptureInv
    OBVIOUS
  <1> USE CaptureAssumption DEF Init, NoJob, None, Idle, Listing
  <1>1. TypeOK
    BY DEF TypeOK, Job
  <1>2. TickIsFresh /\ ScheduledOnce /\ InOrder /\ OneModelPerRun
    BY DEF TickIsFresh, Locked, Active, ScheduledOnce, InOrder, OneModelPerRun
  <1>3. AttemptsLeft /\ ExportsCounted
    BY DEF AttemptsLeft, ExportsCounted, Counted, Exporting, Hanging
  <1> QED
    BY <1>1, <1>2, <1>3 DEF CaptureInv

\* One more export, with one more attempt.
LEMMA OneMore ==
    ASSUME NEW n \in Nat, NEW before \in Nat, NEW a \in Nat, NEW c \in Nat,
           NEW f \in Nat, NEW g \in Nat,
           before <= a + c + f, n <= before + 1, g >= f
    PROVE  n <= a + 1 + c + g
  OBVIOUS

\* A bound on exports while the failures grow: it stays, or is reached without
\* the one export that was going on.
LEMMA StillFits ==
    ASSUME NEW n \in Nat, NEW a \in Nat, NEW c \in Nat, NEW d \in Nat,
           NEW f \in Nat, NEW g \in Nat,
           n <= a + c + f + 1, d >= c, g >= f
    PROVE  n <= a + d + g + 1
  OBVIOUS

LEMMA FitsNow ==
    ASSUME NEW n \in Nat, NEW a \in Nat, NEW c \in Nat, NEW d \in Nat,
           NEW f \in Nat, NEW g \in Nat,
           n <= a + c + f + 1, d >= c, g >= f, d > c \/ g > f
    PROVE  n <= a + d + g
  OBVIOUS

\* What is counted stays counted while the failures only grow; an export that is
\* going on may be lost to one of them.
LEMMA CountedStill ==
    ASSUME CaptureInv, TypeOK', NEW r \in Runs,
           jobs'[r] = jobs[r], exports'[r] = exports[r],
           crashes' >= crashes, faults' >= faults,
           Exporting(r)' => Exporting(r),
           Exporting(r) \/ Hanging(r) =>
               Exporting(r)' \/ Hanging(r)' \/ crashes' > crashes \/ faults' > faults
    PROVE  Counted(r)'
  <1>1. /\ jobs[r].attempts \in Nat /\ Len(exports[r]) \in Nat
        /\ crashes \in Nat /\ crashes' \in Nat /\ faults \in Nat /\ faults' \in Nat
    <2>1. jobs[r] \in Job /\ exports[r] \in Seq(0..MaxDrift)
      BY DEF CaptureInv, TypeOK
    <2>2. /\ crashes \in 0..MaxCrashes /\ faults \in 0..MaxFaults
          /\ crashes' \in 0..MaxCrashes /\ faults' \in 0..MaxFaults
      BY Zenon DEF CaptureInv, TypeOK
    <2>3. MaxAttempts \in Nat /\ MaxCrashes \in Nat /\ MaxFaults \in Nat
      BY CaptureAssumption
    <2> QED
      BY <2>1, <2>2, <2>3 DEF Job
  <1>2. Counted(r)
    BY DEF CaptureInv, ExportsCounted
  <1>3. /\ jobs'[r].status = "completed" \/ Exporting(r)' => exports'[r] # <<>>
        /\ Len(exports'[r]) <= jobs'[r].attempts + crashes' + faults' + 1
    <2>1. Len(exports[r]) <= jobs[r].attempts + crashes + faults + 1
      BY <1>2 DEF Counted
    <2>2. Len(exports'[r]) <= jobs'[r].attempts + crashes' + faults' + 1
      BY <1>1, <2>1, StillFits
    <2> QED
      BY <1>2, <2>2 DEF Counted
  <1>4. \/ jobs'[r].status = "completed" \/ Exporting(r)' \/ Hanging(r)'
        \/ Len(exports'[r]) <= jobs'[r].attempts + crashes' + faults'
    <2>1. CASE crashes' > crashes \/ faults' > faults
      <3>1. Len(exports[r]) <= jobs[r].attempts + crashes + faults + 1
        BY <1>2 DEF Counted
      <3>2. Len(exports'[r]) <= jobs'[r].attempts + crashes' + faults'
        BY <1>1, <2>1, <3>1, FitsNow
      <3> QED
        BY <3>2
    <2>2. CASE ~(Exporting(r) \/ Hanging(r)) \/ Exporting(r)' \/ Hanging(r)'
      BY SMTT(30), <1>1, <1>2, <2>2 DEF Counted
    <2> QED
      BY <2>1, <2>2
  <1> QED
    BY <1>3, <1>4 DEF Counted

\* An export that is accounted for at the end of a tick.
LEMMA CountedAgain ==
    ASSUME TypeOK', NEW r \in Runs,
           Len(exports'[r]) <= jobs'[r].attempts + crashes' + faults',
           jobs'[r].status = "completed" \/ Exporting(r)' => exports'[r] # <<>>
    PROVE  Counted(r)'
  <1>1. /\ jobs'[r].attempts \in Nat /\ Len(exports'[r]) \in Nat
        /\ crashes' \in Nat /\ faults' \in Nat
    BY CaptureAssumption DEF TypeOK, Job
  <1> QED
    BY <1>1 DEF Counted

\* A step that writes none of the files keeps the invariant, as long as a tick
\* that starts starts with what is in the file.
LEMMA Looking ==
    ASSUME CaptureInv, UNCHANGED <<jobs, checkpoint, exports>>,
           early' \subseteq early, resting' \subseteq Runs, result' \subseteq Runs,
           TypeOK', TickIsFresh', ScheduledOnce',
           crashes' >= crashes, faults' = faults,
           worker'.at \in {"exported", "hung"} => worker' = worker,
           worker.at \in {"exported", "hung"} => worker' = worker \/ crashes' = crashes + 1
    PROVE  CaptureInv'
  <1> USE DEF CaptureInv
  <1>1. AttemptsLeft' /\ InOrder' /\ OneModelPerRun'
    BY DEF AttemptsLeft, Finished, InOrder, OneModelPerRun, None
  <1>2. ASSUME NEW r \in Runs
        PROVE  Counted(r)'
    <2>1. crashes' > crashes \/ worker' = worker \/ worker.at \notin {"exported", "hung"}
      BY CaptureAssumption DEF TypeOK
    <2>2. faults' >= faults
      BY CaptureAssumption DEF TypeOK
    <2> QED
      BY <1>2, <2>1, <2>2, CountedStill DEF Exporting, Hanging
  <1> QED
    BY <1>1, <1>2 DEF ExportsCounted

\* The event loop, when it leaves the jobs alone.
LEMMA LoopKeeps ==
    ASSUME CaptureInv, \/ \E r \in Runs : RunEnds(r)
                       \/ WriteResult \/ ScheduleCaptureFails
    PROVE  CaptureInv'
  <1> USE DEF CaptureInv
  <1>1. UNCHANGED <<jobs, seen, checkpoint, exports, early, resting, model, crashes, faults>>
    BY DEF RunEnds, WriteResult, ScheduleCaptureFails, clock, files
  <1>2. worker' = worker \/ (worker = NoWorker /\ worker' = Listing)
    BY DEF RunEnds, WriteResult, ScheduleCaptureFails
  <1>3. TypeOK'
    <2>1. loop' \in {Idle} \cup [at : {"schedule", "result"}, run : Runs]
          /\ ended' \subseteq Runs /\ result' \subseteq Runs
      BY Threads DEF TypeOK, RunEnds, WriteResult, ScheduleCaptureFails, files
    <2> QED
      BY <1>1, <1>2, <2>1 DEF TypeOK
  <1>4. TickIsFresh'
    BY <1>1, <1>2 DEF TickIsFresh, Locked, Active, Listing
  <1>5. ScheduledOnce'
    BY <1>1 DEF ScheduledOnce, RunEnds, WriteResult, ScheduleCaptureFails, Idle
  <1>6. /\ result' \subseteq Runs /\ resting' \subseteq Runs /\ early' \subseteq early
        /\ crashes' >= crashes
    BY <1>1, <1>3, CaptureAssumption DEF TypeOK
  <1> QED
    BY <1>1, <1>2, <1>3, <1>4, <1>5, <1>6, Looking DEF NoWorker, Listing

\* A new job is the first of its run, and no tick is between its read and its
\* write.
LEMMA ScheduleKeeps ==
    ASSUME CaptureInv, Schedule
    PROVE  CaptureInv'
  <1> USE CaptureAssumption DEF CaptureInv
  <1> DEFINE run == loop.run
  <1>1. /\ loop = [at |-> "schedule", run |-> run] /\ run \in Runs
        /\ jobs[run] = NoJob
    BY Threads DEF Schedule, ScheduledOnce
  <1>2. /\ jobs' = [jobs EXCEPT ![run] = [status |-> "pending", attempts |-> 0]]
        /\ early' \in {early, early \cup {run}}
        /\ loop' = [at |-> "result", run |-> run]
        /\ UNCHANGED <<resting, result, checkpoint, exports, ended, worker, seen, model, crashes, faults>>
    <2>1. [NoJob EXCEPT !.status = "pending"] = [status |-> "pending", attempts |-> 0]
      BY DEF NoJob
    <2>2. [loop EXCEPT !.at = "result"] = [at |-> "result", run |-> run]
      BY <1>1
    <2> QED
      BY <2>1, <2>2 DEF Schedule
  <1>3. checkpoint[run] = None /\ exports[run] = <<>> /\ ~Locked
    BY <1>1 DEF InOrder, NoJob, Schedule
  <1>4. TypeOK'
    <2>1. jobs' \in [Runs -> Job]
      BY <1>1, <1>2 DEF TypeOK, Job
    <2> QED
      BY <1>1, <1>2, <2>1 DEF TypeOK
  <1> HIDE DEF run
  <1>5. TickIsFresh'
    <2>1. \A r \in Runs : jobs'[r].status = "absent" => jobs[r].status = "absent"
      BY <1>1, <1>2 DEF TypeOK
    <2>2. worker.at \in {"ticks"} \cup Active => worker.todo \subseteq Runs
      BY Threads DEF Locked, Active
    <2> QED
      BY <1>2, <1>3, <2>1, <2>2 DEF TickIsFresh, Locked
  <1>6. AttemptsLeft' /\ ScheduledOnce'
    <2>1. run \in ended
      BY <1>1 DEF ScheduledOnce
    <2>2. ASSUME NEW r \in Runs, r # run PROVE jobs'[r] = jobs[r]
      BY <1>2, <2>2 DEF TypeOK
    <2>3. jobs'[run] = [status |-> "pending", attempts |-> 0]
      BY <1>1, <1>2 DEF TypeOK
    <2>4. AttemptsLeft'
      BY <2>2, <2>3 DEF AttemptsLeft, Finished
    <2>5. loop'.at = "result" /\ loop'.run = run
      BY <1>2
    <2> QED
      BY <1>2, <2>1, <2>2, <2>4, <2>5 DEF ScheduledOnce
  <1>7. InOrder' /\ OneModelPerRun'
    BY <1>1, <1>2, <1>3 DEF InOrder, OneModelPerRun, TypeOK
  <1>8. ExportsCounted'
    <2>1. worker.at # "exported"
      BY <1>3 DEF Locked
    <2> QED
      BY SMTT(30), <1>1, <1>2, <1>3, <2>1 DEF ExportsCounted, Counted, Exporting, Hanging, TypeOK
  <1> QED
    BY <1>4, <1>5, <1>6, <1>7, <1>8

-----------------------------------------------------------------------------
\* A tick that has not begun to work.
LEMMA RoundKeeps ==
    ASSUME CaptureInv, List \/ \E r \in Runs : TickWaits(r) \/ TickStarts(r)
    PROVE  CaptureInv'
  <1> USE DEF CaptureInv
  <1>1. /\ UNCHANGED <<files, clock, ended, loop, model, crashes, faults>>
        /\ worker.at \in {"listing", "ticks"}
    <2>1. CASE List
      BY <2>1 DEF List, Listing
    <2>2. ASSUME NEW r \in Runs, TickWaits(r) \/ TickStarts(r)
          PROVE  <1>1!1 /\ <1>1!2
      BY <2>2 DEF TickWaits, TickStarts
    <2> QED
      BY <2>1, <2>2
  <1>2. CASE List \/ \E r \in Runs : TickWaits(r)
    <2>1. UNCHANGED seen
      BY <1>2 DEF List, TickWaits
    <2>2. /\ worker' \in {NoWorker, Listing} \cup [at : {"ticks"}, todo : SUBSET Runs]
          /\ worker'.at \in {"none", "listing", "ticks"}
          /\ worker'.at = "ticks" => \A r \in worker'.todo : jobs[r].status # "absent"
      BY <1>2, Threads, NextTicks
         DEF List, TickWaits, Pending, NextTick, NoWorker, Listing, TickIsFresh
    <2>3. TypeOK' /\ TickIsFresh' /\ ScheduledOnce'
      BY <1>1, <2>1, <2>2 DEF TypeOK, TickIsFresh, Locked, Active, ScheduledOnce, files, clock
    <2> QED
      BY <1>1, <2>2, <2>3, Looking, CaptureAssumption DEF files, clock, TypeOK
  <1>3. ASSUME NEW r \in Runs, TickStarts(r)
        PROVE  CaptureInv'
    <2>1. /\ seen' = jobs
          /\ worker' \in [at : {"model", "stores"}, run : Runs, todo : SUBSET Runs]
          /\ worker'.run = r
          /\ \A x \in worker'.todo : jobs[x].status # "absent"
      BY <1>3, Threads DEF TickStarts, TickIsFresh
    <2>2. jobs[r].status \in Unfinished /\ r \notin early
      <3>1. ~Finished(jobs[r]) /\ jobs[r].status # "absent" /\ Due(r)
        BY <1>3 DEF TickStarts, TickIsFresh
      <3> QED
        BY <3>1 DEF TypeOK, Job, Finished, Unfinished, Due
    <2>3. TypeOK' /\ TickIsFresh' /\ ScheduledOnce'
      BY <1>1, <2>1, <2>2 DEF TypeOK, Active, TickIsFresh, Locked, ScheduledOnce, files, clock
    <2> QED
      BY <1>1, <2>1, <2>3, Looking, CaptureAssumption DEF files, clock, TypeOK
  <1> QED
    BY <1>2, <1>3

\* A write of the tick changes its own job and nothing else.
LEMMA TickWrites ==
    ASSUME CaptureInv, Locked, NEW job \in Job, Writes(job), job.status # "absent",
           ~Finished(job) => job.attempts < MaxAttempts,
           UNCHANGED <<early, ended, loop>>
    PROVE  /\ worker.run \in Runs
           /\ jobs' \in [Runs -> Job] /\ seen' = jobs'
           /\ jobs'[worker.run] = job
           /\ \A r \in Runs \ {worker.run} : jobs'[r] = jobs[r]
           /\ AttemptsLeft' /\ ScheduledOnce'
  <1> USE DEF CaptureInv
  <1>1. worker.run \in Runs /\ seen = jobs
    BY Threads DEF TickIsFresh
  <1>2. jobs' = [jobs EXCEPT ![worker.run] = job] /\ seen' = jobs'
    BY <1>1 DEF Writes
  <1>3. /\ jobs' \in [Runs -> Job]
        /\ jobs'[worker.run] = job
        /\ \A r \in Runs \ {worker.run} : jobs'[r] = jobs[r]
    BY <1>1, <1>2 DEF TypeOK
  <1>4. AttemptsLeft'
    BY <1>1, <1>3 DEF AttemptsLeft, Finished
  <1>5. jobs[worker.run] # NoJob
    BY DEF TickIsFresh, Unfinished, NoJob
  <1>6. ScheduledOnce'
    BY <1>1, <1>3, <1>5 DEF ScheduledOnce
  <1> QED
    BY <1>1, <1>2, <1>3, <1>4, <1>6

\* What a snapshot may change: a checkpoint where there was none, so no export.
LEMMA SnapshotFacts ==
    ASSUME CaptureInv, worker.at = "model", checkpoint' \in {checkpoint, Checkpointed},
           UNCHANGED <<exports, early>>
    PROVE  /\ checkpoint' \in [Runs -> 0..None] /\ exports' \in [Runs -> Seq(0..MaxDrift)]
           /\ OneModelPerRun'
           /\ \A r \in Runs : checkpoint'[r] = None => checkpoint[r] = None /\ exports'[r] = <<>>
           /\ \A r \in Runs \ {worker.run} : checkpoint'[r] = checkpoint[r]
  <1> USE CaptureAssumption DEF CaptureInv
  <1>1. worker.run \in Runs /\ worker.run \notin early
    BY Threads DEF TickIsFresh, Locked
  <1>2. /\ checkpoint' \in [Runs -> 0..None]
        /\ \A r \in Runs \ {worker.run} : checkpoint'[r] = checkpoint[r]
        /\ checkpoint[worker.run] # None => checkpoint' = checkpoint
        /\ checkpoint'[worker.run] = None => checkpoint[worker.run] = None
    <2>1. checkpoint \in [Runs -> 0..None] /\ model \in 0..None
      BY DEF TypeOK, None
    <2>2. checkpoint' = checkpoint
          \/ (checkpoint[worker.run] = None /\ checkpoint' = [checkpoint EXCEPT ![worker.run] = model])
      BY DEF Checkpointed
    <2> QED
      BY <1>1, <2>1, <2>2
  <1>3. OneModelPerRun'
    <2>1. ASSUME NEW r \in Runs
          PROVE  /\ checkpoint'[r] # None => r \notin early'
                 /\ \A i \in DOMAIN exports'[r] : exports'[r][i] = checkpoint'[r]
      <3>1. CASE r # worker.run
        BY <1>2, <2>1, <3>1 DEF OneModelPerRun
      <3>2. CASE r = worker.run
        <4>1. CASE checkpoint[r] # None
          BY <1>2, <2>1, <3>2, <4>1 DEF OneModelPerRun
        <4>2. CASE checkpoint[r] = None
          BY <1>1, <2>1, <3>2, <4>2 DEF InOrder
        <4> QED
          BY <4>1, <4>2
      <3> QED
        BY <3>1, <3>2
    <2> QED
      BY <2>1 DEF OneModelPerRun, None
  <1>4. ASSUME NEW r \in Runs, checkpoint'[r] = None
        PROVE  checkpoint[r] = None /\ exports'[r] = <<>>
    BY <1>2, <1>4 DEF InOrder
  <1> QED
    BY <1>2, <1>3, <1>4 DEF TypeOK

\* What a dump may change: one more export of the tick's run, made with the
\* checkpoint.
LEMMA DumpFacts ==
    ASSUME CaptureInv, worker.at = "stores",
           UNCHANGED exports \/ (CanDump(worker.run) /\ exports' = Exported(worker.run)),
           UNCHANGED <<checkpoint, early>>
    PROVE  /\ exports' \in [Runs -> Seq(0..MaxDrift)]
           /\ OneModelPerRun'
           /\ \A r \in Runs : checkpoint'[r] = None => exports'[r] = <<>>
           /\ \A r \in Runs \ {worker.run} : exports'[r] = exports[r]
           /\ exports' # exports => /\ Len(exports'[worker.run]) = Len(exports[worker.run]) + 1
                                    /\ exports'[worker.run] # <<>>
           /\ CanDump(worker.run) /\ exports' = Exported(worker.run)
                => /\ Len(exports'[worker.run]) = Len(exports[worker.run]) + 1
                   /\ exports'[worker.run] # <<>>
  <1> USE CaptureAssumption DEF CaptureInv
  <1> DEFINE run == worker.run
  <1>1. run \in Runs
    BY Threads DEF Locked
  <1>2. CASE UNCHANGED exports /\ ~(CanDump(run) /\ exports' = Exported(run))
    BY <1>2 DEF TypeOK, OneModelPerRun, InOrder
  <1>3. CASE CanDump(run) /\ exports' = Exported(run)
    <2>1. checkpoint[run] \in 0..MaxDrift /\ checkpoint[run] # None
      BY <1>1, <1>3 DEF CanDump, TypeOK, None
    <2>2. /\ exports \in [Runs -> Seq(0..MaxDrift)]
          /\ exports' = [exports EXCEPT ![run] = Append(@, checkpoint[run])]
      BY <1>3 DEF Exported, TypeOK
    <2>3. /\ exports'[run] = Append(exports[run], checkpoint[run])
          /\ \A r \in Runs \ {run} : exports'[r] = exports[r]
      BY <1>1, <2>2
    <2> DEFINE before == exports[run]  after == exports'[run]  c == checkpoint[run]
    <2>4. before \in Seq(0..MaxDrift) /\ after = Append(before, c) /\ c \in 0..MaxDrift
      BY <1>1, <2>1, <2>2, <2>3
    <2>5. \A i \in DOMAIN before : before[i] = c
      BY <1>1 DEF OneModelPerRun
    <2> HIDE DEF before, after, c
    <2>6. /\ after \in Seq(0..MaxDrift) /\ Len(after) = Len(before) + 1 /\ after # <<>>
          /\ \A i \in DOMAIN after : after[i] = c
      BY <2>4, <2>5
    <2> USE DEF before, after, c
    <2>7. exports' \in [Runs -> Seq(0..MaxDrift)]
      BY <1>1, <2>2, <2>6
    <2>8. OneModelPerRun'
      BY ZenonT(40), <2>3, <2>6 DEF OneModelPerRun, None
    <2> QED
      BY <1>1, <2>1, <2>3, <2>6, <2>7, <2>8 DEF InOrder
  <1> QED
    BY <1>2, <1>3

\* The checkpoint is made and recorded, the stores are dumped: one job at a time.
LEMMA SnapshotKeeps ==
    ASSUME CaptureInv, SnapshotModel
    PROVE  CaptureInv'
  <1> USE DEF CaptureInv
  <1>1. /\ worker.at = "model" /\ checkpoint' = Checkpointed
        /\ worker' = [worker EXCEPT !.at = "checkpointed"]
        /\ UNCHANGED <<jobs, result, exports, early, resting, ended, loop, seen, model, crashes, faults>>
    BY DEF SnapshotModel, clock
  <1>2. worker \in [at : Active, run : Runs, todo : SUBSET Runs]
    BY <1>1, Threads DEF Locked
  <1>3. /\ worker' \in [at : Active, run : Runs, todo : SUBSET Runs]
        /\ worker'.at = "checkpointed" /\ worker'.run = worker.run /\ worker'.todo = worker.todo
    BY <1>1, <1>2 DEF Active
  <1>4. TypeOK' /\ TickIsFresh' /\ AttemptsLeft' /\ ScheduledOnce'
    BY <1>1, <1>2, <1>3, SnapshotFacts
       DEF TypeOK, TickIsFresh, Locked, Active, AttemptsLeft, ScheduledOnce, Finished
  <1>5. InOrder' /\ OneModelPerRun'
    BY <1>1, <1>2, SnapshotFacts DEF InOrder, TickIsFresh, Locked, Unfinished
  <1>6. ExportsCounted'
    BY <1>1, <1>3 DEF ExportsCounted, Counted, Exporting, Hanging
  <1> QED
    BY <1>4, <1>5, <1>6

LEMMA RecordKeeps ==
    ASSUME CaptureInv, RecordModel
    PROVE  CaptureInv'
  <1> USE DEF CaptureInv
  <1> DEFINE run == worker.run
             job == WithModel
  <1>1. /\ worker.at = "checkpointed" /\ Writes(job)
        /\ worker' = [worker EXCEPT !.at = "stores"]
        /\ UNCHANGED <<result, checkpoint, exports, early, resting, ended, loop, model, crashes, faults>>
    BY DEF RecordModel, clock
  <1>2. Locked /\ worker \in [at : Active, run : Runs, todo : SUBSET Runs]
    BY <1>1, Threads DEF Locked
  <1>3. /\ worker' \in [at : Active, run : Runs, todo : SUBSET Runs]
        /\ worker'.at = "stores" /\ worker'.run = run /\ worker'.todo = worker.todo
    BY <1>1, <1>2 DEF Active
  <1>4. /\ seen[run] = jobs[run] /\ jobs[run] \in Job /\ jobs[run].status \in Unfinished
        /\ jobs[run].attempts < MaxAttempts
    BY <1>2 DEF TickIsFresh, AttemptsLeft, Finished, Unfinished, TypeOK
  <1>5. /\ job \in Job /\ job.status = "model_requested" /\ ~Finished(job)
        /\ job.attempts = jobs[run].attempts
    BY <1>4 DEF Job, Finished, WithModel
  <1> HIDE DEF job, run
  <1> USE DEF run
  <1>6. /\ jobs' \in [Runs -> Job] /\ seen' = jobs'
        /\ jobs'[run] = job
        /\ \A r \in Runs \ {run} : jobs'[r] = jobs[r]
        /\ AttemptsLeft' /\ ScheduledOnce'
    BY <1>1, <1>2, <1>4, <1>5, TickWrites
  <1>7. TypeOK'
    BY <1>1, <1>3, <1>6 DEF TypeOK
  <1>8. TickIsFresh'
    BY <1>1, <1>2, <1>3, <1>5, <1>6 DEF TickIsFresh, Locked, Active, Unfinished
  <1>9. InOrder' /\ OneModelPerRun'
    BY <1>1, <1>2, <1>5, <1>6 DEF InOrder, OneModelPerRun, None
  <1>10. ExportsCounted'
    BY <1>1, <1>2, <1>3, <1>4, <1>5, <1>6 DEF ExportsCounted, Counted, Exporting, Hanging, Unfinished
  <1> QED
    BY <1>6, <1>7, <1>8, <1>9, <1>10

LEMMA DumpKeeps ==
    ASSUME CaptureInv, DumpStores
    PROVE  CaptureInv'
  <1> USE DEF CaptureInv
  <1> DEFINE run == worker.run
  <1>1. /\ worker.at = "stores" /\ CanDump(run) /\ exports' = Exported(run)
        /\ worker' = [worker EXCEPT !.at = "exported"]
        /\ UNCHANGED <<jobs, result, checkpoint, early, resting, ended, loop, seen, model, crashes, faults>>
    BY DEF DumpStores, clock
  <1>2. worker \in [at : Active, run : Runs, todo : SUBSET Runs]
    BY <1>1, Threads DEF Locked
  <1>3. /\ worker' \in [at : Active, run : Runs, todo : SUBSET Runs]
        /\ worker'.at = "exported" /\ worker'.run = run /\ worker'.todo = worker.todo
    BY <1>1, <1>2 DEF Active
  <1>4. /\ exports' \in [Runs -> Seq(0..MaxDrift)]
        /\ OneModelPerRun'
        /\ \A r \in Runs : checkpoint'[r] = None => exports'[r] = <<>>
        /\ \A r \in Runs \ {run} : exports'[r] = exports[r]
        /\ Len(exports'[run]) = Len(exports[run]) + 1 /\ exports'[run] # <<>>
    BY <1>1, DumpFacts
  <1>5. TypeOK' /\ TickIsFresh' /\ AttemptsLeft' /\ ScheduledOnce'
    BY <1>1, <1>2, <1>3, <1>4
       DEF TypeOK, TickIsFresh, Locked, Active, AttemptsLeft, ScheduledOnce, Finished
  <1>6. InOrder'
    BY <1>1, <1>4 DEF InOrder
  <1>7. ExportsCounted'
    <2>1. jobs[run].status # "completed" /\ run \in Runs
      BY <1>1, <1>2 DEF TickIsFresh, Locked, Unfinished
    <2>2. ASSUME NEW r \in Runs
          PROVE  jobs[r].attempts \in Nat /\ crashes \in Nat /\ faults \in Nat /\ Len(exports[r]) \in Nat
      BY <2>2, CaptureAssumption DEF TypeOK, Job
    <2>3. ASSUME NEW r \in Runs, r # run
          PROVE  Counted(r)'
      BY <1>1, <1>3, <1>4, <2>2, <2>3 DEF ExportsCounted, Counted, Exporting, Hanging
    <2>4. /\ exports'[run] # <<>>
          /\ Len(exports'[run]) <= jobs'[run].attempts + crashes' + faults' + 1
      BY SMTT(30), <1>1, <1>4, <2>1, <2>2 DEF ExportsCounted, Counted, Exporting, Hanging
    <2> QED
      BY <1>1, <1>3, <2>1, <2>3, <2>4 DEF ExportsCounted, Counted, Exporting, Hanging
  <1> QED
    BY <1>4, <1>5, <1>6, <1>7

LEMMA CompleteKeeps ==
    ASSUME CaptureInv, Complete
    PROVE  CaptureInv'
  <1> USE DEF CaptureInv
  <1> DEFINE run == worker.run
             job == WithStores
  <1>1. /\ worker.at = "exported" /\ Writes(job)
        /\ worker' = NextTick(worker.todo) /\ resting' = resting \ {run}
        /\ UNCHANGED <<result, checkpoint, exports, early, ended, loop, model, crashes, faults>>
    BY DEF Complete
  <1>2. Locked /\ worker \in [at : Active, run : Runs, todo : SUBSET Runs]
    BY <1>1, Threads DEF Locked
  <1>3. /\ worker' \in {NoWorker, Listing} \cup [at : {"ticks"}, todo : SUBSET Runs]
        /\ worker'.at \in {"listing", "ticks"}
        /\ worker'.at = "ticks" => worker'.todo = worker.todo
    BY <1>1, <1>2, NextTicks DEF NextTick, Listing
  <1>4. /\ seen[run] = jobs[run] /\ jobs[run] \in Job /\ jobs[run].status \in Unfinished
    BY <1>2 DEF TickIsFresh, TypeOK
  <1>5. /\ job \in Job /\ job.status = "completed" /\ Finished(job)
        /\ job.attempts = jobs[run].attempts
    BY <1>4 DEF Job, Finished, WithStores
  <1> HIDE DEF job, run
  <1> USE DEF run
  <1>6. /\ jobs' \in [Runs -> Job] /\ seen' = jobs'
        /\ jobs'[run] = job
        /\ \A r \in Runs \ {run} : jobs'[r] = jobs[r]
        /\ AttemptsLeft' /\ ScheduledOnce'
    BY <1>1, <1>2, <1>4, <1>5, TickWrites
  <1>7. TypeOK'
    BY <1>1, <1>3, <1>6 DEF TypeOK
  <1>8. TickIsFresh'
    BY <1>1, <1>2, <1>3, <1>5, <1>6 DEF TickIsFresh, Locked, Active, Unfinished
  <1>9. InOrder' /\ OneModelPerRun'
    BY <1>1, <1>2, <1>5, <1>6 DEF InOrder, OneModelPerRun, None
  <1>10. ExportsCounted'
    BY <1>1, <1>2, <1>3, <1>4, <1>5, <1>6 DEF ExportsCounted, Counted, Exporting, Hanging, Unfinished
  <1> QED
    BY <1>6, <1>7, <1>8, <1>9, <1>10

\* What a tick has made of its job when it fails.
Attempted ==
    {seen[worker.run]}
      \cup (IF worker.at = "checkpointed" THEN {WithModel} ELSE {})
      \cup (IF worker.at = "exported" THEN {WithStores} ELSE {})

\* The failures of a tick: counted, with or without a failing write, or lost.
LEMMA Failures ==
    ASSUME CaptureInv,
           SnapshotModelFails \/ DumpStoresFails \/ RecordModelFails \/ CompleteFails
    PROVE  /\ Locked /\ worker.at # "hung"
           /\ worker \in [at : Active, run : Runs, todo : SUBSET Runs]
           /\ worker' = NextTick(worker.todo)
           /\ UNCHANGED <<result, early, ended, loop, model, crashes>>
           /\ \/ \E job \in Attempted : CountsFailure(job)
              \/ faults' = faults + 1 /\ LosesFailure
           /\ faults' \in 0..MaxFaults /\ faults' >= faults
           /\ worker.at \in {"checkpointed", "exported"} =>
                 faults' = faults + 1 /\ UNCHANGED <<checkpoint, exports>>
  <1> USE CaptureAssumption DEF CaptureInv
  <1>1. Locked /\ worker.at # "hung"
    BY DEF SnapshotModelFails, DumpStoresFails, RecordModelFails, CompleteFails, Locked
  <1>2. worker \in [at : Active, run : Runs, todo : SUBSET Runs]
    BY <1>1, Threads
  <1>3. /\ worker' = NextTick(worker.todo)
        /\ UNCHANGED <<result, early, ended, loop, model, crashes>>
    BY DEF SnapshotModelFails, DumpStoresFails, RecordModelFails, CompleteFails, clock,
           Fails, WriteFails, CountsFailure, LosesFailure
  <1>4. /\ \/ \E job \in Attempted : CountsFailure(job)
           \/ faults' = faults + 1 /\ LosesFailure
        /\ faults' \in {faults, faults + 1} /\ (faults' # faults => faults < MaxFaults)
    <2>1. CASE SnapshotModelFails \/ DumpStoresFails
      BY <2>1 DEF SnapshotModelFails, DumpStoresFails, Fails, Attempted
    <2>2. CASE RecordModelFails \/ CompleteFails
      BY <2>2 DEF RecordModelFails, CompleteFails, WriteFails, Attempted
    <2> QED
      BY <2>1, <2>2
  <1>5. faults' \in 0..MaxFaults /\ faults' >= faults
    BY <1>4 DEF TypeOK
  <1>6. worker.at \in {"checkpointed", "exported"} =>
            faults' = faults + 1 /\ UNCHANGED <<checkpoint, exports>>
    BY DEF SnapshotModelFails, DumpStoresFails, RecordModelFails, CompleteFails, WriteFails
  <1> QED
    BY <1>1, <1>2, <1>3, <1>4, <1>5, <1>6

\* What a failed tick may leave: a checkpoint, or an export more.
LEMMA FailureLeaves ==
    ASSUME CaptureInv,
           SnapshotModelFails \/ DumpStoresFails \/ RecordModelFails \/ CompleteFails
    PROVE  /\ checkpoint' \in [Runs -> 0..None] /\ exports' \in [Runs -> Seq(0..MaxDrift)]
           /\ OneModelPerRun'
           /\ \A r \in Runs : checkpoint'[r] = None => exports'[r] = <<>>
           /\ \A r \in Runs \ {worker.run} :
                 checkpoint'[r] = checkpoint[r] /\ exports'[r] = exports[r]
           /\ Len(exports'[worker.run]) <= Len(exports[worker.run]) + 1
           /\ exports[worker.run] # <<>> => exports'[worker.run] # <<>>
  <1> USE DEF CaptureInv
  <1> DEFINE run == worker.run
  <1>1. run \in Runs /\ Len(exports[run]) \in Nat
    BY Failures DEF TypeOK
  <1>2. CASE SnapshotModelFails
    <2>1. /\ worker.at = "model" /\ checkpoint' \in {checkpoint, Checkpointed}
          /\ UNCHANGED <<exports, early>>
      BY <1>2 DEF SnapshotModelFails
    <2> QED
      BY <1>1, <2>1, SnapshotFacts
  <1>3. CASE DumpStoresFails
    <2>1. /\ worker.at = "stores" /\ UNCHANGED <<checkpoint, early>>
          /\ UNCHANGED exports \/ (CanDump(run) /\ exports' = Exported(run))
      BY <1>3 DEF DumpStoresFails
    <2>2. checkpoint' \in [Runs -> 0..None]
      BY <2>1 DEF TypeOK
    <2>3. exports[run] # <<>> => exports'[run] # <<>>
      BY <2>1, DumpFacts
    <2> QED
      BY <1>1, <2>1, <2>2, <2>3, DumpFacts
  <1>4. CASE RecordModelFails \/ CompleteFails
    <2>1. UNCHANGED <<checkpoint, exports, early>>
      BY <1>4 DEF RecordModelFails, CompleteFails, clock
    <2> QED
      BY <1>1, <2>1 DEF TypeOK, InOrder, OneModelPerRun, None
  <1> QED
    BY <1>2, <1>3, <1>4

\* A failed tick is counted, and what it may have exported with it.
LEMMA CountedFailureKeeps ==
    ASSUME CaptureInv, NEW made \in Attempted, CountsFailure(made),
           SnapshotModelFails \/ DumpStoresFails \/ RecordModelFails \/ CompleteFails
    PROVE  CaptureInv'
  <1> USE DEF CaptureInv
  <1> DEFINE run == worker.run
             attempts == made.attempts + 1
             job == [status |-> IF attempts >= MaxAttempts THEN "failed" ELSE made.status,
                     attempts |-> attempts]
  <1>1. /\ Writes(job) /\ worker' = NextTick(worker.todo)
        /\ resting' \in {resting \ {run}, resting \cup {run}}
        /\ UNCHANGED <<result, early, ended, loop, model, crashes>>
    BY Failures DEF CountsFailure
  <1>2. /\ Locked /\ worker \in [at : Active, run : Runs, todo : SUBSET Runs]
        /\ worker.at # "hung"
    BY Failures
  <1>3. /\ worker' \in {NoWorker, Listing} \cup [at : {"ticks"}, todo : SUBSET Runs]
        /\ worker'.at \in {"listing", "ticks"}
        /\ worker'.at = "ticks" => worker'.todo = worker.todo
    BY <1>1, <1>2, NextTicks DEF NextTick, Listing
  <1>4. /\ seen[run] = jobs[run] /\ jobs[run] \in Job /\ jobs[run].status \in Unfinished
        /\ jobs[run].attempts < MaxAttempts
    BY <1>2 DEF TickIsFresh, AttemptsLeft, Finished, Unfinished, TypeOK
  <1>5. /\ made \in Job /\ made.attempts = jobs[run].attempts /\ made.status # "absent"
        /\ made.status = "completed" => worker.at = "exported"
    BY <1>4 DEF Attempted, WithModel, WithStores, Job, Unfinished
  <1>6. /\ job \in Job /\ job.status # "absent"
        /\ ~Finished(job) => job.attempts < MaxAttempts
        /\ job.attempts = jobs[run].attempts + 1
        /\ job.status = "completed" => worker.at = "exported"
    BY <1>4, <1>5, CaptureAssumption DEF Job, Finished, Unfinished
  <1> HIDE DEF job, attempts, run
  <1> USE DEF run
  <1>7. /\ jobs' \in [Runs -> Job] /\ seen' = jobs'
        /\ jobs'[run] = job
        /\ \A r \in Runs \ {run} : jobs'[r] = jobs[r]
        /\ AttemptsLeft' /\ ScheduledOnce'
    BY <1>1, <1>2, <1>6, TickWrites
  <1>8. TypeOK'
    BY <1>1, <1>2, <1>3, <1>7, Failures, FailureLeaves DEF TypeOK
  <1>9. TickIsFresh'
    BY <1>1, <1>2, <1>3, <1>6, <1>7 DEF TickIsFresh, Locked, Active, Unfinished
  <1>10. InOrder' /\ OneModelPerRun'
    BY <1>1, <1>2, <1>6, <1>7, FailureLeaves DEF InOrder
  <1>11. ExportsCounted'
    <2>1. /\ run \in Runs /\ crashes' = crashes /\ crashes \in Nat
          /\ faults \in Nat /\ faults' \in Nat /\ faults' >= faults
          /\ jobs[run].attempts \in Nat
          /\ Len(exports[run]) \in Nat /\ Len(exports'[run]) \in Nat
      <3>1. run \in Runs /\ exports[run] \in Seq(0..MaxDrift) /\ exports'[run] \in Seq(0..MaxDrift)
        BY <1>2, FailureLeaves DEF TypeOK
      <3>2. faults \in Nat /\ faults' \in Nat /\ faults' >= faults /\ crashes \in Nat
        BY Failures, CaptureAssumption DEF TypeOK
      <3> QED
        BY <1>1, <1>4, <3>1, <3>2, CaptureAssumption DEF Job
    <2>2. worker'.at \notin {"exported", "hung"} /\ crashes' >= crashes
      BY <1>1, <1>3, <2>1
    <2>3. ASSUME NEW r \in Runs, r # run
          PROVE  Counted(r)'
      <3>1. jobs'[r] = jobs[r] /\ exports'[r] = exports[r]
        BY <1>7, <2>3, FailureLeaves
      <3>2. ~Exporting(r)' /\ ~Exporting(r) /\ ~Hanging(r)
        BY <2>2, <2>3 DEF Exporting, Hanging
      <3> QED
        BY <1>8, <2>1, <2>2, <3>1, <3>2, CountedStill
    <2>4. /\ jobs[run].status # "completed" /\ Counted(run)
          /\ jobs'[run].attempts = jobs[run].attempts + 1
      BY <1>4, <1>6, <1>7, <2>1 DEF Unfinished, ExportsCounted
    <2>5. /\ Len(exports'[run]) <= jobs'[run].attempts + crashes' + faults'
          /\ jobs'[run].status = "completed" => exports'[run] # <<>>
      <3>1. CASE worker.at # "exported"
        <4>1. Len(exports[run]) <= jobs[run].attempts + crashes + faults
          BY <1>2, <2>4, <3>1 DEF Counted, Exporting, Hanging
        <4>2. Len(exports'[run]) <= Len(exports[run]) + 1
          BY FailureLeaves
        <4>3. jobs'[run].status # "completed"
          BY <1>6, <1>7, <3>1
        <4>4. Len(exports'[run]) <= jobs'[run].attempts + crashes' + faults'
          BY <2>1, <2>4, <4>1, <4>2, OneMore
        <4> QED
          BY <4>3, <4>4
      <3>2. CASE worker.at = "exported"
        <4>1. exports' = exports /\ faults' = faults + 1
          BY <3>2, Failures
        <4>2. /\ exports[run] # <<>>
              /\ Len(exports[run]) <= jobs[run].attempts + crashes + faults + 1
          BY <2>4, <3>2 DEF Counted, Exporting
        <4> QED
          BY SMTT(40), <2>1, <2>4, <4>1, <4>2
      <3> QED
        BY <3>1, <3>2
    <2>6. ASSUME NEW r \in Runs, r = run
          PROVE  Counted(r)'
      <3>1. ~Exporting(r)'
        BY <2>2 DEF Exporting
      <3> QED
        BY <1>8, <2>5, <2>6, <3>1, CountedAgain
    <2> QED
      BY <2>3, <2>6 DEF ExportsCounted
  <1> QED
    BY <1>7, <1>8, <1>9, <1>10, <1>11

\* A failure that could not be recorded leaves the job as the tick has found it.
LEMMA LostFailureKeeps ==
    ASSUME CaptureInv, faults' = faults + 1, LosesFailure,
           SnapshotModelFails \/ DumpStoresFails \/ RecordModelFails \/ CompleteFails
    PROVE  CaptureInv'
  <1> USE DEF CaptureInv
  <1> DEFINE run == worker.run
  <1>1. /\ UNCHANGED <<jobs, seen, resting, result, early, ended, loop, model, crashes>>
        /\ worker' = NextTick(worker.todo)
    BY Failures DEF LosesFailure
  <1>2. /\ Locked /\ worker \in [at : Active, run : Runs, todo : SUBSET Runs]
        /\ worker.at # "hung"
    BY Failures
  <1>3. /\ worker' \in {NoWorker, Listing} \cup [at : {"ticks"}, todo : SUBSET Runs]
        /\ worker'.at \in {"listing", "ticks"}
        /\ worker'.at = "ticks" => worker'.todo = worker.todo
    BY <1>1, <1>2, NextTicks DEF NextTick, Listing
  <1>4. TypeOK'
    BY <1>1, <1>3, Failures, FailureLeaves DEF TypeOK
  <1>5. TickIsFresh' /\ AttemptsLeft' /\ ScheduledOnce'
    BY <1>1, <1>2, <1>3
       DEF TickIsFresh, Locked, Active, AttemptsLeft, ScheduledOnce, Finished
  <1>6. InOrder' /\ OneModelPerRun'
    BY <1>1, <1>2, FailureLeaves DEF InOrder, TickIsFresh, Unfinished
  <1>7. ExportsCounted'
    <2>1. /\ run \in Runs /\ crashes' = crashes /\ crashes \in Nat
          /\ faults \in Nat /\ faults' = faults + 1
          /\ jobs[run].attempts \in Nat
          /\ Len(exports[run]) \in Nat /\ Len(exports'[run]) \in Nat
      <3>1. run \in Runs /\ exports[run] \in Seq(0..MaxDrift) /\ exports'[run] \in Seq(0..MaxDrift)
        BY <1>2, FailureLeaves DEF TypeOK
      <3>2. faults \in Nat /\ crashes \in Nat /\ jobs[run].attempts \in Nat
        BY <3>1, CaptureAssumption DEF TypeOK, Job
      <3> QED
        BY <1>1, <3>1, <3>2
    <2>2. /\ worker'.at \notin {"exported", "hung"}
          /\ crashes' >= crashes /\ faults' >= faults /\ faults' > faults
      BY <1>1, <1>3, <2>1
    <2>3. ASSUME NEW r \in Runs, r # run
          PROVE  Counted(r)'
      <3>1. jobs'[r] = jobs[r] /\ exports'[r] = exports[r]
        BY <1>1, <2>3, FailureLeaves
      <3>2. ~Exporting(r)'
        BY <2>2 DEF Exporting
      <3> QED
        BY <1>4, <2>2, <3>1, <3>2, CountedStill
    <2>4. /\ jobs[run].status # "completed" /\ jobs'[run] = jobs[run] /\ Counted(run)
      BY <1>1, <1>2, <2>1 DEF TickIsFresh, Unfinished, ExportsCounted
    <2>5. Len(exports'[run]) <= jobs'[run].attempts + crashes' + faults'
      <3>1. CASE worker.at = "exported"
        <4>1. exports' = exports
          BY <3>1, Failures
        <4> QED
          BY SMTT(30), <2>1, <2>4, <4>1 DEF Counted
      <3>2. CASE worker.at # "exported"
        <4>1. Len(exports[run]) <= jobs[run].attempts + crashes + faults
          BY <1>2, <2>4, <3>2 DEF Counted, Exporting, Hanging
        <4>2. Len(exports'[run]) <= Len(exports[run]) + 1
          BY FailureLeaves
        <4> QED
          BY SMTT(40), <2>1, <2>4, <4>1, <4>2
      <3> QED
        BY <3>1, <3>2
    <2>6. ASSUME NEW r \in Runs, r = run
          PROVE  Counted(r)'
      <3>1. ~Exporting(r)' /\ jobs'[r].status # "completed"
        BY <2>2, <2>4, <2>6 DEF Exporting
      <3> QED
        BY <1>4, <2>5, <2>6, <3>1, CountedAgain
    <2> QED
      BY <2>3, <2>6 DEF ExportsCounted
  <1> QED
    BY <1>4, <1>5, <1>6, <1>7

LEMMA FailureKeeps ==
    ASSUME CaptureInv,
           SnapshotModelFails \/ DumpStoresFails \/ RecordModelFails \/ CompleteFails
    PROVE  CaptureInv'
  BY Failures, CountedFailureKeeps, LostFailureKeeps

\* A command that hangs: as a dump, but for where the worker stays.
LEMMA HangKeeps ==
    ASSUME CaptureInv, Hangs
    PROVE  CaptureInv'
  <1> USE DEF CaptureInv
  <1> DEFINE run == worker.run
  <1>1. /\ worker.at \in {"model", "stores"}
        /\ worker' = [worker EXCEPT !.at = "hung"]
        /\ UNCHANGED <<jobs, result, checkpoint, early, resting, ended, loop, seen, model,
                       crashes, faults>>
    BY DEF Hangs, clock
  <1>2. worker \in [at : Active, run : Runs, todo : SUBSET Runs] /\ Locked
    BY <1>1, Threads DEF Locked
  <1>3. /\ worker' \in [at : Active, run : Runs, todo : SUBSET Runs]
        /\ worker'.at = "hung" /\ worker'.run = worker.run /\ worker'.todo = worker.todo
    BY <1>1, <1>2 DEF Active
  <1>4. /\ exports' \in [Runs -> Seq(0..MaxDrift)]
        /\ OneModelPerRun'
        /\ \A r \in Runs : checkpoint'[r] = None => exports'[r] = <<>>
        /\ \A r \in Runs \ {run} : exports'[r] = exports[r]
        /\ Len(exports'[run]) <= Len(exports[run]) + 1
    <2>1. run \in Runs /\ Len(exports[run]) \in Nat
      BY <1>2 DEF TypeOK
    <2>2. CASE UNCHANGED exports
      BY <1>1, <2>1, <2>2 DEF TypeOK, InOrder, OneModelPerRun, None
    <2>3. CASE worker.at = "stores" /\ CanDump(run) /\ exports' = Exported(run)
      BY <1>1, <2>1, <2>3, DumpFacts
    <2> QED
      BY <2>2, <2>3 DEF Hangs
  <1>5. TypeOK' /\ TickIsFresh' /\ AttemptsLeft' /\ ScheduledOnce'
    BY <1>1, <1>2, <1>3, <1>4
       DEF TypeOK, TickIsFresh, Locked, Active, AttemptsLeft, ScheduledOnce, Finished
  <1>6. InOrder'
    BY <1>1, <1>4 DEF InOrder
  <1>7. ExportsCounted'
    <2>1. jobs[run].status # "completed" /\ run \in Runs
      BY <1>2 DEF TickIsFresh, Unfinished
    <2>2. ASSUME NEW r \in Runs
          PROVE  /\ jobs[r].attempts \in Nat /\ crashes \in Nat /\ faults \in Nat
                 /\ Len(exports[r]) \in Nat /\ Len(exports'[r]) \in Nat
      <3>1. exports[r] \in Seq(0..MaxDrift) /\ exports'[r] \in Seq(0..MaxDrift)
        BY <1>4, <2>2 DEF TypeOK
      <3> QED
        BY <2>2, <3>1, CaptureAssumption DEF TypeOK, Job
    <2>3. ASSUME NEW r \in Runs, r # run
          PROVE  Counted(r)'
      BY <1>1, <1>3, <1>4, <2>2, <2>3 DEF ExportsCounted, Counted, Exporting, Hanging
    <2>4. Len(exports'[run]) <= jobs[run].attempts + crashes + faults + 1
      <3>1. Len(exports[run]) <= jobs[run].attempts + crashes + faults
        BY <1>1, <2>1, <2>2 DEF ExportsCounted, Counted, Exporting, Hanging
      <3> QED
        BY SMTT(30), <1>4, <2>1, <2>2, <3>1
    <2>5. ASSUME NEW r \in Runs, r = run
          PROVE  Counted(r)'
      BY <1>1, <1>3, <2>1, <2>4, <2>5 DEF Counted, Exporting, Hanging
    <2> QED
      BY <2>3, <2>5 DEF ExportsCounted
  <1> QED
    BY <1>4, <1>5, <1>6, <1>7

\* Time, the model and a crash.
LEMMA WorldKeeps ==
    ASSUME CaptureInv, TimePasses \/ ModelDrifts \/ Crash
    PROVE  CaptureInv'
  <1> USE CaptureAssumption DEF CaptureInv
  <1>1. /\ UNCHANGED <<jobs, result, checkpoint, exports, ended, seen, faults>>
        /\ early' \subseteq early /\ resting' \subseteq resting
        /\ \/ UNCHANGED <<loop, worker, crashes>>
           \/ loop' = Idle /\ worker' = Listing /\ crashes' = crashes + 1
        /\ model' \in 0..MaxDrift /\ crashes' \in 0..MaxCrashes
    BY DEF TimePasses, ModelDrifts, Crash, files, clock, TypeOK
  <1>2. TypeOK'
    BY <1>1 DEF TypeOK
  <1>3. TickIsFresh' /\ ScheduledOnce'
    BY <1>1 DEF TickIsFresh, ScheduledOnce, Locked, Active, Listing, Idle
  <1>4. /\ crashes' >= crashes /\ resting' \subseteq Runs /\ result' \subseteq Runs
        /\ worker'.at \in {"exported", "hung"} => worker' = worker
        /\ worker.at \in {"exported", "hung"} => worker' = worker \/ crashes' = crashes + 1
    BY <1>1 DEF TypeOK, Listing
  <1> QED
    BY <1>1, <1>2, <1>3, <1>4, Looking

\* Every step keeps the invariant.
LEMMA StepCapture == CaptureInv /\ [Next]_captureVars => CaptureInv'
  <1> SUFFICES ASSUME CaptureInv, [Next]_captureVars PROVE CaptureInv'
    OBVIOUS
  <1>1. CASE Next
    BY <1>1, LoopKeeps, ScheduleKeeps, RoundKeeps, SnapshotKeeps, RecordKeeps, DumpKeeps,
       CompleteKeeps, FailureKeeps, HangKeeps, WorldKeeps DEF Next, OnLoop, Work
  <1>2. CASE UNCHANGED captureVars
    BY <1>2 DEF captureVars, files, clock, CaptureInv, TypeOK, TickIsFresh, Locked,
       AttemptsLeft, ScheduledOnce, InOrder, OneModelPerRun, ExportsCounted, Counted, Exporting, Hanging
  <1> QED
    BY <1>1, <1>2

-----------------------------------------------------------------------------
\* The inductive invariant of the captures.
THEOREM CaptureSafety == Spec => []CaptureInv
  BY InitCapture, StepCapture, PTL DEF Spec

\* The type invariant alone.
THEOREM CaptureTypes == Spec => []TypeOK
  BY CaptureSafety, PTL DEF CaptureInv

\* Retries, crashes and a model that trains on never lead to two exports of a run
\* with different models.
THEOREM CaptureModel == Spec => []OneModelPerRun
  BY CaptureSafety, PTL DEF CaptureInv

\* A completed job was exported; more exports than one are counted failures or
\* lost to crashes and failing writes.
THEOREM CaptureCount == Spec => []ExportsAreAccountedFor
  <1>1. CaptureInv => ExportsAreAccountedFor
    <2> SUFFICES ASSUME CaptureInv, NEW r \in Runs
                 PROVE  /\ jobs[r].status = "completed" => exports[r] # <<>>
                        /\ Len(exports[r]) <= 1 + jobs[r].attempts + crashes + faults
      BY DEF ExportsAreAccountedFor
    <2>1. jobs[r].attempts \in Nat /\ crashes \in Nat /\ faults \in Nat /\ Len(exports[r]) \in Nat
      BY CaptureAssumption DEF CaptureInv, TypeOK, Job
    <2> QED
      BY <2>1 DEF CaptureInv, ExportsCounted, Counted
  <1> QED
    BY <1>1, CaptureSafety, PTL

\* The two writers of capture-jobs.json never lose each other's jobs, and what is
\* finished stays finished.
THEOREM CaptureKeepsJobs == Spec => JobsAreKept
  <1> DEFINE Kept == \A r \in Runs :
                        /\ jobs[r].status # "absent" => jobs'[r].status # "absent"
                        /\ Finished(jobs[r]) => jobs'[r] = jobs[r]
  <1>1. ASSUME CaptureInv, [Next]_captureVars PROVE [Kept]_captureVars
    <2>1. CASE UNCHANGED jobs
      BY <2>1
    <2>2. CASE Schedule
      <3>1. loop.run \in Runs /\ jobs[loop.run] = NoJob
        BY <2>2, <1>1, Threads DEF Schedule, CaptureInv, ScheduledOnce
      <3>2. \A r \in Runs \ {loop.run} : jobs'[r] = jobs[r]
        BY <2>2, <1>1, <3>1 DEF Schedule, CaptureInv, TypeOK
      <3> QED
        BY <3>1, <3>2 DEF NoJob, Finished
    <2>3. ASSUME NEW job, Locked, Writes(job), job.status # "absent"
          PROVE  Kept
      <3>1. /\ worker.run \in Runs /\ seen = jobs /\ jobs[worker.run].status \in Unfinished
        BY <1>1, <2>3, Threads DEF CaptureInv, TickIsFresh
      <3>2. /\ jobs'[worker.run] = job
            /\ \A r \in Runs \ {worker.run} : jobs'[r] = jobs[r]
        BY <1>1, <2>3, <3>1 DEF Writes, CaptureInv, TypeOK
      <3> QED
        BY <2>3, <3>1, <3>2 DEF Finished, Unfinished
    <2>4. CASE RecordModel \/ Complete
      <3> DEFINE job == IF worker.at = "exported" THEN WithStores ELSE WithModel
      <3>1. Locked /\ Writes(job)
        BY <2>4 DEF RecordModel, Complete, Locked
      <3>2. seen[worker.run] \in Job
        BY <1>1, <3>1, Threads DEF CaptureInv, TypeOK
      <3>3. job.status # "absent"
        BY <3>2 DEF Job, WithStores, WithModel
      <3> HIDE DEF job
      <3> QED
        BY <2>3, <3>1, <3>3
    <2>5. CASE SnapshotModelFails \/ DumpStoresFails \/ RecordModelFails \/ CompleteFails
      <3>1. ASSUME NEW made \in Attempted, CountsFailure(made)
            PROVE  Kept
        <4> DEFINE attempts == made.attempts + 1
                   job == [status |-> IF attempts >= MaxAttempts THEN "failed"
                                      ELSE made.status,
                           attempts |-> attempts]
        <4>1. Locked /\ Writes(job)
          BY <1>1, <2>5, <3>1, Failures DEF CountsFailure
        <4>2. seen[worker.run] \in Job /\ seen[worker.run].status \in Unfinished
          BY <1>1, <4>1, Threads DEF CaptureInv, TickIsFresh, TypeOK
        <4>3. job.status # "absent"
          BY <4>2 DEF Attempted, WithModel, WithStores, Unfinished, Job
        <4> HIDE DEF job
        <4> QED
          BY <2>3, <4>1, <4>3
      <3> QED
        BY <1>1, <2>1, <2>5, <3>1, Failures DEF LosesFailure
    <2> QED
      BY <1>1, <2>1, <2>2, <2>4, <2>5
         DEF Next, OnLoop, Work, RunEnds, WriteResult, ScheduleCaptureFails, List, TickWaits,
             TickStarts, SnapshotModel, DumpStores, Hangs, TimePasses, ModelDrifts, Crash,
             captureVars, files
  <1> QED
    BY <1>1, CaptureSafety, PTL DEF Spec, JobsAreKept
=============================================================================
