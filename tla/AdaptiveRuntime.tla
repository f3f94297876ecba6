--------------------------- MODULE AdaptiveRuntime ---------------------------
(***************************************************************************)
(* One adaptive session (backend/app/adaptive_runtime.py) on top of the    *)
(* composite profile applier (TrustedDispatcherApplier in                  *)
(* production_runtime.py).  Which action the controller takes in a tick is *)
(* left open here: AdaptiveController says which, and nothing below        *)
(* depends on why.  A level is a set of companion profiles and a primary   *)
(* one, injected and taken away by separate calls that can each fail; the  *)
(* applier writes its intent to a journal before each call.                *)
(*                                                                         *)
(* The driver (_execute_adaptive in runner.py) calls begin once and tick   *)
(* again and again, and writes the session to the run's directory after    *)
(* each call; inside a call the session awaits the applier.  `awaits` says *)
(* where it stands.  The driver may fail, and then its handler, which ends *)
(* the task but not its heartbeats; and the process may die.  The watchdog *)
(* cleans up from the journal what nobody renews the lease of, and what    *)
(* stays DIRTY the operator.  (RunLifecycle has the races between them;    *)
(* here one follows the other.)                                            *)
(***************************************************************************)
EXTENDS Integers, Sequences, CleanWindow

CONSTANTS
    Companions, Primary, \* the profiles of the scenario
    Levels,              \* number of levels
    MaxInjection,        \* max_injection_duration_sec
    RecoveryTimeout, RecoveryTicks,
    Horizon              \* bound of the model: no tick begins after it

\* The calls that follow the last tick end before Forever.
ASSUME RuntimeAssumption ==
    /\ Primary \notin Companions
    /\ Levels \in Nat \ {0} /\ RecoveryTicks \in Nat \ {0}
    /\ MaxInjection \in Nat /\ RecoveryTimeout \in Nat /\ Horizon \in Nat
    /\ Horizon + 4 <= Forever

Profiles == Companions \cup {Primary}
Terminal == {"succeeded", "failed", "aborted", "dirty"}
Ended == {"blocked", "clean", "dirty"}
VARIABLES
    status,   \* SessionStatus
    phase,    \* the controller's phase: "none", "active" or a terminal one
    level,
    changes,  \* level_changes
    cleanup,  \* cleanup evidence: "none", "succeeded" or "failed"
    recovery, \* recovery evidence
    awaits,   \* the applier call or the file the driver is at; "gone": it ended
              \* without a conclusion
    journal,  \* profiles with an apply intent in mutations.json
    live,     \* profiles whose effect is on the testbed
    now,
    handling, \* the driver has failed, and is in its handler
    held,     \* what the coordinator holds of the run: its lease, a DIRTY run, or nothing
    renewed,  \* the heartbeats of the run go on
    disk,     \* the run's directory, as the clean-window check reads it
    touched   \* history: the times at which some effect was on the testbed

sessionVars == <<status, phase, level, changes, cleanup, recovery, handling>>
outside == <<held, disk>>
runtimeVars == <<sessionVars, awaits, journal, live, now, outside, renewed, touched>>

NoRecovery == [status |-> "none", streak |-> 0, started |-> 0, reason |-> "none"]

Init ==
    /\ status = "pending" /\ phase = "none" /\ level = 0
    /\ changes = <<>>
    /\ cleanup = "none" /\ recovery = NoRecovery
    /\ awaits = "nothing"
    /\ journal = {} /\ live = {}
    /\ now = 0
    /\ handling = FALSE
    /\ held = "lease" /\ renewed = TRUE
    /\ disk = [documents |-> [d \in {"timeline"} |-> <<>>], cleanup |-> Open]
    /\ touched = {}

-----------------------------------------------------------------------------
T1 == changes[1].applied
Last == changes[Len(changes)]

\* Mutant: an end that is recorded stays.
ClosedOnce(ended) ==
    IF changes = <<>> \/ Last.ended # Open THEN changes
    ELSE [changes EXCEPT ![Len(changes)].ended = ended]

\* Mutant: the end goes to the first level.
ClosedFirst(ended) ==
    IF changes = <<>> \/ (changes[1].ended # Open /\ ended <= changes[1].ended) THEN changes
    ELSE [changes EXCEPT ![1].ended = ended]

\* _close_latest_effect: an end already recorded only moves forward.
Closed(ended) ==
    IF changes = <<>> \/ (Last.ended # Open /\ ended <= Last.ended) THEN changes
    ELSE [changes EXCEPT ![Len(changes)].ended = ended]

\* The documents of the run's directory, with the levels up to now in one of them.
Saved(name) ==
    [d \in DOMAIN disk.documents \cup {name} |->
        IF d = name THEN changes ELSE disk.documents[d]]

\* A call of the applier takes time.
Returns == now' = now + 1

\* begin or tick has returned, and the session is written down.
GoesOn == awaits' = "state"

\* The profiles an apply() got to, and the one it was at when it stopped:
\* companions come before the primary.
Reached ==
    {x \in [profiles : SUBSET Profiles, at : Profiles] :
        Primary \in x.profiles => x.profiles = Profiles /\ x.at = Primary}

\* What cleanup() is called for: the profiles with an intent, or all of them.
Intended == IF journal = {} THEN Profiles ELSE journal

\* TrustedDispatcherApplier.cleanup: every intended profile gets its attempt;
\* one failure fails the whole, and may or may not have undone its part.
Cleans(outcome) ==
    \E failed \in SUBSET Intended, left \in SUBSET Intended :
        /\ left \subseteq failed
        /\ outcome = IF failed = {} THEN "succeeded" ELSE "failed"
        /\ live' = (live \ Intended) \cup (live \cap left)

-----------------------------------------------------------------------------
\* begin(): a failed check blocks, a probe that raises too; else the first level
\* is asked for.
BeginBlocked ==
    /\ status = "pending" /\ awaits = "nothing"
    /\ status' = "blocked"
    /\ GoesOn
    /\ UNCHANGED <<phase, level, changes, cleanup, recovery, journal, live, now>>

Begin ==
    /\ status = "pending" /\ awaits = "nothing"
    /\ status' = "active"
    /\ phase' = "active"
    /\ awaits' = "apply"
    /\ UNCHANGED <<level, changes, cleanup, recovery, journal, live, now>>

\* Mutant: the intent is written when the profile has been applied.
ApplyFailsUnjournaled ==
    /\ awaits = "apply"
    /\ \E x \in Reached :
          /\ live' = live \cup x.profiles
          /\ journal' = journal \cup (x.profiles \ {x.at})
    /\ phase' = "aborted"
    /\ awaits' = "cleanup"
    /\ Returns
    /\ UNCHANGED <<status, level, changes, cleanup, recovery>>

\* apply() raises, or its result is rejected: whatever it had injected, or
\* half injected, is there; the controller is aborted.
ApplyFails ==
    /\ awaits = "apply"
    /\ \E x \in Reached :
          /\ live' \in {live \cup (x.profiles \ {x.at}), live \cup x.profiles}
          /\ journal' = journal \cup x.profiles
    /\ phase' = "aborted"
    /\ awaits' = "cleanup"
    /\ Returns
    /\ UNCHANGED <<status, level, changes, cleanup, recovery>>

Applies ==
    /\ awaits = "apply"
    /\ live' = live \cup Profiles
    /\ journal' = Profiles
    /\ changes' = Append(IF changes # <<>> /\ Last.ended = Open THEN Closed(now) ELSE changes,
                         [level |-> level, applied |-> now, ended |-> Open])
    /\ GoesOn
    /\ Returns
    /\ UNCHANGED <<status, phase, level, cleanup, recovery>>

-----------------------------------------------------------------------------
Ticking(s) == awaits = "nothing" /\ status = s /\ now < Horizon

\* The injection has lasted too long; nothing else is looked at.
TickTooLong ==
    /\ Ticking("active") /\ now - T1 >= MaxInjection
    /\ phase' = "aborted"
    /\ awaits' = "cleanup"
    /\ UNCHANGED <<status, level, changes, cleanup, recovery, journal, live, now>>

TickWaits ==
    /\ Ticking("active") /\ now - T1 < MaxInjection
    /\ GoesOn
    /\ Returns
    /\ UNCHANGED <<sessionVars, journal, live>>

TickDecides ==
    /\ Ticking("active") /\ now - T1 < MaxInjection
    /\ phase' \in Terminal \ {"dirty"}
    /\ awaits' = "cleanup"
    /\ UNCHANGED <<status, level, changes, cleanup, recovery, journal, live, now>>

\* An escalation on readings that cannot be used aborts, with the next level
\* already noted.
TickEscalates ==
    /\ Ticking("active") /\ now - T1 < MaxInjection
    /\ level + 1 < Levels
    /\ level' = level + 1
    /\ \/ awaits' = "transition" /\ UNCHANGED phase
       \/ awaits' = "cleanup" /\ phase' = "aborted"
    /\ UNCHANGED <<status, changes, cleanup, recovery, journal, live, now>>

\* Mutant: the next level is applied whatever became of the previous one.
TransitionCleansAndGoesOn ==
    /\ awaits = "transition"
    /\ \E outcome \in {"succeeded", "failed"} : Cleans(outcome)
    /\ changes' = Closed(now)
    /\ awaits' = "apply"
    /\ Returns
    /\ UNCHANGED <<status, phase, level, cleanup, recovery, journal>>

\* Mutant: the failed transition is noted, the next level applied all the same.
TransitionFailsAndGoesOn ==
    /\ awaits = "transition"
    /\ \/ Cleans("succeeded") /\ changes' = Closed(now) /\ UNCHANGED phase
       \/ Cleans("failed") /\ phase' = "aborted" /\ UNCHANGED changes
    /\ awaits' = "apply"
    /\ Returns
    /\ UNCHANGED <<status, level, cleanup, recovery, journal>>

\* _cleanup_for_level_transition.
TransitionCleans ==
    /\ awaits = "transition"
    /\ \/ /\ Cleans("succeeded")
          /\ changes' = Closed(now)
          /\ awaits' = "apply"
          /\ UNCHANGED phase
       \/ /\ Cleans("failed")
          /\ phase' = "aborted"
          /\ awaits' = "cleanup"
          /\ UNCHANGED changes
    /\ Returns
    /\ UNCHANGED <<status, level, cleanup, recovery, journal>>

-----------------------------------------------------------------------------
\* A session that is not CLEAN yet, unless its driver has failed: that does not
\* look again.
Unsettled == IF handling THEN "dirty" ELSE "recovering"

\* Mutant: recovery is waited for as long as it takes.
RecoversInItsTime(r, elapsed) ==
    \E matched \in BOOLEAN :
        LET streak == IF matched THEN r.streak + 1 ELSE 0
        IN  /\ status' = IF streak >= RecoveryTicks THEN "clean" ELSE Unsettled
            /\ recovery' = [r EXCEPT !.streak = streak,
                                     !.status = IF streak >= RecoveryTicks THEN "succeeded" ELSE "pending"]
            /\ UNCHANGED phase

\* _tick_recovery, as far as it goes in one look.
Recovers(r, elapsed) ==
    \E matched \in BOOLEAN :
        LET streak == IF matched THEN r.streak + 1 ELSE 0
        IN  IF streak >= RecoveryTicks
            THEN /\ status' = "clean"
                 /\ recovery' = [r EXCEPT !.status = "succeeded", !.streak = streak]
                 /\ UNCHANGED phase
            ELSE IF elapsed >= RecoveryTimeout
            THEN /\ status' = "dirty" /\ phase' = "dirty"
                 /\ recovery' = [r EXCEPT !.status = "failed", !.streak = streak,
                                          !.reason = "recovery_timeout"]
            ELSE /\ status' = Unsettled
                 /\ recovery' = [r EXCEPT !.streak = streak]
                 /\ UNCHANGED phase

\* Mutant: a cleaned run is CLEAN, recovered or not.
TerminalCleansWithoutRecovery ==
    /\ awaits = "cleanup"
    /\ Cleans("succeeded")
    /\ cleanup' = "succeeded"
    /\ changes' = Closed(now)
    /\ status' = "clean"
    /\ GoesOn
    /\ Returns
    /\ UNCHANGED <<level, phase, recovery, journal>>

\* _cleanup_terminal, the cleanup having succeeded.  A session without a level
\* change has nothing to recover from.
TerminalCleans ==
    /\ awaits = "cleanup"
    /\ Cleans("succeeded")
    /\ cleanup' = "succeeded"
    /\ changes' = Closed(now)
    /\ LET r == [NoRecovery EXCEPT !.status = "pending", !.started = now]
       IN  IF changes = <<>>
           THEN /\ status' = "clean"
                /\ recovery' = [r EXCEPT !.status = "succeeded",
                                         !.reason = "no_injection_applied"]
                /\ UNCHANGED phase
           ELSE Recovers(r, 0)
    /\ GoesOn
    /\ Returns
    /\ UNCHANGED <<level, journal>>

TerminalCleanupFails ==
    /\ awaits = "cleanup"
    /\ Cleans("failed")
    /\ cleanup' = "failed"
    /\ phase' = "dirty"
    /\ status' = "dirty"
    /\ recovery' = [NoRecovery EXCEPT !.status = "failed", !.reason = "cleanup_failed"]
    /\ GoesOn
    /\ Returns
    /\ UNCHANGED <<level, changes, journal>>

TickRecovery ==
    /\ Ticking("recovering")
    /\ Recovers(recovery, now - recovery.started)
    /\ GoesOn
    /\ Returns
    /\ UNCHANGED <<level, changes, cleanup, journal, live>>

-----------------------------------------------------------------------------
\* Where a call of the driver may raise: between two ticks, because the
\* coordinator refuses its heartbeat for example, or while it writes the session
\* down.
Interrupted ==
    \/ (Ticking("active") \/ Ticking("recovering")) /\ UNCHANGED disk
    \/ awaits \in {"state", "timeline"} /\ UNCHANGED disk
    \/ awaits = "timeline" /\ disk' = [disk EXCEPT !.documents = Saved("timeline")]

\* The handler of the driver.  A session without a level is BLOCKED, an injection
\* is cleaned up once, a recovery that is going on is given up.
DriverFails ==
    /\ Interrupted
    /\ ~handling /\ handling' = TRUE
    /\ \/ changes = <<>> /\ status' = "blocked" /\ UNCHANGED phase /\ GoesOn
       \/ /\ changes # <<>> /\ cleanup = "none"
          /\ phase' = "aborted" /\ awaits' = "cleanup"
          /\ UNCHANGED status
       \/ /\ changes # <<>> /\ cleanup # "none"
          /\ status' = IF status = "clean" THEN "clean" ELSE "dirty"
          /\ GoesOn
          /\ UNCHANGED phase
    /\ UNCHANGED <<level, changes, cleanup, recovery, journal, live, now, held>>

\* The handler raises as well, in the log of the run, after the cleanup or while
\* it writes the session down: the exception leaves the task before the place
\* that ends its heartbeats.
HandlerFails ==
    /\ \/ Interrupted /\ UNCHANGED <<live, now>>
       \/ /\ handling /\ awaits = "cleanup"
          /\ \E outcome \in {"succeeded", "failed"} : Cleans(outcome)
          /\ Returns
          /\ UNCHANGED disk
    /\ awaits' = "gone"
    /\ UNCHANGED <<sessionVars, journal, held>>

-----------------------------------------------------------------------------
\* persist_session: state.json first, then timeline.json, and cleanup.json in
\* its nested form, which the clean-window check does not read.
PersistState ==
    /\ awaits = "state"
    /\ disk' = [disk EXCEPT !.documents = Saved("state")]
    /\ awaits' = "timeline"
    /\ UNCHANGED <<sessionVars, journal, live, now, held>>

PersistTimeline ==
    /\ awaits = "timeline"
    /\ disk' = [documents |-> Saved("timeline"), cleanup |-> Open]
    /\ awaits' = "nothing"
    /\ UNCHANGED <<sessionVars, journal, live, now, held>>

\* The runner's conclusion.  A failed heartbeat leaves any session DIRTY;
\* result.json follows the release of a CLEAN one with a level, and may fail.
Concludes ==
    /\ awaits = "nothing" /\ status \in Ended /\ held = "lease"
    /\ \/ held' = "dirty" /\ UNCHANGED disk
       \/ status # "dirty" /\ held' = "free" /\ UNCHANGED disk
       \/ /\ status = "clean" /\ changes # <<>> /\ held' = "free"
          /\ disk' = [disk EXCEPT !.documents = Saved("result")]
    /\ UNCHANGED <<sessionVars, awaits, journal, live, now>>

\* The process dies, perhaps half way through a call of the applier.
Crash ==
    /\ held = "lease" /\ awaits # "gone"
    /\ awaits' = "gone" /\ renewed' = FALSE
    /\ \/ UNCHANGED <<live, journal>>
       \/ /\ awaits = "apply"
          /\ \E x \in Reached :
                /\ live' \in {live \cup (x.profiles \ {x.at}), live \cup x.profiles}
                /\ journal' = journal \cup x.profiles
       \/ /\ awaits \in {"cleanup", "transition"}
          /\ live' \in SUBSET live
          /\ UNCHANGED journal
    /\ Returns
    /\ UNCHANGED <<sessionVars, outside>>

\* A process whose task is gone dies too, or its heartbeats fail after all.
HeartbeatsEnd ==
    /\ held = "lease" /\ awaits = "gone" /\ renewed
    /\ renewed' = FALSE
    /\ UNCHANGED <<sessionVars, awaits, journal, live, now, outside>>

\* The cleanup of somebody else: all there is to go by is the journal.
CleanedFromOutside ==
    /\ \/ Cleans("succeeded") /\ held' = "free" /\ disk' = [disk EXCEPT !.cleanup = now]
       \/ Cleans("failed") /\ held' = "dirty" /\ disk' = [disk EXCEPT !.cleanup = Open]
    /\ Returns
    /\ UNCHANGED <<sessionVars, awaits, journal>>

\* The watchdog, some time after a lease that nobody renews has lapsed.
WatchdogCleans == held = "lease" /\ awaits = "gone" /\ ~renewed /\ CleanedFromOutside

OperatorCleans == held = "dirty" /\ now < Horizon /\ CleanedFromOutside

TimePasses ==
    /\ held = "dirty" \/ (held = "lease" /\ awaits = "gone")
    /\ now < Horizon
    /\ Returns
    /\ UNCHANGED <<sessionVars, awaits, journal, live, outside>>

-----------------------------------------------------------------------------
InSession ==
    /\ \/ BeginBlocked \/ Begin
       \/ ApplyFails \/ Applies
       \/ TickTooLong \/ TickWaits \/ TickDecides \/ TickEscalates
       \/ TransitionCleans \/ TerminalCleans \/ TerminalCleanupFails \/ TickRecovery
    /\ UNCHANGED <<outside, handling>>

Driver ==
    InSession \/ DriverFails \/ HandlerFails \/ PersistState \/ PersistTimeline \/ Concludes

Others == WatchdogCleans \/ OperatorCleans \/ TimePasses

\* The time that has passed was touched by what was there before or is after.
Touches ==
    touched' = IF now' # now /\ live \cup live' # {} THEN touched \cup {now} ELSE touched

Next ==
    /\ \/ (Driver \/ Others) /\ UNCHANGED renewed
       \/ Crash \/ HeartbeatsEnd
    /\ Touches

\* What the session waits for while profile-control.py runs.
Calls == {"apply", "transition", "cleanup"}

\* The driver ticks until the session has ended and concludes it, or fails, but
\* nothing bounds its calls of profile-control.py.  The watchdog polls, and its
\* own call returns.  The operator may never come, and nothing makes a process die.
Spec ==
    /\ Init /\ [][Next]_runtimeVars
    /\ WF_runtimeVars(awaits \notin Calls /\ Driver /\ UNCHANGED renewed /\ Touches)
    /\ WF_runtimeVars(WatchdogCleans /\ UNCHANGED renewed /\ Touches)

-----------------------------------------------------------------------------
\* Type invariant: the session and the applier, ...
SessionTypes ==
    /\ status \in {"pending", "active", "recovering"} \cup Ended
    /\ phase \in {"none", "active"} \cup Terminal
    /\ level \in 0..(Levels - 1)
    /\ changes \in Seq([level : 0..(Levels - 1), applied : Nat, ended : Nat \cup {Open}])
    /\ Len(changes) <= Levels
    /\ cleanup \in {"none", "succeeded", "failed"}
    /\ recovery \in [status : {"none", "pending", "succeeded", "failed"}, streak : Nat,
                     started : Nat,
                     reason : {"none", "no_injection_applied", "recovery_timeout",
                               "cleanup_failed"}]
    /\ awaits \in {"nothing", "apply", "transition", "state", "timeline", "cleanup", "gone"}
    /\ handling \in BOOLEAN
    /\ journal \subseteq Profiles /\ live \subseteq Profiles
    /\ now \in Nat /\ touched \subseteq 0..now
    /\ held \in {"lease", "dirty", "free"}

\* ... and the heartbeats, which go on unless the task is gone.
TypeOK == SessionTypes /\ renewed \in BOOLEAN /\ (~renewed => awaits = "gone")

\* The record of a first level that failed half way, and of its failed cleanup,
\* could not be written: without a level the handler calls the session BLOCKED,
\* and the runner gives the testbed back.
Misjudged == status = "blocked" /\ cleanup = "failed"

\* A session ends CLEAN, and the testbed is given back, only with every profile
\* off it, the ones of a level that failed half way or of a process that died
\* included.  (Not so for a session that was misjudged.)
CleanLeavesNothing ==
    /\ status = "clean" => live = {}
    /\ held = "free" /\ ~Misjudged => live = {}

\* A session that had injected a level ends CLEAN only after the testbed was
\* seen to have recovered, RecoveryTicks times in a row, and every level's
\* effect has an end.
CleanIsVerified ==
    status = "clean" /\ changes # <<>> =>
        /\ recovery.status = "succeeded" /\ recovery.streak >= RecoveryTicks
        /\ \A i \in DOMAIN changes : changes[i].ended # Open

\* The effects of two levels never overlap: a level is recorded after the end
\* of the one before.  Captures and clean windows are cut at these times.
LevelsDoNotOverlap ==
    \A i, j \in DOMAIN changes :
        i < j => changes[i].ended # Open /\ changes[i].ended <= changes[j].applied

\* When a level is injected, nothing of the level before is left.
LevelStartsClean == [][awaits = "apply" /\ awaits' # "apply" => live = {}]_runtimeVars

\* A session that was given up injects nothing more.
NoInjectionAfterTheEnd ==
    [][(phase \in Terminal) => (live' \subseteq live)]_runtimeVars

\* Once the run's directory names a level, the effects of the run stay inside
\* the intervals the clean-window check reads from it, through retries, failed
\* cleanups, crashes and the cleanups of others.  (Not so when a later level
\* fails half way and its cleanup too: the level before has its end on record,
\* and the one of the outside cleanup is not read.)
EffectsStayOnRecord ==
    /\ held = "free"
    /\ \E d \in DOMAIN disk.documents : disk.documents[d] # <<>>
    /\ ~(cleanup = "failed" /\ Last.ended # Open)
    => \A t \in touched : Overlaps(disk, t, t)

\* A window that the check finds clean, up to the moment of the check, had no
\* effect of the run in it.
CleanWindowIsClean ==
    held = "free" =>
        \A from \in 0..now : ~Overlaps(disk, from, now) => touched \cap (from..now) = {}

\* The testbed does not stay with the run: the injection and the recovery are
\* both limited, a driver that fails comes to an end too, and the watchdog follows
\* a process that dies.  Only a task that is gone and whose heartbeats go on keeps
\* it, or a call that never returns: nothing but the end of the process resolves
\* those.
TestbedIsResolved ==
    \/ <>(held # "lease")
    \/ <>[](awaits = "gone" /\ renewed)
    \/ \E call \in Calls : <>[](awaits = call)
=============================================================================
