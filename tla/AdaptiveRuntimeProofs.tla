------------------------ MODULE AdaptiveRuntimeProofs ------------------------
(***************************************************************************)
(* Safety of the adaptive session for any profiles, levels and limits, with *)
(* failing calls, a failing driver and a process that dies anywhere.       *)
(***************************************************************************)
EXTENDS AdaptiveRuntime, TLAPS

Change == [level : 0..(Levels - 1), applied : Nat, ended : Nat \cup {Open}]

\* What the calls rely on: the journal has whatever may be live, and where the
\* session stands says what is on the testbed, ...
JournalIsAhead == live \subseteq journal
Untouched ==
    /\ status \in {"pending", "recovering", "clean"} => live = {}
    /\ status = "blocked" => live = {} \/ cleanup = "failed"
    /\ awaits = "apply" \/ (held = "free" /\ ~Misjudged) => live = {}

\* ... where the driver stands, ...
Positions ==
    /\ status = "pending" => phase = "none" /\ changes = <<>>
    /\ awaits \in {"apply", "transition"} => status = "active" /\ phase = "active"
    /\ awaits = "cleanup" => status = "active" /\ phase \in Terminal
    /\ status = "active" /\ awaits \in {"nothing", "state", "timeline"} => phase = "active"
    /\ awaits # "gone" /\ held # "lease" => awaits = "nothing" /\ status \in Ended
    /\ changes # <<>> /\ cleanup = "none" => status = "active"
    /\ changes = <<>> => status # "recovering" /\ (status = "dirty" => cleanup = "failed")

\* ... how many levels there are, and which of them have ended.
Counted ==
    /\ Len(changes) <= level + 1
    /\ status = "pending" \/ awaits \in {"apply", "transition"} => Len(changes) = level
    /\ status = "active" /\ awaits \in {"nothing", "state", "timeline"}
         => Len(changes) = level + 1
AllClosed == \A i \in DOMAIN changes : changes[i].ended # Open
Timed ==
    /\ \A i \in DOMAIN changes : changes[i].applied <= now /\ changes[i].ended <= now
    /\ awaits = "apply" \/ status \in {"recovering", "clean"} => AllClosed

SessionInv ==
    /\ SessionTypes /\ JournalIsAhead /\ Untouched /\ Positions /\ Counted /\ Timed
    /\ CleanIsVerified /\ LevelsDoNotOverlap

\* The steps that do more than end the heartbeats.
Moves == (Driver \/ Others \/ Crash) /\ Touches

-----------------------------------------------------------------------------
\* _close_latest_effect changes nothing but the end of the latest level, and
\* gives it one.
LEMMA ClosedFacts ==
    ASSUME changes \in Seq(Change), NEW n \in Nat
    PROVE  /\ Closed(n) \in Seq(Change)
           /\ Len(Closed(n)) = Len(changes)
           /\ \A i \in 1..Len(changes) :
                /\ Closed(n)[i].applied = changes[i].applied
                /\ i < Len(changes) => Closed(n)[i] = changes[i]
                /\ Closed(n)[i].ended \in {changes[i].ended, n}
                /\ i = Len(changes) => Closed(n)[i].ended # Open
<1>1. CASE changes = <<>> \/ (Last.ended # Open /\ n <= Last.ended)
  BY <1>1 DEF Closed, Last, Change
<1>2. CASE ~(changes = <<>> \/ (Last.ended # Open /\ n <= Last.ended))
  <2>1. Len(changes) \in 1..Len(changes)
    BY <1>2
  <2>2. Closed(n) = [changes EXCEPT ![Len(changes)] = [@ EXCEPT !.ended = n]]
    BY <1>2 DEF Closed
  <2>3. [changes[Len(changes)] EXCEPT !.ended = n] \in Change
    <3>1. changes[Len(changes)] \in Change
      BY <2>1
    <3>2. ASSUME NEW c \in Change PROVE [c EXCEPT !.ended = n] \in Change
      BY DEF Change
    <3> QED
      BY <3>1, <3>2
  <2>4. Closed(n) \in Seq(Change) /\ Len(Closed(n)) = Len(changes)
    BY <2>1, <2>2, <2>3
  <2> QED
    BY <2>1, <2>2, <2>4 DEF Change, Open
<1> QED
  BY <1>1, <1>2

\* A cleanup that succeeds leaves nothing of what the journal has, one that
\* fails adds nothing.
LEMMA CleansFacts ==
    ASSUME JournalIsAhead, NEW outcome, Cleans(outcome), journal \subseteq Profiles
    PROVE  live' \subseteq live /\ (outcome = "succeeded" => live' = {})
<1>1. PICK failed \in SUBSET Intended, left \in SUBSET Intended :
         /\ left \subseteq failed
         /\ outcome = IF failed = {} THEN "succeeded" ELSE "failed"
         /\ live' = (live \ Intended) \cup (live \cap left)
  BY DEF Cleans
<1>2. live \subseteq Intended
  BY DEF JournalIsAhead, Intended
<1>3. live' \subseteq live
  BY <1>1
<1>4. ASSUME outcome = "succeeded" PROVE live' = {}
  <2>1. failed = {} /\ left = {}
    BY <1>1, <1>4
  <2> QED
    BY <1>1, <1>2, <2>1
<1> QED
  BY <1>3, <1>4

-----------------------------------------------------------------------------
THEOREM SessionInit == Init => SessionInv
<1> SUFFICES ASSUME Init PROVE SessionInv
  OBVIOUS
<1>1. SessionTypes
  <2>1. handling \in BOOLEAN
    BY DEF Init
  <2> QED
    BY <2>1, RuntimeAssumption DEF Init, SessionTypes, NoRecovery, Terminal
<1>2. CleanIsVerified /\ LevelsDoNotOverlap /\ Counted /\ Timed
  BY DEF Init, CleanIsVerified, LevelsDoNotOverlap, Counted, Timed, AllClosed, Terminal
<1>3. JournalIsAhead /\ Untouched /\ Positions
  BY DEF Init, JournalIsAhead, Untouched, Positions
<1> QED
  BY <1>1, <1>2, <1>3 DEF SessionInv

LEMMA TouchedType ==
    ASSUME SessionTypes, Touches, now' \in {now, now + 1}
    PROVE  touched' \subseteq 0..now' /\ now' \in Nat
  BY DEF SessionTypes, Touches

RecoveryType ==
    [status : {"none", "pending", "succeeded", "failed"}, streak : Nat, started : Nat,
     reason : {"none", "no_injection_applied", "recovery_timeout", "cleanup_failed"}]

\* A look at recovery: CLEAN only with enough matches in a row.
LEMMA RecoversFacts ==
    ASSUME NEW r \in RecoveryType, NEW e, Recovers(r, e)
    PROVE  /\ recovery' \in RecoveryType
           /\ status' \in {"clean", "recovering", "dirty"}
           /\ phase' \in {phase, "dirty"}
           /\ status' = "clean" =>
                recovery'.status = "succeeded" /\ recovery'.streak >= RecoveryTicks
<1>1. PICK matched \in BOOLEAN :
        LET streak == IF matched THEN r.streak + 1 ELSE 0
        IN  IF streak >= RecoveryTicks
            THEN /\ status' = "clean"
                 /\ recovery' = [r EXCEPT !.status = "succeeded", !.streak = streak]
                 /\ UNCHANGED phase
            ELSE IF e >= RecoveryTimeout
            THEN /\ status' = "dirty" /\ phase' = "dirty"
                 /\ recovery' = [r EXCEPT !.status = "failed", !.streak = streak,
                                          !.reason = "recovery_timeout"]
            ELSE /\ status' = Unsettled
                 /\ recovery' = [r EXCEPT !.streak = streak]
                 /\ UNCHANGED phase
  BY DEF Recovers
<1> DEFINE streak == IF matched THEN r.streak + 1 ELSE 0
<1>2. streak \in Nat
  BY DEF RecoveryType
<1> HIDE DEF streak
<1>3. \/ /\ streak >= RecoveryTicks /\ status' = "clean" /\ phase' = phase
         /\ recovery' = [r EXCEPT !.status = "succeeded", !.streak = streak]
      \/ /\ status' = "dirty" /\ phase' = "dirty"
         /\ recovery' = [r EXCEPT !.status = "failed", !.streak = streak,
                                  !.reason = "recovery_timeout"]
      \/ /\ status' \in {"recovering", "dirty"} /\ phase' = phase
         /\ recovery' = [r EXCEPT !.streak = streak]
  BY <1>1 DEF streak, Unsettled
<1> QED
  BY <1>2, <1>3 DEF RecoveryType

LEMMA EscalatesLevel ==
    ASSUME SessionTypes, TickEscalates
    PROVE  level' \in 0..(Levels - 1)
<1>1. level \in 0..(Levels - 1)
  BY DEF SessionTypes
<1>2. level + 1 < Levels /\ level' = level + 1
  BY DEF TickEscalates
<1> QED
  BY <1>1, <1>2, RuntimeAssumption DEF RuntimeAssumption

-----------------------------------------------------------------------------
\* The calls that leave the levels and the testbed as they are.
LEMMA QuietStep ==
    ASSUME SessionInv, Touches, UNCHANGED <<changes, cleanup, journal, live>>,
           \/ BeginBlocked /\ UNCHANGED <<outside, handling>>
           \/ Begin /\ UNCHANGED <<outside, handling>>
           \/ TickTooLong /\ UNCHANGED <<outside, handling>>
           \/ TickWaits /\ UNCHANGED <<outside, handling>>
           \/ TickDecides /\ UNCHANGED <<outside, handling>>
           \/ TickEscalates /\ UNCHANGED <<outside, handling>>
           \/ PersistState \/ PersistTimeline \/ Concludes \/ TimePasses
    PROVE  SessionInv'
<1> USE RuntimeAssumption DEF SessionInv
<1>1. now' \in {now, now + 1} /\ recovery' = recovery
  BY DEF BeginBlocked, Begin, TickTooLong, TickWaits, TickDecides, TickEscalates, 
         PersistState, PersistTimeline, Concludes, TimePasses, Returns, GoesOn, sessionVars
<1>2. touched' \subseteq 0..now' /\ now' \in Nat
  BY <1>1, TouchedType
<1>3. changes \in Seq(Change) /\ now \in Nat
  BY DEF SessionTypes, Change
<1>4. JournalIsAhead' /\ LevelsDoNotOverlap'
  BY DEF JournalIsAhead, LevelsDoNotOverlap
<1>5. /\ (AllClosed <=> AllClosed')
      /\ \A n \in DOMAIN changes : changes[n].applied <= now' /\ changes[n].ended <= now'
  <2>1. AllClosed <=> AllClosed'
    BY DEF AllClosed
  <2>2. ASSUME NEW n \in DOMAIN changes
        PROVE  changes[n].applied <= now' /\ changes[n].ended <= now'
    <3>1. changes[n].applied \in Nat /\ changes[n].ended \in Int
      <4>1. changes[n] \in Change
        BY <1>3
      <4> QED
        BY <4>1 DEF Change, Open
    <3>2. changes[n].applied <= now /\ changes[n].ended <= now 
      BY DEF Timed
    <3> QED
      BY <1>1, <1>3, <3>1, <3>2
  <2> QED
    BY <2>1, <2>2
<1>6. SessionTypes' /\ Positions' /\ Counted' /\ Untouched' /\ Timed' /\ CleanIsVerified'
  <2> USE <1>1, <1>5 DEF Positions, Counted, Untouched, Timed, CleanIsVerified, Ended,
                     Terminal
  <2>1. CASE BeginBlocked /\ UNCHANGED <<outside, handling>>
    <3>0. SessionTypes'
      BY <1>2, <2>1 DEF SessionTypes, BeginBlocked, GoesOn, outside
    <3>1. Positions'
      BY <2>1 DEF BeginBlocked, GoesOn, outside
    <3>2. Counted'
      BY <2>1 DEF SessionTypes, BeginBlocked, GoesOn, outside
    <3>3. Untouched' /\ (awaits' = "apply" \/ status' \in {"recovering", "clean"} => AllClosed)
      BY <2>1 DEF AllClosed, BeginBlocked, GoesOn, outside
    <3>4. CleanIsVerified'
      BY <2>1, <3>3 DEF AllClosed, BeginBlocked, GoesOn, outside
    <3> QED
      BY <3>0, <3>1, <3>2, <3>3, <3>4
  <2>2. CASE Begin /\ UNCHANGED <<outside, handling>>
    <3>0. SessionTypes'
      BY <1>2, <2>2 DEF SessionTypes, Begin, outside
    <3>1. Positions'
      BY <2>2 DEF Begin, outside
    <3>2. Counted'
      BY <2>2 DEF SessionTypes, Begin, outside
    <3>3. Untouched' /\ (awaits' = "apply" \/ status' \in {"recovering", "clean"} => AllClosed)
      BY <2>2 DEF AllClosed, Begin, outside
    <3>4. CleanIsVerified'
      BY <2>2, <3>3 DEF AllClosed, Begin, outside
    <3> QED
      BY <3>0, <3>1, <3>2, <3>3, <3>4
  <2>3. CASE TickTooLong /\ UNCHANGED <<outside, handling>>
    <3>0. SessionTypes'
      BY <1>2, <2>3 DEF SessionTypes, TickTooLong, Ticking, outside
    <3>1. Positions'
      BY <2>3 DEF TickTooLong, Ticking, outside
    <3>2. Counted'
      BY <2>3 DEF SessionTypes, TickTooLong, Ticking, outside
    <3>3. Untouched' /\ (awaits' = "apply" \/ status' \in {"recovering", "clean"} => AllClosed)
      BY <2>3 DEF AllClosed, TickTooLong, Ticking, outside
    <3>4. CleanIsVerified'
      BY <2>3, <3>3 DEF AllClosed, TickTooLong, Ticking, outside
    <3> QED
      BY <3>0, <3>1, <3>2, <3>3, <3>4
  <2>4. CASE TickWaits /\ UNCHANGED <<outside, handling>>
    <3>0. SessionTypes'
      BY <1>2, <2>4 DEF SessionTypes, TickWaits, Ticking, GoesOn, Returns, sessionVars, outside
    <3>1. Positions'
      BY <2>4 DEF TickWaits, Ticking, GoesOn, Returns, sessionVars, outside
    <3>2. Counted'
      BY <2>4 DEF SessionTypes, TickWaits, Ticking, GoesOn, Returns, sessionVars, outside
    <3>3. Untouched' /\ (awaits' = "apply" \/ status' \in {"recovering", "clean"} => AllClosed)
      BY <2>4 DEF AllClosed, TickWaits, Ticking, GoesOn, Returns, sessionVars, outside
    <3>4. CleanIsVerified'
      BY <2>4, <3>3 DEF AllClosed, TickWaits, Ticking, GoesOn, Returns, sessionVars, outside
    <3> QED
      BY <3>0, <3>1, <3>2, <3>3, <3>4
  <2>5. CASE TickDecides /\ UNCHANGED <<outside, handling>>
    <3>0. SessionTypes'
      BY <1>2, <2>5 DEF SessionTypes, TickDecides, Ticking, outside
    <3>1. Positions'
      BY <2>5 DEF TickDecides, Ticking, outside
    <3>2. Counted'
      BY <2>5 DEF SessionTypes, TickDecides, Ticking, outside
    <3>3. Untouched' /\ (awaits' = "apply" \/ status' \in {"recovering", "clean"} => AllClosed)
      BY <2>5 DEF AllClosed, TickDecides, Ticking, outside
    <3>4. CleanIsVerified'
      BY <2>5, <3>3 DEF AllClosed, TickDecides, Ticking, outside
    <3> QED
      BY <3>0, <3>1, <3>2, <3>3, <3>4
  <2>6. CASE TickEscalates /\ UNCHANGED <<outside, handling>>
    <3>0. SessionTypes'
      <4>1. level' \in 0..(Levels - 1)
        BY <2>6, EscalatesLevel
      <4>2. phase' \in {"none", "active"} \cup Terminal /\ awaits' \in {"transition", "cleanup"}
        BY <2>6 DEF SessionTypes, TickEscalates
      <4> QED
        BY <1>2, <2>6, <4>1, <4>2 DEF SessionTypes, TickEscalates, outside
    <3>1. Positions'
      BY <2>6 DEF TickEscalates, Ticking, outside
    <3>2. Counted'
      BY <2>6 DEF SessionTypes, TickEscalates, Ticking, outside
    <3>3. Untouched' /\ (awaits' = "apply" \/ status' \in {"recovering", "clean"} => AllClosed)
      BY <2>6 DEF AllClosed, TickEscalates, Ticking, outside
    <3>4. CleanIsVerified'
      BY <2>6, <3>3 DEF AllClosed, TickEscalates, Ticking, outside
    <3> QED
      BY <3>0, <3>1, <3>2, <3>3, <3>4
  <2>7. CASE PersistState
    <3>0. SessionTypes'
      BY <1>2, <2>7 DEF SessionTypes, PersistState, sessionVars
    <3>1. Positions'
      BY <2>7 DEF PersistState, sessionVars
    <3>2. Counted'
      BY <2>7 DEF SessionTypes, PersistState, sessionVars
    <3>3. Untouched' /\ (awaits' = "apply" \/ status' \in {"recovering", "clean"} => AllClosed)
      BY <2>7 DEF AllClosed, PersistState, sessionVars
    <3>4. CleanIsVerified'
      BY <2>7, <3>3 DEF AllClosed, PersistState, sessionVars
    <3> QED
      BY <3>0, <3>1, <3>2, <3>3, <3>4
  <2>8. CASE PersistTimeline
    <3>0. SessionTypes'
      BY <1>2, <2>8 DEF SessionTypes, PersistTimeline, sessionVars
    <3>1. Positions'
      BY <2>8 DEF PersistTimeline, sessionVars
    <3>2. Counted'
      BY <2>8 DEF SessionTypes, PersistTimeline, sessionVars
    <3>3. Untouched' /\ (awaits' = "apply" \/ status' \in {"recovering", "clean"} => AllClosed)
      BY <2>8 DEF AllClosed, PersistTimeline, sessionVars
    <3>4. CleanIsVerified'
      BY <2>8, <3>3 DEF AllClosed, PersistTimeline, sessionVars
    <3> QED
      BY <3>0, <3>1, <3>2, <3>3, <3>4
  <2>9. CASE Concludes
    <3>0. SessionTypes'
      BY <1>2, <2>9 DEF SessionTypes, Concludes, sessionVars
    <3>1. Positions'
      BY <2>9 DEF Concludes, sessionVars
    <3>2. Counted'
      BY <2>9 DEF SessionTypes, Concludes, sessionVars
    <3>3. Untouched' /\ (awaits' = "apply" \/ status' \in {"recovering", "clean"} => AllClosed)
      BY <2>9 DEF AllClosed, Concludes, sessionVars, Misjudged
    <3>4. CleanIsVerified'
      BY <2>9, <3>3 DEF AllClosed, Concludes, sessionVars
    <3> QED
      BY <3>0, <3>1, <3>2, <3>3, <3>4
  <2>10. CASE TimePasses
    <3>0. SessionTypes'
      BY <1>2, <2>10 DEF SessionTypes, TimePasses, Returns, sessionVars, outside
    <3>1. Positions'
      BY <2>10 DEF TimePasses, Returns, sessionVars, outside
    <3>2. Counted'
      BY <2>10 DEF SessionTypes, TimePasses, Returns, sessionVars, outside
    <3>3. Untouched' /\ (awaits' = "apply" \/ status' \in {"recovering", "clean"} => AllClosed)
      BY <2>10 DEF AllClosed, TimePasses, Returns, sessionVars, outside
    <3>4. CleanIsVerified'
      BY <2>10, <3>3 DEF AllClosed, TimePasses, Returns, sessionVars, outside
    <3> QED
      BY <3>0, <3>1, <3>2, <3>3, <3>4
  <2> QED
    BY <2>1, <2>2, <2>3, <2>4, <2>5, <2>6, <2>7, <2>8, <2>9, <2>10
<1> QED
  BY <1>4, <1>6

-----------------------------------------------------------------------------
\* The driver fails: what is cleaned up is an injection that goes on, and only a
\* session without levels, whose cleanup has failed, is misjudged.
LEMMA DriverFailsStep ==
    ASSUME SessionInv, Touches, DriverFails
    PROVE  SessionInv'
<1> USE RuntimeAssumption DEF SessionInv
<1>0. /\ UNCHANGED <<level, changes, cleanup, recovery, journal, live, now, held>>
      /\ handling' = TRUE /\ held = "lease"
      /\ \/ awaits \in {"state", "timeline"}
         \/ awaits = "nothing" /\ status \in {"active", "recovering"}
  BY DEF DriverFails, Interrupted, Ticking, Positions, Ended
<1>1. touched' \subseteq 0..now' /\ now' \in Nat
  BY <1>0, TouchedType
<1>2. status = "active" => changes # <<>> /\ Len(changes) = level + 1 /\ phase = "active"
  BY <1>0 DEF Counted, Positions, SessionTypes
<1>3. \A n \in DOMAIN changes : changes[n].applied <= now' /\ changes[n].ended <= now'
  BY <1>0 DEF Timed
<1>4. CASE changes = <<>> /\ status' = "blocked" /\ phase' = phase /\ awaits' = "state"
  <2>1. status \in {"pending", "blocked", "clean", "dirty"}
    BY <1>2, <1>4 DEF SessionTypes, Positions, Ended
  <2>2. live = {} \/ cleanup = "failed"
    BY <1>4, <2>1 DEF Untouched, Positions
  <2>3. Untouched' /\ Positions' /\ Counted'
    BY <1>0, <1>4, <2>2 DEF Untouched, Positions, Counted
  <2>4. SessionTypes' /\ JournalIsAhead' /\ Timed' /\ CleanIsVerified' /\ LevelsDoNotOverlap'
    BY <1>0, <1>1, <1>3, <1>4
       DEF SessionTypes, Ended, JournalIsAhead, Timed, CleanIsVerified, LevelsDoNotOverlap
  <2> QED
    BY <2>3, <2>4
<1>5. CASE /\ changes # <<>> /\ cleanup = "none" /\ status' = status
           /\ phase' = "aborted" /\ awaits' = "cleanup"
  <2>1. status = "active"
    BY <1>5 DEF Positions
  <2>2. Untouched' /\ Positions' /\ Counted'
    BY <1>0, <1>2, <1>5, <2>1 DEF Untouched, Positions, Counted, Terminal
  <2>3. SessionTypes' /\ JournalIsAhead' /\ Timed' /\ CleanIsVerified' /\ LevelsDoNotOverlap'
    BY <1>0, <1>1, <1>3, <1>5, <2>1
       DEF SessionTypes, Terminal, JournalIsAhead, Timed, CleanIsVerified, LevelsDoNotOverlap
  <2> QED
    BY <2>2, <2>3
<1>6. CASE /\ changes # <<>> /\ cleanup # "none" /\ phase' = phase /\ awaits' = "state"
           /\ status' = IF status = "clean" THEN "clean" ELSE "dirty"
  <2>1. Untouched' /\ Positions' /\ Counted'
    BY <1>0, <1>6 DEF Untouched, Positions, Counted
  <2>2. SessionTypes' /\ JournalIsAhead' /\ Timed' /\ CleanIsVerified' /\ LevelsDoNotOverlap'
    BY <1>0, <1>1, <1>3, <1>6
       DEF SessionTypes, Ended, JournalIsAhead, Timed, AllClosed, CleanIsVerified, LevelsDoNotOverlap
  <2> QED
    BY <2>1, <2>2
<1> QED
  BY <1>4, <1>5, <1>6 DEF DriverFails, GoesOn

-----------------------------------------------------------------------------
\* The times on record stay in the past, ...
LEMMA LaterTimes ==
    ASSUME SessionTypes, Timed, now' \in {now, now + 1}
    PROVE  \A n \in DOMAIN changes : changes[n].applied <= now' /\ changes[n].ended <= now'
<1> SUFFICES ASSUME NEW n \in DOMAIN changes
             PROVE  changes[n].applied <= now' /\ changes[n].ended <= now'
  OBVIOUS
<1>0. changes \in Seq(Change) /\ now \in Nat
  BY DEF SessionTypes, Change
<1>1. changes[n] \in Change /\ now \in Nat
  BY <1>0
<1>2. changes[n].applied \in Nat /\ changes[n].ended \in Int
  BY <1>1 DEF Change, Open
<1>3. changes[n].applied <= now /\ changes[n].ended <= now
  BY DEF Timed
<1> QED
  BY <1>1, <1>2, <1>3

\* ... and an end for the latest level closes all of them, in order.
LEMMA ClosedKeepsOrder ==
    ASSUME SessionTypes, Timed, LevelsDoNotOverlap, changes' = Closed(now), now' = now + 1
    PROVE  /\ changes' \in Seq(Change) /\ Len(changes') = Len(changes)
           /\ \A n \in DOMAIN changes' :
                changes'[n].applied <= now' /\ changes'[n].ended <= now'
           /\ LevelsDoNotOverlap'
           /\ AllClosed'
           /\ changes' = <<>> <=> changes = <<>>
<1>1. changes \in Seq(Change) /\ now \in Nat
  BY DEF SessionTypes, Change
<1>2. /\ changes' \in Seq(Change) /\ Len(changes') = Len(changes)
      /\ \A i \in 1..Len(changes) :
           /\ changes'[i].applied = changes[i].applied
           /\ i < Len(changes) => changes'[i] = changes[i]
           /\ changes'[i].ended \in {changes[i].ended, now}
           /\ i = Len(changes) => changes'[i].ended # Open
  BY <1>1, ClosedFacts
<1>3. DOMAIN changes' = 1..Len(changes) /\ DOMAIN changes = 1..Len(changes)
  BY <1>1, <1>2
<1>4. \A n \in DOMAIN changes : changes[n].applied <= now' /\ changes[n].ended <= now'
  BY LaterTimes
<1>5. now <= now'
  BY SMTT(30), <1>1
<1>6. \A n \in DOMAIN changes' : changes'[n].applied <= now' /\ changes'[n].ended <= now'
  BY <1>2, <1>3, <1>4, <1>5
<1>7. \A i \in 1..Len(changes) : i < Len(changes) => changes[i].ended # Open
  BY <1>1, <1>3 DEF LevelsDoNotOverlap
<1>8. AllClosed'
  <2> SUFFICES ASSUME NEW i \in 1..Len(changes) PROVE changes'[i].ended # Open
    BY <1>3 DEF AllClosed
  <2>1. CASE i = Len(changes)
    BY <1>2, <2>1
  <2>2. CASE i < Len(changes)
    BY <1>2, <1>7, <2>2
  <2> QED
    BY <1>1, <2>1, <2>2
<1>9. LevelsDoNotOverlap'
  <2> SUFFICES ASSUME NEW i \in 1..Len(changes), NEW j \in 1..Len(changes), i < j
               PROVE  changes'[i].ended # Open /\ changes'[i].ended <= changes'[j].applied
    BY <1>3 DEF LevelsDoNotOverlap
  <2>1. i < Len(changes)
    BY <1>1
  <2>2. changes'[i] = changes[i] /\ changes'[j].applied = changes[j].applied
    BY <1>2, <2>1
  <2> QED
    BY <1>3, <2>2 DEF LevelsDoNotOverlap
<1>10. changes' = <<>> <=> changes = <<>>
  BY <1>1, <1>2
<1> QED
  BY <1>2, <1>6, <1>8, <1>9, <1>10

\* A call of the applier is made with the lease held.
LEMMA CallHoldsLease ==
    ASSUME Positions, awaits \in {"apply", "transition", "cleanup"}
    PROVE  held = "lease" /\ status = "active"
  BY DEF Positions, Ended

-----------------------------------------------------------------------------
\* The calls of the applier: a level goes on, ...
LEMMA AppliesStep ==
    ASSUME SessionInv, Touches, Applies, UNCHANGED <<outside, handling>>
    PROVE  SessionInv'
<1> USE RuntimeAssumption DEF SessionInv
<1>0. /\ awaits = "apply" /\ live' = live \cup Profiles /\ journal' = Profiles
      /\ awaits' = "state" /\ now' = now + 1
      /\ UNCHANGED <<status, phase, level, cleanup, recovery, held>>
  BY DEF Applies, GoesOn, Returns, outside
<1>1. touched' \subseteq 0..now' /\ now' \in Nat
  BY <1>0, TouchedType
<1>2. AllClosed /\ held = "lease" /\ status = "active" /\ phase = "active"
  BY <1>0, CallHoldsLease DEF Timed, Positions
<1> DEFINE new == [level |-> level, applied |-> now, ended |-> Open]
<1>3. changes \in Seq(Change) /\ new \in Change /\ now \in Nat /\ level \in 0..(Levels - 1)
  BY DEF SessionTypes, Change
<1>4. changes' = Append(changes, new)
  <2>1. ~(changes # <<>> /\ Last.ended = Open)
    BY <1>2, <1>3 DEF AllClosed, Last
  <2> QED
    BY <1>0, <2>1 DEF Applies
<1>5. Len(changes) = level /\ new.applied = now /\ new.ended = Open
  BY <1>0 DEF Counted
<1> HIDE DEF new
<1>6. /\ changes' \in Seq(Change) /\ Len(changes') = level + 1
      /\ \A n \in 1..Len(changes) : changes'[n] = changes[n]
      /\ changes'[level + 1] = new
      /\ DOMAIN changes' = 1..(level + 1) /\ DOMAIN changes = 1..level
  BY <1>3, <1>4, <1>5
<1>7. \A n \in DOMAIN changes : changes[n].applied <= now' /\ changes[n].ended <= now'
  BY <1>0, LaterTimes
<1>8. Timed'
  <2>1. ASSUME NEW n \in DOMAIN changes'
        PROVE  changes'[n].applied <= now' /\ changes'[n].ended <= now'
    <3>1. CASE n = level + 1
      BY <1>0, <1>3, <1>5, <1>6, <3>1 DEF Open
    <3>2. CASE n \in 1..level
      BY <1>5, <1>6, <1>7, <3>2
    <3> QED
      BY <1>3, <1>6, <3>1, <3>2
  <2> QED
    BY <1>0, <1>2, <2>1 DEF Timed
<1>9. LevelsDoNotOverlap'
  <2> SUFFICES ASSUME NEW i \in 1..(level + 1), NEW j \in 1..(level + 1), i < j
               PROVE  changes'[i].ended # Open /\ changes'[i].ended <= changes'[j].applied
    BY <1>6 DEF LevelsDoNotOverlap
  <2>1. i \in 1..level /\ changes'[i] = changes[i]
    BY <1>3, <1>5, <1>6
  <2>2. CASE j = level + 1
    BY <1>2, <1>5, <1>6, <2>1, <2>2 DEF AllClosed, Timed
  <2>3. CASE j \in 1..level
    BY <1>5, <1>6, <2>1, <2>3 DEF LevelsDoNotOverlap
  <2> QED
    BY <1>3, <2>2, <2>3
<1>10. SessionTypes'
  <2>1. Len(changes') <= Levels
    BY <1>3, <1>6
  <2> QED
    BY <1>0, <1>1, <1>6, <2>1 DEF SessionTypes, Change
<1>11. JournalIsAhead' /\ Untouched'
  BY <1>0, <1>2 DEF JournalIsAhead, Untouched, SessionTypes
<1>12. Positions' /\ Counted' /\ CleanIsVerified'
  BY <1>0, <1>2, <1>6 DEF Positions, Counted, CleanIsVerified, SessionTypes
<1> QED
  BY <1>8, <1>9, <1>10, <1>11, <1>12

\* ... or half on, ...
LEMMA ApplyFailsStep ==
    ASSUME SessionInv, Touches, ApplyFails, UNCHANGED <<outside, handling>>
    PROVE  SessionInv'
<1> USE RuntimeAssumption DEF SessionInv
<1>0. /\ awaits = "apply" /\ phase' = "aborted" /\ awaits' = "cleanup" /\ now' = now + 1
      /\ UNCHANGED <<status, level, changes, cleanup, recovery, held>>
  BY DEF ApplyFails, Returns, outside
<1>1. touched' \subseteq 0..now' /\ now' \in Nat
  BY <1>0, TouchedType
<1>2. held = "lease" /\ status = "active" /\ AllClosed
  BY <1>0, CallHoldsLease DEF Timed
<1>3. PICK x \in Reached :
         /\ live' \in {live \cup (x.profiles \ {x.at}), live \cup x.profiles}
         /\ journal' = journal \cup x.profiles
  BY DEF ApplyFails
<1>4. x.profiles \subseteq Profiles
  BY DEF Reached
<1>5. JournalIsAhead' /\ journal' \subseteq Profiles /\ live' \subseteq Profiles
  BY <1>3, <1>4 DEF JournalIsAhead, SessionTypes
<1>6. \A n \in DOMAIN changes : changes[n].applied <= now' /\ changes[n].ended <= now'
  BY <1>0, LaterTimes
<1>7. SessionTypes'
  BY <1>0, <1>1, <1>5 DEF SessionTypes, Terminal
<1>8. Untouched' /\ Positions' /\ Counted'
  BY <1>0, <1>2 DEF Untouched, Positions, Counted, Terminal
<1>9. Timed' /\ CleanIsVerified' /\ LevelsDoNotOverlap'
  BY <1>0, <1>2, <1>6 DEF Timed, CleanIsVerified, LevelsDoNotOverlap
<1> QED
  BY <1>5, <1>7, <1>8, <1>9

\* ... or off, before the next one, ...
LEMMA TransitionStep ==
    ASSUME SessionInv, Touches, TransitionCleans, UNCHANGED <<outside, handling>>
    PROVE  SessionInv'
<1> USE RuntimeAssumption DEF SessionInv
<1>0. /\ awaits = "transition" /\ now' = now + 1
      /\ UNCHANGED <<status, level, cleanup, recovery, journal, held>>
  BY DEF TransitionCleans, Returns, outside
<1>1. touched' \subseteq 0..now' /\ now' \in Nat
  BY <1>0, TouchedType
<1>2. held = "lease" /\ status = "active" /\ phase = "active"
  BY <1>0, CallHoldsLease DEF Positions
<1>3. CASE /\ Cleans("succeeded") /\ changes' = Closed(now)
           /\ awaits' = "apply" /\ UNCHANGED phase
  <2>1. live' = {}
    BY <1>3, CleansFacts DEF SessionTypes
  <2>2. /\ changes' \in Seq(Change) /\ Len(changes') = Len(changes)
        /\ \A n \in DOMAIN changes' :
             changes'[n].applied <= now' /\ changes'[n].ended <= now'
        /\ LevelsDoNotOverlap' /\ AllClosed'
    BY <1>0, <1>3, ClosedKeepsOrder
  <2>3. SessionTypes' /\ JournalIsAhead'
    BY <1>0, <1>1, <1>3, <2>1, <2>2 DEF SessionTypes, Change, JournalIsAhead
  <2>4. Untouched' /\ Positions' /\ Counted'
    BY <1>0, <1>2, <1>3, <2>1, <2>2 DEF Untouched, Positions, Counted
  <2>5. Timed' /\ CleanIsVerified'
    BY <1>0, <1>2, <2>2 DEF Timed, CleanIsVerified
  <2> QED
    BY <2>2, <2>3, <2>4, <2>5
<1>4. CASE /\ Cleans("failed") /\ phase' = "aborted" /\ awaits' = "cleanup"
           /\ UNCHANGED changes
  <2>1. live' \subseteq live
    BY <1>4, CleansFacts DEF SessionTypes
  <2>2. \A n \in DOMAIN changes : changes[n].applied <= now' /\ changes[n].ended <= now'
    BY <1>0, LaterTimes
  <2>3. SessionTypes' /\ JournalIsAhead'
    BY <1>0, <1>1, <1>4, <2>1 DEF SessionTypes, JournalIsAhead, Terminal
  <2>4. Untouched' /\ Positions' /\ Counted'
    BY <1>0, <1>2, <1>4, <2>1 DEF Untouched, Positions, Counted, Terminal
  <2>5. Timed' /\ CleanIsVerified' /\ LevelsDoNotOverlap'
    BY <1>0, <1>2, <1>4, <2>2 DEF Timed, CleanIsVerified, LevelsDoNotOverlap
  <2> QED
    BY <2>3, <2>4, <2>5
<1> QED
  BY <1>3, <1>4 DEF TransitionCleans

\* ... or off for good ...
LEMMA TerminalCleansStep ==
    ASSUME SessionInv, Touches, TerminalCleans, UNCHANGED <<outside, handling>>
    PROVE  SessionInv'
<1> USE RuntimeAssumption DEF SessionInv
<1> DEFINE r == [NoRecovery EXCEPT !.status = "pending", !.started = now]
<1>0. /\ awaits = "cleanup" /\ now' = now + 1 /\ awaits' = "state"
      /\ Cleans("succeeded") /\ cleanup' = "succeeded" /\ changes' = Closed(now)
      /\ UNCHANGED <<level, journal, held>>
  BY DEF TerminalCleans, GoesOn, Returns, outside
<1>1. touched' \subseteq 0..now' /\ now' \in Nat
  BY <1>0, TouchedType
<1>2. held = "lease" /\ status = "active" /\ phase \in Terminal
  BY <1>0, CallHoldsLease DEF Positions
<1>3. live' = {}
  BY <1>0, CleansFacts DEF SessionTypes
<1>4. /\ changes' \in Seq(Change) /\ Len(changes') = Len(changes)
      /\ \A n \in DOMAIN changes' :
           changes'[n].applied <= now' /\ changes'[n].ended <= now'
      /\ LevelsDoNotOverlap' /\ AllClosed'
      /\ changes' = <<>> <=> changes = <<>>
  BY <1>0, ClosedKeepsOrder
<1>5. r \in RecoveryType
  BY DEF SessionTypes, NoRecovery, RecoveryType
<1>6. /\ recovery' \in RecoveryType
      /\ status' \in {"clean", "recovering", "dirty"}
      /\ phase' \in {phase, "dirty"}
      /\ status' = "clean" /\ changes # <<>> =>
           recovery'.status = "succeeded" /\ recovery'.streak >= RecoveryTicks
      /\ changes = <<>> => status' = "clean"
  <2>1. CASE changes = <<>>
    <3>1. /\ status' = "clean" /\ phase' = phase
          /\ recovery' = [r EXCEPT !.status = "succeeded", !.reason = "no_injection_applied"]
      BY <2>1 DEF TerminalCleans
    <3> HIDE DEF r
    <3>2. recovery' \in RecoveryType
      BY <1>5, <3>1 DEF RecoveryType
    <3> QED
      BY <2>1, <3>1, <3>2
  <2>2. CASE changes # <<>>
    <3>1. Recovers(r, 0)
      BY <2>2 DEF TerminalCleans
    <3> HIDE DEF r
    <3> QED
      BY <1>5, <2>2, <3>1, RecoversFacts
  <2> QED
    BY <2>1, <2>2
<1>7. SessionTypes' /\ JournalIsAhead'
  BY <1>0, <1>1, <1>2, <1>3, <1>4, <1>6
     DEF SessionTypes, Change, JournalIsAhead, RecoveryType, Terminal, Ended
<1>8. Untouched' /\ Positions' /\ Counted'
  BY <1>0, <1>2, <1>3, <1>4, <1>6 DEF Untouched, Positions, Counted, Terminal
<1>9. Timed' /\ CleanIsVerified'
  BY <1>0, <1>4, <1>6 DEF Timed, CleanIsVerified, AllClosed
<1> QED
  BY <1>4, <1>7, <1>8, <1>9

\* ... or not off, which is the end of it.
LEMMA TerminalCleanupFailsStep ==
    ASSUME SessionInv, Touches, TerminalCleanupFails, UNCHANGED <<outside, handling>>
    PROVE  SessionInv'
<1> USE RuntimeAssumption DEF SessionInv
<1>0. /\ awaits = "cleanup" /\ now' = now + 1 /\ awaits' = "state"
      /\ Cleans("failed") /\ cleanup' = "failed" /\ phase' = "dirty" /\ status' = "dirty"
      /\ recovery' = [NoRecovery EXCEPT !.status = "failed", !.reason = "cleanup_failed"]
      /\ UNCHANGED <<level, changes, journal, held>>
  BY DEF TerminalCleanupFails, GoesOn, Returns, outside
<1>1. touched' \subseteq 0..now' /\ now' \in Nat
  BY <1>0, TouchedType
<1>2. held = "lease" /\ status = "active"
  BY <1>0, CallHoldsLease
<1>3. live' \subseteq live
  BY <1>0, CleansFacts DEF SessionTypes
<1>4. \A n \in DOMAIN changes : changes[n].applied <= now' /\ changes[n].ended <= now'
  BY <1>0, LaterTimes
<1>5. recovery' \in RecoveryType
  BY <1>0 DEF NoRecovery, RecoveryType
<1>6. SessionTypes' /\ JournalIsAhead'
  BY <1>0, <1>1, <1>3, <1>5 DEF SessionTypes, RecoveryType, JournalIsAhead, Terminal, Ended
<1>7. Untouched' /\ Positions' /\ Counted'
  BY <1>0, <1>2, <1>3 DEF Untouched, Positions, Counted
<1>8. Timed' /\ CleanIsVerified' /\ LevelsDoNotOverlap'
  BY <1>0, <1>2, <1>4 DEF Timed, CleanIsVerified, LevelsDoNotOverlap
<1> QED
  BY <1>6, <1>7, <1>8

\* A look at recovery, with everything off.
LEMMA TickRecoveryStep ==
    ASSUME SessionInv, Touches, TickRecovery, UNCHANGED <<outside, handling>>
    PROVE  SessionInv'
<1> USE RuntimeAssumption DEF SessionInv
<1>0. /\ awaits = "nothing" /\ status = "recovering" /\ now' = now + 1 /\ awaits' = "state"
      /\ Recovers(recovery, now - recovery.started)
      /\ UNCHANGED <<level, changes, cleanup, journal, live, held>>
  BY DEF TickRecovery, Ticking, GoesOn, Returns, outside
<1>1. touched' \subseteq 0..now' /\ now' \in Nat
  BY <1>0, TouchedType
<1>2. AllClosed /\ live = {} /\ held = "lease"
  BY <1>0 DEF Timed, Untouched, Positions, Ended
<1>3. \A n \in DOMAIN changes : changes[n].applied <= now' /\ changes[n].ended <= now'
  BY <1>0, LaterTimes
<1>4. recovery \in RecoveryType
  BY DEF SessionTypes, RecoveryType
<1>5. /\ recovery' \in RecoveryType
      /\ status' \in {"clean", "recovering", "dirty"}
      /\ phase' \in {phase, "dirty"}
      /\ status' = "clean" =>
           recovery'.status = "succeeded" /\ recovery'.streak >= RecoveryTicks
  BY <1>0, <1>4, RecoversFacts
<1>6. SessionTypes' /\ JournalIsAhead'
  BY <1>0, <1>1, <1>5 DEF SessionTypes, RecoveryType, JournalIsAhead, Terminal, Ended
<1>7. Untouched' /\ Positions' /\ Counted'
  BY <1>0, <1>2, <1>5 DEF Untouched, Positions, Counted
<1>8. Timed' /\ CleanIsVerified' /\ LevelsDoNotOverlap'
  BY <1>0, <1>2, <1>3, <1>5 DEF Timed, CleanIsVerified, LevelsDoNotOverlap, AllClosed
<1> QED
  BY <1>6, <1>7, <1>8

-----------------------------------------------------------------------------
\* The process dies, in the middle of a call perhaps.
LEMMA CrashStep ==
    ASSUME SessionInv, Touches, Crash
    PROVE  SessionInv'
<1> USE RuntimeAssumption DEF SessionInv
<1>0. /\ held = "lease" /\ awaits # "gone" /\ awaits' = "gone" /\ now' = now + 1
      /\ UNCHANGED <<status, phase, level, changes, cleanup, recovery, handling, held>>
  BY DEF Crash, Returns, sessionVars, outside
<1>1. touched' \subseteq 0..now' /\ now' \in Nat
  BY <1>0, TouchedType
<1>2. \A n \in DOMAIN changes : changes[n].applied <= now' /\ changes[n].ended <= now'
  BY <1>0, LaterTimes
<1>3. /\ JournalIsAhead' /\ journal' \subseteq Profiles /\ live' \subseteq Profiles
      /\ status = "active" \/ live' \subseteq live
  <2>1. CASE UNCHANGED <<live, journal>>
    BY <2>1 DEF JournalIsAhead, SessionTypes
  <2>2. CASE /\ awaits = "apply"
             /\ \E x \in Reached :
                  /\ live' \in {live \cup (x.profiles \ {x.at}), live \cup x.profiles}
                  /\ journal' = journal \cup x.profiles
    BY <2>2, CallHoldsLease DEF JournalIsAhead, SessionTypes, Reached
  <2>3. CASE live' \in SUBSET live /\ UNCHANGED journal
    BY <2>3 DEF JournalIsAhead, SessionTypes
  <2> QED
    BY <2>1, <2>2, <2>3 DEF Crash
<1>4. SessionTypes'
  BY <1>0, <1>1, <1>3 DEF SessionTypes
<1>5. Untouched' /\ Positions' /\ Counted'
  BY <1>0, <1>3 DEF Untouched, Positions, Counted
<1>6. Timed' /\ CleanIsVerified' /\ LevelsDoNotOverlap'
  BY <1>0, <1>2 DEF Timed, CleanIsVerified, LevelsDoNotOverlap, AllClosed
<1> QED
  BY <1>3, <1>4, <1>5, <1>6

\* The watchdog, or the operator, cleans up: neither of them before the driver
\* has ended or died.
LEMMA OutsideStep ==
    ASSUME SessionInv, Touches, WatchdogCleans \/ OperatorCleans
    PROVE  SessionInv'
<1> USE RuntimeAssumption DEF SessionInv
<1>0. /\ now' = now + 1
      /\ UNCHANGED <<status, phase, level, changes, cleanup, recovery, handling, awaits, journal>>
      /\ \/ Cleans("succeeded") /\ held' = "free"
         \/ Cleans("failed") /\ held' = "dirty"
      /\ \/ held = "lease" /\ awaits = "gone"
         \/ held = "dirty"
  BY DEF WatchdogCleans, OperatorCleans, CleanedFromOutside, Returns, sessionVars
<1>1. touched' \subseteq 0..now' /\ now' \in Nat
  BY <1>0, TouchedType
<1>2. live' \subseteq live /\ (held' = "free" => live' = {}) /\ held' \in {"free", "dirty"}
  BY <1>0, CleansFacts DEF SessionTypes
<1>3. awaits # "gone" => awaits = "nothing" /\ status \in Ended
  BY <1>0 DEF Positions
<1>4. \A n \in DOMAIN changes : changes[n].applied <= now' /\ changes[n].ended <= now'
  BY <1>0, LaterTimes
<1>5. SessionTypes' /\ JournalIsAhead'
  BY <1>0, <1>1, <1>2 DEF SessionTypes, JournalIsAhead
<1>6. Untouched' /\ Positions' /\ Counted'
  BY <1>0, <1>2, <1>3 DEF Untouched, Positions, Counted
<1>7. Timed' /\ CleanIsVerified' /\ LevelsDoNotOverlap'
  BY <1>0, <1>4 DEF Timed, CleanIsVerified, LevelsDoNotOverlap, AllClosed
<1> QED
  BY <1>5, <1>6, <1>7

\* An exception in the handler leaves the task when it is about to go on, or in
\* its cleanup.
LEMMA HandlerFailsFacts ==
    ASSUME SessionInv, HandlerFails
    PROVE  /\ held = "lease" /\ awaits' = "gone" /\ live' \subseteq live
           /\ UNCHANGED <<status, phase, level, changes, cleanup, recovery, handling, journal, held>>
           /\ \/ /\ now' = now /\ live' = live
                 /\ \/ awaits \in {"state", "timeline"}
                    \/ awaits = "nothing" /\ status \in {"active", "recovering"} /\ disk' = disk
                 /\ \/ disk' = disk
                    \/ /\ awaits = "timeline"
                       /\ disk' = [disk EXCEPT !.documents = Saved("timeline")]
              \/ /\ now' = now + 1 /\ awaits = "cleanup" /\ status = "active"
                 /\ phase \in Terminal /\ disk' = disk
<1>1. UNCHANGED <<status, phase, level, changes, cleanup, recovery, handling, journal, held>>
      /\ awaits' = "gone"
  BY DEF HandlerFails, sessionVars
<1>2. CASE Interrupted /\ UNCHANGED <<live, now>>
  BY <1>1, <1>2 DEF Interrupted, Ticking, SessionInv, Positions, Ended
<1>3. CASE /\ awaits = "cleanup"
           /\ \E outcome \in {"succeeded", "failed"} : Cleans(outcome)
           /\ Returns /\ UNCHANGED disk
  <2>1. live' \subseteq live
    BY <1>3, CleansFacts DEF SessionInv, SessionTypes
  <2> QED
    BY <1>1, <1>3, <2>1 DEF Returns, SessionInv, Positions, Ended
<1> QED
  BY <1>2, <1>3 DEF HandlerFails

\* The task goes, and nothing but its heartbeats goes on.
LEMMA HandlerFailsStep ==
    ASSUME SessionInv, Touches, HandlerFails
    PROVE  SessionInv'
<1> USE RuntimeAssumption DEF SessionInv
<1>0. /\ held = "lease" /\ awaits' = "gone" /\ live' \subseteq live /\ now' \in {now, now + 1}
      /\ UNCHANGED <<status, phase, level, changes, cleanup, recovery, handling, journal, held>>
  BY HandlerFailsFacts
<1>1. touched' \subseteq 0..now' /\ now' \in Nat
  BY <1>0, TouchedType
<1>2. \A n \in DOMAIN changes : changes[n].applied <= now' /\ changes[n].ended <= now'
  BY <1>0, LaterTimes
<1>3. SessionTypes' /\ JournalIsAhead'
  BY <1>0, <1>1 DEF SessionTypes, JournalIsAhead
<1>4. Untouched' /\ Positions' /\ Counted'
  BY <1>0 DEF Untouched, Positions, Counted
<1>5. Timed' /\ CleanIsVerified' /\ LevelsDoNotOverlap'
  BY <1>0, <1>2 DEF Timed, CleanIsVerified, LevelsDoNotOverlap, AllClosed
<1> QED
  BY <1>3, <1>4, <1>5

\* Nothing changes but the heartbeats perhaps: every conjunct reads what is left.
LEMMA StutterStep ==
    ASSUME SessionInv, UNCHANGED <<sessionVars, awaits, journal, live, now, outside, touched>>
    PROVE  SessionInv'
  BY DEF SessionInv, sessionVars, outside, SessionTypes, JournalIsAhead, Untouched,
         Positions, Counted, Timed, AllClosed, CleanIsVerified, LevelsDoNotOverlap,
         Last, Misjudged

\* Ending the heartbeats is a step of its own.
LEMMA NextIsMove == Next => Moves \/ (HeartbeatsEnd /\ Touches)
  BY DEF Next, Moves

\* The session's invariant is inductive.
LEMMA SessionStep == SessionInv /\ [Next]_runtimeVars => SessionInv'
<1> SUFFICES ASSUME SessionInv, [Next]_runtimeVars PROVE SessionInv'
  OBVIOUS
<1>1. CASE UNCHANGED runtimeVars
  BY <1>1, StutterStep DEF runtimeVars
<1>2. CASE HeartbeatsEnd /\ Touches
  BY <1>2, StutterStep DEF HeartbeatsEnd, Touches
<1>3. CASE Moves
  <2>1. Touches
    BY <1>3 DEF Moves
  <2>2. CASE InSession
    <3>1. UNCHANGED <<outside, handling>>
      BY <2>2 DEF InSession
    <3>2. CASE BeginBlocked
      BY <2>1, <3>1, <3>2, QuietStep DEF BeginBlocked
    <3>3. CASE Begin
      BY <2>1, <3>1, <3>3, QuietStep DEF Begin
    <3>4. CASE ApplyFails
      BY <2>1, <3>1, <3>4, ApplyFailsStep
    <3>5. CASE Applies
      BY <2>1, <3>1, <3>5, AppliesStep
    <3>6. CASE TickTooLong
      BY <2>1, <3>1, <3>6, QuietStep DEF TickTooLong
    <3>7. CASE TickWaits
      BY <2>1, <3>1, <3>7, QuietStep DEF TickWaits, sessionVars
    <3>8. CASE TickDecides
      BY <2>1, <3>1, <3>8, QuietStep DEF TickDecides
    <3>9. CASE TickEscalates
      BY <2>1, <3>1, <3>9, QuietStep DEF TickEscalates
    <3>10. CASE TransitionCleans
      BY <2>1, <3>1, <3>10, TransitionStep
    <3>11. CASE TerminalCleans
      BY <2>1, <3>1, <3>11, TerminalCleansStep
    <3>12. CASE TerminalCleanupFails
      BY <2>1, <3>1, <3>12, TerminalCleanupFailsStep
    <3>13. CASE TickRecovery
      BY <2>1, <3>1, <3>13, TickRecoveryStep
    <3> QED
      BY <2>2, <3>2, <3>3, <3>4, <3>5, <3>6, <3>7, <3>8, <3>9, <3>10, <3>11, <3>12, <3>13
       DEF InSession
  <2>3. CASE PersistState
    BY <2>1, <2>3, QuietStep DEF PersistState, sessionVars
  <2>4. CASE PersistTimeline
    BY <2>1, <2>4, QuietStep DEF PersistTimeline, sessionVars
  <2>5. CASE Concludes
    BY <2>1, <2>5, QuietStep DEF Concludes, sessionVars
  <2>6. CASE Crash
    BY <2>1, <2>6, CrashStep
  <2>7. CASE WatchdogCleans \/ OperatorCleans
    BY <2>1, <2>7, OutsideStep
  <2>8. CASE TimePasses
    BY <2>1, <2>8, QuietStep DEF TimePasses, sessionVars
  <2>9. CASE DriverFails
    BY <2>1, <2>9, DriverFailsStep
  <2>10. CASE HandlerFails
    BY <2>1, <2>10, HandlerFailsStep
  <2> QED
    BY <1>3, <2>2, <2>3, <2>4, <2>5, <2>6, <2>7, <2>8, <2>9, <2>10 DEF Moves, Driver, Others
<1> QED
  BY <1>1, <1>2, <1>3, NextIsMove

THEOREM SessionSafety == Spec => []SessionInv
  BY SessionInit, SessionStep, PTL DEF Spec

\* The types of the session, the applier and the record; and the heartbeats end
\* only when the task is gone, which does not come back.
THEOREM RuntimeTypes == Spec => []TypeOK
<1> DEFINE Beats == renewed \in BOOLEAN /\ (~renewed => awaits = "gone")
<1>1. Init => Beats
  BY DEF Init
<1>2. SessionInv /\ Beats /\ [Next]_runtimeVars => Beats'
  <2> SUFFICES ASSUME SessionInv, Beats, [Next]_runtimeVars PROVE Beats'
    OBVIOUS
  <2>1. CASE UNCHANGED runtimeVars
    BY <2>1 DEF runtimeVars
  <2>2. CASE Crash
    BY <2>2 DEF Crash
  <2>3. CASE HeartbeatsEnd
    BY <2>3 DEF HeartbeatsEnd
  <2>4. CASE Driver /\ UNCHANGED renewed
    <3>1. CASE awaits = "gone"
      <4>1. ~InSession
        BY <3>1 DEF InSession, BeginBlocked, Begin, ApplyFails, Applies, TickTooLong, TickWaits,
                    TickDecides, TickEscalates, TransitionCleans, TerminalCleans,
                    TerminalCleanupFails, TickRecovery, Ticking
      <4>2. ~DriverFails /\ ~HandlerFails /\ ~PersistState /\ ~PersistTimeline /\ ~Concludes
        BY <3>1 DEF DriverFails, HandlerFails, Interrupted, PersistState, PersistTimeline,
                    Concludes, Ticking
      <4> QED
        BY <2>4, <4>1, <4>2 DEF Driver
    <3> QED
      BY <2>4, <3>1
  <2>5. CASE Others /\ UNCHANGED renewed
    BY <2>5 DEF Others, WatchdogCleans, OperatorCleans, CleanedFromOutside, TimePasses
  <2> QED
    BY <2>1, <2>2, <2>3, <2>4, <2>5 DEF Next
<1>3. SessionInv /\ Beats => TypeOK
  BY DEF SessionInv, TypeOK
<1> QED
  BY <1>1, <1>2, <1>3, SessionSafety, PTL DEF Spec

\* A session that ends CLEAN, and a testbed that is given back by a session that
\* was not misjudged, has no effect of the run left, whichever calls failed and
\* wherever the process died.
THEOREM CleanIsEmpty == Spec => []CleanLeavesNothing
<1>1. SessionInv => CleanLeavesNothing
  BY DEF SessionInv, Untouched, CleanLeavesNothing
<1> QED
  BY <1>1, SessionSafety, PTL

\* CLEAN after an injection means seen to have recovered, with every level
\* ended.
THEOREM CleanWasSeen == Spec => []CleanIsVerified
<1>1. SessionInv => CleanIsVerified
  BY DEF SessionInv
<1> QED
  BY <1>1, SessionSafety, PTL

\* The levels on record follow each other.
THEOREM LevelsFollow == Spec => []LevelsDoNotOverlap
<1>1. SessionInv => LevelsDoNotOverlap
  BY DEF SessionInv
<1> QED
  BY <1>1, SessionSafety, PTL

\* A level is only ever injected on a testbed without effects.
THEOREM LevelsStartClean == Spec => LevelStartsClean
<1>1. SessionInv /\ [Next]_runtimeVars =>
        [awaits = "apply" /\ awaits' # "apply" => live = {}]_runtimeVars
  BY DEF SessionInv, Untouched
<1> QED
  BY <1>1, SessionSafety, PTL DEF Spec, LevelStartsClean

\* After the controller's end nothing more is injected, by anybody: only calls
\* of apply() add effects, and none is made then.
LEMMA EndStep ==
    ASSUME SessionInv, Moves, phase \in Terminal
    PROVE  live' \subseteq live
<1>1. JournalIsAhead /\ journal \subseteq Profiles
  BY DEF SessionInv, SessionTypes
<1>2. awaits \notin {"apply", "transition"} /\ status # "pending"
  BY DEF SessionInv, Positions, Terminal
<1>3. CASE InSession
  <2>1. CASE live' = live
    BY <2>1
  <2>2. CASE TerminalCleans \/ TerminalCleanupFails
    BY <1>1, <2>2, CleansFacts DEF TerminalCleans, TerminalCleanupFails
  <2> QED
    BY <1>2, <1>3, <2>1, <2>2
       DEF InSession, BeginBlocked, Begin, ApplyFails, Applies, TickTooLong, TickWaits,
           TickDecides, TickEscalates, TransitionCleans, TickRecovery
<1>4. CASE Crash
  BY <1>2, <1>4 DEF Crash
<1>5. CASE WatchdogCleans \/ OperatorCleans
  BY <1>1, <1>5, CleansFacts DEF WatchdogCleans, OperatorCleans, CleanedFromOutside
<1>6. CASE DriverFails \/ PersistState \/ PersistTimeline \/ Concludes \/ TimePasses
  BY <1>6 DEF DriverFails, PersistState, PersistTimeline, Concludes, TimePasses
<1>7. CASE HandlerFails
  BY <1>7, HandlerFailsFacts
<1> QED
  BY <1>3, <1>4, <1>5, <1>6, <1>7 DEF Moves, Driver, Others

THEOREM EndIsFinal == Spec => NoInjectionAfterTheEnd
<1>1. SessionInv /\ [Next]_runtimeVars =>
        [(phase \in Terminal) => (live' \subseteq live)]_runtimeVars
  BY EndStep, NextIsMove DEF HeartbeatsEnd
<1> QED
  BY <1>1, SessionSafety, PTL DEF Spec, NoInjectionAfterTheEnd

-----------------------------------------------------------------------------
(* What a session leaves in the run's directory covers every time at which  *)
(* it had an effect.  The argument goes in three steps: the session's own   *)
(* levels account for the effects (or are known not to), the documents on   *)
(* disk follow the session with an open end for as long as there may be     *)
(* effects, and the clean-window check reads an interval for each level it  *)
(* finds.                                                                   *)

\* A record of levels covers a time if some level had begun and not ended.
Covers(doc, t) ==
    \E i \in DOMAIN doc :
        doc[i].applied <= t /\ (doc[i].ended = Open \/ t <= doc[i].ended)

\* What the run's directory says: whether it names a level, what it covers while
\* an open end counts as for ever, and whether it has an open end.
Docs == disk.documents
Named == \E d \in DOMAIN Docs : Docs[d] # <<>>
OnDisk(t) == \E d \in DOMAIN Docs : Covers(Docs[d], t)
OpenOnDisk == \E d \in DOMAIN Docs : \E i \in DOMAIN Docs[d] : Docs[d][i].ended = Open

\* Effects no level stands for: of one that was not completed, from its call to
\* its cleanup or, when that fails or the process dies, for good.
HalfDone == awaits \in {"cleanup", "gone"} \/ cleanup = "failed"
GivenUp == phase \in Terminal \/ awaits = "gone"
Excepted == cleanup = "failed" /\ Last.ended # Open

\* The documents have the levels up to now, ...
Documents ==
    /\ disk = [documents |-> Docs, cleanup |-> disk.cleanup]
    /\ "timeline" \in DOMAIN Docs
    /\ \A d \in DOMAIN Docs : \A i \in DOMAIN Docs[d] : Docs[d][i].applied \in 0..now

\* ... only an unfinished session and a failed cleanup leave something, ...
Settled ==
    /\ status \in {"pending", "active"} => cleanup = "none"
    /\ status # "active" /\ cleanup # "failed" => live = {}
    /\ Named => changes # <<>>

\* ... and only an open level, or one that was half done.
Opened ==
    /\ \A i \in DOMAIN changes : changes[i].ended = Open \/ changes[i].applied <= changes[i].ended
    /\ status = "active" /\ awaits \in {"nothing", "state", "timeline", "transition"}
         => Last.ended = Open
    /\ live # {} => IF changes = <<>> THEN GivenUp ELSE Last.ended = Open \/ HalfDone

\* The session's own record covers the effects, those of a half done level
\* excepted; ...
AccountedFor(t) ==
    \/ Covers(changes, t)
    \/ changes = <<>> /\ GivenUp
    \/ changes # <<>> /\ HalfDone /\ Last.ended # Open /\ Last.ended < t
InMemory == \A t \in touched : AccountedFor(t)

\* ... what is on disk is behind, but open for as long as there may be effects; ...
Written ==
    /\ Named /\ (status = "active" \/ (cleanup = "failed" /\ Last.ended = Open)) => OpenOnDisk
    /\ Named /\ ~Excepted => \A t \in touched : OnDisk(t)
    /\ disk.cleanup # Open => held = "free" /\ \A t \in touched : t <= disk.cleanup

\* ... and the time is limited by the last tick and the calls that follow it.
Clock ==
    /\ status = "pending" /\ awaits # "gone" => now = 0
    /\ awaits = "transition" => now < Horizon
    /\ awaits = "apply" => now <= Horizon
    /\ awaits = "cleanup" \/ (status = "active" /\ awaits # "gone") => now <= Horizon + 1
    /\ awaits # "gone" => now <= Horizon + 2
    /\ held = "lease" => now <= Horizon + 3
    /\ now <= Horizon + 4

RecordInv == Documents /\ Settled /\ Opened /\ InMemory /\ Written /\ Clock

-----------------------------------------------------------------------------
\* When the testbed has been given back, the run is over.
LEMMA FreeIsFinal ==
    ASSUME SessionInv, Moves
    PROVE  held # "free"
<1> SUFFICES ASSUME held = "free" PROVE FALSE
  OBVIOUS
<1>1. awaits = "gone" \/ (awaits = "nothing" /\ status \in Ended)
  BY DEF SessionInv, Positions
<1>2. ~InSession
  BY <1>1 DEF InSession, BeginBlocked, Begin, ApplyFails, Applies, TickTooLong, TickWaits,
              TickDecides, TickEscalates, TransitionCleans, TerminalCleans,
              TerminalCleanupFails, TickRecovery, Ticking, Ended
<1>3. ~DriverFails /\ ~HandlerFails /\ ~PersistState /\ ~PersistTimeline
  BY <1>1 DEF DriverFails, HandlerFails, Interrupted, PersistState, PersistTimeline, Ticking, Ended
<1>4. ~Concludes /\ ~Crash /\ ~WatchdogCleans /\ ~OperatorCleans /\ ~TimePasses
  BY DEF Concludes, Crash, WatchdogCleans, OperatorCleans, TimePasses
<1> QED
  BY <1>2, <1>3, <1>4 DEF Moves, Driver, Others

\* A step takes at most one unit of time, which is touched by what is there.
LEMMA TimeFacts ==
    ASSUME SessionInv, Moves
    PROVE  /\ now' \in {now, now + 1} /\ now \in Nat /\ touched \subseteq 0..now
           /\ \/ touched' = touched
              \/ touched' = touched \cup {now} /\ live \cup live' # {}
<1>1. now' \in {now, now + 1}
  <2>1. CASE InSession
    BY <2>1 DEF InSession, BeginBlocked, Begin, ApplyFails, Applies, TickTooLong, TickWaits,
                TickDecides, TickEscalates, TransitionCleans, TerminalCleans,
                TerminalCleanupFails, TickRecovery, Returns
  <2>2. CASE DriverFails \/ PersistState \/ PersistTimeline \/ Concludes
    BY <2>2 DEF DriverFails, PersistState, PersistTimeline, Concludes
  <2>3. CASE Crash \/ WatchdogCleans \/ OperatorCleans \/ TimePasses
    BY <2>3 DEF Crash, WatchdogCleans, OperatorCleans, CleanedFromOutside, TimePasses, Returns
  <2>4. CASE HandlerFails
    BY <2>4 DEF HandlerFails, Returns
  <2> QED
    BY <2>1, <2>2, <2>3, <2>4 DEF Moves, Driver, Others
<1> QED
  BY <1>1 DEF SessionInv, SessionTypes, Moves, Touches

\* Only apply() adds effects.
LEMMA EffectFacts ==
    ASSUME SessionInv, Moves
    PROVE  live' \subseteq live \/ (awaits = "apply" /\ status = "active" /\ phase = "active")
<1>1. CASE awaits = "apply"
  BY <1>1 DEF SessionInv, Positions
<1>2. CASE awaits # "apply"
  <2>1. JournalIsAhead /\ journal \subseteq Profiles
    BY DEF SessionInv, SessionTypes
  <2>2. CASE InSession
    <3>1. CASE TransitionCleans \/ TerminalCleans \/ TerminalCleanupFails
      BY <2>1, <3>1, CleansFacts DEF TransitionCleans, TerminalCleans, TerminalCleanupFails
    <3>2. CASE ~(TransitionCleans \/ TerminalCleans \/ TerminalCleanupFails)
      BY <1>2, <2>2, <3>2
         DEF InSession, BeginBlocked, Begin, ApplyFails, Applies, TickTooLong, TickWaits,
             TickDecides, TickEscalates, TickRecovery
    <3> QED
      BY <3>1, <3>2
  <2>3. CASE DriverFails \/ PersistState \/ PersistTimeline \/ Concludes \/ TimePasses
    BY <2>3 DEF DriverFails, PersistState, PersistTimeline, Concludes, TimePasses
  <2>4. CASE Crash
    BY <1>2, <2>4 DEF Crash
  <2>5. CASE WatchdogCleans \/ OperatorCleans
    BY <2>1, <2>5, CleansFacts DEF WatchdogCleans, OperatorCleans, CleanedFromOutside
  <2>6. CASE HandlerFails
    BY <2>6, HandlerFailsFacts
  <2> QED
    BY <2>2, <2>3, <2>4, <2>5, <2>6 DEF Moves, Driver, Others
<1> QED
  BY <1>1, <1>2

\* Between two states, what is on disk is as it was, or one document of it says
\* what the session does.
LEMMA DiskFacts ==
    ASSUME SessionInv, RecordInv, Moves
    PROVE  /\ disk' = [documents |-> Docs', cleanup |-> disk'.cleanup]
           /\ \/ Docs' = Docs
              \/ /\ \E name : Docs' = Saved(name)
                 /\ UNCHANGED <<changes, cleanup, live, now, touched>>
                 /\ awaits \in {"nothing", "state", "timeline"}
                 /\ status' = "active" => status = "active" /\ awaits \in {"state", "timeline"}
           /\ \/ disk'.cleanup = Open
              \/ disk'.cleanup = now /\ held' = "free"
<1>1. disk = [documents |-> Docs, cleanup |-> Open]
  <2>1. disk.cleanup = Open
    BY FreeIsFinal DEF RecordInv, Written
  <2> QED
    BY <2>1 DEF RecordInv, Documents
<1>2. ASSUME NEW name, disk' = [disk EXCEPT !.documents = Saved(name)]
      PROVE  disk' = [documents |-> Docs', cleanup |-> Open] /\ Docs' = Saved(name)
  <2> DEFINE saved == Saved(name)
  <2> HIDE DEF saved
  <2>1. disk' = [disk EXCEPT !.documents = saved]
    BY <1>2 DEF saved
  <2>2. disk' = [documents |-> saved, cleanup |-> Open]
    BY <1>1, <2>1
  <2>3. Docs' = saved
    BY <2>2 DEF Docs
  <2> QED
    BY <2>2, <2>3 DEF saved
<1>3. Touches
  BY DEF Moves
<1>4. CASE disk' = disk
  BY <1>1, <1>4 DEF Docs
<1>5. CASE InSession \/ Crash \/ TimePasses
  BY <1>4, <1>5 DEF InSession, Crash, TimePasses, outside
<1>6. CASE DriverFails
  <2>1. /\ UNCHANGED <<changes, cleanup, live, now>>
        /\ status' = "active" => status = "active"
        /\ disk' = disk \/ (awaits = "timeline" /\ disk' = [disk EXCEPT !.documents = Saved("timeline")])
    BY <1>6 DEF DriverFails, Interrupted
  <2> QED
    BY <1>2, <1>3, <1>4, <2>1 DEF Touches
<1>7. CASE PersistState
  <2>1. /\ UNCHANGED <<changes, cleanup, live, now, status>> /\ awaits = "state"
        /\ disk' = [disk EXCEPT !.documents = Saved("state")]
    BY <1>7 DEF PersistState, sessionVars
  <2> QED
    BY <1>2, <1>3, <2>1 DEF Touches
<1>8. CASE PersistTimeline
  <2>1. /\ UNCHANGED <<changes, cleanup, live, now, status>> /\ awaits = "timeline"
        /\ disk' = [documents |-> Saved("timeline"), cleanup |-> Open]
    BY <1>8 DEF PersistTimeline, sessionVars
  <2> HIDE DEF Saved
  <2>2. Docs' = Saved("timeline") /\ disk'.cleanup = Open
    BY <2>1 DEF Docs
  <2> QED
    BY <1>3, <2>1, <2>2 DEF Touches
<1>9. CASE Concludes
  <2>1. /\ UNCHANGED <<changes, cleanup, live, now, status>> /\ awaits = "nothing"
        /\ status # "active"
        /\ disk' = disk \/ disk' = [disk EXCEPT !.documents = Saved("result")]
    BY <1>9 DEF Concludes, sessionVars, Ended
  <2> QED
    BY <1>2, <1>3, <1>4, <2>1 DEF Touches
<1>10. CASE WatchdogCleans \/ OperatorCleans
  <2>1. \/ disk' = [disk EXCEPT !.cleanup = now] /\ held' = "free"
        \/ disk' = [disk EXCEPT !.cleanup = Open]
    BY <1>10 DEF WatchdogCleans, OperatorCleans, CleanedFromOutside
  <2>2. \/ disk' = [documents |-> Docs, cleanup |-> now] /\ held' = "free"
        \/ disk' = [documents |-> Docs, cleanup |-> Open]
    BY <1>1, <2>1
  <2> QED
    BY <2>2 DEF Docs
<1>11. CASE HandlerFails
  <2>1. \/ disk' = disk
        \/ /\ UNCHANGED <<changes, cleanup, live, now, status>> /\ awaits = "timeline"
           /\ disk' = [disk EXCEPT !.documents = Saved("timeline")]
    BY <1>11, HandlerFailsFacts
  <2> QED
    BY <1>2, <1>3, <1>4, <2>1 DEF Touches
<1> QED
  BY <1>5, <1>6, <1>7, <1>8, <1>9, <1>10, <1>11 DEF Moves, Driver, Others

\* The levels change when one is applied, all others having ended, or when one
\* ends.
LevelApplied ==
    /\ awaits = "apply" /\ status = "active" /\ phase = "active" /\ AllClosed
    /\ awaits' = "state" /\ UNCHANGED <<status, phase, cleanup>> /\ now' = now + 1
    /\ changes' = Append(changes, [level |-> level, applied |-> now, ended |-> Open])
LevelEnded ==
    /\ awaits \in {"transition", "cleanup"} /\ status = "active" /\ now' = now + 1
    /\ changes' = Closed(now) /\ live' = {}
    /\ \/ /\ awaits' = "apply" /\ UNCHANGED <<status, cleanup, phase>>
       \/ /\ awaits = "cleanup" /\ awaits' = "state" /\ phase \in Terminal /\ phase' \in Terminal
          /\ cleanup' = "succeeded" /\ status' \in {"clean", "recovering", "dirty"}

\* The cleanup that succeeds at the end of a session ends its level.
LEMMA TerminalEndsLevel ==
    ASSUME SessionInv, TerminalCleans
    PROVE  LevelEnded
<1>0. JournalIsAhead /\ journal \subseteq Profiles
  BY DEF SessionInv, SessionTypes
<1>1. awaits = "cleanup" /\ status = "active" /\ phase \in Terminal
  BY DEF TerminalCleans, SessionInv, Positions
<1> DEFINE r == [NoRecovery EXCEPT !.status = "pending", !.started = now]
<1>2. r \in RecoveryType
  BY DEF SessionInv, SessionTypes, NoRecovery, RecoveryType
<1>3. \/ status' = "clean" /\ phase' = phase
      \/ Recovers(r, 0)
  BY DEF TerminalCleans
<1> HIDE DEF r
<1>4. status' \in {"clean", "recovering", "dirty"} /\ phase' \in {phase, "dirty"}
  BY <1>2, <1>3, RecoversFacts
<1>5. phase' \in Terminal
  BY <1>1, <1>4 DEF Terminal
<1>6. live' = {}
  BY <1>0, CleansFacts DEF TerminalCleans
<1>7. changes' = Closed(now) /\ awaits' = "state" /\ cleanup' = "succeeded" /\ now' = now + 1
  BY DEF TerminalCleans, GoesOn, Returns
<1> QED
  BY <1>1, <1>4, <1>5, <1>6, <1>7 DEF LevelEnded

\* A level that was applied is the first, or follows levels that have ended.
LEMMA AppliesLevel ==
    ASSUME SessionInv, Applies
    PROVE  LevelApplied
<1>1. awaits = "apply" /\ status = "active" /\ phase = "active" /\ AllClosed
  BY DEF Applies, SessionInv, Positions, Timed
<1>2. changes \in Seq(Change)
  BY DEF SessionInv, SessionTypes, Change
<1>3. ~(changes # <<>> /\ Last.ended = Open)
  BY <1>1, <1>2 DEF AllClosed, Last
<1> QED
  BY <1>1, <1>3 DEF Applies, LevelApplied, GoesOn, Returns

\* The levels on record only change when one is applied or the latest one ends.
LEMMA LevelFacts ==
    ASSUME SessionInv, Moves
    PROVE  changes' = changes \/ LevelApplied \/ LevelEnded
<1>1. JournalIsAhead /\ journal \subseteq Profiles
  BY DEF SessionInv, SessionTypes
<1>2. CASE InSession
  <2>1. CASE Applies
    BY <2>1, AppliesLevel
  <2>2. CASE TransitionCleans
    <3>1. status = "active" /\ phase = "active" /\ awaits = "transition"
      BY <2>2 DEF TransitionCleans, SessionInv, Positions
    <3>2. CASE Cleans("succeeded") /\ changes' = Closed(now) /\ awaits' = "apply" /\ phase' = phase
      BY <1>1, <2>2, <3>1, <3>2, CleansFacts DEF TransitionCleans, LevelEnded, Returns
    <3> QED
      BY <2>2, <3>2 DEF TransitionCleans
  <2>3. CASE TerminalCleans
    BY <2>3, TerminalEndsLevel
  <2> QED
    BY <1>2, <2>1, <2>2, <2>3
       DEF InSession, BeginBlocked, Begin, ApplyFails, TickTooLong, TickWaits, TickDecides,
           TickEscalates, TerminalCleanupFails, TickRecovery, sessionVars
<1>3. CASE ~InSession
  BY <1>3 DEF Moves, Driver, Others, DriverFails, HandlerFails, PersistState, PersistTimeline, Concludes, Crash,
              WatchdogCleans, OperatorCleans, CleanedFromOutside, TimePasses, sessionVars
<1> QED
  BY <1>2, <1>3

\* What a level on record is.
LEMMA ChangeFacts ==
    ASSUME SessionInv, NEW n \in DOMAIN changes
    PROVE  /\ changes[n].applied \in Nat /\ changes[n].ended \in Nat \cup {Open}
           /\ changes[n].applied <= now /\ changes[n].ended <= now /\ now \in Nat
           /\ Len(changes) \in DOMAIN changes /\ DOMAIN changes = 1..Len(changes)
           /\ changes \in Seq(Change) /\ changes # <<>>
<1>1. changes \in Seq(Change) /\ now \in Nat
  BY DEF SessionInv, SessionTypes, Change
<1>2. changes[n] \in Change
  BY <1>1
<1>3. changes[n].applied <= now /\ changes[n].ended <= now
  BY DEF SessionInv, Timed
<1>4. changes # <<>> /\ DOMAIN changes = 1..Len(changes) /\ Len(changes) \in DOMAIN changes
  BY <1>1
<1> QED
  BY <1>1, <1>2, <1>3, <1>4 DEF Change

\* An end moves forward only, and the latest level gets one.
LEMMA ClosedLatest ==
    ASSUME SessionInv, Opened, NEW n \in DOMAIN changes
    PROVE  LET ended == Closed(now)
           IN  /\ DOMAIN ended = DOMAIN changes
               /\ ended[n].applied = changes[n].applied
               /\ ended[n].ended = changes[n].ended \/ (n = Len(changes) /\ ended[n].ended = now)
               /\ n = Len(changes) => ended[n].ended # Open /\ ended[n].ended >= now
               /\ ended[n].ended = Open \/ ended[n].applied <= ended[n].ended
<1>1. /\ changes[n].applied \in Nat /\ changes[n].ended \in Nat \cup {Open}
      /\ changes[n].applied <= now /\ now \in Nat
      /\ Len(changes) \in DOMAIN changes /\ DOMAIN changes = 1..Len(changes)
      /\ changes \in Seq(Change) /\ changes # <<>>
  BY ChangeFacts
<1>2. changes[n].ended = Open \/ changes[n].applied <= changes[n].ended
  BY DEF Opened
<1>3. CASE Last.ended # Open /\ now <= Last.ended
  BY <1>1, <1>2, <1>3 DEF Closed, Last
<1>4. CASE ~(Last.ended # Open /\ now <= Last.ended)
  <2>1. Closed(now) = [changes EXCEPT ![Len(changes)] = [@ EXCEPT !.ended = now]]
    BY <1>1, <1>4 DEF Closed
  <2>2. CASE n # Len(changes)
    <3>1. DOMAIN Closed(now) = DOMAIN changes /\ Closed(now)[n] = changes[n]
      BY <1>1, <2>1, <2>2
    <3> QED
      BY <1>2, <2>2, <3>1
  <2>3. CASE n = Len(changes)
    <3>1. changes[n] \in Change
      BY <1>1
    <3>2. DOMAIN Closed(now) = DOMAIN changes /\ Closed(now)[n] = [changes[n] EXCEPT !.ended = now]
      BY <1>1, <2>1, <2>3
    <3>3. Closed(now)[n].applied = changes[n].applied /\ Closed(now)[n].ended = now
      BY <3>1, <3>2 DEF Change
    <3> QED
      BY <1>1, <2>3, <3>2, <3>3 DEF Open
  <2> QED
    BY <2>2, <2>3
<1> QED
  BY <1>3, <1>4

\* Once there is a level, there is one.
LEMMA LevelsStay ==
    ASSUME SessionInv, Opened, Moves, changes # <<>>
    PROVE  changes' # <<>>
<1>1. changes \in Seq(Change)
  BY DEF SessionInv, SessionTypes, Change
<1>2. Len(changes) \in DOMAIN changes
  BY <1>1
<1>3. CASE LevelApplied
  BY <1>1, <1>3 DEF LevelApplied
<1>4. CASE LevelEnded
  BY <1>2, <1>4, ClosedLatest DEF LevelEnded
<1> QED
  BY <1>3, <1>4, LevelFacts

-----------------------------------------------------------------------------
\* How the session goes on: nothing becomes active again, and only a cleanup
\* ends what is.
LEMMA StatusFacts ==
    ASSUME SessionInv, Settled, Moves
    PROVE  /\ status' = "pending" => status = "pending" /\ cleanup' = cleanup
           /\ status' = "active" => status \in {"pending", "active"} /\ cleanup' = cleanup
           /\ status' # "active" /\ cleanup' # "failed" =>
                 live' = {} \/ (status # "active" /\ cleanup # "failed")
           /\ cleanup = "failed" => cleanup' = "failed" /\ changes' = changes
           /\ cleanup' = "failed" /\ cleanup # "failed" => status = "active" /\ changes' = changes
<1>1. /\ status \in {"pending", "active"} => cleanup = "none"
      /\ awaits \in {"apply", "transition", "cleanup"} => status = "active"
  BY CallHoldsLease DEF Settled, SessionInv
<1>2. CASE InSession
  <2>1. CASE TerminalCleans \/ TransitionCleans
    <3>1. status = "active" /\ cleanup = "none"
      BY <1>1, <2>1 DEF TerminalCleans, TransitionCleans
    <3>2. CASE TerminalCleans
      <4>1. cleanup' = "succeeded" /\ status' \in {"clean", "recovering", "dirty"} /\ live' = {}
        <5>1. awaits' = "state"
          BY <3>2 DEF TerminalCleans, GoesOn
        <5> QED
          BY <3>2, <5>1, TerminalEndsLevel DEF LevelEnded
      <4> QED
        BY <3>1, <4>1
    <3>3. CASE TransitionCleans
      BY <3>1, <3>3 DEF TransitionCleans
    <3> QED
      BY <2>1, <3>2, <3>3
  <2>2. CASE TickRecovery
    <3>1. recovery \in RecoveryType
      BY DEF SessionInv, SessionTypes, RecoveryType
    <3>2. status' \in {"clean", "recovering", "dirty"} /\ status = "recovering"
      BY <2>2, <3>1, RecoversFacts DEF TickRecovery, Ticking
    <3> QED
      BY <2>2, <3>2 DEF TickRecovery
  <2>3. CASE TerminalCleanupFails
    BY <1>1, <2>3 DEF TerminalCleanupFails
  <2>4. CASE ApplyFails \/ Applies
    BY <1>1, <2>4 DEF ApplyFails, Applies
  <2>5. CASE BeginBlocked \/ Begin \/ TickTooLong \/ TickWaits \/ TickDecides \/ TickEscalates
    BY <1>1, <2>5 DEF BeginBlocked, Begin, TickTooLong, TickWaits, TickDecides, TickEscalates,
                      Ticking, sessionVars
  <2> QED
    BY <1>2, <2>1, <2>2, <2>3, <2>4, <2>5 DEF InSession
<1>3. CASE DriverFails
  <2>1. status = "active" /\ awaits \in {"nothing", "state", "timeline"} => changes # <<>>
    BY DEF SessionInv, Counted, SessionTypes
  <2>2. status = "active" => changes # <<>>
    BY <1>3, <2>1 DEF DriverFails, Interrupted, Ticking
  <2> QED
    BY <1>1, <1>3, <2>2 DEF DriverFails
<1>6. CASE HandlerFails
  BY <1>1, <1>6, HandlerFailsFacts
<1>4. CASE PersistState \/ PersistTimeline \/ Concludes
  BY <1>4 DEF PersistState, PersistTimeline, Concludes, sessionVars
<1>5. CASE Crash \/ TimePasses \/ WatchdogCleans \/ OperatorCleans
  BY <1>5 DEF Crash, TimePasses, WatchdogCleans, OperatorCleans, CleanedFromOutside, sessionVars
<1> QED
  BY <1>2, <1>3, <1>4, <1>5, <1>6 DEF Moves, Driver, Others

\* A session that is over has left something only if its cleanup failed.
LEMMA SettledStep ==
    ASSUME SessionInv, RecordInv, Moves
    PROVE  Settled'
<1>1. /\ status \in {"pending", "active"} => cleanup = "none"
      /\ status # "active" /\ cleanup # "failed" => live = {}
      /\ Named => changes # <<>>
  BY DEF RecordInv, Settled
<1>2. Named' => changes' # <<>>
  <2>1. changes # <<>> => changes' # <<>>
    BY LevelsStay DEF RecordInv
  <2>2. CASE Docs' = Docs
    BY <1>1, <2>1, <2>2 DEF Named
  <2>3. ASSUME NEW name, Docs' = Saved(name), changes' = changes
        PROVE  Named' => changes' # <<>>
    BY <1>1, <2>3 DEF Named, Saved, Docs
  <2> QED
    BY <2>2, <2>3, DiskFacts
<1>3. status' \in {"pending", "active"} => cleanup' = "none"
  BY <1>1, StatusFacts DEF RecordInv
<1>4. ASSUME status' # "active", cleanup' # "failed" PROVE live' = {}
  <2>1. live' = {} \/ (status # "active" /\ cleanup # "failed")
    BY <1>4, StatusFacts DEF RecordInv
  <2> QED
    BY <1>1, <2>1, EffectFacts
<1> QED
  BY <1>2, <1>3, <1>4 DEF Settled

\* Every document says what some earlier state of the session was.
LEMMA DocumentsStep ==
    ASSUME SessionInv, RecordInv, Moves
    PROVE  Documents'
<1>1. /\ "timeline" \in DOMAIN Docs
      /\ \A d \in DOMAIN Docs : \A i \in DOMAIN Docs[d] : Docs[d][i].applied \in 0..now
  BY DEF RecordInv, Documents
<1>2. now' \in {now, now + 1} /\ now \in Nat
  BY TimeFacts
<1>3. disk' = [documents |-> Docs', cleanup |-> disk'.cleanup]
  BY DiskFacts
<1>4. CASE Docs' = Docs
  BY <1>1, <1>2, <1>3, <1>4 DEF Documents
<1>5. ASSUME NEW name, Docs' = Saved(name), changes' = changes, now' = now
      PROVE  Documents'
  <2>1. DOMAIN Docs' = DOMAIN Docs \cup {name}
    BY <1>5 DEF Saved, Docs
  <2>2. ASSUME NEW d \in DOMAIN Docs', NEW i \in DOMAIN Docs'[d]
        PROVE  Docs'[d][i].applied \in 0..now'
    <3>1. CASE d = name
      <4>1. Docs'[d] = changes
        BY <1>5, <2>1, <3>1 DEF Saved, Docs
      <4> QED
        BY <1>5, <2>2, <4>1, ChangeFacts
    <3>2. CASE d # name
      <4>1. d \in DOMAIN Docs /\ Docs'[d] = Docs[d]
        BY <1>5, <2>1, <3>2 DEF Saved, Docs
      <4> QED
        BY <1>1, <1>5, <2>2, <4>1
    <3> QED
      BY <3>1, <3>2
  <2> QED
    BY <1>1, <1>3, <2>1, <2>2 DEF Documents
<1> QED
  BY <1>4, <1>5, DiskFacts

-----------------------------------------------------------------------------
\* The first two facts about ends.
LEMMA EndsStep ==
    ASSUME SessionInv, RecordInv, Moves
    PROVE  \A i \in DOMAIN changes' :
              changes'[i].ended = Open \/ changes'[i].applied <= changes'[i].ended
<1>1. Opened
  BY DEF RecordInv
<1>2. CASE changes' = changes
  BY <1>1, <1>2 DEF Opened
<1>3. CASE LevelApplied
  <2> DEFINE new == [level |-> level, applied |-> now, ended |-> Open]
  <2>1. new.ended = Open
    OBVIOUS
  <2> HIDE DEF new
  <2>2. changes' = Append(changes, new) /\ changes \in Seq(Change)
    BY <1>3 DEF LevelApplied, SessionInv, SessionTypes, Change, new
  <2>3. ASSUME NEW i \in DOMAIN changes'
        PROVE  changes'[i].ended = Open \/ changes'[i].applied <= changes'[i].ended
    <3>1. changes'[i] = new \/ (i \in DOMAIN changes /\ changes'[i] = changes[i])
      BY <2>2
    <3> QED
      BY <1>1, <2>1, <3>1 DEF Opened
  <2> QED
    BY <2>3
<1>4. CASE LevelEnded
  <2>1. CASE changes = <<>>
    BY <1>1, <1>2, <1>4, <2>1 DEF LevelEnded, Closed
  <2>2. CASE changes # <<>>
    <3>1. Len(changes) \in DOMAIN changes
      BY <2>2 DEF SessionInv, SessionTypes, Change
    <3>2. DOMAIN changes' = DOMAIN changes
      BY <1>1, <1>4, <3>1, ClosedLatest DEF LevelEnded
    <3>3. ASSUME NEW i \in DOMAIN changes
          PROVE  changes'[i].ended = Open \/ changes'[i].applied <= changes'[i].ended
      BY <1>1, <1>4, ClosedLatest DEF LevelEnded
    <3> QED
      BY <3>2, <3>3
  <2> QED
    BY <2>1, <2>2
<1> QED
  BY <1>2, <1>3, <1>4, LevelFacts

\* Where an active session stands between two calls, it stood before or a level
\* has been applied; and what is half done, or given up, stays so.
LEMMA StandsFacts ==
    ASSUME SessionInv, Settled, Moves
    PROVE  /\ status' = "active" /\ awaits' \in {"nothing", "state", "timeline", "transition"}
                => \/ LevelApplied
                   \/ /\ changes' = changes /\ status = "active"
                      /\ awaits \in {"nothing", "state", "timeline"}
           /\ HalfDone => HalfDone' \/ LevelEnded
           /\ GivenUp => GivenUp'
<1>1. /\ awaits \in {"apply", "transition"} => status = "active" /\ phase = "active"
      /\ awaits = "cleanup" => status = "active" /\ phase \in Terminal
      /\ status = "pending" => phase = "none"
      /\ status = "active" /\ awaits \in {"nothing", "state", "timeline"} => phase = "active"
      /\ awaits # "gone" /\ held # "lease" => status \notin {"active"}
      /\ status \in {"pending", "active"} => cleanup # "failed"
      /\ phase = "active" \/ phase = "none" => phase \notin Terminal
      /\ {"aborted", "dirty"} \subseteq Terminal
  BY DEF SessionInv, Positions, Settled, Terminal, Ended
<1>2. CASE InSession
  <2>1. CASE Applies
    BY <1>1, <2>1, AppliesLevel DEF LevelApplied, HalfDone, GivenUp
  <2>2. CASE TerminalCleans
    <3>1. awaits' = "state" /\ awaits = "cleanup"
      BY <2>2 DEF TerminalCleans, GoesOn
    <3> QED
      BY <2>2, <3>1, TerminalEndsLevel DEF LevelEnded, GivenUp
  <2>3. CASE TransitionCleans
    BY <1>1, <2>3 DEF TransitionCleans, HalfDone, GivenUp
  <2>4. CASE TickRecovery
    <3>1. recovery \in RecoveryType
      BY DEF SessionInv, SessionTypes, RecoveryType
    <3>2. /\ status' \in {"clean", "recovering", "dirty"} /\ phase' \in {phase, "dirty"}
          /\ awaits = "nothing" /\ cleanup' = cleanup
      BY <2>4, <3>1, RecoversFacts DEF TickRecovery, Ticking
    <3> QED
      BY <1>1, <3>2 DEF HalfDone, GivenUp
  <2>5. CASE TerminalCleanupFails
    BY <1>1, <2>5 DEF TerminalCleanupFails, HalfDone, GivenUp
  <2>6. CASE BeginBlocked \/ Begin \/ ApplyFails
    BY <1>1, <2>6 DEF BeginBlocked, Begin, ApplyFails, HalfDone, GivenUp
  <2>7. CASE TickTooLong \/ TickWaits \/ TickDecides \/ TickEscalates
    BY <1>1, <2>7 DEF TickTooLong, TickWaits, TickDecides, TickEscalates, Ticking, HalfDone,
                      GivenUp, sessionVars
  <2> QED
    BY <1>2, <2>1, <2>2, <2>3, <2>4, <2>5, <2>6, <2>7 DEF InSession
<1>3. CASE DriverFails
  <2>1. /\ awaits \in {"nothing", "state", "timeline"} /\ cleanup' = cleanup
        /\ \/ phase' = phase /\ awaits' = "state" /\ status' \in {"blocked", "clean", "dirty"}
           \/ phase' = "aborted" /\ awaits' = "cleanup"
    BY <1>3 DEF DriverFails, Interrupted, Ticking, GoesOn
  <2> QED
    BY <1>1, <2>1 DEF HalfDone, GivenUp
<1>4. CASE PersistState \/ PersistTimeline \/ Concludes
  BY <1>4 DEF PersistState, PersistTimeline, Concludes, sessionVars, HalfDone, GivenUp
<1>5. CASE Crash
  BY <1>5 DEF Crash, HalfDone, GivenUp
<1>6. CASE TimePasses \/ WatchdogCleans \/ OperatorCleans
  BY <1>1, <1>6 DEF TimePasses, WatchdogCleans, OperatorCleans, CleanedFromOutside, sessionVars,
                    HalfDone, GivenUp
<1>7. CASE HandlerFails
  BY <1>1, <1>7, HandlerFailsFacts DEF HalfDone, GivenUp
<1> QED
  BY <1>2, <1>3, <1>4, <1>5, <1>6, <1>7 DEF Moves, Driver, Others

\* While a level is on, its record is open; what is on the testbed without one is
\* of a level that was half done.
LEMMA OpenedStep ==
    ASSUME SessionInv, RecordInv, Moves
    PROVE  Opened'
<1>1. /\ status = "active" /\ awaits \in {"nothing", "state", "timeline", "transition"}
            => Last.ended = Open
      /\ live # {} => IF changes = <<>> THEN GivenUp ELSE Last.ended = Open \/ HalfDone
      /\ Opened /\ Settled
  BY DEF RecordInv, Opened
<1>2. CASE LevelApplied
  <2> DEFINE new == [level |-> level, applied |-> now, ended |-> Open]
  <2>1. new.ended = Open
    OBVIOUS
  <2> HIDE DEF new
  <2>2. changes' = Append(changes, new) /\ changes \in Seq(Change)
    BY <1>2 DEF LevelApplied, SessionInv, SessionTypes, Change, new
  <2>3. Last' = new /\ changes' # <<>>
    BY <2>2 DEF Last
  <2> QED
    BY <2>1, <2>3, EndsStep DEF Opened
<1>3. CASE LevelEnded
  <2>1. live' = {}
    BY <1>3 DEF LevelEnded
  <2>2. ~(status' = "active" /\ awaits' \in {"nothing", "state", "timeline", "transition"})
    BY <1>3 DEF LevelEnded
  <2> QED
    BY <2>1, <2>2, EndsStep DEF Opened
<1>4. CASE changes' = changes /\ ~LevelApplied /\ ~LevelEnded
  <2>1. Last' = Last
    BY <1>4 DEF Last
  <2>2. status' = "active" /\ awaits' \in {"nothing", "state", "timeline", "transition"}
          => Last'.ended = Open
    BY <1>1, <1>4, <2>1, StandsFacts
  <2>3. ASSUME live' # {}, live = {}
        PROVE  GivenUp' /\ HalfDone'
    <3>1. awaits = "apply" /\ ~(live' \subseteq live)
      BY <2>3, EffectFacts
    <3>2. CASE ApplyFails
      BY <3>2 DEF ApplyFails, GivenUp, HalfDone, Terminal
    <3>3. CASE Crash
      BY <3>3 DEF Crash, GivenUp, HalfDone
    <3>4. ApplyFails \/ Crash
      <4>1. ~Applies
        BY <1>4, AppliesLevel
      <4>2. /\ ~WatchdogCleans /\ ~OperatorCleans /\ ~TimePasses
        BY <3>1, CallHoldsLease DEF SessionInv, WatchdogCleans, OperatorCleans, TimePasses
      <4> QED
        BY <3>1, <4>1, <4>2
           DEF Moves, Driver, Others, InSession, BeginBlocked, Begin, TickTooLong, TickWaits,
               TickDecides, TickEscalates, TransitionCleans, TerminalCleans,
               TerminalCleanupFails, TickRecovery, Ticking, DriverFails, HandlerFails, Interrupted, PersistState,
               PersistTimeline, Concludes
    <3> QED
      BY <3>2, <3>3, <3>4
  <2>4. live' # {} => IF changes' = <<>> THEN GivenUp' ELSE Last'.ended = Open \/ HalfDone'
    BY <1>1, <1>4, <2>1, <2>3, StandsFacts
  <2> QED
    BY <2>2, <2>4, EndsStep DEF Opened
<1> QED
  BY <1>2, <1>3, <1>4, LevelFacts

-----------------------------------------------------------------------------
\* A time the levels covered is covered when the latest of them ends, and so is
\* any time since it began.
LEMMA ClosedCovers ==
    ASSUME SessionInv, Opened, NEW t \in 0..now, changes # <<>>,
           \/ Covers(changes, t)
           \/ Last.ended # Open /\ Last.ended < t
           \/ t = now
    PROVE  Covers(Closed(now), t)
<1> DEFINE n == Len(changes)
<1>1. n \in DOMAIN changes /\ now \in Nat
  BY DEF SessionInv, SessionTypes, Change
<1>2. \A i \in DOMAIN changes :
         /\ DOMAIN Closed(now) = DOMAIN changes
         /\ Closed(now)[i].applied = changes[i].applied
         /\ Closed(now)[i].ended = changes[i].ended \/ (i = n /\ Closed(now)[i].ended = now)
         /\ i = n => Closed(now)[i].ended # Open /\ Closed(now)[i].ended >= now
  BY ClosedLatest
<1>3. CASE changes[n].applied <= t
  <2>1. Closed(now)[n].ended >= t
    <3>1. Closed(now)[n].ended \in Nat \cup {Open} /\ Closed(now)[n].ended >= now
      BY <1>1, <1>2, ChangeFacts
    <3> QED
      BY <1>1, <3>1 DEF Open
  <2>2. n \in DOMAIN Closed(now) /\ Closed(now)[n].applied <= t
    BY <1>1, <1>2, <1>3
  <2> QED
    BY <2>1, <2>2 DEF Covers
<1>4. CASE ~(changes[n].applied <= t)
  <2>1. Covers(changes, t)
    <3>1. changes[n].applied <= now
      BY <1>1, ChangeFacts
    <3>2. Last.ended = Open \/ changes[n].applied <= Last.ended
      BY <1>1 DEF Opened, Last
    <3>3. changes[n].applied \in Nat /\ Last.ended \in Nat \cup {Open}
      BY <1>1, ChangeFacts DEF Last
    <3> QED
      BY <1>1, <1>4, <3>1, <3>2, <3>3
  <2>2. PICK i \in DOMAIN changes :
          changes[i].applied <= t /\ (changes[i].ended = Open \/ t <= changes[i].ended)
    BY <2>1 DEF Covers
  <2>3. i # n
    BY <1>4, <2>2
  <2> QED
    BY <1>2, <2>2, <2>3 DEF Covers
<1> QED
  BY <1>3, <1>4

\* The session's levels cover the time that has just passed, as they did every
\* time before: an end that moves forward covers more.
LEMMA InMemoryStep ==
    ASSUME SessionInv, RecordInv, Moves
    PROVE  InMemory'
<1>1. /\ now' \in {now, now + 1} /\ now \in Nat /\ touched \subseteq 0..now
      /\ \/ touched' = touched
         \/ touched' = touched \cup {now} /\ live \cup live' # {}
  BY TimeFacts
<1>2. Opened /\ Settled /\ Opened'
  BY OpenedStep DEF RecordInv
<1> SUFFICES ASSUME NEW t \in touched'
             PROVE  \/ Covers(changes', t)
                    \/ changes' = <<>> /\ GivenUp'
                    \/ changes' # <<>> /\ HalfDone' /\ Last'.ended # Open /\ Last'.ended < t
  <2> SUFFICES ASSUME NEW t \in touched' PROVE AccountedFor(t)'
    BY DEF InMemory
  <2>1. Covers(changes, t)' <=> Covers(changes', t)
    BY DEF Covers
  <2> QED
    BY <2>1 DEF AccountedFor
<1>3. t \in 0..now
  <2>1. t \in touched \/ t = now
    BY <1>1
  <2>2. CASE t \in touched
    BY <1>1, <2>2
  <2>3. CASE t = now
    BY <1>1, <2>3
  <2> QED
    BY <2>1, <2>2, <2>3
<1>4. t \in touched =>
         \/ Covers(changes, t)
         \/ changes = <<>> /\ GivenUp
         \/ changes # <<>> /\ HalfDone /\ Last.ended # Open /\ Last.ended < t
  BY DEF RecordInv, InMemory, AccountedFor
<1>5. t \notin touched => t = now /\ live \cup live' # {}
  BY <1>1
<1>6. changes = <<>> => ~Covers(changes, t)
  BY DEF Covers
<1>7. CASE LevelApplied
  <2> DEFINE new == [level |-> level, applied |-> now, ended |-> Open]
  <2>1. new.ended = Open /\ new.applied = now
    OBVIOUS
  <2> HIDE DEF new
  <2>2. changes' = Append(changes, new) /\ changes \in Seq(Change)
    BY <1>7 DEF LevelApplied, SessionInv, SessionTypes, Change, new
  <2>3. ~GivenUp /\ ~HalfDone
    BY <1>2, <1>7 DEF LevelApplied, GivenUp, HalfDone, Terminal, Settled
  <2>4. CASE t \in touched
    <3>1. PICK i \in DOMAIN changes :
            changes[i].applied <= t /\ (changes[i].ended = Open \/ t <= changes[i].ended)
      BY <1>4, <2>3, <2>4 DEF Covers
    <3>2. i \in DOMAIN changes' /\ changes'[i] = changes[i]
      BY <2>2
    <3> QED
      BY <3>1, <3>2 DEF Covers
  <2>5. CASE t \notin touched
    <3>1. Len(changes) + 1 \in DOMAIN changes' /\ changes'[Len(changes) + 1] = new
      BY <2>2
    <3>2. new.applied <= t
      BY <1>1, <1>5, <2>1, <2>5
    <3> QED
      BY <2>1, <3>1, <3>2 DEF Covers
  <2> QED
    BY <2>4, <2>5
<1>8. CASE LevelEnded
  <2>1. CASE changes = <<>>
    <3>1. changes' = <<>>
      BY <1>8, <2>1 DEF LevelEnded, Closed
    <3>2. live # {} => GivenUp
      BY <1>2, <2>1 DEF Opened
    <3>3. GivenUp
      BY <1>4, <1>5, <1>6, <1>8, <2>1, <3>2 DEF LevelEnded
    <3> QED
      BY <1>2, <3>1, <3>3, StandsFacts
  <2>2. CASE changes # <<>>
    BY <1>2, <1>3, <1>4, <1>5, <1>8, <2>2, ClosedCovers DEF LevelEnded
  <2> QED
    BY <2>1, <2>2
<1>9. CASE changes' = changes /\ ~LevelEnded
  <2>1. Last' = Last
    BY <1>9 DEF Last
  <2>2. HalfDone => HalfDone'
    BY <1>2, <1>9, StandsFacts
  <2>3. CASE t \in touched
    BY <1>2, <1>4, <1>9, <2>1, <2>2, <2>3, StandsFacts
  <2>4. CASE t \notin touched /\ changes = <<>>
    <3>1. GivenUp'
      BY <1>2, <1>5, <1>9, <2>4, StandsFacts DEF Opened
    <3> QED
      BY <1>9, <2>4, <3>1
  <2>5. CASE t \notin touched /\ changes # <<>>
    <3> DEFINE n == Len(changes)
    <3>1. n \in DOMAIN changes /\ Last = changes[n]
      BY <2>5 DEF SessionInv, SessionTypes, Change, Last
    <3>2. Last.ended = Open \/ HalfDone'
      BY <1>2, <1>5, <1>9, <2>1, <2>2, <2>5 DEF Opened
    <3>3. /\ Last.applied <= now /\ Last.ended \in Nat \cup {Open}
          /\ Last.ended = Open \/ Last.applied <= Last.ended
      BY <1>2, <3>1, ChangeFacts DEF Opened
    <3>4. CASE Last.ended = Open \/ now <= Last.ended
      BY <1>5, <1>9, <2>5, <3>1, <3>3, <3>4 DEF Covers
    <3>5. CASE ~(Last.ended = Open \/ now <= Last.ended)
      <4>1. Last.ended < now
        BY <1>1, <3>3, <3>5
      <4> QED
        BY <1>5, <1>9, <2>1, <2>5, <3>2, <3>5, <4>1
    <3> QED
      BY <3>4, <3>5
  <2> QED
    BY <2>3, <2>4, <2>5
<1> QED
  BY <1>7, <1>8, <1>9, LevelFacts

-----------------------------------------------------------------------------
\* What has been written stays open as long as the session may have effects,
\* because the latest level is written as it stands.
LEMMA WrittenOpen ==
    ASSUME SessionInv, RecordInv, Moves, Named',
           status' = "active" \/ (cleanup' = "failed" /\ Last'.ended = Open)
    PROVE  OpenOnDisk'
<1>1. /\ Settled
      /\ Named => changes # <<>>
      /\ Named /\ (status = "active" \/ (cleanup = "failed" /\ Last.ended = Open)) => OpenOnDisk
  BY DEF RecordInv, Settled, Written
<1>2. CASE Docs' = Docs
  <2>1. Named /\ (OpenOnDisk => OpenOnDisk')
    BY <1>2 DEF Named, OpenOnDisk
  <2>2. status # "pending"
    BY <1>1, <2>1 DEF SessionInv, Positions
  <2>3. CASE status' = "active"
    BY <1>1, <2>1, <2>2, <2>3, StatusFacts
  <2>4. CASE cleanup' = "failed" /\ Last'.ended = Open
    <3>1. status = "active" \/ (cleanup = "failed" /\ changes' = changes)
      BY <1>1, <2>4, StatusFacts
    <3>2. changes' = changes => Last' = Last
      BY DEF Last
    <3> QED
      BY <1>1, <2>1, <2>4, <3>1, <3>2
  <2> QED
    BY <2>3, <2>4
<1>3. ASSUME NEW name, Docs' = Saved(name), changes' = changes, cleanup' = cleanup,
             status' = "active" => status = "active" /\ awaits \in {"state", "timeline"}
      PROVE  OpenOnDisk'
  <2>1. Last.ended = Open
    <3>1. Last' = Last
      BY <1>3 DEF Last
    <3> QED
      BY <1>3, <3>1 DEF RecordInv, Opened
  <2>2. changes # <<>>
    BY <1>3, SettledStep DEF Settled
  <2>3. Len(changes) \in DOMAIN changes
    BY <2>2 DEF SessionInv, SessionTypes, Change
  <2>4. name \in DOMAIN Docs' /\ Docs'[name] = changes
    BY <1>3 DEF Saved, Docs
  <2> QED
    BY <2>1, <2>3, <2>4 DEF OpenOnDisk, Last
<1> QED
  BY <1>2, <1>3, DiskFacts

\* A time at which there was an effect is covered on disk: by the open end while
\* nothing is written, by the session's own levels when something is.
LEMMA WrittenCovers ==
    ASSUME SessionInv, RecordInv, Moves, Named', ~Excepted', NEW t \in touched'
    PROVE  OnDisk(t)'
<1>1. /\ Settled /\ Documents /\ InMemory
      /\ Named /\ (status = "active" \/ (cleanup = "failed" /\ Last.ended = Open)) => OpenOnDisk
      /\ Named /\ ~Excepted => \A u \in touched : OnDisk(u)
      /\ status # "active" /\ cleanup # "failed" => live = {}
  BY DEF RecordInv, Written, Settled
<1>2. ~Excepted
  <2>1. cleanup = "failed" => cleanup' = "failed" /\ changes' = changes
    BY <1>1, StatusFacts
  <2>2. changes' = changes => Last' = Last
    BY DEF Last
  <2> QED
    BY <2>1, <2>2 DEF Excepted
<1>3. /\ t \notin touched => t = now /\ live \cup live' # {}
      /\ now \in Nat
  BY TimeFacts
<1>4. CASE Docs' = Docs
  <2>1. Named
    BY <1>4 DEF Named
  <2>2. OnDisk(t) => OnDisk(t)'
    BY <1>4 DEF OnDisk, Covers
  <2>3. CASE t \in touched
    BY <1>1, <1>2, <2>1, <2>2, <2>3
  <2>4. CASE t \notin touched
    <3>1. status = "active" \/ cleanup = "failed"
      BY <1>1, <1>3, <2>4, EffectFacts
    <3>2. OpenOnDisk
      BY <1>1, <1>2, <2>1, <3>1 DEF Excepted
    <3>3. PICK d \in DOMAIN Docs : \E i \in DOMAIN Docs[d] : Docs[d][i].ended = Open
      BY <3>2 DEF OpenOnDisk
    <3>4. PICK i \in DOMAIN Docs[d] : Docs[d][i].ended = Open
      BY <3>3
    <3>5. Docs[d][i].applied <= now
      BY <1>1, <1>3 DEF Documents
    <3>6. Covers(Docs[d], t)
      BY <1>3, <2>4, <3>4, <3>5 DEF Covers
    <3> QED
      BY <2>2, <3>6 DEF OnDisk
  <2> QED
    BY <2>3, <2>4
<1>5. ASSUME NEW name, Docs' = Saved(name), changes' = changes, touched' = touched,
             awaits \in {"nothing", "state", "timeline"}
      PROVE  OnDisk(t)'
  <2>1. changes # <<>>
    BY <1>5, SettledStep DEF Settled
  <2>2. Covers(changes, t)
    BY <1>1, <1>2, <1>5, <2>1 DEF InMemory, AccountedFor, HalfDone, Excepted
  <2>3. name \in DOMAIN Docs' /\ Docs'[name] = changes
    BY <1>5 DEF Saved, Docs
  <2> QED
    BY <2>2, <2>3 DEF OnDisk, Covers
<1> QED
  BY <1>4, <1>5, DiskFacts

\* The directory keeps up with the session; a recorded cleanup is the last word.
LEMMA WrittenStep ==
    ASSUME SessionInv, RecordInv, Moves
    PROVE  Written'
<1>1. Named' /\ (status' = "active" \/ (cleanup' = "failed" /\ Last'.ended = Open)) => OpenOnDisk'
  BY WrittenOpen
<1>2. Named' /\ ~Excepted' => \A t \in touched' : OnDisk(t)'
  BY WrittenCovers
<1>3. ASSUME disk'.cleanup # Open
      PROVE  held' = "free" /\ \A t \in touched' : t <= disk'.cleanup
  <2>1. disk'.cleanup = now /\ held' = "free"
    BY <1>3, DiskFacts
  <2>2. /\ touched \subseteq 0..now /\ now \in Nat
        /\ touched' = touched \/ touched' = touched \cup {now}
    BY TimeFacts
  <2>3. ASSUME NEW t \in touched' PROVE t <= now
    <3>1. t \in touched \/ t = now
      BY <2>2
    <3>2. CASE t \in touched
      BY <2>2, <3>2
    <3>3. CASE t = now
      BY <2>2, <3>3
    <3> QED
      BY <3>1, <3>2, <3>3
  <2> QED
    BY <2>1, <2>3
<1> QED
  BY <1>1, <1>2, <1>3 DEF Written

\* No tick begins after the last one, and a call takes one unit of time.
LEMMA ClockStep ==
    ASSUME SessionInv, RecordInv, Moves
    PROVE  Clock'
<1>1. Clock /\ now \in Nat /\ Horizon \in Nat
  BY RuntimeAssumption DEF RecordInv, SessionInv, SessionTypes
<1>2. /\ awaits \in {"transition", "apply", "cleanup"} => status = "active"
      /\ changes # <<>> /\ cleanup = "none" => status = "active"
  BY DEF SessionInv, Positions
<1>3. CASE InSession
  <2>1. held' = held
    BY <1>3 DEF InSession, outside
  <2>2. CASE BeginBlocked \/ Begin
    <3>1. now' = now /\ awaits = "nothing" /\ awaits' \in {"state", "apply"}
      BY <2>2 DEF BeginBlocked, Begin, GoesOn
    <3>2. status = "pending"
      BY <2>2 DEF BeginBlocked, Begin
    <3> QED
      BY <1>1, <2>1, <3>1, <3>2 DEF Clock
  <2>3. CASE ApplyFails \/ Applies
    <3>1. now' = now + 1 /\ awaits = "apply" /\ awaits' \in {"state", "cleanup"}
          /\ status' = status
      BY <2>3 DEF ApplyFails, Applies, Returns, GoesOn
    <3> QED
      BY <1>1, <1>2, <2>1, <3>1 DEF Clock
  <2>4. CASE TickTooLong \/ TickWaits \/ TickDecides \/ TickEscalates \/ TickRecovery
    <3>1. now < Horizon /\ awaits' \in {"state", "cleanup", "transition"}
          /\ (now' = now \/ (now' = now + 1 /\ awaits' = "state"))
      BY <2>4 DEF TickTooLong, TickWaits, TickDecides, TickEscalates, TickRecovery, Ticking,
                  Returns, GoesOn
    <3>2. status' # "pending"
      <4>1. CASE TickRecovery
        BY <4>1, RecoversFacts DEF TickRecovery, SessionInv, SessionTypes, RecoveryType
      <4>2. CASE ~TickRecovery
        BY <2>4, <4>2 DEF TickTooLong, TickWaits, TickDecides, TickEscalates, Ticking, sessionVars
      <4> QED
        BY <4>1, <4>2
    <3> QED
      BY <1>1, <2>1, <3>1, <3>2 DEF Clock
  <2>5. CASE TransitionCleans
    <3>1. now' = now + 1 /\ awaits = "transition" /\ awaits' \in {"apply", "cleanup"}
          /\ status' = status
      BY <2>5 DEF TransitionCleans, Returns
    <3> QED
      BY <1>1, <1>2, <2>1, <3>1 DEF Clock
  <2>6. CASE TerminalCleans \/ TerminalCleanupFails
    <3>1. now' = now + 1 /\ awaits = "cleanup" /\ awaits' = "state"
      BY <2>6 DEF TerminalCleans, TerminalCleanupFails, Returns, GoesOn
    <3>2. status' \notin {"active", "pending"}
      <4>1. CASE TerminalCleanupFails \/ changes = <<>>
        BY <2>6, <4>1 DEF TerminalCleans, TerminalCleanupFails
      <4>2. CASE TerminalCleans /\ changes # <<>>
        <5> DEFINE r == [NoRecovery EXCEPT !.status = "pending", !.started = now]
        <5>1. r \in RecoveryType
          BY <1>1 DEF NoRecovery, RecoveryType
        <5>2. Recovers(r, 0)
          BY <4>2 DEF TerminalCleans
        <5> HIDE DEF r
        <5> QED
          BY <5>1, <5>2, RecoversFacts
      <4> QED
        BY <2>6, <4>1, <4>2
    <3> QED
      BY <1>1, <2>1, <3>1, <3>2 DEF Clock
  <2> QED
    BY <1>3, <2>2, <2>3, <2>4, <2>5, <2>6 DEF InSession
<1>4. CASE DriverFails
  <2>1. now' = now /\ held' = held /\ awaits # "gone"
        /\ (awaits' = "state" \/ (awaits' = "cleanup" /\ changes # <<>> /\ cleanup = "none"))
    BY <1>4 DEF DriverFails, Interrupted, Ticking, GoesOn
  <2>2. /\ status' = "active" => awaits' = "cleanup"
        /\ status' # "pending" \/ status' = status
    BY <1>4 DEF DriverFails
  <2> QED
    BY <1>1, <1>2, <2>1, <2>2 DEF Clock
<1>5. CASE PersistState \/ PersistTimeline
  <2>1. now' = now /\ held' = held /\ status' = status /\ awaits # "gone"
        /\ awaits' \in {"timeline", "nothing"}
    BY <1>5 DEF PersistState, PersistTimeline, sessionVars
  <2> QED
    BY <1>1, <2>1 DEF Clock
<1>6. CASE Concludes
  <2>1. now' = now /\ held = "lease" /\ status' = status /\ awaits' = awaits
    BY <1>6 DEF Concludes, sessionVars
  <2> QED
    BY <1>1, <2>1 DEF Clock
<1>7. CASE Crash
  <2>1. now' = now + 1 /\ awaits # "gone" /\ awaits' = "gone"
    BY <1>7 DEF Crash, Returns
  <2> QED
    BY <1>1, <2>1 DEF Clock
<1>8. CASE WatchdogCleans
  <2>1. now' = now + 1 /\ held = "lease" /\ held' # "lease" /\ awaits' = "gone"
    BY <1>8 DEF WatchdogCleans, CleanedFromOutside, Returns
  <2> QED
    BY <1>1, <2>1 DEF Clock
<1>9. CASE OperatorCleans \/ TimePasses
  <2>1. now < Horizon /\ now' = now + 1 /\ awaits' = awaits
        /\ status' = status
    BY <1>9 DEF OperatorCleans, CleanedFromOutside, TimePasses, Returns, sessionVars
  <2>2. awaits = "gone" \/ (awaits = "nothing" /\ status \in Ended)
    BY <1>9 DEF SessionInv, Positions, OperatorCleans, TimePasses
  <2> QED
    BY <1>1, <2>1, <2>2 DEF Clock, Ended
<1>10. CASE HandlerFails
  <2>1. /\ awaits # "gone" /\ awaits' = "gone"
        /\ now' = now \/ (now' = now + 1 /\ awaits = "cleanup")
    BY <1>10, HandlerFailsFacts
  <2> QED
    BY <1>1, <2>1 DEF Clock
<1> QED
  BY <1>3, <1>4, <1>5, <1>6, <1>7, <1>8, <1>9, <1>10 DEF Moves, Driver, Others

-----------------------------------------------------------------------------
\* A session that has not begun has nothing on record and nothing to record.
LEMMA RecordInit == Init => RecordInv
<1> SUFFICES ASSUME Init PROVE RecordInv
  OBVIOUS
<1>1. DOMAIN Docs = {"timeline"} /\ Docs["timeline"] = <<>> /\ disk.cleanup = Open
      /\ disk = [documents |-> Docs, cleanup |-> disk.cleanup]
  BY DEF Init, Docs
<1>2. ~Named
  BY <1>1 DEF Named
<1>3. Documents
  BY <1>1 DEF Documents
<1>4. Settled /\ Opened /\ InMemory
  BY <1>2 DEF Init, Settled, Opened, InMemory
<1>5. Written
  BY <1>1, <1>2 DEF Written
<1>6. Clock
  BY RuntimeAssumption DEF Init, Clock
<1> QED
  BY <1>3, <1>4, <1>5, <1>6 DEF RecordInv

\* Every step of the driver, the watchdog and the operator keeps the record.
LEMMA RecordStep ==
    ASSUME SessionInv, RecordInv, [Next]_runtimeVars
    PROVE  RecordInv'
<1>1. CASE Moves
  BY <1>1, DocumentsStep, SettledStep, OpenedStep, InMemoryStep, WrittenStep, ClockStep
     DEF RecordInv
<1>2. CASE UNCHANGED runtimeVars \/ (HeartbeatsEnd /\ Touches)
  <2>1. /\ UNCHANGED <<status, phase, changes, cleanup, awaits, live, now, held, disk, touched>>
    BY <1>2 DEF runtimeVars, HeartbeatsEnd, Touches, sessionVars, outside
  <2>2. Docs' = Docs /\ Last' = Last
    BY <2>1 DEF Docs, Last
  <2>3. (Named' <=> Named) /\ (OpenOnDisk' <=> OpenOnDisk) /\ (HalfDone' <=> HalfDone)
        /\ (GivenUp' <=> GivenUp) /\ (Excepted' <=> Excepted)
    BY <2>1, <2>2 DEF Named, OpenOnDisk, HalfDone, GivenUp, Excepted
  <2>4. ASSUME NEW t PROVE (OnDisk(t)' <=> OnDisk(t)) /\ (AccountedFor(t)' <=> AccountedFor(t))
    BY <2>1, <2>2, <2>3 DEF OnDisk, AccountedFor, Covers
  <2>5. Documents' /\ Clock'
    BY <2>1, <2>2 DEF RecordInv, Documents, Clock
  <2>6. Settled' /\ Opened'
    BY <2>1, <2>2, <2>3 DEF RecordInv, Settled, Opened
  <2>7. InMemory' /\ Written'
    BY <2>1, <2>2, <2>3, <2>4 DEF RecordInv, InMemory, Written
  <2> QED
    BY <2>5, <2>6, <2>7 DEF RecordInv
<1> QED
  BY <1>1, <1>2, NextIsMove

\* The session's levels, and what is written of them, account for its effects in
\* every state: begin, tick, persist_session, _close_latest_effect and the cleanups
\* of the watchdog and the operator together.
THEOREM RecordSafety == Spec => [](SessionInv /\ RecordInv)
<1>1. Init => SessionInv /\ RecordInv
  BY SessionInit, RecordInit
<1>2. SessionInv /\ RecordInv /\ [Next]_runtimeVars => (SessionInv /\ RecordInv)'
  BY SessionStep, RecordStep
<1> QED
  BY <1>1, <1>2, PTL DEF Spec

-----------------------------------------------------------------------------
\* A time that a document covers is in one of the intervals that are read of it.
LEMMA CoveredIsRead ==
    ASSUME SessionInv, RecordInv, Named, ~Excepted, NEW t \in touched
    PROVE  Overlaps(disk, t, t)
<1>1. /\ t \in Nat /\ now \in Nat /\ t <= now /\ t <= Forever
      /\ touched \subseteq 0..now
  BY RuntimeAssumption, WindowAssumption DEF SessionInv, SessionTypes, RecordInv, Clock
<1>2. PICK d \in DOMAIN Docs : Covers(Docs[d], t)
  BY DEF RecordInv, Written, OnDisk
<1>3. PICK i \in DOMAIN Docs[d] :
         Docs[d][i].applied <= t /\ (Docs[d][i].ended = Open \/ t <= Docs[d][i].ended)
  BY <1>2 DEF Covers
<1> DEFINE c == Docs[d][i]
           interval == [from |-> c.applied, to |-> EndOf(c, disk.cleanup)]
<1>4. c \in SE!ToSet(disk.documents[d]) /\ d \in DOMAIN disk.documents
  BY <1>2, <1>3 DEF SE!ToSet, Docs
<1>5. interval \in RunIntervals(disk)
  BY <1>4 DEF RunIntervals
<1>6. t <= EndOf(c, disk.cleanup)
  <2>1. disk.cleanup # Open => t <= disk.cleanup
    BY DEF RecordInv, Written
  <2> QED
    BY <1>1, <1>3, <2>1 DEF EndOf
<1>7. Intersects(interval, t, t)
  BY <1>3, <1>6 DEF Intersects
<1> QED
  BY <1>5, <1>7 DEF Overlaps

\* EffectsStayOnRecord: when the testbed has been given back and the run's
\* directory names a level, the clean-window check (_run_intervals, _intersects)
\* finds every time at which the run had an effect, through failed calls, crashes
\* and the cleanups of others.  Two cases are exempt, and not covered: a directory
\* that names no level yet, and a later level that failed half way and whose
\* cleanup failed as well.
THEOREM RecordedEffects == Spec => []EffectsStayOnRecord
<1>1. ASSUME SessionInv, RecordInv PROVE EffectsStayOnRecord
  BY <1>1, CoveredIsRead DEF EffectsStayOnRecord, Named, Docs, Excepted
<1> QED
  BY <1>1, RecordSafety, PTL
=============================================================================
