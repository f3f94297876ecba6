-------------------------- MODULE RunOwnershipProofs --------------------------
(***************************************************************************)
(* Who owns what is injected, for any runs, scenarios and both appliers.   *)
(*                                                                         *)
(* OwnershipInv relates a task's position to its effect, its records and   *)
(* the coordinator's document, whatever lapses and crashes.  On top of it: *)
(* while no lease has lapsed that is being heartbeaten (lapses = 0), a     *)
(* task has its lease to the end, so its calls are never refused; and      *)
(* until the process has died (crashes = 0), every claim has the one who   *)
(* made it.  Without these conditions neither holds: the violations that   *)
(* RunLifecycleForgotten, RunLifecycleHung and RunLifecycleStranded show.  *)
(*                                                                         *)
(* A failure of the driver itself (failures > 0) leaves two things behind  *)
(* that the statements name: the injection of a run that its handler has   *)
(* misjudged, and a task whose exception has left _execute.                *)
(***************************************************************************)
EXTENDS RunLifecycleProofs

-----------------------------------------------------------------------------
\* The kinds of task that hold a lease, and those that drive a session.
Leased == {"adaptive", "cycle", "script", "cleanup"}
Session == {"adaptive", "cycle"}

\* Which steps a kind of task takes.
Kinds ==
    /\ task # NoTask => task.kind # "none"
    /\ task.pc \in {"probe", "apply", "sleep", "tick", "switch", "clean", "failclean", "capture"}
         => task.kind \in Session
    /\ task.pc = "script" => task.kind \in {"script", "cleanup", "manual"}
    /\ task.pc \in {"fclean", "unclaim"} => task.kind = "script"
    /\ task.pc \in {"external", "extclear"} => task.kind = "external"
    /\ task.kind \in Leased => task.target = task.run
    /\ task.pc = "started" => task.beat = "off" /\ task.outcome = "none"
    /\ task.pc = "lost" => task.kind # "external" /\ failures > 0

\* A cleanup of a DIRTY run, and of one that has failed, has its claim until it ends.
Claimed ==
    /\ task.kind \in {"manual", "external"}
         => /\ dirty_run = Fenced(task.target, task.token)
            /\ cleanup_claim = ClaimBy(task.target, task.token, task.run)
    /\ task.pc \in {"fclean", "unclaim"}
         => cleanup_claim = ClaimBy(task.target, task.token, task.run)
    /\ task.pc = "unclaim" => dirty_run = Fenced(task.target, task.token)

\* When the effect of a run may still be there, by where its task stands.
Applied ==
    /\ task.kind \in Session =>
        /\ task.pc \in {"join", "conclude", "capture"} =>
              session.status \in {"blocked", "clean", "dirty"}
        /\ task.pc \in {"apply", "switch"} => session.status = "active"
        /\ task.run \in effect =>
              /\ task.pc \notin {"started", "probe"}
              /\ task.pc \in {"join", "conclude"} => session.status = "dirty" \/ Misjudged(task.run)
              /\ task.pc = "capture" => Misjudged(task.run)
              /\ task.pc \in {"sleep", "tick"} => session.status = "active"
              /\ task.pc \in {"switch", "clean", "failclean"} => task.outcome # "ok"
    /\ task.kind \notin Session =>
        /\ task.pc \in {"join", "conclude"} => task.outcome # "none"
        /\ task.outcome = "ok" => task.target \notin effect

\* A run id that was not handed out has left nothing anywhere.
Used ==
    /\ unused \cap (effect \cup captures) = {}
    /\ task.run \notin unused /\ Target.run \notin unused
    /\ \A r \in unused : record[r].status # "dirty"

\* A session that ended CLEAN is on disk.
Saved ==
    task.kind \in Session /\ task.pc \in {"join", "conclude", "capture"} /\ session.status = "clean"
        => record[task.run].status = "clean"

\* A run that was captured, or is about to be, is not the one the coordinator holds.
Captured ==
    /\ task.pc = "capture" => Target.run # task.run
    /\ task.run \notin captures
    /\ \A r \in captures : record[r].status = "clean" /\ r \notin effect /\ Target.run # r

OwnershipInv == RunInv /\ Kinds /\ Claimed /\ Applied /\ Used /\ Saved /\ Captured

-----------------------------------------------------------------------------
\* What a step of a task never changes of it.
Same == /\ task'.kind = task.kind /\ task'.run = task.run
        /\ task'.target = task.target /\ task'.token = task.token

\* What the moves of a task change of it.
LEMMA GotoFacts ==
    ASSUME RunInv, NEW pc, Goto(pc)
    PROVE  Same /\ task'.pc = pc /\ task'.beat = task.beat /\ task'.outcome = "none"
  BY TypesSplit DEF RunInv, ProcessTypes, Tasks, Goto, Same

\* What a call that returns changes of its task.
LEMMA YieldsFacts ==
    ASSUME RunInv, NEW outcome, Yields(outcome)
    PROVE  Same /\ task'.pc = task.pc /\ task'.beat = task.beat /\ task'.outcome = outcome
  BY TypesSplit DEF RunInv, ProcessTypes, Tasks, Yields, Same

\* What there is of a task when there is none.
LEMMA NoTaskFacts ==
    /\ NoTask.pc = "none" /\ NoTask.kind = "none" /\ NoTask.run = NoRun
    /\ NoTask.target = NoRun /\ NoTask.beat = "off" /\ NoTask.outcome = "none"
  BY DEF NoTask

\* What writing a session down changes.
LEMMA PersistFacts ==
    ASSUME RunInv, NEW r \in Runs, NEW s, Persist(r, s)
    PROVE  /\ session' = s /\ captures' = captures
           /\ record'[r].status = s.status
           /\ \A x \in Runs \ {r} : record'[x] = record[x]
  <1> DEFINE marked == [record EXCEPT ![r].status = s.status]
  <1>1. \A x \in Runs : record[x] \in [status : {"none", "unknown", "capsule", "pending", "blocked",
                                      "active", "recovering", "clean", "dirty"},
                            effect : {"none", "open", "ended"}, token : Nat]
        /\ DOMAIN record = Runs
    BY TypesSplit DEF RunInv, ProcessTypes
  <1>2. /\ DOMAIN marked = Runs
        /\ marked[r] = [record[r] EXCEPT !.status = s.status]
        /\ \A x \in Runs \ {r} : marked[x] = record[x]
    BY <1>1
  <1>3. record' = [marked EXCEPT ![r].effect = s.effect]
    BY <1>1 DEF Persist
  <1>4. marked[r].status = s.status /\ DOMAIN marked[r] = {"status", "effect", "token"}
    BY <1>1, <1>2
  <1> HIDE DEF marked
  <1>5. /\ record'[r] = [marked[r] EXCEPT !.effect = s.effect]
        /\ \A x \in Runs \ {r} : record'[x] = marked[x]
    BY <1>2, <1>3
  <1>6. record'[r].status = s.status
    BY <1>4, <1>5
  <1> QED
    BY <1>2, <1>5, <1>6 DEF Persist

-----------------------------------------------------------------------------
\* The steps of _execute_adaptive, and the places between them.
SessionSteps ==
    \/ ProbeBlocks \/ ProbePasses \/ ApplyReturns \/ LevelApplied \/ LevelFails
    \/ TickHeartbeats \/ TickRefused \/ TickWaits \/ TickEscalates
    \/ TickDecides \/ TickRecovers \/ CleanupReturns \/ LevelEnded
    \/ TerminalCleaned \/ TerminalCleanupFailed \/ FailedRunCleaned
    \/ DriverFails \/ HandlerFails

\* The session's steps change nothing outside the session, its run and its effect.
LEMMA SessionFrame ==
    ASSUME RunInv, Kinds, SessionSteps
    PROVE  /\ task.kind \in Session /\ task.run \in Runs /\ task # NoTask
           /\ task.pc \in SessionPcs /\ task'.pc \in SessionPcs \cup {"join", "lost"}
           /\ task'.pc = "lost" => failures' > 0
           /\ failures' >= failures /\ (failures > 0 => failures' > 0)
           /\ Same /\ task'.beat = task.beat
           /\ UNCHANGED <<next_fencing_token, active_lease, dirty_run, cleanup_claim>>
           /\ UNCHANGED <<current, watchdog, unused, captures, crashes, lapses>>
           /\ effect' \subseteq effect \cup {task.run}
           /\ \A x \in Runs \ {task.run} : record'[x] = record[x]
  <1> DEFINE Fails == DriverFails \/ HandlerFails
  <1>0. ASSUME Fails
        PROVE  /\ task.pc \in SessionPcs
               /\ \E pc \in {"failclean", "join", "lost"} : Goto(pc)
               /\ (\E s : Persist(task.run, s)) \/ UNCHANGED diskVars
               /\ UNCHANGED <<coordVars, current, watchdog, effect, unused, crashes, lapses>>
               /\ failures' > 0
    BY <1>0, FailureFacts
  <1>1. task.pc \in SessionPcs
    BY <1>0 DEF SessionSteps, SessionPcs, ProbeBlocks, ProbePasses, ApplyReturns, LevelApplied, LevelFails,
       TickHeartbeats, TickRefused, TickWaits, TickEscalates, TickDecides, TickRecovers,
       CleanupReturns, LevelEnded, TerminalCleaned, TerminalCleanupFailed,
       FailedRunCleaned, OnLoop, InThread, Returned, At
  <1>2. task.kind \in Session /\ task.run \in Runs /\ task # NoTask
    BY <1>1 DEF Kinds, SessionPcs, Session, RunInv, TaskHandles, NoTask
  <1>3. UNCHANGED <<next_fencing_token, active_lease, dirty_run, cleanup_claim>>
    BY <1>0 DEF SessionSteps, ProbeBlocks, ProbePasses, ApplyReturns, LevelApplied, LevelFails,
       TickHeartbeats, TickRefused, TickWaits, TickEscalates, TickDecides, TickRecovers,
       CleanupReturns, LevelEnded, TerminalCleaned, TerminalCleanupFailed,
       FailedRunCleaned, Heartbeat, coordVars
  <1>4. UNCHANGED <<current, watchdog, unused, crashes, lapses>>
    BY <1>0 DEF SessionSteps, ProbeBlocks, ProbePasses, ApplyReturns, LevelApplied, LevelFails,
       TickHeartbeats, TickRefused, TickWaits, TickEscalates, TickDecides, TickRecovers,
       CleanupReturns, LevelEnded, TerminalCleaned, TerminalCleanupFailed, FailedRunCleaned,
       boundVars
  <1>5. effect' \subseteq effect \cup {task.run}
    BY <1>0 DEF SessionSteps, ProbeBlocks, ProbePasses, ApplyReturns, LevelApplied, LevelFails,
       TickHeartbeats, TickRefused, TickWaits, TickEscalates, TickDecides, TickRecovers,
       CleanupReturns, LevelEnded, TerminalCleaned, TerminalCleanupFailed, FailedRunCleaned,
       AfterCleanup
  <1>6. \/ \E pc \in SessionPcs \cup {"join", "lost"} : Goto(pc)
        \/ \E outcome \in {"ok", "failed"} : Yields(outcome)
    BY <1>0 DEF SessionSteps, SessionPcs, ProbeBlocks, ProbePasses, ApplyReturns, LevelApplied, LevelFails,
       TickHeartbeats, TickRefused, TickWaits, TickEscalates, TickDecides, TickRecovers,
       CleanupReturns, LevelEnded, TerminalCleaned, TerminalCleanupFailed, FailedRunCleaned
  <1>7. task'.pc \in SessionPcs \cup {"join", "lost"} /\ Same /\ task'.beat = task.beat
    BY <1>1, <1>6, GotoFacts, YieldsFacts
  <1>8. (\E s : Persist(task.run, s)) \/ UNCHANGED diskVars
    BY <1>0 DEF SessionSteps, ProbeBlocks, ProbePasses, ApplyReturns, LevelApplied, LevelFails,
       TickHeartbeats, TickRefused, TickWaits, TickEscalates, TickDecides, TickRecovers,
       CleanupReturns, LevelEnded, TerminalCleaned, TerminalCleanupFailed, FailedRunCleaned
  <1>9. captures' = captures /\ \A x \in Runs \ {task.run} : record'[x] = record[x]
    BY <1>2, <1>8, PersistFacts DEF diskVars
  <1>10. failures' >= failures /\ (failures > 0 => failures' > 0)
    <2>1. failures' = failures \/ failures' = failures + 1
      BY DEF SessionSteps, ProbeBlocks, ProbePasses, ApplyReturns, LevelApplied, LevelFails,
       TickHeartbeats, TickRefused, TickWaits, TickEscalates, TickDecides, TickRecovers,
       CleanupReturns, LevelEnded, TerminalCleaned, TerminalCleanupFailed, FailedRunCleaned,
       DriverFails, HandlerFails, boundVars
    <2>2. failures \in Nat
      BY TypesSplit, LifecycleAssumption DEF RunInv, ProcessTypes
    <2> QED
      BY <2>1, <2>2
  <1>11. task'.pc = "lost" => failures' > 0
    <2>1. CASE Fails
      BY <1>0, <2>1
    <2>2. CASE ~Fails
      <3>1. \/ \E pc \in SessionPcs \cup {"join"} : Goto(pc)
            \/ \E outcome \in {"ok", "failed"} : Yields(outcome)
        BY <2>2 DEF SessionSteps, SessionPcs, ProbeBlocks, ProbePasses, ApplyReturns, LevelApplied,
       LevelFails, TickHeartbeats, TickRefused, TickWaits, TickEscalates, TickDecides, TickRecovers,
       CleanupReturns, LevelEnded, TerminalCleaned, TerminalCleanupFailed, FailedRunCleaned
      <3>2. task'.pc \in SessionPcs \cup {"join"}
        BY <1>1, <3>1, GotoFacts, YieldsFacts
      <3> QED
        BY <3>2 DEF SessionPcs
    <2> QED
      BY <2>1, <2>2
  <1> QED
    BY <1>1, <1>2, <1>3, <1>4, <1>5, <1>7, <1>9, <1>10, <1>11

\* The driver is not interrupted with a CLEAN session while its run is injected.
LEMMA InterruptedIsNotClean ==
    ASSUME RunInv, Applied, task.kind \in Session, task.run \in effect, NEW s \in Interrupted
    PROVE  s.status # "clean"
  <1>s. \A st : [session EXCEPT !.status = st].status = st
    BY TypesSplit DEF RunInv, ProcessTypes
  <1>e. \A e : [session EXCEPT !.effect = e].status = session.status
    BY TypesSplit DEF RunInv, ProcessTypes
  <1>1. CASE OnLoop("sleep")
    BY <1>1 DEF Interrupted, OnLoop, At, Returned, Applied
  <1>2. CASE OnLoop("tick")
    <2>1. task.pc = "tick" /\ session.status = "active"
      BY <1>2 DEF OnLoop, At, Applied
    <2>2. s \in {[session EXCEPT !.status = status] : status \in {"active"}}
      BY <1>2, <2>1 DEF Interrupted, OnLoop, At, Returned
    <2> QED
      BY <1>s, <2>2
  <1>3. CASE Returned("apply", "ok")
    <2>1. task.pc = "apply" /\ session.status = "active"
      BY <1>3 DEF OnLoop, At, Returned, Applied
    <2>2. s = [session EXCEPT !.effect = "open"]
      BY <1>3, <2>1 DEF Interrupted, OnLoop, At, Returned
    <2> QED
      BY <1>e, <2>1, <2>2
  <1>4. CASE Returned("clean", "ok")
    BY <1>4 DEF OnLoop, At, Returned, Applied
  <1>5. CASE Returned("clean", "failed")
    BY <1>5, <1>s DEF Interrupted, OnLoop, At, Returned
  <1> QED
    BY <1>1, <1>2, <1>3, <1>4, <1>5 DEF Interrupted

\* Where the session goes, and what may still be injected there.
LEMMA SessionGoes ==
    ASSUME RunInv, Kinds, Applied, SessionSteps
    PROVE  /\ task'.pc = "join" =>
                /\ session'.status \in {"blocked", "clean", "dirty"}
                /\ session'.status = "clean" => record'[task.run].status = "clean"
           /\ task'.pc \in {"apply", "switch"} => session'.status = "active"
           /\ task.run \in effect' =>
                /\ task'.pc # "probe"
                /\ task'.pc = "join" => session'.status = "dirty" \/ Misjudged(task.run)'
                /\ task'.pc \in {"sleep", "tick"} => session'.status = "active"
                /\ task'.pc \in {"switch", "clean", "failclean"} => task'.outcome # "ok"
  <1> DEFINE Goal ==
           /\ task'.pc = "join" =>
                /\ session'.status \in {"blocked", "clean", "dirty"}
                /\ session'.status = "clean" => record'[task.run].status = "clean"
           /\ task'.pc \in {"apply", "switch"} => session'.status = "active"
           /\ task.run \in effect' =>
                /\ task'.pc # "probe"
                /\ task'.pc = "join" => session'.status = "dirty" \/ Misjudged(task.run)'
                /\ task'.pc \in {"sleep", "tick"} => session'.status = "active"
                /\ task'.pc \in {"switch", "clean", "failclean"} => task'.outcome # "ok"
  <1>0. task.kind \in Session /\ task.run \in Runs
    BY SessionFrame
  <1>s. \A st : [session EXCEPT !.status = st].status = st
    BY TypesSplit DEF RunInv, ProcessTypes
  <1>e. \A e : [session EXCEPT !.effect = e].status = session.status
    BY TypesSplit DEF RunInv, ProcessTypes
  <1>g. \A g : [session EXCEPT !.goal = g].status = session.status
    BY TypesSplit DEF RunInv, ProcessTypes
  <1>b. \A st, e : [session EXCEPT !.status = st, !.effect = e].status = st
    BY TypesSplit DEF RunInv, ProcessTypes
  <1>p. ASSUME NEW s, Persist(task.run, s)
        PROVE  session'.status = s.status /\ record'[task.run].status = s.status
    BY <1>0, <1>p, PersistFacts
  <1>1. CASE ProbeBlocks \/ ProbePasses
    <2>1. task.run \notin effect'
      BY <1>0, <1>1 DEF Applied, ProbeBlocks, ProbePasses, OnLoop, At
    <2>2. CASE ProbeBlocks
      <3>1. session'.status = "blocked"
        BY <1>p, <1>s, <2>2 DEF ProbeBlocks
      <3>2. task'.pc = "join"
        BY <2>2, GotoFacts DEF ProbeBlocks
      <3> QED
        BY <2>1, <3>1, <3>2
    <2>3. CASE ProbePasses
      <3>1. session'.status = "active" /\ task'.pc = "apply"
        BY <1>s, <2>3, GotoFacts DEF ProbePasses
      <3> QED
        BY <2>1, <3>1
    <2> QED
      BY <1>1, <2>2, <2>3
  <1>2. CASE ApplyReturns
    <2>1. session'.status = "active" /\ task'.pc = "apply"
      BY <1>0, <1>2, YieldsFacts DEF ApplyReturns, InThread, At, Applied
    <2> QED
      BY <2>1
  <1>3. CASE LevelApplied
    <2>1. session.status = "active"
      BY <1>0, <1>3 DEF LevelApplied, Applied, Returned, OnLoop, At
    <2>2. session'.status = "active" /\ task'.pc = "sleep"
      BY <1>3, <1>e, <1>p, <2>1, GotoFacts DEF LevelApplied
    <2> QED
      BY <2>2
  <1>4. CASE LevelFails
    BY <1>4, GotoFacts DEF LevelFails
  <1>5. CASE TickHeartbeats \/ TickEscalates \/ TickDecides
    BY <1>0, <1>5, <1>g, GotoFacts DEF TickHeartbeats, TickEscalates, TickDecides, Applied, At, OnLoop
  <1>6. CASE TickRefused
    <2>1. CASE session.status = "active"
      BY <1>6, <2>1, GotoFacts DEF TickRefused
    <2>2. CASE session.status # "active"
      <3>1. task'.pc = "join" /\ session'.status = "dirty"
        BY <1>6, <1>p, <1>s, <2>2, GotoFacts DEF TickRefused
      <3> QED
        BY <3>1
    <2> QED
      BY <2>1, <2>2
  <1>7. CASE TickWaits
    BY <1>0, <1>7, PersistFacts, GotoFacts DEF TickWaits, Applied, At, OnLoop
  <1>8. CASE TickRecovers
    <2>1. PICK status \in {"clean", "dirty"} : Persist(task.run, [session EXCEPT !.status = status])
      BY <1>8 DEF TickRecovers
    <2>2. session'.status = status /\ record'[task.run].status = status
      BY <1>p, <1>s, <2>1
    <2>3. task'.pc = "join"
      BY <1>8, GotoFacts DEF TickRecovers
    <2>4. task.run \notin effect'
      BY <1>0, <1>8 DEF TickRecovers, Applied, At, OnLoop
    <2> QED
      BY <2>2, <2>3, <2>4
  <1>9. CASE CleanupReturns
    <2>1. PICK outcome \in {"ok", "failed"} : Yields(outcome) /\ effect' \in AfterCleanup(task.run, outcome)
      BY <1>9 DEF CleanupReturns
    <2>2. outcome = "ok" => task.run \notin effect'
      BY <2>1 DEF AfterCleanup
    <2>3. /\ task'.pc = task.pc /\ task'.outcome = outcome /\ session' = session
          /\ task.pc \in {"switch", "clean", "failclean"}
      BY <1>9, <2>1, YieldsFacts DEF CleanupReturns, InThread, At
    <2>4. task.pc = "switch" => session.status = "active"
      BY <1>0 DEF Applied
    <2> QED
      BY <2>2, <2>3, <2>4
  <1>10. CASE LevelEnded
    <2>1. session'.status = "active" /\ task'.pc = "apply"
      BY <1>0, <1>10, <1>e, GotoFacts DEF LevelEnded, Applied, Returned, OnLoop, At
    <2> QED
      BY <2>1
  <1>11. CASE TerminalCleaned
    <2>1. task.run \notin effect'
      BY <1>0, <1>11 DEF TerminalCleaned, Applied, Returned, OnLoop, At
    <2>2. CASE session.effect = "none"
      BY <1>0, <1>11, <1>s, <2>1, <2>2, PersistFacts, GotoFacts DEF TerminalCleaned
    <2>3. CASE session.effect # "none"
      <3>1. PICK status \in {"clean", "recovering"} :
              /\ Goto(IF status = "clean" THEN "join" ELSE "sleep")
              /\ Persist(task.run, [session EXCEPT !.status = status, !.effect = "ended"])
        BY <1>11, <2>3 DEF TerminalCleaned
      <3>2. session'.status = status /\ record'[task.run].status = status
        BY <1>b, <1>p, <3>1
      <3>3. task'.pc = IF status = "clean" THEN "join" ELSE "sleep"
        BY <3>1, GotoFacts
      <3> QED
        BY <2>1, <3>2, <3>3
    <2> QED
      BY <2>2, <2>3
  <1>12. CASE TerminalCleanupFailed
    BY <1>0, <1>12, <1>s, PersistFacts, GotoFacts DEF TerminalCleanupFailed
  <1>13. CASE FailedRunCleaned
    <2>1. task.run \notin effect'
      BY <1>0, <1>13 DEF FailedRunCleaned, Applied, Returned, OnLoop, At
    <2>2. PICK status \in {"clean", "dirty"} :
            Persist(task.run, [session EXCEPT !.status = status, !.effect = "ended"])
      BY <1>13 DEF FailedRunCleaned
    <2>3. session'.status = status /\ record'[task.run].status = status
      BY <1>b, <1>p, <2>2
    <2>4. task'.pc = "join"
      BY <1>13, GotoFacts DEF FailedRunCleaned
    <2> QED
      BY <2>1, <2>3, <2>4
  <1>14. CASE HandlerFails
    <2>1. task'.pc = "lost"
      BY <1>14, GotoFacts DEF HandlerFails
    <2> QED
      BY <2>1
  <1>15. CASE DriverFails
    <2>1. PICK s \in Interrupted :
            Goto("failclean") \/ (Goto("join") /\ Persist(task.run, Handled(s)))
      BY <1>15 DEF DriverFails
    <2>2. effect' = effect /\ failures' > 0
      BY <1>15, FailureFacts
    <2>3. CASE Goto("failclean")
      BY <2>3, GotoFacts
    <2>4. CASE Goto("join") /\ Persist(task.run, Handled(s))
      <3>1. s \in SessionTypes
        BY TypesSplit, RaisedSessions, HandlerSeesAll DEF RunInv, ProcessTypes, SessionTypes
      <3>2. /\ Handled(s).status \in {"blocked", "clean", "dirty"}
            /\ Handled(s).status = "clean" => s.status = "clean"
        BY <3>1 DEF Handled, SessionTypes
      <3>3. task'.pc = "join" /\ session'.status = Handled(s).status
            /\ record'[task.run].status = Handled(s).status
        BY <1>p, <2>4, GotoFacts
      <3>4. task.run \in effect' => Handled(s).status # "clean"
        BY <1>0, <2>1, <2>2, <3>2, InterruptedIsNotClean
      <3>5. Handled(s).status = "blocked" => Misjudged(task.run)'
        BY <2>2, <3>3, SessionFrame DEF Misjudged, Same
      <3> QED
        BY <3>2, <3>3, <3>4, <3>5
    <2> QED
      BY <2>1, <2>3, <2>4
  <1> QED
    BY <1>1, <1>2, <1>3, <1>4, <1>5, <1>6, <1>7, <1>8, <1>9, <1>10, <1>11, <1>12, <1>13, <1>14, <1>15
    DEF SessionSteps

\* The parts of OwnershipInv that RunInv does not have.
Parts == Kinds /\ Claimed /\ Applied /\ Used /\ Saved /\ Captured

\* A session gets on: it goes where its status allows.
LEMMA SessionKeeps ==
    ASSUME OwnershipInv, SessionSteps
    PROVE  Parts'
  <1> /\ RunInv /\ Kinds /\ Claimed /\ Applied /\ Used /\ Saved /\ Captured
    BY DEF OwnershipInv
  <1>1. /\ task.kind \in Session /\ task.run \in Runs
        /\ task.pc \in SessionPcs /\ task'.pc \in SessionPcs \cup {"join", "lost"}
        /\ task'.pc = "lost" => failures' > 0
        /\ Same
        /\ UNCHANGED <<active_lease, dirty_run, cleanup_claim, unused, captures>>
        /\ effect' \subseteq effect \cup {task.run}
        /\ \A x \in Runs \ {task.run} : record'[x] = record[x]
    BY SessionFrame
  <1>2. task' # NoTask
    BY <1>1, NoTaskFacts DEF SessionPcs
  <1>3. Kinds'
    BY <1>1, <1>2 DEF Kinds, Same, SessionPcs, Session
  <1>4. Claimed'
    BY <1>1 DEF Claimed, Same, SessionPcs, Session
  <1>5. Applied'
    <2>1. task'.kind = task.kind /\ task'.run = task.run /\ task'.pc # "capture"
          /\ task'.pc \notin {"started", "conclude"}
      BY <1>1 DEF Same, SessionPcs
    <2> QED
      BY <1>1, <2>1, SessionGoes DEF Applied
  <1>6. Target' = Target
    BY <1>1 DEF Target
  <1>7. Used'
    <2>1. task'.run = task.run
      BY <1>1 DEF Same
    <2>2. ASSUME NEW r \in unused' PROVE record'[r].status # "dirty"
      <3>1. r \in unused /\ r \in Runs /\ r # task.run
        BY <1>1, <2>2, TypesSplit DEF Used, RunInv, ProcessTypes
      <3> QED
        BY <1>1, <3>1 DEF Used
    <2> QED
      BY <1>1, <1>6, <2>1, <2>2 DEF Used
  <1>8. Saved'
    BY <1>1, SessionGoes DEF Saved, Same, SessionPcs
  <1>9. Captured'
    <2>1. task'.run = task.run /\ task'.pc # "capture"
      BY <1>1 DEF Same, SessionPcs
    <2>2. ASSUME NEW r \in captures'
          PROVE  record'[r].status = "clean" /\ r \notin effect' /\ Target'.run # r
      <3>1. r \in captures /\ r \in Runs /\ r # task.run
        BY <1>1, <2>2, TypesSplit DEF Captured, RunInv, ProcessTypes
      <3> QED
        BY <1>1, <1>6, <3>1 DEF Captured
    <2> QED
      BY <1>1, <2>1, <2>2 DEF Captured
  <1> QED
    BY <1>3, <1>4, <1>5, <1>7, <1>8, <1>9 DEF Parts

-----------------------------------------------------------------------------
\* A task that begins: what it needs of the coordinator and of its run id.
LEMMA BeginKeeps ==
    ASSUME OwnershipInv, NEW kind \in {"adaptive", "cycle", "script", "cleanup", "manual", "external"},
           NEW r \in Runs \cup {Operator}, NEW target, NEW token,
           Started(kind, r, target, token),
           kind \in Leased => target = r, kind \in Session => r \notin effect,
           kind \in {"manual", "external"} =>
              dirty_run' = Fenced(target, token) /\ cleanup_claim' = ClaimBy(target, token, r),
           r \notin unused', r \notin captures, unused' \subseteq unused,
           UNCHANGED <<session, effect, captures>>,
           Target'.run = Target.run \/ Target'.run = r,
           \A x \in Runs : x # r => record'[x] = record[x]
    PROVE  Parts'
  <1> /\ RunInv /\ Kinds /\ Claimed /\ Applied /\ Used /\ Saved /\ Captured
    BY DEF OwnershipInv
  <1>1. /\ task'.pc = "started" /\ task'.kind = kind /\ task'.run = r /\ task'.target = target
        /\ task'.token = token /\ task'.beat = "off" /\ task'.outcome = "none"
    BY StartedTask
  <1>2. Kinds'
    BY <1>1 DEF Kinds, Leased
  <1>3. Claimed'
    BY <1>1 DEF Claimed
  <1>4. Applied' /\ Saved'
    BY <1>1 DEF Applied, Saved
  <1>5. Used'
    <2>1. ASSUME NEW x \in unused' PROVE record'[x].status # "dirty"
      BY <2>1, TypesSplit DEF Used, RunInv, ProcessTypes
    <2>2. Target'.run \notin unused'
      BY DEF Used
    <2> QED
      BY <1>1, <2>1, <2>2 DEF Used
  <1>6. Captured'
    <2>1. ASSUME NEW x \in captures'
          PROVE  record'[x].status = "clean" /\ x \notin effect' /\ Target'.run # x
      BY <2>1, TypesSplit DEF Captured, RunInv, ProcessTypes
    <2> QED
      BY <1>1, <2>1 DEF Captured
  <1> QED
    BY <1>2, <1>3, <1>4, <1>5, <1>6 DEF Parts

\* A start, or the first half of one, gives the task what it needs.
LEMMA StartKeeps ==
    ASSUME OwnershipInv, StartStep
    PROVE  Parts'
  <1> /\ RunInv /\ Kinds /\ Claimed /\ Applied /\ Used /\ Saved /\ Captured
    BY DEF OwnershipInv
  <1>0. NoRun \notin Runs /\ Operator \notin Runs /\ unused \subseteq Runs /\ captures \subseteq Runs
        /\ \A x \in Runs : record[x] \in [status : {"none", "unknown", "capsule", "pending", "blocked",
                                      "active", "recovering", "clean", "dirty"},
                            effect : {"none", "open", "ended"}, token : Nat]
        /\ DOMAIN record = Runs
    BY LifecycleAssumption, CoordinatorAssumption, TypesSplit DEF RunInv, ProcessTypes
  <1>1. ASSUME NEW r \in Runs, Acquire(r), CanStart(r)
        PROVE  /\ Target'.run = r /\ r \notin unused' /\ r \notin captures /\ unused' \subseteq unused
    <2>1. r \in unused /\ unused' = unused \ {r}
      BY <1>1 DEF CanStart
    <2>2. active_lease' = Fenced(r, next_fencing_token) /\ active_lease' # NoFenced
      BY <1>0, <1>1 DEF Acquire, Fenced, NoFenced
    <2> QED
      BY <2>1, <2>2 DEF Used, Target, Fenced
  <1>2. ASSUME NEW r \in Runs, StartRun(r) PROVE Parts'
    <2>1. PICK kind \in {"adaptive", "cycle", "script"} : Started(kind, r, r, next_fencing_token)
      BY <1>2 DEF StartRun
    <2>2. \A x \in Runs : x # r => record'[x] = record[x]
      BY <1>0, <1>2 DEF StartRun
    <2>3. UNCHANGED <<session, effect, captures>> /\ Acquire(r) /\ CanStart(r)
          /\ r \notin effect
      BY <1>2 DEF StartRun, CanStart, Used
    <2> QED
      BY <1>1, <2>1, <2>2, <2>3, BeginKeeps DEF Leased
  <1>3. ASSUME NEW r \in Runs, StartCleanup(r) PROVE Parts'
    <2>1. UNCHANGED <<session, effect, captures, record>> /\ CanStart(r)
      BY <1>3 DEF StartCleanup, diskVars
    <2>2. CASE Acquire(r) /\ Started("cleanup", r, r, next_fencing_token)
      BY <1>1, <2>1, <2>2, BeginKeeps DEF Leased, Session
    <2>3. CASE ClaimCleanup(dirty_run.run, dirty_run.token, r) /\ dirty_run # NoFenced
               /\ Started("manual", r, dirty_run.run, dirty_run.token)
      <3>1. /\ cleanup_claim' = ClaimBy(dirty_run.run, dirty_run.token, r)
            /\ UNCHANGED <<active_lease, dirty_run>>
        BY <2>3 DEF ClaimCleanup
      <3>2. dirty_run = Fenced(dirty_run.run, dirty_run.token)
        BY <2>3 DEF RunInv, CoordInv, TypeOK, FencedRuns, Fenced
      <3>3. Target' = Target
        BY <3>1 DEF Target
      <3>4. r \notin unused' /\ r \notin captures /\ unused' \subseteq unused
        BY <2>1 DEF CanStart, Used
      <3> QED
        BY <2>1, <2>3, <3>1, <3>2, <3>3, <3>4, BeginKeeps DEF Leased, Session
    <2> QED
      BY <1>3, <2>2, <2>3 DEF StartCleanup
  <1>4. ASSUME NEW s \in Scenarios, ReadoptOrphan(s) PROVE Parts'
    <2>1. PICK r \in NewestOrphan(s) : ReadoptDirty(r, record[r].token)
      BY <1>4 DEF ReadoptOrphan
    <2>2. r \in Runs /\ record[r].status = "dirty"
      BY <2>1 DEF NewestOrphan, Orphans
    <2>3. dirty_run' = Fenced(r, record[r].token) /\ active_lease' = NoFenced
      BY <2>1 DEF ReadoptDirty, Idle
    <2>4. Target'.run = r /\ r \notin unused /\ r \notin captures
      BY <2>2, <2>3 DEF Target, Fenced, Used, Captured
    <2>5. UNCHANGED <<task, session, effect, record, captures, unused>> /\ task = NoTask
      BY <1>4 DEF ReadoptOrphan, diskVars, boundVars, Busy
    <2>6. Kinds' /\ Claimed' /\ Applied' /\ Saved'
      BY <2>5, NoTaskFacts DEF Kinds, Claimed, Applied, Saved, Session
    <2>7. Used' /\ Captured'
      BY <1>0, <2>4, <2>5, NoTaskFacts DEF Used, Captured
    <2> QED
      BY <2>6, <2>7 DEF Parts
  <1>5. ASSUME NEW s \in Scenarios, StartExternalCleanup(s) PROVE Parts'
    <2>1. /\ ClaimCleanup(dirty_run.run, dirty_run.token, Operator) /\ dirty_run # NoFenced
          /\ Started("external", Operator, dirty_run.run, dirty_run.token)
          /\ UNCHANGED <<session, effect, record, captures, unused>>
      BY <1>5 DEF StartExternalCleanup, diskVars, boundVars
    <2>2. /\ cleanup_claim' = ClaimBy(dirty_run.run, dirty_run.token, Operator)
          /\ UNCHANGED <<active_lease, dirty_run>>
      BY <2>1 DEF ClaimCleanup
    <2>3. dirty_run = Fenced(dirty_run.run, dirty_run.token)
      BY <2>1 DEF RunInv, CoordInv, TypeOK, FencedRuns, Fenced
    <2>4. Target' = Target
      BY <2>2 DEF Target
    <2> QED
      BY <1>0, <2>1, <2>2, <2>3, <2>4, BeginKeeps DEF Leased, Session
  <1> QED
    BY <1>2, <1>3, <1>4, <1>5 DEF StartStep

-----------------------------------------------------------------------------
\* The calls that do not start a run or take one back keep the run the coordinator
\* holds, or let go of it.
LEMMA TargetMoves ==
    ASSUME RunInv, NEW r, NEW t, NEW c,
           \/ Heartbeat(r, t) \/ Release(r, t) \/ MarkDirty(r, t) \/ MarkDirtySuppressed(r, t)
           \/ ClearDirty(r, t) \/ ClaimCleanup(r, t, c) \/ ClaimExpiredCleanup(c)
           \/ FinishCleanupClaim(r, t, c) \/ LeaseLapses \/ UNCHANGED coordVars
    PROVE  Target' = Target \/ Target' = NoFenced
  <1> SingleOwner
    BY DEF RunInv, CoordInv
  <1>1. CASE Release(r, t)
    <2>1. active_lease # NoFenced
      BY <1>1 DEF Release, HoldsLease, Fenced, NoFenced
    <2> QED
      BY <1>1, <2>1 DEF Release, Target, SingleOwner
  <1>2. ASSUME MarkDirty(r, t) PROVE Target' = Target
    <2>1. active_lease # NoFenced
      BY <1>2 DEF MarkDirty, HoldsLease, Fenced, NoFenced
    <2> QED
      BY <1>2, <2>1 DEF MarkDirty, Target
  <1>3. CASE ClearDirty(r, t)
    <2>1. dirty_run # NoFenced
      BY <1>3 DEF ClearDirty, Fenced, NoFenced
    <2> QED
      BY <1>3, <2>1 DEF ClearDirty, Target, SingleOwner
  <1>4. ASSUME \/ Heartbeat(r, t) \/ ClaimCleanup(r, t, c) \/ ClaimExpiredCleanup(c)
               \/ FinishCleanupClaim(r, t, c) \/ LeaseLapses \/ UNCHANGED coordVars
        PROVE  Target' = Target
    BY <1>4 DEF Heartbeat, ClaimCleanup, ClaimExpiredCleanup, FinishCleanupClaim,
       LeaseLapses, coordVars, Target
  <1> QED
    BY <1>1, <1>2, <1>3, <1>4 DEF MarkDirtySuppressed

\* A task that ends leaves nothing to keep.
LEMMA EndKeeps ==
    ASSUME OwnershipInv, task' = NoTask, UNCHANGED <<record, unused>>,
           effect' \subseteq effect, captures' \subseteq captures,
           Target' = Target \/ Target' = NoFenced
    PROVE  Parts'
  <1> /\ RunInv /\ Kinds /\ Claimed /\ Applied /\ Used /\ Saved /\ Captured
    BY DEF OwnershipInv
  <1>1. NoRun \notin Runs /\ unused \subseteq Runs /\ captures \subseteq Runs /\ NoFenced.run = NoRun
    BY CoordinatorAssumption, TypesSplit DEF RunInv, ProcessTypes, NoFenced, Fenced
  <1>2. Kinds' /\ Claimed' /\ Applied' /\ Saved'
    BY NoTaskFacts DEF Kinds, Claimed, Applied, Saved, Session, Leased
  <1>3. Used' /\ Captured'
    BY <1>1, NoTaskFacts DEF Used, Captured
  <1> QED
    BY <1>2, <1>3 DEF Parts

\* A task is launched, or start() fails before it is.
LEMMA LaunchKeeps ==
    ASSUME OwnershipInv, BindLeaseFails \/ StartUnwinds \/ TaskLaunched \/ LogNotOpened
    PROVE  Parts'
  <1> /\ RunInv /\ Kinds /\ Claimed /\ Applied /\ Used /\ Saved /\ Captured
    BY DEF OwnershipInv
  <1>1. CASE BindLeaseFails \/ StartUnwinds
    <2>1. task' = NoTask /\ UNCHANGED <<effect, record, captures, unused>>
      BY <1>1 DEF BindLeaseFails, StartUnwinds, Dies, diskVars, boundVars
    <2>2. Target' = Target \/ Target' = NoFenced
      BY <1>1, TargetMoves DEF BindLeaseFails, StartUnwinds
    <2> QED
      BY <2>1, <2>2, EndKeeps
  <1>2. CASE TaskLaunched \/ LogNotOpened
    <2>0. PICK pc \in {"probe", "script", "external", "lost"} :
            /\ Launched(pc)
            /\ pc = "lost" => failures' > 0 /\ task.kind # "external"
            /\ pc # "lost" => pc = FirstStep /\ failures' = failures
      <3>1. CASE TaskLaunched
        <4>1. FirstStep \in {"probe", "script", "external"}
          BY DEF FirstStep
        <4> QED
          BY <3>1, <4>1 DEF TaskLaunched
      <3>2. CASE LogNotOpened
        <4>1. failures \in Nat
          BY TypesSplit, LifecycleAssumption DEF RunInv, ProcessTypes
        <4> QED
          BY <3>2, <4>1 DEF LogNotOpened
      <3> QED
        BY <1>2, <3>1, <3>2
    <2>1. /\ task.pc = "started" /\ task # NoTask /\ task.outcome = "none"
      BY <2>0, NoTaskFacts DEF Launched, At, Kinds
    <2>2. /\ Same /\ task'.pc = pc /\ task'.outcome = "none"
      BY <2>0, <2>1, TypesSplit DEF Launched, RunInv, ProcessTypes, Tasks, Same
    <2>3. /\ UNCHANGED <<active_lease, dirty_run, cleanup_claim, unused, captures>>
          /\ effect' = effect \/ (task.kind = "script" /\ effect' = effect \cup {task.run})
      BY <1>2, <2>0 DEF TaskLaunched, LogNotOpened, Launched, coordVars
    <2>4. task.kind \in {"adaptive", "cycle", "script", "cleanup", "manual", "external"}
      BY <2>1, TypesSplit DEF Kinds, RunInv, ProcessTypes, Tasks
    <2>5. /\ task.kind \in Session => pc \in {"probe", "lost"}
          /\ task.kind = "external" => pc = "external"
          /\ task.kind \in {"script", "cleanup", "manual"} => pc \in {"script", "lost"}
      BY <2>0 DEF FirstStep, Session
    <2>6. task' # NoTask
      BY <2>2, <2>4, NoTaskFacts DEF Same
    <2>7. task.kind \in Session \/ task.kind = "script" => task.run \in Runs
      BY <2>1 DEF RunInv, TaskHandles, Session
    <2>8. Target' = Target
      BY <2>3 DEF Target
    <2>9. Kinds' /\ Claimed'
      BY <2>0, <2>2, <2>3, <2>4, <2>5 DEF Kinds, Claimed, Same, Session, Leased
    <2>10. Applied'
      <3>1. CASE task.kind \in Session
        <4>1. task.run \notin effect
          BY <2>1, <3>1 DEF Applied
        <4> QED
          BY <2>2, <2>3, <2>5, <3>1, <4>1 DEF Applied, Same, Session
      <3>2. CASE task.kind \notin Session
        BY <2>2, <2>4, <2>5, <3>2 DEF Applied, Same, Session
      <3> QED
        BY <3>1, <3>2
    <2>11. Saved'
      BY <2>2, <2>4, <2>5 DEF Saved, Same, Session
    <2>12. record' = record \/ record' = [record EXCEPT ![task.run].token = task.token]
      BY <2>0 DEF Launched
    <2>13. \A x \in Runs : record'[x].status = record[x].status
      BY <2>12, TypesSplit DEF RunInv, ProcessTypes
    <2>14. Used' /\ Captured'
      <3>1. unused \subseteq Runs /\ captures \subseteq Runs
        BY TypesSplit DEF RunInv, ProcessTypes
      <3>2. task'.pc # "capture" /\ task'.run = task.run
        BY <2>2, <2>4, <2>5 DEF Same, Session
      <3> QED
        BY <2>3, <2>8, <2>13, <3>1, <3>2 DEF Used, Captured
    <2> QED
      BY <2>9, <2>10, <2>11, <2>14 DEF Parts
  <1> QED
    BY <1>1, <1>2

\* A script or an external cleanup moves on.
LEMMA ScriptKeeps ==
    ASSUME OwnershipInv,
           \/ ScriptExits \/ ScriptReturned \/ HeartbeatJoined
           \/ ExternalCleanupReturns \/ ExternalCleanupRecorded
    PROVE  Parts'
  <1> /\ RunInv /\ Kinds /\ Claimed /\ Applied /\ Used /\ Saved /\ Captured
    BY DEF OwnershipInv
  <1>1. /\ UNCHANGED <<active_lease, dirty_run, cleanup_claim, session, record, captures, unused, failures>>
        /\ Target' = Target
    BY DEF ScriptExits, ScriptReturned, HeartbeatJoined, ExternalCleanupReturns,
       ExternalCleanupRecorded, coordVars, diskVars, boundVars, Target
  <1>2. /\ task.pc \in {"script", "fclean", "join", "external"}
        /\ task # NoTask
    BY NoTaskFacts DEF ScriptExits, ScriptReturned, HeartbeatJoined, ExternalCleanupReturns,
       ExternalCleanupRecorded, InThread, OnLoop, At
  <1>3. /\ Same /\ task' # NoTask
        /\ \/ /\ task'.pc = task.pc /\ task.pc # "join" /\ task'.outcome \in {"ok", "failed"}
              /\ effect' \subseteq effect /\ (task'.outcome = "ok" => task.target \notin effect')
           \/ /\ <<task.pc, task'.pc>> \in {<<"script", "join">>, <<"join", "conclude">>,
                                            <<"external", "extclear">>}
              /\ task.pc # "join" => task.outcome # "none"
              /\ task'.outcome = task.outcome /\ effect' = effect
    <2>1. task \in Tasks /\ task.target \in Runs
      BY <1>2, TypesSplit DEF RunInv, ProcessTypes, TaskHandles
    <2>2. CASE ScriptExits
      <3>1. PICK outcome \in {"ok", "failed"} :
               /\ Yields(outcome) /\ effect' \subseteq effect
               /\ outcome = "ok" => effect' = effect \ ScriptCleans
        BY <2>2 DEF ScriptExits
      <3>2. task.target \in ScriptCleans
        BY <1>2, <2>1, <2>2 DEF ScriptCleans, Kinds, Leased
      <3>3. task.pc \in {"script", "fclean"}
        BY <2>2 DEF ScriptExits, InThread, At
      <3> QED
        BY <3>1, <3>2, <3>3, YieldsFacts, NoTaskFacts
    <2>3. CASE ExternalCleanupReturns
      <3>1. PICK outcome \in {"ok", "failed"} :
               Yields(outcome) /\ effect' \in AfterCleanup(task.target, outcome)
        BY <2>3 DEF ExternalCleanupReturns
      <3>2. effect' \subseteq effect /\ (outcome = "ok" => task.target \notin effect')
        BY <3>1 DEF AfterCleanup
      <3>3. task.pc = "external"
        BY <2>3 DEF ExternalCleanupReturns, InThread, At
      <3> QED
        BY <3>1, <3>2, <3>3, YieldsFacts, NoTaskFacts
    <2>4. CASE ScriptReturned
      BY <2>1, <2>4, NoTaskFacts DEF ScriptReturned, OnLoop, At, Tasks, Same
    <2>5. CASE HeartbeatJoined
      BY <2>1, <2>5, NoTaskFacts DEF HeartbeatJoined, OnLoop, At, Tasks, Same
    <2>6. CASE ExternalCleanupRecorded
      BY <2>1, <2>6, NoTaskFacts DEF ExternalCleanupRecorded, OnLoop, At, Tasks, Same
    <2> QED
      BY <2>2, <2>3, <2>4, <2>5, <2>6
  <1>4. effect' \subseteq effect /\ task'.pc \in {"script", "fclean", "join", "conclude", "external", "extclear"}
    BY <1>2, <1>3
  <1>5. Kinds'
    BY <1>2, <1>3 DEF Kinds, Same, Leased
  <1>6. Claimed'
    BY <1>1, <1>3, <1>4 DEF Claimed, Same
  <1>7. Applied'
    <2>1. CASE task.kind \in Session
      <3>1. task.pc = "join" /\ task'.pc = "conclude" /\ effect' = effect
        BY <1>2, <1>3, <2>1 DEF Kinds, Session
      <3> QED
        BY <1>1, <1>3, <2>1, <3>1 DEF Applied, Same, Misjudged
    <2>2. CASE task.kind \notin Session
      <3>1. task'.outcome = "ok" => task.target \notin effect'
        BY <1>3, <2>2 DEF Applied
      <3>2. task'.pc \in {"join", "conclude"} => task'.outcome # "none"
        BY <1>2, <1>3, <2>2 DEF Applied
      <3> QED
        BY <1>3, <2>2, <3>1, <3>2 DEF Applied, Same
    <2> QED
      BY <2>1, <2>2
  <1>8. Saved'
    BY <1>1, <1>2, <1>3, <1>4 DEF Saved, Same, Kinds, Session
  <1>9. Used' /\ Captured'
    BY <1>1, <1>3, <1>4 DEF Used, Captured, Same
  <1> QED
    BY <1>5, <1>6, <1>7, <1>8, <1>9 DEF Parts

\* A run that concludes: it ends, is captured, or is cleaned up first.
LEMMA ConcludeKeeps ==
    ASSUME OwnershipInv,
           \/ ConcludeDirty \/ ConcludeClean \/ ConcludeManual
           \/ FailureCleanupClaims \/ FailureCleanupReturned \/ FailureCleanupUnclaims
           \/ ExternalCleanupEnds
    PROVE  Parts'
  <1> /\ RunInv /\ Kinds /\ Claimed /\ Applied /\ Used /\ Saved /\ Captured
    BY DEF OwnershipInv
  <1>1. UNCHANGED <<session, effect, record, captures, unused, failures>>
    BY DEF ConcludeDirty, ConcludeClean, ConcludeManual, FailureCleanupClaims,
       FailureCleanupReturned, FailureCleanupUnclaims, ExternalCleanupEnds, diskVars, boundVars
  <1>2. Target' = Target \/ Target' = NoFenced
    <2>1. CASE ConcludeDirty \/ ConcludeClean \/ ConcludeManual
      BY <2>1, TargetMoves DEF ConcludeDirty, ConcludeClean, ConcludeManual
    <2>2. CASE FailureCleanupClaims \/ FailureCleanupReturned \/ FailureCleanupUnclaims
               \/ ExternalCleanupEnds
      BY <2>2, TargetMoves DEF FailureCleanupClaims, FailureCleanupReturned, FailureCleanupUnclaims,
         ExternalCleanupEnds
    <2> QED
      BY <2>1, <2>2
  <1>3. CASE task' = NoTask
    BY <1>1, <1>2, <1>3, EndKeeps
  <1>4. CASE task' # NoTask
    <2>1. task.run \in Runs /\ NoFenced.run \notin Runs
      <3>1. task.pc \in {"conclude", "fclean"}
        BY <1>4 DEF ConcludeDirty, ConcludeClean, ConcludeManual, FailureCleanupClaims,
       FailureCleanupReturned, FailureCleanupUnclaims, ExternalCleanupEnds, Ends, Dies,
       Concludes, OnLoop, At
      <3> QED
        BY <3>1, NoTaskFacts, CoordinatorAssumption DEF RunInv, TaskHandles, NoFenced, Fenced
    <2>2. CASE ConcludeClean
      <3>1. /\ task.pc = "conclude" /\ task.kind \in Session /\ session.status # "dirty"
            /\ Release(task.target, task.token) /\ Goto("capture")
        BY <1>4, <2>2 DEF ConcludeClean, Dies, Ends, Concludes, OnLoop, At, MustMarkDirty, Session
      <3>2. Target' = NoFenced
        <4>1. active_lease # NoFenced /\ active_lease' = NoFenced /\ dirty_run' = dirty_run
          BY <3>1 DEF Release, HoldsLease, NoFenced, Fenced
        <4> QED
          BY <4>1 DEF Target, RunInv, CoordInv, SingleOwner
      <3>3. Same /\ task'.pc = "capture"
        BY <3>1, GotoFacts
      <3>4. Kinds' /\ Claimed' /\ Saved'
        BY <1>1, <1>4, <3>1, <3>3 DEF Kinds, Claimed, Saved, Same, Session, Leased
      <3>5. Applied'
        BY <1>1, <3>1, <3>3 DEF Applied, Same, Misjudged
      <3>6. Used' /\ Captured'
        BY <1>1, <2>1, <3>2, <3>3, TypesSplit DEF Used, Captured, Same, RunInv, ProcessTypes
      <3> QED
        BY <3>4, <3>5, <3>6 DEF Parts
    <2>3. CASE FailureCleanupClaims
      <3>1. /\ task.kind = "script" /\ Goto("fclean")
            /\ ClaimCleanup(task.target, task.token, task.run)
        BY <1>4, <2>3 DEF FailureCleanupClaims, Ends, Concludes
      <3>2. cleanup_claim' = ClaimBy(task.target, task.token, task.run)
        BY <3>1 DEF ClaimCleanup
      <3>3. Same /\ task'.pc = "fclean" /\ task'.outcome = "none"
        BY <3>1, GotoFacts
      <3>4. Kinds' /\ Claimed' /\ Saved' /\ Applied'
        BY <1>1, <1>4, <3>1, <3>2, <3>3 DEF Kinds, Claimed, Saved, Applied, Same, Session, Leased
      <3>5. Used' /\ Captured'
        BY <1>1, <1>2, <2>1, <3>3, TypesSplit DEF Used, Captured, Same, RunInv, ProcessTypes
      <3> QED
        BY <3>4, <3>5 DEF Parts
    <2>4. CASE FailureCleanupReturned
      <3>1. /\ task.pc = "fclean" /\ Goto("unclaim")
            /\ MarkDirtySuppressed(task.target, task.token)
        BY <1>4, <2>4 DEF FailureCleanupReturned, Ends, OnLoop, At
      <3>2. task.kind = "script" /\ cleanup_claim = ClaimBy(task.target, task.token, task.run)
        BY <3>1 DEF Kinds, Claimed
      <3>3. Same /\ task'.pc = "unclaim" /\ task'.outcome = "none"
        BY <3>1, GotoFacts
      <3>4. cleanup_claim' = cleanup_claim /\ dirty_run' = Fenced(task.target, task.token)
        <4>1. Target = Fenced(task.target, task.token) /\ task.token # 0
          <5>1. task.target \in Runs /\ task.token \in IssuedTokens
            BY <3>1, TaskHolds
          <5>2. cleanup_claim # NoClaim /\ cleanup_claim.run = task.target
                /\ cleanup_claim.token = task.token
            BY <3>2, <5>1, CoordinatorAssumption DEF NoClaim, ClaimBy
          <5> QED
            BY <5>1, <5>2 DEF RunInv, CoordInv, ClaimNamesTarget, IssuedTokens
        <4>2. CASE HoldsLease(task.target, task.token)
          BY <3>1, <4>2 DEF MarkDirtySuppressed, MarkDirty, HoldsLease
        <4>3. CASE ~HoldsLease(task.target, task.token)
          BY <3>1, <4>1, <4>3 DEF MarkDirtySuppressed, MarkDirty, HoldsLease, Target, coordVars
        <4> QED
          BY <4>2, <4>3
      <3>5. Kinds' /\ Claimed' /\ Saved' /\ Applied'
        BY <1>1, <1>4, <3>2, <3>3, <3>4 DEF Kinds, Claimed, Saved, Applied, Same, Session, Leased
      <3>6. Used' /\ Captured'
        BY <1>1, <1>2, <2>1, <3>3, TypesSplit DEF Used, Captured, Same, RunInv, ProcessTypes
      <3> QED
        BY <3>5, <3>6 DEF Parts
    <2>5. ~ConcludeDirty /\ ~ConcludeManual /\ ~FailureCleanupUnclaims /\ ~ExternalCleanupEnds
      BY <1>4 DEF ConcludeDirty, ConcludeManual, FailureCleanupUnclaims, ExternalCleanupEnds, Ends, Dies
    <2> QED
      BY <2>2, <2>3, <2>4, <2>5
  <1> QED
    BY <1>3, <1>4

\* A capture is scheduled only for a session that is CLEAN, on disk and off the testbed.
LEMMA CaptureKeeps ==
    ASSUME OwnershipInv, Capture
    PROVE  Parts'
  <1> /\ RunInv /\ Kinds /\ Claimed /\ Applied /\ Used /\ Saved /\ Captured
    BY DEF OwnershipInv
  <1>1. /\ task.pc = "capture" /\ task' = NoTask /\ Target' = Target
        /\ UNCHANGED <<session, effect, record, unused>>
        /\ captures' = captures \/ (captures' = captures \cup {task.run} /\ session.status = "clean")
    BY DEF Capture, At, Ends, Target, coordVars, boundVars
  <1>2. CASE captures' = captures
    BY <1>1, <1>2, EndKeeps
  <1>3. CASE captures' = captures \cup {task.run} /\ session.status = "clean"
    <2>1. task.kind \in Session /\ task.run \in Runs /\ NoRun \notin Runs
      BY <1>1, NoTaskFacts, CoordinatorAssumption DEF Kinds, Session, RunInv, TaskHandles
    <2>2. record[task.run].status = "clean" /\ task.run \notin effect /\ Target.run # task.run
          /\ task.run \notin unused
      BY <1>1, <1>3, <2>1 DEF Saved, Applied, Captured, Used, Misjudged
    <2>3. Kinds' /\ Claimed' /\ Applied' /\ Saved'
      BY <1>1, NoTaskFacts DEF Kinds, Claimed, Applied, Saved, Session, Leased
    <2>4. Used' /\ Captured'
      BY <1>1, <1>3, <2>1, <2>2, NoTaskFacts, TypesSplit DEF Used, Captured, RunInv, ProcessTypes
    <2> QED
      BY <2>3, <2>4 DEF Parts
  <1> QED
    BY <1>1, <1>2, <1>3

\* The watchdog and the heartbeats leave the claims of others alone.
LEMMA OthersClaim ==
    ASSUME RunInv, HeartbeatStep \/ WatchdogStep \/ Lapse,
           NEW r \in Runs, NEW t, NEW c, c # Watchdog, cleanup_claim = ClaimBy(r, t, c)
    PROVE  cleanup_claim' = cleanup_claim /\ dirty_run' = dirty_run
  <1>1. cleanup_claim # NoClaim /\ cleanup_claim.claimant # Watchdog
    BY CoordinatorAssumption DEF NoClaim, ClaimBy
  <1>2. CASE HeartbeatStep \/ Lapse
    BY <1>2 DEF HeartbeatStep, HeartbeatReturns, HeartbeatRaises, HeartbeatTaskFails, Heartbeat,
       Lapse, LeaseLapses, coordVars
  <1>3. CASE WatchdogReleases \/ WatchdogMarksDirty
    <2>1. ~HoldsLease(watchdog.run, watchdog.token)
      BY <1>1, <1>3 DEF RunInv, WatchdogHandles, WatchdogReleases, WatchdogMarksDirty, WatchdogAt,
         HoldsLease
    <2> QED
      BY <1>3, <2>1 DEF WatchdogReleases, WatchdogMarksDirty, coordVars
  <1>4. CASE WatchdogClaims \/ WatchdogDecides \/ WatchdogCleans
    BY <1>1, <1>4 DEF WatchdogClaims, WatchdogDecides, WatchdogCleans, ClaimExpiredCleanup, coordVars
  <1>5. CASE WatchdogFinishes
    <2>1. ~MayFinishClaim(watchdog.run, watchdog.token, Watchdog)
      BY <1>1 DEF MayFinishClaim, ClaimBy
    <2> QED
      BY <1>5, <2>1 DEF WatchdogFinishes, coordVars
  <1> QED
    BY <1>2, <1>3, <1>4, <1>5 DEF WatchdogStep

\* The watchdog, the heartbeats and time: nobody's task gets on.
LEMMA OthersKeep ==
    ASSUME OwnershipInv, HeartbeatStep \/ WatchdogStep \/ Lapse
    PROVE  Parts'
  <1> /\ RunInv /\ Kinds /\ Claimed /\ Applied /\ Used /\ Saved /\ Captured
    BY DEF OwnershipInv
  <1>1. UNCHANGED <<session, captures, unused, failures>> /\ effect' \subseteq effect
    BY DEF HeartbeatStep, HeartbeatReturns, HeartbeatRaises, HeartbeatTaskFails, WatchdogStep,
       WatchdogDecides, WatchdogClaims, WatchdogCleans, WatchdogReleases,
       WatchdogMarksDirty, WatchdogFinishes, Lapse, diskVars, boundVars
  <1>2. Same /\ task'.pc = task.pc /\ task'.outcome = task.outcome
        /\ (task' # task => task # NoTask /\ task.beat # "off")
    <2>1. CASE task' = task
      BY <2>1 DEF Same
    <2>2. CASE \E beat \in {"raised", "failed"} : task' = [task EXCEPT !.beat = beat]
      <3>1. task.beat # "off" \/ task' = task
        BY <2>2 DEF HeartbeatStep, HeartbeatReturns, HeartbeatRaises, HeartbeatTaskFails, WatchdogStep,
       WatchdogDecides, WatchdogClaims, WatchdogCleans, WatchdogReleases,
       WatchdogMarksDirty, WatchdogFinishes, Lapse
      <3> QED
        BY <2>2, <3>1, NoTaskFacts, TypesSplit DEF RunInv, ProcessTypes, Tasks, Same
    <2> QED
      BY <2>1, <2>2 DEF HeartbeatStep, HeartbeatReturns, HeartbeatRaises, HeartbeatTaskFails,
       WatchdogStep, WatchdogDecides, WatchdogClaims, WatchdogCleans, WatchdogReleases,
       WatchdogMarksDirty, WatchdogFinishes, Lapse
  <1>3. \A x \in Runs : record'[x].status = record[x].status
                        \/ (record[x].status = "none" /\ record'[x].status = "unknown")
    <2>1. CASE WatchdogFinishes
      BY <2>1, TypesSplit DEF WatchdogFinishes, RunInv, ProcessTypes, WatchdogAt, WatchdogHandles
    <2>2. CASE ~WatchdogFinishes
      BY <2>2 DEF HeartbeatStep, HeartbeatReturns, HeartbeatRaises, HeartbeatTaskFails, WatchdogStep,
       WatchdogDecides, WatchdogClaims, WatchdogCleans, WatchdogReleases,
       WatchdogMarksDirty, Lapse, diskVars
    <2> QED
      BY <2>1, <2>2
  <1>4. Target' = Target \/ Target' = NoFenced
    BY TargetMoves DEF HeartbeatStep, HeartbeatReturns, HeartbeatRaises, HeartbeatTaskFails, WatchdogStep,
       WatchdogDecides, WatchdogClaims, WatchdogCleans, WatchdogReleases,
       WatchdogMarksDirty, WatchdogFinishes, Lapse
  <1>5. Kinds'
    <2>1. task'.pc = "started" => task' = task
      BY <1>2 DEF Kinds
    <2>2. task' # NoTask => task # NoTask
      BY <1>2
    <2> QED
      BY <1>1, <1>2, <2>1, <2>2 DEF Kinds, Same
  <1>6. Claimed'
    <2>1. task.kind \in {"manual", "external"} \/ task.pc \in {"fclean", "unclaim"}
            => task.run # Watchdog /\ task.target \in Runs
      BY NoTaskFacts, LifecycleAssumption DEF RunInv, TaskHandles
    <2>2. task.kind \in {"manual", "external"} \/ task.pc \in {"fclean", "unclaim"}
            => cleanup_claim' = cleanup_claim /\ dirty_run' = dirty_run
      BY <2>1, OthersClaim DEF Claimed
    <2> QED
      BY <1>2, <2>2 DEF Claimed, Same
  <1>7. Applied'
    <2>1. task.kind \in Session /\ task.pc \in {"join", "conclude", "capture"} => task.run \in Runs
      BY NoTaskFacts DEF RunInv, TaskHandles, Session
    <2>2. task.kind \in Session /\ task.pc \in {"join", "conclude", "capture"} /\ Misjudged(task.run)
            => Misjudged(task.run)'
      BY <1>1, <1>2, <1>3, <2>1 DEF Misjudged, Same
    <2> QED
      BY <1>1, <1>2, <2>2 DEF Applied, Same
  <1>8. Saved'
    <2>1. task.kind \in Session /\ task.pc \in {"join", "conclude", "capture"} => task.run \in Runs
      BY NoTaskFacts DEF RunInv, TaskHandles, Session
    <2> QED
      BY <1>1, <1>2, <1>3, <2>1 DEF Saved, Same
  <1>9. Used' /\ Captured'
    <2>1. NoRun \notin Runs /\ unused \subseteq Runs /\ captures \subseteq Runs /\ NoFenced.run = NoRun
      BY CoordinatorAssumption, TypesSplit DEF RunInv, ProcessTypes, NoFenced, Fenced
    <2>2. task.pc = "capture" => task.run \in Runs
      BY NoTaskFacts DEF RunInv, TaskHandles, Kinds, Session
    <2> QED
      BY <1>1, <1>2, <1>3, <1>4, <2>1, <2>2 DEF Used, Captured, Same
  <1> QED
    BY <1>5, <1>6, <1>7, <1>8, <1>9 DEF Parts

-----------------------------------------------------------------------------
\* Initially there is no task and nothing was handed out.
LEMMA OwnershipInit == RunInit => OwnershipInv
  <1> SUFFICES ASSUME RunInit PROVE OwnershipInv
    OBVIOUS
  <1>1. RunInv
    BY InitRunInv
  <1>2. task = NoTask /\ effect = {} /\ captures = {} /\ unused = Runs /\ Target = NoFenced
        /\ record = [r \in Runs |-> NoRecord]
    BY DEF RunInit, Init, Target
  <1>3. Kinds /\ Claimed /\ Applied /\ Saved
    BY <1>2, NoTaskFacts DEF Kinds, Claimed, Applied, Saved, Session, Leased
  <1>4. Used /\ Captured
    BY <1>2, NoTaskFacts, CoordinatorAssumption DEF Used, Captured, NoFenced, Fenced, NoRecord
  <1> QED
    BY <1>1, <1>3, <1>4 DEF OwnershipInv

\* Every step of the process keeps it, whoever takes it.
LEMMA OwnershipStep ==
    ASSUME OwnershipInv, [RunNext]_runVars
    PROVE  OwnershipInv'
  <1>1. RunInv'
    BY StepRunInv DEF OwnershipInv
  <1>2. Parts'
    <2>1. CASE StartStep
      BY <2>1, StartKeeps
    <2>2. CASE TaskStep
      BY <2>2, LaunchKeeps, SessionKeeps, ScriptKeeps, ConcludeKeeps, CaptureKeeps
      DEF TaskStep, SessionSteps
    <2>3. CASE HeartbeatStep \/ WatchdogStep \/ Lapse
      BY <2>3, OthersKeep
    <2>4. CASE Crash
      <3>1. task' = NoTask /\ UNCHANGED <<record, unused, effect, captures>> /\ Target' = Target
        BY <2>4 DEF Crash, diskVars, coordVars, Target
      <3> QED
        BY <3>1, EndKeeps
    <2>5. CASE UNCHANGED runVars
      <3>1. /\ Target' = Target
            /\ UNCHANGED <<dirty_run, cleanup_claim, task, session, effect, record, captures, unused, failures>>
        BY <2>5 DEF runVars, coordVars, diskVars, boundVars, Target
      <3> QED
        BY <3>1 DEF OwnershipInv, Parts, Kinds, Claimed, Applied, Used, Saved, Captured, Misjudged
    <2> QED
      BY <2>1, <2>2, <2>3, <2>4, <2>5 DEF RunNext
  <1> QED
    BY <1>1, <1>2 DEF Parts, OwnershipInv

\* Where each task stands says what is still injected, what is on disk and what
\* the coordinator holds for it: for any runs and scenarios, either applier, and any
\* number of crashes and lapses.
THEOREM RunOwnership == RunSpec => []OwnershipInv
  BY OwnershipInit, OwnershipStep, PTL DEF RunSpec

\* A capture is scheduled only for a run that recorded CLEAN and left nothing
\* injected, and no later step makes that run DIRTY.
THEOREM CapturesAreOfCleanRuns == RunSpec => []CapturedRunsAreClean
  <1>1. ASSUME OwnershipInv PROVE CapturedRunsAreClean
    <2>1. ASSUME NEW r \in captures PROVE dirty_run.run # r
      <3>1. Target.run # r /\ r \in Runs /\ NoFenced.run \notin Runs
        BY <1>1, <2>1, CoordinatorAssumption, TypesSplit
        DEF OwnershipInv, Captured, RunInv, ProcessTypes, NoFenced, Fenced
      <3> QED
        BY <1>1, <3>1 DEF OwnershipInv, RunInv, CoordInv, SingleOwner, Target
    <2> QED
      BY <1>1, <2>1 DEF OwnershipInv, Captured, CapturedRunsAreClean
  <1> QED
    BY <1>1, RunOwnership, PTL

-----------------------------------------------------------------------------
(* While no lease lapses under a live process.                              *)

\* A leased task has its lease to the end: fresh, unclaimed and heartbeaten, until
\* it concludes or claims the cleanup of its own failure.
Holding ==
    /\ task.kind \in Leased /\ task.pc \notin {"capture", "fclean", "unclaim"} =>
        /\ active_lease = Fenced(task.target, task.token)
        /\ lease_age = "fresh" /\ cleanup_claim = NoClaim
        /\ task.beat = IF task.pc \in {"started", "conclude"} THEN "off" ELSE "on"
    /\ task.pc = "fclean" => active_lease = Fenced(task.target, task.token)

\* Nothing is injected but what runs have left that their handler misjudged.
OnlyMisjudged == \A r \in effect : Misjudged(r)

\* What is injected belongs to the run the coordinator holds; a task starts, and
\* the watchdog releases, with nothing of a run of theirs injected.
Owned ==
    /\ EffectIsOwned
    /\ task.pc = "started" /\ task.kind \in Leased => OnlyMisjudged
    /\ watchdog.pc = "release" /\ active_lease = Fenced(watchdog.run, watchdog.token)
         => watchdog.run \notin effect

\* What is reported as running has a task, which start() has already launched.
Reported ==
    /\ task.pc = "started" => current.status # "running"
    /\ current.status = "running" => task # NoTask

Unlapsed == Holding /\ Owned /\ Reported

-----------------------------------------------------------------------------
\* A task that holds its lease holds the testbed, and the watchdog does not.
LEMMA HolderFacts ==
    ASSUME OwnershipInv, Holding, task.kind \in Leased, task.pc \notin {"capture", "unclaim"}
    PROVE  /\ HoldsLease(task.target, task.token)
           /\ active_lease = Fenced(task.target, task.token)
           /\ Target = Fenced(task.target, task.token)
           /\ Target.run = task.run /\ task.run \in Runs /\ task.target = task.run
           /\ task # NoTask
           /\ dirty_run = NoFenced
           /\ watchdog.pc \in {"clean", "release", "dirty"}
                => active_lease # Fenced(watchdog.run, watchdog.token)
  <1> RunInv /\ Kinds /\ Claimed
    BY DEF OwnershipInv
  <1>0. task # NoTask /\ task.target = task.run
    BY NoTaskFacts DEF Leased, Kinds
  <1>1. task.target \in Runs /\ task.token \in IssuedTokens /\ task.run \in Runs
        /\ task.run # Watchdog
    BY <1>0, LifecycleAssumption DEF RunInv, TaskHandles, Leased
  <1>2. active_lease = Fenced(task.target, task.token)
    BY DEF Holding
  <1>3. active_lease # NoFenced /\ task.token # 0
    BY <1>1, <1>2, CoordinatorAssumption DEF Fenced, NoFenced, IssuedTokens
  <1>4. cleanup_claim.claimant # Watchdog
    <2>1. CASE task.pc = "fclean"
      BY <1>1, <2>1 DEF Claimed, ClaimBy
    <2>2. CASE task.pc # "fclean"
      <3>1. cleanup_claim = NoClaim
        BY <2>2 DEF Holding
      <3> QED
        BY <3>1, LifecycleAssumption, CoordinatorAssumption DEF NoClaim, ClaimBy
    <2> QED
      BY <2>1, <2>2
  <1>5. Target = active_lease /\ dirty_run = NoFenced
    BY <1>3 DEF Target, RunInv, CoordInv, SingleOwner
  <1>6. Target.run = task.run
    BY <1>0, <1>2, <1>5 DEF Fenced
  <1> QED
    BY <1>0, <1>1, <1>2, <1>3, <1>4, <1>5, <1>6 DEF HoldsLease, RunInv, WatchdogHandles

\* Nothing but that is injected once the run that is held has nothing injected.
LEMMA NothingInjected ==
    ASSUME OwnershipInv, Owned,
           Target = NoFenced \/ Target.run \notin effect \/ Misjudged(Target.run)
    PROVE  OnlyMisjudged
  <1>1. NoFenced.run \notin Runs /\ effect \subseteq Runs
    BY CoordinatorAssumption, TypesSplit DEF NoFenced, Fenced, OwnershipInv, RunInv, ProcessTypes
  <1> QED
    BY <1>1 DEF Owned, EffectIsOwned, OnlyMisjudged

\* The steps that are not of a session.
OtherSteps ==
    \/ StartStep \/ HeartbeatStep \/ WatchdogStep \/ Crash \/ Lapse
    \/ BindLeaseFails \/ StartUnwinds \/ TaskLaunched \/ LogNotOpened
    \/ ScriptExits \/ ScriptReturned \/ HeartbeatJoined
    \/ ConcludeDirty \/ ConcludeClean \/ Capture \/ ConcludeManual
    \/ FailureCleanupClaims \/ FailureCleanupReturned \/ FailureCleanupUnclaims
    \/ ExternalCleanupReturns \/ ExternalCleanupRecorded \/ ExternalCleanupEnds

\* A run that is over keeps the status it was given.
LEMMA MisjudgedStays ==
    ASSUME OwnershipInv, OtherSteps, NEW r \in effect, failures > 0, record[r].status = "blocked"
    PROVE  failures' > 0 /\ record'[r].status = "blocked"
  <1> RunInv /\ Used
    BY DEF OwnershipInv
  <1>1. r \in Runs /\ r \notin unused /\ failures \in Nat
        /\ record \in [Runs -> [status : {"none", "unknown", "capsule", "pending", "blocked",
                                      "active", "recovering", "clean", "dirty"},
                            effect : {"none", "open", "ended"}, token : Nat]]
    BY TypesSplit, LifecycleAssumption DEF RunInv, ProcessTypes, Used
  <1>2. failures' = failures \/ failures' = failures + 1
    BY DEF OtherSteps, StartStep, StartRun, StartCleanup, ReadoptOrphan, StartExternalCleanup,
       BindLeaseFails, StartUnwinds, TaskLaunched, LogNotOpened, ScriptExits, ScriptReturned,
       HeartbeatJoined, ConcludeDirty, ConcludeClean, Capture, ConcludeManual, FailureCleanupClaims,
       FailureCleanupReturned, FailureCleanupUnclaims, ExternalCleanupReturns,
       ExternalCleanupRecorded, ExternalCleanupEnds, HeartbeatStep, HeartbeatReturns,
       HeartbeatRaises, HeartbeatTaskFails, WatchdogStep, WatchdogDecides, WatchdogClaims,
       WatchdogCleans, WatchdogReleases, WatchdogMarksDirty, WatchdogFinishes, Crash, Lapse,
       boundVars
  <1>3. \/ record' = record
        \/ \E x \in unused : record' = [record EXCEPT ![x].status = "capsule"]
        \/ \E x, t : record' = [record EXCEPT ![x].token = t]
        \/ \E x : record[x].status = "none" /\ record' = [record EXCEPT ![x].status = "unknown"]
    BY DEF OtherSteps, StartStep, StartRun, CanStart, StartCleanup, ReadoptOrphan, StartExternalCleanup,
       BindLeaseFails, StartUnwinds, TaskLaunched, LogNotOpened, Launched, ScriptExits, ScriptReturned,
       HeartbeatJoined, ConcludeDirty, ConcludeClean, Capture, ConcludeManual, FailureCleanupClaims,
       FailureCleanupReturned, FailureCleanupUnclaims, ExternalCleanupReturns,
       ExternalCleanupRecorded, ExternalCleanupEnds, HeartbeatStep, HeartbeatReturns,
       HeartbeatRaises, HeartbeatTaskFails, WatchdogStep, WatchdogDecides, WatchdogClaims,
       WatchdogCleans, WatchdogReleases, WatchdogMarksDirty, WatchdogFinishes, Crash, Lapse,
       diskVars
  <1>4. record'[r].status = "blocked"
    BY <1>1, <1>3
  <1> QED
    BY <1>1, <1>2, <1>4

\* A lease is granted on a testbed with nothing else on it.
LEMMA StartUnlapsed ==
    ASSUME OwnershipInv, Unlapsed, StartStep
    PROVE  Unlapsed'
  <1> Holding /\ Owned /\ Reported /\ RunInv /\ Kinds
    BY DEF Unlapsed, OwnershipInv
  <1>m. \A r \in effect : failures > 0 /\ record[r].status = "blocked"
                             => failures' > 0 /\ record'[r].status = "blocked"
    BY MisjudgedStays DEF OtherSteps
  <1>0. /\ UNCHANGED <<current, watchdog, effect>> /\ current.status # "running"
        /\ task = NoTask /\ watchdog.pc # "release"
    BY DEF StartStep, StartRun, StartCleanup, ReadoptOrphan, StartExternalCleanup, CanStart,
       Busy, LoopIsFree
  <1>1. Reported'
    BY <1>0 DEF Reported
  <1>2. ASSUME NEW kind \in {"adaptive", "cycle", "script", "cleanup"}, NEW r \in Runs, Acquire(r),
               Started(kind, r, r, next_fencing_token)
        PROVE  Holding' /\ Owned'
    <2>1. /\ task'.pc = "started" /\ task'.kind = kind /\ task'.target = r
          /\ task'.token = next_fencing_token /\ task'.beat = "off"
      BY <1>2, StartedTask
    <2>2. OnlyMisjudged
      BY <1>2, NothingInjected DEF Acquire, Idle, Target
    <2>3. Holding'
      BY <1>2, <2>1 DEF Holding, Acquire
    <2>4. Owned'
      BY <1>0, <1>m, <2>2 DEF Owned, EffectIsOwned, OnlyMisjudged, Misjudged
    <2> QED
      BY <2>3, <2>4
  <1>3. ASSUME NEW r, NEW t, ReadoptDirty(r, t), task' = task PROVE Holding' /\ Owned'
    <2>1. OnlyMisjudged
      BY <1>3, NothingInjected DEF ReadoptDirty, Idle, Target
    <2>2. Owned'
      BY <1>0, <1>m, <2>1 DEF Owned, EffectIsOwned, OnlyMisjudged, Misjudged
    <2>3. Holding'
      BY <1>0, <1>3, NoTaskFacts DEF Holding, Leased
    <2> QED
      BY <2>2, <2>3
  <1>4. ASSUME NEW kind \in {"manual", "external"}, NEW r, NEW target, NEW token, NEW c,
               ClaimCleanup(dirty_run.run, dirty_run.token, c), Started(kind, r, target, token)
        PROVE  Holding' /\ Owned'
    <2>1. task'.pc = "started" /\ task'.kind = kind
      BY <1>4, StartedTask
    <2>2. Target' = Target /\ active_lease' = active_lease
      BY <1>4 DEF ClaimCleanup, Target
    <2> QED
      BY <1>0, <1>m, <2>1, <2>2 DEF Holding, Owned, EffectIsOwned, Misjudged, Leased
  <1>5. Holding' /\ Owned'
    <2>1. ASSUME NEW r \in Runs, StartRun(r) PROVE Holding' /\ Owned'
      BY <1>2, <2>1 DEF StartRun
    <2>2. ASSUME NEW r \in Runs, StartCleanup(r) PROVE Holding' /\ Owned'
      BY <1>2, <1>4, <2>2 DEF StartCleanup
    <2>3. ASSUME NEW s \in Scenarios, ReadoptOrphan(s) PROVE Holding' /\ Owned'
      BY <1>3, <2>3 DEF ReadoptOrphan
    <2>4. ASSUME NEW s \in Scenarios, StartExternalCleanup(s) PROVE Holding' /\ Owned'
      BY <1>4, <2>4 DEF StartExternalCleanup
    <2> QED
      BY <2>1, <2>2, <2>3, <2>4 DEF StartStep
  <1> QED
    BY <1>1, <1>5 DEF Unlapsed

\* A task that is over: the testbed is free of what it lets go of.
LEMMA EndUnlapsed ==
    ASSUME OwnershipInv, Unlapsed, OtherSteps, task' = NoTask, current'.status # "running",
           UNCHANGED <<watchdog, effect>>,
           Target' = Target \/ OnlyMisjudged,
           watchdog.pc = "release" => active_lease' \in {active_lease, NoFenced}
    PROVE  Unlapsed'
  <1> Holding /\ Owned /\ Reported /\ RunInv
    BY DEF Unlapsed, OwnershipInv
  <1>m. \A r \in effect : failures > 0 /\ record[r].status = "blocked"
                             => failures' > 0 /\ record'[r].status = "blocked"
    BY MisjudgedStays
  <1>1. Holding' /\ Reported'
    BY NoTaskFacts DEF Holding, Reported, Leased
  <1>2. watchdog.pc = "release" => NoFenced # Fenced(watchdog.run, watchdog.token)
    BY CoordinatorAssumption DEF RunInv, WatchdogHandles, NoFenced, Fenced
  <1>3. Owned'
    BY <1>2, <1>m, NoTaskFacts DEF Owned, EffectIsOwned, OnlyMisjudged, Misjudged
  <1> QED
    BY <1>1, <1>3 DEF Unlapsed

\* A script injects as it is launched, under the lease of its run.
LEMMA LaunchUnlapsed ==
    ASSUME OwnershipInv, Unlapsed, BindLeaseFails \/ StartUnwinds \/ TaskLaunched \/ LogNotOpened
    PROVE  Unlapsed'
  <1> Holding /\ Owned /\ Reported /\ RunInv /\ Kinds
    BY DEF Unlapsed, OwnershipInv
  <1>m. \A r \in effect : failures > 0 /\ record[r].status = "blocked"
                             => failures' > 0 /\ record'[r].status = "blocked"
    BY MisjudgedStays DEF OtherSteps
  <1>s. OtherSteps
    BY DEF OtherSteps
  <1>0. task.pc = "started" /\ current.status # "running"
    BY DEF BindLeaseFails, StartUnwinds, TaskLaunched, LogNotOpened, Launched, At, Reported
  <1>1. CASE BindLeaseFails
    <2>1. /\ task' = NoTask /\ UNCHANGED <<current, watchdog, effect, active_lease>>
          /\ Target' = Target
      BY <1>1 DEF BindLeaseFails, Dies, coordVars, Target
    <2> QED
      BY <1>0, <1>s, <2>1, EndUnlapsed
  <1>2. CASE StartUnwinds
    <2>1. task' = NoTask /\ UNCHANGED <<current, watchdog, effect>>
      BY <1>2 DEF StartUnwinds, Dies
    <2>2. CASE task.kind = "manual"
      <3>1. Target' = Target /\ active_lease' = active_lease
        BY <1>2, <2>2 DEF StartUnwinds, FinishCleanupClaim, Target
      <3> QED
        BY <1>0, <1>s, <2>1, <3>1, EndUnlapsed
    <2>3. CASE task.kind # "manual"
      <3>1. task.kind \in Leased
        BY <1>0, <1>2, <2>3, NoTaskFacts, TypesSplit
        DEF StartUnwinds, Leased, Kinds, RunInv, ProcessTypes, Tasks
      <3>2. OnlyMisjudged /\ active_lease' = NoFenced
        BY <1>0, <1>2, <2>3, <3>1 DEF Owned, StartUnwinds, Release
      <3> QED
        BY <1>0, <1>s, <2>1, <3>2, EndUnlapsed
    <2> QED
      BY <2>2, <2>3
  <1>3. CASE TaskLaunched \/ LogNotOpened
    <2>0. PICK pc \in {"probe", "external", "script", "lost"} : Launched(pc)
      BY <1>3 DEF TaskLaunched, LogNotOpened, FirstStep
    <2>1. /\ Same /\ task'.pc = pc
          /\ task'.beat = IF task.kind \in {"manual", "external"} THEN "off" ELSE "on"
      BY <2>0, TypesSplit DEF Launched, RunInv, ProcessTypes, Tasks, Same
    <2>2. /\ UNCHANGED <<active_lease, dirty_run, cleanup_claim, lease_age, watchdog>>
          /\ Target' = Target
          /\ effect' = effect \/ (task.kind = "script" /\ effect' = effect \cup {task.run})
      BY <1>3, <2>0 DEF TaskLaunched, LogNotOpened, Launched, coordVars, Target
    <2>3. task'.pc \in {"probe", "external", "script", "lost"}
      BY <2>1
    <2>4. task' # NoTask
      BY <2>1, <2>3, NoTaskFacts
    <2>5. Reported'
      BY <2>1, <2>3, <2>4 DEF Reported
    <2>6. Holding'
      BY <1>0, <2>1, <2>2, <2>3 DEF Holding, Same, Leased
    <2>7. Owned'
      <3>1. CASE task.kind = "script"
        <4>1. /\ Target.run = task.run
              /\ watchdog.pc = "release" => active_lease # Fenced(watchdog.run, watchdog.token)
          BY <1>0, <3>1, HolderFacts DEF Leased
        <4> QED
          BY <1>m, <2>1, <2>2, <2>3, <3>1, <4>1 DEF Owned, EffectIsOwned, Misjudged
      <3>2. CASE task.kind # "script"
        BY <1>m, <2>1, <2>2, <2>3, <3>2 DEF Owned, EffectIsOwned, Misjudged
      <3> QED
        BY <3>1, <3>2
    <2> QED
      BY <2>5, <2>6, <2>7 DEF Unlapsed
  <1> QED
    BY <1>1, <1>2, <1>3

\* A session injects for its own run only.
LEMMA SessionUnlapsed ==
    ASSUME OwnershipInv, Unlapsed, SessionSteps
    PROVE  Unlapsed'
  <1> Holding /\ Owned /\ Reported /\ RunInv /\ Kinds
    BY DEF Unlapsed, OwnershipInv
  <1>1. /\ task.kind \in Session /\ task.run \in Runs
        /\ task.pc \in SessionPcs /\ task'.pc \in SessionPcs \cup {"join", "lost"}
        /\ failures > 0 => failures' > 0
        /\ \A x \in Runs \ {task.run} : record'[x] = record[x]
        /\ Same /\ task'.beat = task.beat
        /\ UNCHANGED <<active_lease, dirty_run, cleanup_claim, current, watchdog>>
        /\ effect' \subseteq effect \cup {task.run}
    BY SessionFrame
  <1>2. lease_age' = lease_age \/ lease_age' = "fresh"
    BY DEF SessionSteps, ProbeBlocks, ProbePasses, ApplyReturns, LevelApplied, LevelFails,
       TickHeartbeats, TickRefused, TickWaits, TickEscalates, TickDecides, TickRecovers,
       CleanupReturns, LevelEnded, TerminalCleaned, TerminalCleanupFailed,
       FailedRunCleaned, DriverFails, HandlerFails, Heartbeat, coordVars
  <1>3. /\ Target.run = task.run /\ Target' = Target
        /\ watchdog.pc = "release" => active_lease # Fenced(watchdog.run, watchdog.token)
    BY <1>1, HolderFacts DEF SessionPcs, Session, Leased, Target
  <1>4. Holding'
    BY <1>1, <1>2 DEF Holding, Same, SessionPcs, Session, Leased
  <1>5. Owned'
    <2>1. effect \subseteq Runs
      BY TypesSplit DEF RunInv, ProcessTypes
    <2>2. ASSUME NEW r \in effect', r # task.run PROVE Target'.run = r \/ Misjudged(r)'
      <3>1. r \in effect /\ r \in Runs
        BY <1>1, <2>1, <2>2
      <3>2. record'[r] = record[r]
        BY <1>1, <2>2, <3>1
      <3> QED
        BY <1>1, <1>3, <2>1, <3>1, <3>2 DEF Owned, EffectIsOwned, Misjudged
    <2>3. EffectIsOwned'
      BY <1>3, <2>2 DEF EffectIsOwned
    <2> QED
      BY <1>1, <1>3, <2>3 DEF Owned, SessionPcs
  <1>6. Reported'
    BY <1>1, NoTaskFacts DEF Reported, SessionPcs
  <1> QED
    BY <1>4, <1>5, <1>6 DEF Unlapsed

\* Scripts and external cleanups only take away.
LEMMA ScriptUnlapsed ==
    ASSUME OwnershipInv, Unlapsed,
           \/ ScriptExits \/ ScriptReturned \/ HeartbeatJoined
           \/ ExternalCleanupReturns \/ ExternalCleanupRecorded
    PROVE  Unlapsed'
  <1> Holding /\ Owned /\ Reported /\ RunInv /\ Kinds
    BY DEF Unlapsed, OwnershipInv
  <1>m. \A r \in effect : failures > 0 /\ record[r].status = "blocked"
                             => failures' > 0 /\ record'[r].status = "blocked"
    BY MisjudgedStays DEF OtherSteps
  <1>1. /\ UNCHANGED <<active_lease, dirty_run, cleanup_claim, lease_age, current, watchdog>>
        /\ effect' \subseteq effect /\ Target' = Target
    BY DEF ScriptExits, ScriptReturned, HeartbeatJoined, ExternalCleanupReturns,
       ExternalCleanupRecorded, AfterCleanup, coordVars, Target
  <1>2. task \in Tasks
    BY TypesSplit DEF RunInv, ProcessTypes
  <1>3. /\ task'.pc \in {"script", "fclean", "join", "conclude", "external", "extclear"}
        /\ task'.kind = task.kind /\ task'.target = task.target /\ task'.token = task.token
        /\ task.pc \notin {"started", "capture", "unclaim"}
        /\ task'.pc = "conclude" => task.pc = "join" /\ (task.beat = "on" => task'.beat = "off")
        /\ task'.pc # "conclude" => task.pc \notin {"conclude"} /\ task'.beat = task.beat
        /\ task.pc = "fclean" <=> task'.pc = "fclean"
    <2>1. CASE ScriptExits \/ ExternalCleanupReturns
      BY <2>1, YieldsFacts
      DEF ScriptExits, ExternalCleanupReturns, InThread, At, Same
    <2>2. CASE ScriptReturned \/ ExternalCleanupRecorded
      BY <1>2, <2>2 DEF ScriptReturned, ExternalCleanupRecorded, OnLoop, At, Tasks
    <2>3. CASE HeartbeatJoined
      BY <1>2, <2>3 DEF HeartbeatJoined, OnLoop, At, Tasks
    <2> QED
      BY <2>1, <2>2, <2>3
  <1>4. Holding'
    BY <1>1, <1>3 DEF Holding
  <1>5. Owned'
    BY <1>1, <1>3, <1>m DEF Owned, EffectIsOwned, Misjudged
  <1>6. Reported'
    BY <1>1, <1>3, NoTaskFacts DEF Reported
  <1> QED
    BY <1>4, <1>5, <1>6 DEF Unlapsed

\* The conclusions. A run's own calls are never refused, so each says what it
\* did, and the testbed is given back with nothing on it.
LEMMA ConcludeUnlapsed ==
    ASSUME OwnershipInv, Unlapsed,
           \/ ConcludeDirty \/ ConcludeClean \/ ConcludeManual \/ ExternalCleanupEnds
           \/ FailureCleanupClaims \/ FailureCleanupReturned \/ FailureCleanupUnclaims
    PROVE  /\ Unlapsed'
           /\ current'.status = "dirty" /\ current.status # "dirty" => dirty_run'.run = task.target
  <1> Holding /\ Owned /\ Reported /\ RunInv /\ Kinds /\ Claimed /\ Applied
    BY DEF Unlapsed, OwnershipInv
  <1>m. \A r \in effect : failures > 0 /\ record[r].status = "blocked"
                             => failures' > 0 /\ record'[r].status = "blocked"
    BY MisjudgedStays DEF OtherSteps
  <1>t. OtherSteps
    BY DEF OtherSteps
  <1>1. UNCHANGED <<watchdog, effect>>
    BY DEF ConcludeDirty, ConcludeClean, ConcludeManual, FailureCleanupClaims,
       FailureCleanupReturned, FailureCleanupUnclaims, ExternalCleanupEnds
  <1>2. ASSUME NEW status \in {"dirty", "failed", "succeeded"}, Ends(status)
        PROVE  task' = NoTask /\ current'.status = status
    BY <1>2, TypesSplit DEF Ends, RunInv, ProcessTypes
  <1>3. ASSUME NEW status \in {"dirty", "failed", "succeeded"}, Ends(status),
               UNCHANGED <<active_lease, dirty_run>>, status = "dirty" => dirty_run.run = task.target
        PROVE  /\ Unlapsed'
               /\ current'.status = "dirty" /\ current.status # "dirty" => dirty_run'.run = task.target
    BY <1>1, <1>2, <1>3, <1>t, EndUnlapsed DEF Target
  <1>4. ASSUME NEW status \in {"dirty", "failed", "succeeded"}, Ends(status),
               OnlyMisjudged, status # "dirty", active_lease' \in {active_lease, NoFenced}
        PROVE  /\ Unlapsed'
               /\ current'.status = "dirty" /\ current.status # "dirty" => dirty_run'.run = task.target
    BY <1>1, <1>2, <1>4, <1>t, EndUnlapsed
  <1>5. ASSUME task.kind \in Leased, task.pc \notin {"capture", "unclaim"},
               MarkDirtySuppressed(task.target, task.token)
        PROVE  /\ dirty_run' = Fenced(task.target, task.token) /\ active_lease' = NoFenced
               /\ Target' = Target /\ dirty_run'.run = task.target
    <2>1. MarkDirty(task.target, task.token) /\ active_lease = Fenced(task.target, task.token)
          /\ Target = active_lease
      BY <1>5, HolderFacts DEF MarkDirtySuppressed
    <2> QED
      BY <2>1 DEF MarkDirty, Target, Fenced
  <1>6. CASE ConcludeDirty
    <2>1. task.kind \in Leased /\ task.pc = "conclude" /\ Ends("dirty")
          /\ MarkDirtySuppressed(task.target, task.token)
      BY <1>6 DEF ConcludeDirty, Concludes, OnLoop, At, Leased
    <2> QED
      BY <1>1, <1>2, <1>5, <1>t, <2>1, EndUnlapsed
  <1>7. CASE ConcludeClean
    <2>1. task.kind \in Leased /\ task.pc = "conclude"
          /\ (task.kind \in Session => session.status # "dirty")
          /\ (task.kind = "cleanup" => task.outcome # "failed")
          /\ (task.kind = "script" => task.outcome = "ok")
      BY <1>7 DEF ConcludeClean, Concludes, OnLoop, At, Leased, MustMarkDirty, Session
    <2>2. HoldsLease(task.target, task.token) /\ Target.run = task.run /\ task.target = task.run
          /\ task.run \in Runs
      BY <2>1, HolderFacts
    <2>3. task.run \notin effect \/ Misjudged(task.run)
      <3>1. CASE task.kind \in Session
        BY <2>1, <3>1 DEF Applied
      <3>2. CASE task.kind \notin Session
        <4>1. task.outcome = "ok"
          BY <2>1, <3>2, TypesSplit DEF Applied, Leased, Session, RunInv, ProcessTypes, Tasks
        <4> QED
          BY <2>2, <3>2, <4>1 DEF Applied
      <3> QED
        BY <3>1, <3>2
    <2>4. OnlyMisjudged
      BY <2>2, <2>3, NothingInjected
    <2>5. Release(task.target, task.token) /\ active_lease' = NoFenced
      BY <1>7, <2>2 DEF ConcludeClean, Release
    <2>6. CASE task.kind \in Session
      <3>1. Goto("capture") /\ UNCHANGED current
        BY <1>7, <2>2, <2>6 DEF ConcludeClean, Session
      <3>2. task'.pc = "capture" /\ task' # NoTask
        BY <3>1, GotoFacts, NoTaskFacts
      <3>3. Holding'
        BY <3>2 DEF Holding
      <3>4. watchdog.pc = "release" => NoFenced # Fenced(watchdog.run, watchdog.token)
        BY CoordinatorAssumption DEF RunInv, WatchdogHandles, NoFenced, Fenced
      <3>5. Owned'
        BY <1>1, <1>m, <2>4, <2>5, <3>2, <3>4
        DEF Owned, EffectIsOwned, OnlyMisjudged, Misjudged
      <3>6. Reported'
        BY <3>2 DEF Reported
      <3> QED
        BY <3>1, <3>3, <3>5, <3>6 DEF Unlapsed
    <2>7. CASE task.kind \notin Session
      BY <1>4, <1>7, <2>2, <2>4, <2>5, <2>7 DEF ConcludeClean, Session
    <2> QED
      BY <2>6, <2>7
  <1>8. CASE ConcludeManual
    <2>1. /\ task.kind = "manual" /\ task.pc = "conclude"
          /\ dirty_run = Fenced(task.target, task.token) /\ dirty_run.run = task.target
          /\ cleanup_claim = ClaimBy(task.target, task.token, task.run)
      BY <1>8 DEF ConcludeManual, Concludes, OnLoop, At, Claimed, Fenced
    <2>2. MayClearDirty(task.target, task.token) /\ MayFinishClaim(task.target, task.token, task.run)
      BY <2>1 DEF MayClearDirty, MayFinishClaim, ClaimBy
    <2>3. task.target \in Runs
      BY <2>1, NoTaskFacts DEF RunInv, TaskHandles
    <2>4. Target.run = task.target
      BY <2>1, <2>3, CoordinatorAssumption DEF Target, RunInv, CoordInv, SingleOwner, NoFenced, Fenced
    <2>5. CASE task.outcome = "ok"
      <3>1. Ends("succeeded") /\ active_lease' = active_lease
        BY <1>8, <2>2, <2>5 DEF ConcludeManual, ClearDirty
      <3>2. OnlyMisjudged
        BY <2>1, <2>4, <2>5, NothingInjected DEF Applied, Session
      <3> QED
        BY <1>4, <3>1, <3>2
    <2>6. CASE task.outcome # "ok"
      <3>1. Ends("dirty") /\ UNCHANGED <<active_lease, dirty_run>>
        BY <1>8, <2>2, <2>6 DEF ConcludeManual, FinishCleanupClaim
      <3> QED
        BY <1>3, <2>1, <3>1
    <2> QED
      BY <2>5, <2>6
  <1>9. CASE ExternalCleanupEnds
    <2>1. /\ task.kind = "external" /\ dirty_run.run = task.target /\ task.target \in Runs
          /\ dirty_run = Fenced(task.target, task.token)
      BY <1>9, NoTaskFacts DEF ExternalCleanupEnds, At, Kinds, Claimed, Fenced, RunInv, TaskHandles
    <2>2. Target.run = task.target
      BY <2>1, CoordinatorAssumption DEF Target, RunInv, CoordInv, SingleOwner, NoFenced, Fenced
    <2>3. CASE task.outcome = "ok" /\ MayClearDirty(task.target, task.token)
      <3>1. Ends("succeeded") /\ active_lease' = active_lease
        BY <1>9, <2>3 DEF ExternalCleanupEnds, ClearDirty
      <3>2. OnlyMisjudged
        BY <2>1, <2>2, <2>3, NothingInjected DEF Applied, Session
      <3> QED
        BY <1>4, <3>1, <3>2
    <2>4. CASE ~(task.outcome = "ok" /\ MayClearDirty(task.target, task.token))
      <3>1. Ends("dirty") /\ UNCHANGED <<active_lease, dirty_run>>
        BY <1>9, <2>4 DEF ExternalCleanupEnds, FinishCleanupClaim, coordVars
      <3> QED
        BY <1>3, <2>1, <3>1
    <2> QED
      BY <2>3, <2>4
  <1>10. CASE FailureCleanupClaims
    <2>1. task.kind \in Leased /\ task.pc = "conclude"
      BY <1>10 DEF FailureCleanupClaims, Concludes, OnLoop, At, Leased
    <2>2. Target = Fenced(task.target, task.token) /\ active_lease = Fenced(task.target, task.token)
          /\ cleanup_claim = NoClaim /\ task # NoTask
      BY <2>1, HolderFacts DEF Holding
    <2>3. Goto("fclean") /\ UNCHANGED <<current, active_lease, dirty_run>>
      BY <1>10, <2>2 DEF FailureCleanupClaims, ClaimCleanup
    <2>4. Same /\ task'.pc = "fclean" /\ task' # NoTask
      BY <2>3, GotoFacts, NoTaskFacts
    <2>5. Target' = Target
      BY <2>3 DEF Target
    <2>6. Holding'
      BY <2>2, <2>3, <2>4 DEF Holding, Same
    <2>7. Owned' /\ Reported'
      BY <1>1, <1>m, <2>3, <2>4, <2>5 DEF Owned, EffectIsOwned, Misjudged, Reported
    <2> QED
      BY <2>3, <2>6, <2>7 DEF Unlapsed
  <1>11. CASE FailureCleanupReturned
    <2>1. task.kind = "script" /\ task.pc = "fclean"
      BY <1>11 DEF FailureCleanupReturned, OnLoop, At, Kinds
    <2>2. HoldsLease(task.target, task.token) /\ Target.run = task.run /\ task.target = task.run
      BY <2>1, HolderFacts DEF Leased
    <2>3. CASE task.outcome = "ok"
      <3>1. Ends("failed") /\ active_lease' = NoFenced
        BY <1>11, <2>2, <2>3 DEF FailureCleanupReturned, Release
      <3>2. OnlyMisjudged
        BY <2>1, <2>2, <2>3, NothingInjected DEF Applied, Session
      <3> QED
        BY <1>4, <3>1, <3>2
    <2>4. CASE task.outcome # "ok"
      <3>1. Goto("unclaim") /\ UNCHANGED current /\ MarkDirtySuppressed(task.target, task.token)
        BY <1>11, <2>4 DEF FailureCleanupReturned
      <3>2. task'.pc = "unclaim" /\ task' # NoTask
        BY <3>1, GotoFacts, NoTaskFacts
      <3>3. Target' = Target /\ active_lease' = NoFenced
        BY <1>5, <2>1, <3>1 DEF Leased
      <3>4. watchdog.pc = "release" => NoFenced # Fenced(watchdog.run, watchdog.token)
        BY CoordinatorAssumption DEF RunInv, WatchdogHandles, NoFenced, Fenced
      <3> QED
        BY <1>1, <1>m, <3>1, <3>2, <3>3, <3>4
        DEF Unlapsed, Holding, Owned, EffectIsOwned, Misjudged, Reported
    <2> QED
      BY <2>3, <2>4
  <1>12. CASE FailureCleanupUnclaims
    <2>1. dirty_run.run = task.target
      BY <1>12 DEF FailureCleanupUnclaims, At, Claimed, Fenced
    <2>2. Ends("dirty") /\ UNCHANGED <<active_lease, dirty_run>>
      BY <1>12 DEF FailureCleanupUnclaims, FinishCleanupClaim, coordVars
    <2> QED
      BY <1>3, <2>1, <2>2
  <1> QED
    BY <1>6, <1>7, <1>8, <1>9, <1>10, <1>11, <1>12

\* The capture, a crash, and the watchdog and the heartbeats beside the task.
LEMMA OthersUnlapsed ==
    ASSUME OwnershipInv, Unlapsed, lapses' = 0,
           Capture \/ HeartbeatStep \/ WatchdogStep \/ Crash \/ Lapse
    PROVE  Unlapsed'
  <1> Holding /\ Owned /\ Reported /\ RunInv /\ Kinds
    BY DEF Unlapsed, OwnershipInv
  <1>m. \A r \in effect : failures > 0 /\ record[r].status = "blocked"
                             => failures' > 0 /\ record'[r].status = "blocked"
    BY MisjudgedStays DEF OtherSteps
  <1>t. OtherSteps
    BY DEF OtherSteps
  <1>1. CASE Capture
    <2>1. /\ task' = NoTask /\ UNCHANGED <<watchdog, effect, active_lease>> /\ Target' = Target
          /\ current'.status # "running"
      BY <1>1, TypesSplit DEF Capture, Ends, coordVars, Target, RunInv, ProcessTypes
    <2> QED
      BY <1>t, <2>1, EndUnlapsed
  <1>2. CASE Crash
    <2>1. /\ task' = NoTask /\ UNCHANGED <<effect, active_lease>> /\ Target' = Target
          /\ current'.status = "none" /\ watchdog'.pc = "idle"
      BY <1>2 DEF Crash, coordVars, Target, WatchdogIdle
    <2> QED
      BY <1>m, <2>1, NoTaskFacts
      DEF Unlapsed, Holding, Owned, EffectIsOwned, OnlyMisjudged, Misjudged, Reported, Leased
  <1>3. CASE HeartbeatStep
    <2>1. /\ UNCHANGED <<active_lease, dirty_run, cleanup_claim, current, watchdog, effect>>
          /\ Target' = Target /\ lease_age' \in {lease_age, "fresh"}
      BY <1>3 DEF HeartbeatStep, HeartbeatReturns, HeartbeatRaises, HeartbeatTaskFails, Heartbeat,
         coordVars, Target
    <2>2. task' = task \/ (task.beat # "off" /\ task' # NoTask /\ Same /\ task'.pc = task.pc)
      BY <1>3, NoTaskFacts, TypesSplit DEF HeartbeatStep, HeartbeatReturns, HeartbeatRaises,
         HeartbeatTaskFails, RunInv, ProcessTypes, Tasks, Same
    <2>3. task.kind \in Leased /\ task.pc \notin {"capture", "fclean", "unclaim"} => task' = task
      <3>1. ASSUME task.kind \in Leased, task.pc \notin {"capture", "fclean", "unclaim"}
            PROVE  ~HeartbeatRaises /\ ~HeartbeatTaskFails
        <4>1. HoldsLease(task.target, task.token) /\ cleanup_claim = NoClaim
              /\ task.beat \in {"off", "on"}
          BY <3>1, HolderFacts DEF Holding
        <4> QED
          BY <4>1 DEF HeartbeatRaises, HeartbeatTaskFails
      <3> QED
        BY <1>3, <3>1 DEF HeartbeatStep, HeartbeatReturns
    <2>4. Holding'
      BY <2>1, <2>2, <2>3 DEF Holding, Same
    <2>5. Owned' /\ Reported'
      BY <1>m, <2>1, <2>2 DEF Owned, EffectIsOwned, OnlyMisjudged, Misjudged, Reported, Same
    <2> QED
      BY <2>4, <2>5 DEF Unlapsed
  <1>4. CASE Lapse
    <2>1. /\ UNCHANGED <<active_lease, dirty_run, cleanup_claim, task, current, watchdog, effect>>
          /\ Target' = Target
      BY <1>4 DEF Lapse, LeaseLapses, Target
    <2>2. Unattended
      BY <1>4, TypesSplit DEF Lapse, RunInv, ProcessTypes
    <2>3. ~(task.kind \in Leased /\ task.pc \notin {"capture", "fclean", "unclaim"})
      BY <2>2 DEF Holding, Unattended, Inline
    <2>4. Holding'
      BY <2>1, <2>3 DEF Holding
    <2>5. Owned' /\ Reported'
      BY <1>m, <2>1 DEF Owned, EffectIsOwned, OnlyMisjudged, Misjudged, Reported
    <2> QED
      BY <2>4, <2>5 DEF Unlapsed
  <1>5. CASE WatchdogStep
    <2>1. UNCHANGED <<task, current>> /\ effect' \subseteq effect
      BY <1>5 DEF WatchdogStep, WatchdogDecides, WatchdogClaims, WatchdogCleans, WatchdogReleases,
       WatchdogMarksDirty, WatchdogFinishes
    <2>2. Reported'
      BY <2>1 DEF Reported
    <2>3. ASSUME NEW pc, WatchdogGoes(pc)
          PROVE  watchdog'.pc = pc /\ watchdog'.run = watchdog.run /\ watchdog'.token = watchdog.token
      BY <2>3, TypesSplit DEF WatchdogGoes, RunInv, ProcessTypes
    <2>4. WatchdogStops => watchdog'.pc = "idle"
      BY DEF WatchdogStops, WatchdogIdle
    <2>5. CASE WatchdogDecides
      <3>1. watchdog'.pc = "claim" /\ UNCHANGED <<active_lease, dirty_run, cleanup_claim, lease_age>>
            /\ Target' = Target
        BY <2>5, TypesSplit DEF WatchdogDecides, coordVars, Target, RunInv, ProcessTypes
      <3> QED
        BY <1>m, <2>1, <2>2, <3>1 DEF Unlapsed, Holding, Owned, EffectIsOwned, OnlyMisjudged, Misjudged
    <2>6. CASE WatchdogClaims
      <3>1. /\ UNCHANGED <<active_lease, dirty_run, lease_age>> /\ Target' = Target
            /\ watchdog'.pc \in {"idle", "clean"}
            /\ cleanup_claim' = cleanup_claim \/ lease_age = "lapsed"
        BY <2>3, <2>4, <2>6 DEF WatchdogClaims, ClaimExpiredCleanup, coordVars, Target
      <3> QED
        BY <1>m, <2>1, <2>2, <3>1 DEF Unlapsed, Holding, Owned, EffectIsOwned, OnlyMisjudged, Misjudged
    <2>7. CASE WatchdogCleans
      <3>1. /\ UNCHANGED <<active_lease, dirty_run, cleanup_claim, lease_age>> /\ Target' = Target
            /\ watchdog'.run = watchdog.run
            /\ watchdog'.pc \in {"release", "dirty"}
            /\ watchdog'.pc = "release" => watchdog.run \notin effect'
        BY <2>3, <2>7 DEF WatchdogCleans, coordVars, Target
      <3>2. Holding'
        BY <2>1, <3>1 DEF Holding
      <3>3. Owned'
        BY <1>m, <2>1, <3>1 DEF Owned, EffectIsOwned, OnlyMisjudged, Misjudged
      <3> QED
        BY <2>2, <3>2, <3>3 DEF Unlapsed
    <2>8. CASE WatchdogReleases \/ WatchdogMarksDirty
      <3>1. effect' = effect /\ watchdog.pc \in {"release", "dirty"}
            /\ watchdog'.pc \in {"idle", "dirty", "finish"}
        BY <2>3, <2>4, <2>8 DEF WatchdogReleases, WatchdogMarksDirty, WatchdogAt
      <3>2. CASE HoldsLease(watchdog.run, watchdog.token)
        <4>1. active_lease = Fenced(watchdog.run, watchdog.token) /\ watchdog.run \in Runs
              /\ active_lease # NoFenced
          BY <3>1, <3>2, CoordinatorAssumption DEF HoldsLease, RunInv, WatchdogHandles, Fenced, NoFenced
        <4>2. ~(task.kind \in Leased /\ task.pc \notin {"capture", "unclaim"})
          BY <3>1, <4>1, HolderFacts
        <4>3. task.pc # "fclean"
          BY <4>2 DEF Kinds, Leased
        <4>4. Holding'
          BY <2>1, <4>2, <4>3 DEF Holding
        <4>5. CASE WatchdogReleases
          <5>1. watchdog.run \notin effect /\ Target.run = watchdog.run
            BY <4>1, <4>5 DEF Owned, WatchdogReleases, WatchdogAt, Target, Fenced
          <5>2. OnlyMisjudged
            BY <5>1, NothingInjected
          <5> QED
            BY <1>m, <2>1, <2>2, <3>1, <4>4, <5>2 DEF Unlapsed, Owned, EffectIsOwned, OnlyMisjudged, Misjudged
        <4>6. CASE WatchdogMarksDirty
          <5>1. Target' = Target
            BY <3>2, <4>1, <4>6 DEF WatchdogMarksDirty, MarkDirty, Target
          <5>2. task'.pc = "started" /\ task'.kind \in Leased => OnlyMisjudged
            BY <2>1, <3>1 DEF Owned
          <5> QED
            BY <1>m, <2>2, <3>1, <4>4, <5>1, <5>2 DEF Unlapsed, Owned, EffectIsOwned, OnlyMisjudged, Misjudged
        <4> QED
          BY <2>8, <4>5, <4>6
      <3>3. CASE ~HoldsLease(watchdog.run, watchdog.token)
        <4>1. UNCHANGED <<active_lease, dirty_run, cleanup_claim, lease_age>> /\ Target' = Target
          BY <2>8, <3>3 DEF WatchdogReleases, WatchdogMarksDirty, coordVars, Target
        <4> QED
          BY <1>m, <2>1, <2>2, <3>1, <4>1 DEF Unlapsed, Holding, Owned, EffectIsOwned, OnlyMisjudged, Misjudged
      <3> QED
        BY <3>2, <3>3
    <2>9. CASE WatchdogFinishes
      <3>1. /\ UNCHANGED <<active_lease, dirty_run, lease_age>> /\ Target' = Target
            /\ watchdog'.pc = "idle" /\ cleanup_claim' \in {cleanup_claim, NoClaim}
        BY <2>4, <2>9 DEF WatchdogFinishes, FinishCleanupClaim, coordVars, Target
      <3> QED
        BY <1>m, <2>1, <2>2, <3>1 DEF Unlapsed, Holding, Owned, EffectIsOwned, OnlyMisjudged, Misjudged
    <2> QED
      BY <1>5, <2>5, <2>6, <2>7, <2>8, <2>9 DEF WatchdogStep
  <1> QED
    BY <1>1, <1>2, <1>3, <1>4, <1>5

\* All of it, as long as no lease has lapsed that is being heartbeaten.
UnlapsedInv == OwnershipInv /\ (lapses = 0 => Unlapsed)

\* Initially there is nothing to hold.
LEMMA UnlapsedInit == ASSUME RunInit PROVE UnlapsedInv
  <1>1. OwnershipInv
    BY OwnershipInit
  <1>2. task = NoTask /\ effect = {} /\ current.status = "none" /\ watchdog.pc = "idle"
    BY DEF RunInit, WatchdogIdle
  <1> QED
    BY <1>1, <1>2, NoTaskFacts
    DEF UnlapsedInv, Unlapsed, Holding, Owned, EffectIsOwned, Reported, Leased

\* Lapses are only counted up.
LEMMA LapsesCounted ==
    ASSUME RunInv, [RunNext]_runVars, lapses' = 0
    PROVE  lapses = 0
  <1>1. lapses' = lapses \/ lapses' = lapses + 1
    BY DEF RunNext, StartStep, StartRun, StartCleanup, ReadoptOrphan, StartExternalCleanup, TaskStep,
       BindLeaseFails, StartUnwinds, TaskLaunched, LogNotOpened, Launched, DriverFails,
       HandlerFails, ProbeBlocks, ProbePasses,
       ApplyReturns, LevelApplied, LevelFails, TickHeartbeats, TickRefused, TickWaits,
       TickEscalates, TickDecides, TickRecovers, CleanupReturns, LevelEnded, TerminalCleaned,
       TerminalCleanupFailed, FailedRunCleaned, ScriptExits, ScriptReturned, HeartbeatJoined,
       ConcludeDirty, ConcludeClean, Capture, ConcludeManual, FailureCleanupClaims,
       FailureCleanupReturned, FailureCleanupUnclaims, ExternalCleanupReturns,
       ExternalCleanupRecorded, ExternalCleanupEnds, HeartbeatStep, HeartbeatReturns,
       HeartbeatRaises, HeartbeatTaskFails, WatchdogStep, WatchdogDecides, WatchdogClaims,
       WatchdogCleans, WatchdogReleases, WatchdogMarksDirty, WatchdogFinishes, Crash, Lapse,
       boundVars, runVars
  <1>2. lapses \in Nat
    BY TypesSplit DEF RunInv, ProcessTypes
  <1> QED
    BY <1>1, <1>2

\* Every step keeps it.
LEMMA UnlapsedStep ==
    ASSUME UnlapsedInv, [RunNext]_runVars
    PROVE  UnlapsedInv'
  <1>1. OwnershipInv'
    BY OwnershipStep DEF UnlapsedInv
  <1> SUFFICES ASSUME lapses' = 0 PROVE Unlapsed'
    BY <1>1 DEF UnlapsedInv
  <1> OwnershipInv /\ Unlapsed
    BY LapsesCounted DEF UnlapsedInv, OwnershipInv
  <1>2. CASE StartStep
    BY <1>2, StartUnlapsed
  <1>3. CASE TaskStep
    BY <1>3, LaunchUnlapsed, SessionUnlapsed, ScriptUnlapsed, ConcludeUnlapsed, OthersUnlapsed
    DEF TaskStep, SessionSteps
  <1>4. CASE HeartbeatStep \/ WatchdogStep \/ Crash \/ Lapse
    BY <1>4, OthersUnlapsed
  <1>5. CASE UNCHANGED runVars
    <2>1. /\ UNCHANGED <<active_lease, cleanup_claim, lease_age, task, current, watchdog, effect,
                       record, failures>>
          /\ Target' = Target
      BY <1>5 DEF runVars, coordVars, diskVars, boundVars, Target
    <2> QED
      BY <2>1 DEF Unlapsed, Holding, Owned, EffectIsOwned, OnlyMisjudged, Misjudged, Reported
  <1> QED
    BY <1>2, <1>3, <1>4, <1>5 DEF RunNext

\* A task that heartbeats in time is never fenced off its lease by anybody.
THEOREM UnlapsedOwnership == RunSpec => []UnlapsedInv
  <1>1. RunInit => UnlapsedInv
    BY UnlapsedInit
  <1>2. UnlapsedInv /\ [RunNext]_runVars => UnlapsedInv'
    BY UnlapsedStep
  <1> QED
    BY <1>1, <1>2, PTL DEF RunSpec

\* Whatever is still injected belongs to the run the coordinator holds, through
\* every failure, refusal and crash, unless a lease lapsed under a live process;
\* but for the injection of a run that the driver's handler called BLOCKED.
THEOREM EffectsAreOwned == RunSpec => [](lapses = 0 => EffectIsOwned)
  <1>1. UnlapsedInv => (lapses = 0 => EffectIsOwned)
    BY DEF UnlapsedInv, Unlapsed, Owned
  <1> QED
    BY <1>1, UnlapsedOwnership, PTL

\* What the runner reports as running has a task, on the same condition: no
\* refusal leaves _execute by an exception.  Only a failure of the driver's
\* handler, or of opening the log, does; until there was one, that task goes on.
THEOREM ReportedRunsAreAlive == RunSpec => [](lapses = 0 => ReportedRunIsAlive)
  <1>1. UnlapsedInv => (lapses = 0 => ReportedRunIsAlive)
    BY DEF UnlapsedInv, Unlapsed, Reported, ReportedRunIsAlive, OwnershipInv, Kinds, At
  <1> QED
    BY <1>1, UnlapsedOwnership, PTL

\* The steps that report something are the conclusions.
LEMMA Reports ==
    ASSUME RunInv, [RunNext]_runVars, current'.status = "dirty", current.status # "dirty"
    PROVE  \/ ConcludeDirty \/ ConcludeClean \/ ConcludeManual \/ ExternalCleanupEnds
           \/ FailureCleanupClaims \/ FailureCleanupReturned \/ FailureCleanupUnclaims
  <1>1. ASSUME UNCHANGED current PROVE FALSE
    BY <1>1
  <1>2. ASSUME NEW status \in {"running", "none", "succeeded", "failed"}, NEW r,
               \/ current' = [run |-> r, status |-> status]
               \/ current' = [current EXCEPT !.status = status]
        PROVE  FALSE
    BY <1>2, TypesSplit DEF RunInv, ProcessTypes
  <1>3. ~StartStep
    BY <1>1 DEF StartStep, StartRun, StartCleanup, ReadoptOrphan, StartExternalCleanup
  <1>4. ~Crash /\ ~TaskLaunched /\ ~LogNotOpened /\ ~Capture
    BY <1>2 DEF Crash, TaskLaunched, LogNotOpened, Launched, Capture, Ends
  <1>5. ~HeartbeatStep /\ ~WatchdogStep /\ ~Lapse /\ ~UNCHANGED runVars
    BY <1>1 DEF HeartbeatStep, HeartbeatReturns, HeartbeatRaises, HeartbeatTaskFails, WatchdogStep,
       WatchdogDecides, WatchdogClaims, WatchdogCleans, WatchdogReleases,
       WatchdogMarksDirty, WatchdogFinishes, Lapse, runVars
  <1>6. ~SessionSteps
    BY <1>1 DEF SessionSteps, ProbeBlocks, ProbePasses, ApplyReturns, LevelApplied, LevelFails,
       TickHeartbeats, TickRefused, TickWaits, TickEscalates, TickDecides, TickRecovers,
       CleanupReturns, LevelEnded, TerminalCleaned, TerminalCleanupFailed, FailedRunCleaned,
       DriverFails, HandlerFails
  <1>7. ~(\/ BindLeaseFails \/ StartUnwinds \/ ScriptExits \/ ScriptReturned \/ HeartbeatJoined
          \/ ExternalCleanupReturns \/ ExternalCleanupRecorded)
    BY <1>1 DEF BindLeaseFails, StartUnwinds, Dies, ScriptExits, ScriptReturned, HeartbeatJoined,
       ExternalCleanupReturns, ExternalCleanupRecorded
  <1> QED
    BY <1>3, <1>4, <1>5, <1>6, <1>7 DEF RunNext, TaskStep, SessionSteps

\* On that condition a run that is reported DIRTY is DIRTY at the coordinator: the
\* refusal that _mark_dirty swallows does not come.
THEOREM ReportedDirtyRunsAreHeld == RunSpec /\ [](lapses = 0) => ReportedDirtyIsHeld
  <1>1. ASSUME UnlapsedInv, lapses = 0, [RunNext]_runVars,
               current'.status = "dirty" /\ current.status = "running"
        PROVE  dirty_run'.run = task.target
    <2>1. OwnershipInv /\ Unlapsed /\ RunInv
      BY <1>1 DEF UnlapsedInv, OwnershipInv
    <2> QED
      BY <1>1, <2>1, Reports, ConcludeUnlapsed
  <1>2. UnlapsedInv /\ lapses = 0 /\ [RunNext]_runVars
          => [current'.status = "dirty" /\ current.status = "running"
                => dirty_run'.run = task.target]_runVars
    BY <1>1
  <1> QED
    BY <1>2, UnlapsedOwnership, PTL DEF RunSpec, ReportedDirtyIsHeld

\* Only a start takes a token.
LEMMA TokensTaken ==
    ASSUME RunInv, [RunNext]_runVars, next_fencing_token' # next_fencing_token
    PROVE  active_lease = NoFenced /\ dirty_run = NoFenced
  <1>1. ASSUME NEW r, Acquire(r) PROVE active_lease = NoFenced /\ dirty_run = NoFenced
    BY <1>1 DEF Acquire, Idle
  <1>2. ASSUME NEW r, NEW t, NEW c,
               \/ Heartbeat(r, t) \/ ReadoptDirty(r, t) \/ ClearDirty(r, t) \/ Release(r, t)
               \/ MarkDirty(r, t) \/ ClaimCleanup(r, t, c) \/ ClaimExpiredCleanup(c)
               \/ FinishCleanupClaim(r, t, c) \/ LeaseLapses \/ UNCHANGED coordVars
        PROVE  FALSE
    BY <1>2 DEF Heartbeat, ReadoptDirty, ClearDirty, Release, MarkDirty, ClaimCleanup,
       ClaimExpiredCleanup, FinishCleanupClaim, LeaseLapses, coordVars
  <1>3. [Call]_coordVars
    BY StepCalls
  <1> QED
    BY <1>1, <1>2, <1>3 DEF Call

\* On that condition no lease is granted while a run that recorded DIRTY is
\* still injected: what is injected then, its handler has called BLOCKED.
THEOREM DirtyRunsBlock == RunSpec /\ [](lapses = 0) => DirtyBlocksNewRuns
  <1>1. ASSUME UnlapsedInv, lapses = 0, [RunNext]_runVars,
               next_fencing_token' # next_fencing_token
        PROVE  \A r \in effect : record[r].status # "dirty"
    <2>1. OwnershipInv /\ Owned /\ RunInv
      BY <1>1 DEF UnlapsedInv, Unlapsed, OwnershipInv
    <2>2. Target = NoFenced
      BY <1>1, <2>1, TokensTaken DEF Target
    <2>3. OnlyMisjudged
      BY <2>1, <2>2, NothingInjected
    <2> QED
      BY <2>3 DEF OnlyMisjudged, Misjudged
  <1>2. UnlapsedInv /\ lapses = 0 /\ [RunNext]_runVars
          => [next_fencing_token' # next_fencing_token
                => \A r \in effect : record[r].status # "dirty"]_runVars
    BY <1>1
  <1> QED
    BY <1>2, UnlapsedOwnership, PTL DEF RunSpec, DirtyBlocksNewRuns

-----------------------------------------------------------------------------
(* Until the process dies.                                                  *)

\* A claim that is not the watchdog's is that of the task there is.
Owners ==
    cleanup_claim # NoClaim /\ cleanup_claim.claimant # Watchdog =>
        /\ task.run = cleanup_claim.claimant
        /\ task.kind \in {"manual", "external"} \/ task.pc \in {"fclean", "unclaim"}

\* With an applier that blocks the loop, a tick finds the lease, and then its own
\* claim on it, as it left them: the task is not between two awaits.
Watching ==
    watchdog.applier = "blocking" =>
        /\ cleanup_claim.claimant = Watchdog => watchdog.pc \notin {"idle", "claim"}
        /\ watchdog.pc # "idle" => task.pc \notin Inline
        /\ watchdog.pc \in {"claim", "clean", "release", "dirty"} =>
              active_lease = Fenced(watchdog.run, watchdog.token)
        /\ watchdog.pc = "claim" => cleanup_claim = NoClaim
        /\ watchdog.pc \in {"clean", "release", "dirty", "finish"} =>
              cleanup_claim = ClaimBy(watchdog.run, watchdog.token, Watchdog)

\* Both, until the process has died.
Attended == Owners /\ Watching

AttendedInv == OwnershipInv /\ (crashes = 0 => Attended)

\* Whose a claim is.
LEMMA NotTheWatchdogs ==
    /\ NoClaim.claimant # Watchdog
    /\ \A r, t, c : ClaimBy(r, t, c).claimant = c
  BY LifecycleAssumption, CoordinatorAssumption DEF NoClaim, ClaimBy

\* On the loop, the watchdog is between two ticks.
LEMMA LoopKeepsWatching ==
    ASSUME Watching, UNCHANGED watchdog, watchdog.applier = "blocking" => watchdog.pc = "idle",
           \/ cleanup_claim' \in {cleanup_claim, NoClaim}
           \/ cleanup_claim'.claimant # Watchdog
    PROVE  Watching'
  BY NotTheWatchdogs DEF Watching

\* Beside a tick, only threads get on.
LEMMA ThreadKeepsWatching ==
    ASSUME Watching, UNCHANGED <<watchdog, active_lease, cleanup_claim>>,
           task'.pc \in Inline => task.pc \in Inline
    PROVE  Watching'
  BY DEF Watching

\* Without a claim of its own, a task has nothing to keep.
LEMMA OwnersWithoutClaim ==
    ASSUME \/ cleanup_claim' = NoClaim
           \/ cleanup_claim'.claimant = Watchdog
    PROVE  Owners'
  BY DEF Owners

\* A start finds the watchdog between two ticks, and no claim but a task's.
LEMMA StartAttended ==
    ASSUME OwnershipInv, Attended, StartStep
    PROVE  Owners' /\ Watching'
  <1> /\ RunInv /\ Kinds /\ Owners /\ Watching
    BY DEF Attended, OwnershipInv
  <1>0. /\ UNCHANGED watchdog /\ task = NoTask
        /\ watchdog.applier = "blocking" => watchdog.pc = "idle"
    BY TypesSplit DEF StartStep, StartRun, StartCleanup, ReadoptOrphan, StartExternalCleanup, CanStart,
       Busy, LoopIsFree
  <1>1. cleanup_claim = NoClaim \/ cleanup_claim.claimant = Watchdog
    BY <1>0, NoTaskFacts DEF Owners
  <1>2. ASSUME NEW r, Acquire(r) PROVE Owners' /\ Watching'
    BY <1>0, <1>2, LoopKeepsWatching, OwnersWithoutClaim DEF Acquire
  <1>3. ASSUME NEW r, NEW t, ReadoptDirty(r, t) PROVE Owners' /\ Watching'
    BY <1>0, <1>1, <1>3, LoopKeepsWatching, OwnersWithoutClaim DEF ReadoptDirty
  <1>4. ASSUME NEW r \in Runs \cup {Operator}, NEW kind \in {"manual", "external"}, NEW x, NEW t,
               ClaimCleanup(x, t, r), Started(kind, r, x, t)
        PROVE  Owners' /\ Watching'
    <2>1. cleanup_claim'.claimant = r /\ r # Watchdog
      BY <1>4, NotTheWatchdogs, LifecycleAssumption DEF ClaimCleanup
    <2>2. task'.run = r /\ task'.kind = kind
      BY <1>4, StartedTask
    <2> QED
      BY <1>0, <2>1, <2>2, LoopKeepsWatching DEF Owners
  <1> QED
    <2>1. ASSUME NEW r \in Runs, StartRun(r) PROVE Owners' /\ Watching'
      BY <1>2, <2>1 DEF StartRun
    <2>2. ASSUME NEW r \in Runs, StartCleanup(r) PROVE Owners' /\ Watching'
      BY <1>2, <1>4, <2>2 DEF StartCleanup
    <2>3. ASSUME NEW s \in Scenarios, ReadoptOrphan(s) PROVE Owners' /\ Watching'
      BY <1>3, <2>3 DEF ReadoptOrphan
    <2>4. ASSUME NEW s \in Scenarios, StartExternalCleanup(s) PROVE Owners' /\ Watching'
      BY <1>4, <2>4 DEF StartExternalCleanup
    <2> QED
      BY <2>1, <2>2, <2>3, <2>4 DEF StartStep

\* The task's own claim ends with the task.
LEMMA TaskOwners ==
    ASSUME OwnershipInv, Attended, TaskStep
    PROVE  Owners'
  <1> /\ RunInv /\ Kinds /\ Claimed /\ Owners
    BY DEF Attended, OwnershipInv
  <1>1. CASE SessionSteps
    <2>1. Same /\ task.kind \in Session /\ task.pc \in SessionPcs /\ cleanup_claim' = cleanup_claim
      BY <1>1, SessionFrame
    <2>2. cleanup_claim = NoClaim \/ cleanup_claim.claimant = Watchdog
      BY <2>1 DEF Owners, Session, SessionPcs
    <2> QED
      BY <2>1, <2>2, OwnersWithoutClaim
  <1>2. ASSUME task.kind \in Leased, task.pc \notin {"fclean", "unclaim"},
               cleanup_claim' \in {cleanup_claim, NoClaim}
        PROVE  Owners'
    <2>1. cleanup_claim = NoClaim \/ cleanup_claim.claimant = Watchdog
      BY <1>2 DEF Owners, Leased
    <2> QED
      BY <1>2, <2>1, OwnersWithoutClaim
  <1>3. CASE BindLeaseFails \/ Capture
    BY <1>2, <1>3 DEF BindLeaseFails, Capture, At, Kinds, Leased, Session, coordVars
  <1>4. CASE StartUnwinds
    <2>1. CASE task.kind = "manual"
      BY <1>4, <2>1, OwnersWithoutClaim DEF StartUnwinds, FinishCleanupClaim
    <2>2. CASE task.kind # "manual"
      BY <1>4, <2>2, OwnersWithoutClaim DEF StartUnwinds, Release
    <2> QED
      BY <2>1, <2>2
  <1>5. CASE TaskLaunched \/ LogNotOpened
    <2>1. Same /\ cleanup_claim' = cleanup_claim /\ task.pc = "started"
      BY <1>5, TypesSplit DEF TaskLaunched, LogNotOpened, Launched, RunInv, ProcessTypes, Tasks, Same, coordVars, At
    <2> QED
      BY <2>1 DEF Owners, Same
  <1>6. CASE ScriptExits \/ ScriptReturned \/ HeartbeatJoined
             \/ ExternalCleanupReturns \/ ExternalCleanupRecorded
    <2>1. cleanup_claim' = cleanup_claim
      BY <1>6 DEF ScriptExits, ScriptReturned, HeartbeatJoined, ExternalCleanupReturns,
         ExternalCleanupRecorded, coordVars
    <2>2. Same /\ (task'.pc = task.pc \/ task.pc \notin {"fclean", "unclaim"})
      BY <1>6, YieldsFacts, TypesSplit DEF ScriptExits, ScriptReturned, HeartbeatJoined,
         ExternalCleanupReturns, ExternalCleanupRecorded, OnLoop, At, RunInv, ProcessTypes, Tasks, Same
    <2> QED
      BY <2>1, <2>2 DEF Owners, Same
  <1>7. CASE ConcludeDirty \/ ConcludeClean
    <2>1. task.kind \in Leased /\ task.pc = "conclude"
      BY <1>7 DEF ConcludeDirty, ConcludeClean, Concludes, OnLoop, At, Leased
    <2>2. cleanup_claim' \in {cleanup_claim, NoClaim}
      BY <1>7 DEF ConcludeDirty, ConcludeClean, MarkDirtySuppressed, MarkDirty, Release, coordVars
    <2> QED
      BY <1>2, <2>1, <2>2
  <1>8. CASE ConcludeManual
    <2>1. /\ dirty_run = Fenced(task.target, task.token)
          /\ cleanup_claim = ClaimBy(task.target, task.token, task.run)
      BY <1>8 DEF ConcludeManual, Concludes, Claimed
    <2>2. MayClearDirty(task.target, task.token) /\ MayFinishClaim(task.target, task.token, task.run)
      BY <2>1 DEF MayClearDirty, MayFinishClaim, ClaimBy
    <2>3. cleanup_claim' = NoClaim
      BY <1>8, <2>2 DEF ConcludeManual, ClearDirty, FinishCleanupClaim
    <2> QED
      BY <2>3, OwnersWithoutClaim
  <1>9. CASE ExternalCleanupEnds
    <2>1. task.kind = "external" /\ task.run = Operator
      BY <1>9, NoTaskFacts DEF ExternalCleanupEnds, At, Kinds, RunInv, TaskHandles
    <2>2. MayFinishClaim(task.target, task.token, Operator)
      BY <2>1 DEF Claimed, MayFinishClaim
    <2>3. cleanup_claim' = NoClaim
      BY <1>9, <2>2 DEF ExternalCleanupEnds, ClearDirty, FinishCleanupClaim
    <2> QED
      BY <2>3, OwnersWithoutClaim
  <1>10. CASE FailureCleanupClaims
    <2>1. task.kind = "script" /\ task.pc = "conclude"
      BY <1>10 DEF FailureCleanupClaims, Concludes, OnLoop, At
    <2>2. CASE ClaimCleanup(task.target, task.token, task.run) /\ Goto("fclean")
      <3>1. cleanup_claim'.claimant = task.run /\ task'.run = task.run /\ task'.pc = "fclean"
        BY <2>2, GotoFacts, NotTheWatchdogs DEF ClaimCleanup, Same
      <3> QED
        BY <3>1 DEF Owners
    <2>3. CASE MarkDirtySuppressed(task.target, task.token)
      <3>1. cleanup_claim' = cleanup_claim
        BY <2>3 DEF MarkDirtySuppressed, MarkDirty, coordVars
      <3> QED
        BY <1>2, <2>1, <3>1 DEF Leased
    <2> QED
      BY <1>10, <2>2, <2>3 DEF FailureCleanupClaims
  <1>11. CASE FailureCleanupReturned
    <2>1. CASE Release(task.target, task.token)
      BY <2>1, OwnersWithoutClaim DEF Release
    <2>2. CASE MarkDirtySuppressed(task.target, task.token) /\ Goto("unclaim")
      <3>1. cleanup_claim' = cleanup_claim /\ task'.run = task.run /\ task'.pc = "unclaim"
        BY <2>2, GotoFacts DEF MarkDirtySuppressed, MarkDirty, coordVars, Same
      <3> QED
        BY <3>1 DEF Owners
    <2> QED
      BY <1>11, <2>1, <2>2 DEF FailureCleanupReturned
  <1>12. CASE FailureCleanupUnclaims
    <2>1. /\ MayFinishClaim(task.target, task.token, task.run)
          /\ dirty_run = Fenced(task.target, task.token) /\ task.kind = "script"
      BY <1>12 DEF FailureCleanupUnclaims, At, Claimed, Kinds, MayFinishClaim
    <2>2. dirty_run # NoFenced
      BY <2>1, NoTaskFacts, CoordinatorAssumption DEF RunInv, TaskHandles, Fenced, NoFenced
    <2>3. cleanup_claim' = NoClaim
      BY <1>12, <2>1, <2>2 DEF FailureCleanupUnclaims, FinishCleanupClaim
    <2> QED
      BY <2>3, OwnersWithoutClaim
  <1> QED
    BY <1>1, <1>3, <1>4, <1>5, <1>6, <1>7, <1>8, <1>9, <1>10, <1>11, <1>12
    DEF TaskStep, SessionSteps

\* A step of the task runs on the loop, or in a thread that the watchdog does not see.
LEMMA TaskWatching ==
    ASSUME OwnershipInv, Attended, TaskStep
    PROVE  Watching'
  <1> /\ RunInv /\ Kinds /\ Owners /\ Watching
    BY DEF Attended, OwnershipInv
  <1>0. UNCHANGED watchdog
    BY DEF TaskStep, BindLeaseFails, StartUnwinds, TaskLaunched, LogNotOpened, Launched,
       DriverFails, HandlerFails, ProbeBlocks, ProbePasses,
       ApplyReturns, LevelApplied, LevelFails, TickHeartbeats, TickRefused, TickWaits,
       TickEscalates, TickDecides, TickRecovers, CleanupReturns, LevelEnded, TerminalCleaned,
       TerminalCleanupFailed, FailedRunCleaned, ScriptExits, ScriptReturned, HeartbeatJoined,
       ConcludeDirty, ConcludeClean, Capture, ConcludeManual, FailureCleanupClaims,
       FailureCleanupReturned, FailureCleanupUnclaims, ExternalCleanupReturns,
       ExternalCleanupRecorded, ExternalCleanupEnds
  <1>1. CASE ApplyReturns \/ TickHeartbeats \/ CleanupReturns \/ ScriptExits \/ ExternalCleanupReturns
    <2>1. UNCHANGED <<active_lease, cleanup_claim>>
      BY <1>1 DEF ApplyReturns, TickHeartbeats, CleanupReturns, ScriptExits, ExternalCleanupReturns,
         Heartbeat, coordVars
    <2>2. task'.pc = task.pc \/ task'.pc = "tick"
      BY <1>1, YieldsFacts, GotoFacts
      DEF ApplyReturns, TickHeartbeats, CleanupReturns, ScriptExits, ExternalCleanupReturns
    <2> QED
      BY <1>0, <2>1, <2>2, ThreadKeepsWatching DEF Inline
  <1>2. CASE ~(ApplyReturns \/ TickHeartbeats \/ CleanupReturns \/ ScriptExits \/ ExternalCleanupReturns)
    <2>1. LoopIsFree \/ task.pc \in Inline
      BY <1>2, FailureFacts DEF TaskStep, BindLeaseFails, StartUnwinds, TaskLaunched,
       LogNotOpened, Launched, ProbeBlocks, ProbePasses,
       LevelApplied, LevelFails, TickRefused, TickWaits,
       TickEscalates, TickDecides, TickRecovers, LevelEnded, TerminalCleaned,
       TerminalCleanupFailed, FailedRunCleaned, ScriptReturned, HeartbeatJoined,
       ConcludeDirty, ConcludeClean, Capture, ConcludeManual, FailureCleanupClaims,
       FailureCleanupReturned, FailureCleanupUnclaims,
       ExternalCleanupRecorded, ExternalCleanupEnds, OnLoop, Returned, Concludes, At, Inline
    <2>2. watchdog.applier = "blocking" => watchdog.pc = "idle"
      BY <2>1 DEF LoopIsFree, Watching
    <2>f. DriverFails \/ HandlerFails => UNCHANGED cleanup_claim
      BY FailureFacts DEF coordVars
    <2>3. \/ cleanup_claim' \in {cleanup_claim, NoClaim}
          \/ cleanup_claim' = ClaimBy(task.target, task.token, task.run) /\ task.pc = "conclude"
      BY <1>2, <2>f DEF TaskStep, BindLeaseFails, StartUnwinds, TaskLaunched,
       LogNotOpened, Launched, ProbeBlocks, ProbePasses,
       LevelApplied, LevelFails, TickRefused, TickWaits,
       TickEscalates, TickDecides, TickRecovers, LevelEnded, TerminalCleaned,
       TerminalCleanupFailed, FailedRunCleaned, ScriptReturned, HeartbeatJoined,
       ConcludeDirty, ConcludeClean, Capture, ConcludeManual, FailureCleanupClaims,
       FailureCleanupReturned, FailureCleanupUnclaims,
       ExternalCleanupRecorded, ExternalCleanupEnds, Concludes, OnLoop, At, MarkDirtySuppressed,
       MarkDirty, Release, ClaimCleanup, FinishCleanupClaim, ClearDirty, coordVars
    <2>4. task.pc = "conclude" => task.run # Watchdog
      BY TaskHolds
    <2> QED
      BY <1>0, <2>2, <2>3, <2>4, LoopKeepsWatching, NotTheWatchdogs
  <1> QED
    BY <1>1, <1>2

\* Each step of a tick ends where the next one begins.
LEMMA OthersAttended ==
    ASSUME OwnershipInv, Attended, HeartbeatStep \/ WatchdogStep \/ Lapse
    PROVE  Owners' /\ Watching'
  <1> /\ RunInv /\ Kinds /\ Owners /\ Watching
    BY DEF Attended, OwnershipInv
  <1>1. CASE HeartbeatStep \/ Lapse
    <2>1. UNCHANGED <<watchdog, active_lease, cleanup_claim>>
      BY <1>1 DEF HeartbeatStep, HeartbeatReturns, HeartbeatRaises, HeartbeatTaskFails, Lapse,
         Heartbeat, LeaseLapses, coordVars
    <2>2. Same /\ task'.pc = task.pc
      BY <1>1, TypesSplit DEF HeartbeatStep, HeartbeatReturns, HeartbeatRaises, HeartbeatTaskFails,
         Lapse, RunInv, ProcessTypes, Tasks, Same
    <2> QED
      BY <2>1, <2>2, ThreadKeepsWatching DEF Owners, Same
  <1>2. CASE WatchdogStep
    <2>1. UNCHANGED task
      BY <1>2 DEF WatchdogStep, WatchdogDecides, WatchdogClaims, WatchdogCleans, WatchdogReleases,
       WatchdogMarksDirty, WatchdogFinishes
    <2>2. Owners'
      <3>1. \/ cleanup_claim' \in {cleanup_claim, NoClaim}
            \/ cleanup_claim'.claimant = Watchdog
        BY <1>2, NotTheWatchdogs DEF WatchdogStep, WatchdogDecides, WatchdogClaims, WatchdogCleans,
           WatchdogReleases, WatchdogMarksDirty, WatchdogFinishes, ClaimExpiredCleanup, Release,
           MarkDirty, FinishCleanupClaim, coordVars
      <3> QED
        BY <2>1, <3>1, OwnersWithoutClaim DEF Owners
    <2>3. ASSUME NEW pc, WatchdogGoes(pc)
          PROVE  /\ watchdog'.pc = pc /\ watchdog'.run = watchdog.run
                 /\ watchdog'.token = watchdog.token /\ watchdog'.applier = watchdog.applier
      BY <2>3, TypesSplit DEF WatchdogGoes, RunInv, ProcessTypes
    <2>4. WatchdogStops => watchdog'.pc = "idle" /\ watchdog'.applier = watchdog.applier
      BY DEF WatchdogStops, WatchdogIdle
    <2>5. CASE WatchdogDecides
      <3>1. /\ watchdog'.pc = "claim" /\ watchdog'.run = active_lease.run
            /\ watchdog'.token = active_lease.token /\ watchdog'.applier = watchdog.applier
            /\ task.pc \notin Inline /\ UNCHANGED <<active_lease, cleanup_claim>>
        BY <2>5, TypesSplit DEF WatchdogDecides, RunInv, ProcessTypes, coordVars
      <3>2. cleanup_claim = NoClaim /\ active_lease # NoFenced
        BY <2>5 DEF WatchdogDecides, WatchdogDecision
      <3>3. active_lease = Fenced(active_lease.run, active_lease.token)
        BY <3>2 DEF RunInv, CoordInv, TypeOK, FencedRuns, Fenced
      <3> QED
        BY <2>1, <2>2, <3>1, <3>2, <3>3, NotTheWatchdogs DEF Watching
    <2>6. CASE WatchdogClaims
      <3>1. CASE lease_age = "lapsed"
        <4>1. /\ watchdog.pc = "claim" /\ UNCHANGED active_lease
              /\ cleanup_claim' = ClaimBy(active_lease.run, active_lease.token, Watchdog)
              /\ WatchdogGoes("clean")
          BY <2>6, <3>1 DEF WatchdogClaims, WatchdogAt, ClaimExpiredCleanup
        <4>2. /\ watchdog'.pc = "clean" /\ watchdog'.run = watchdog.run
              /\ watchdog'.token = watchdog.token /\ watchdog'.applier = watchdog.applier
          BY <2>3, <4>1
        <4>3. ASSUME watchdog.applier = "blocking"
              PROVE  /\ active_lease = Fenced(watchdog.run, watchdog.token)
                     /\ cleanup_claim' = ClaimBy(watchdog.run, watchdog.token, Watchdog)
                     /\ task.pc \notin Inline
          BY <4>1, <4>3 DEF Watching, Fenced
        <4> QED
          BY <2>1, <2>2, <4>1, <4>2, <4>3 DEF Watching
      <3>2. CASE lease_age # "lapsed"
        <4>1. watchdog.pc = "claim" /\ WatchdogStops /\ UNCHANGED cleanup_claim
          BY <2>6, <3>2 DEF WatchdogClaims, WatchdogAt, coordVars
        <4> QED
          BY <2>2, <2>4, <4>1 DEF Watching
      <3> QED
        BY <3>1, <3>2
    <2>7. CASE WatchdogCleans
      <3>1. /\ watchdog.pc = "clean" /\ watchdog'.pc \in {"release", "dirty"}
            /\ watchdog'.run = watchdog.run /\ watchdog'.token = watchdog.token
            /\ watchdog'.applier = watchdog.applier
            /\ UNCHANGED <<active_lease, cleanup_claim>>
        BY <2>3, <2>7 DEF WatchdogCleans, WatchdogAt, coordVars
      <3> QED
        BY <2>1, <2>2, <3>1 DEF Watching
    <2>8. ASSUME watchdog.applier = "blocking", watchdog.pc \in {"release", "dirty"}
          PROVE  HoldsLease(watchdog.run, watchdog.token)
      BY <2>8 DEF Watching, HoldsLease, RunInv, WatchdogHandles, IssuedTokens
    <2>9. CASE WatchdogReleases
      <3>1. CASE HoldsLease(watchdog.run, watchdog.token)
        <4>1. cleanup_claim' = NoClaim /\ WatchdogStops
          BY <2>9, <3>1 DEF WatchdogReleases, Release
        <4> QED
          BY <2>2, <2>4, <4>1, NotTheWatchdogs DEF Watching
      <3>2. CASE ~HoldsLease(watchdog.run, watchdog.token)
        BY <2>2, <2>3, <2>8, <2>9, <3>2 DEF Watching, WatchdogReleases, WatchdogAt
      <3> QED
        BY <3>1, <3>2
    <2>10. CASE WatchdogMarksDirty
      <3>1. CASE HoldsLease(watchdog.run, watchdog.token)
        <4>1. cleanup_claim' = cleanup_claim /\ WatchdogGoes("finish") /\ watchdog.pc = "dirty"
          BY <2>10, <3>1 DEF WatchdogMarksDirty, MarkDirty, WatchdogAt
        <4> QED
          BY <2>1, <2>2, <2>3, <4>1 DEF Watching
      <3>2. CASE ~HoldsLease(watchdog.run, watchdog.token)
        <4>1. WatchdogStops /\ watchdog.pc = "dirty"
          BY <2>10, <3>2 DEF WatchdogMarksDirty, WatchdogAt
        <4> QED
          BY <2>2, <2>4, <2>8, <3>2, <4>1 DEF Watching
      <3> QED
        BY <3>1, <3>2
    <2>11. CASE WatchdogFinishes
      <3>1. watchdog.pc = "finish" /\ WatchdogStops
        BY <2>11 DEF WatchdogFinishes, WatchdogAt
      <3>2. watchdog.applier = "blocking" => cleanup_claim' = NoClaim
        BY <2>11, <3>1 DEF WatchdogFinishes, Watching, MayFinishClaim, FinishCleanupClaim
      <3> QED
        BY <2>2, <2>4, <3>1, <3>2, NotTheWatchdogs DEF Watching
    <2> QED
      BY <1>2, <2>5, <2>6, <2>7, <2>9, <2>10, <2>11 DEF WatchdogStep
  <1> QED
    BY <1>1, <1>2

\* Crashes are only counted up.
LEMMA CrashesCounted ==
    ASSUME RunInv, [RunNext]_runVars, crashes' = 0
    PROVE  crashes = 0 /\ ~Crash
  <1>1. crashes' = crashes \/ (Crash /\ crashes' = crashes + 1)
    BY DEF RunNext, StartStep, StartRun, StartCleanup, ReadoptOrphan, StartExternalCleanup, TaskStep,
       BindLeaseFails, StartUnwinds, TaskLaunched, LogNotOpened, Launched, DriverFails,
       HandlerFails, ProbeBlocks, ProbePasses,
       ApplyReturns, LevelApplied, LevelFails, TickHeartbeats, TickRefused, TickWaits,
       TickEscalates, TickDecides, TickRecovers, CleanupReturns, LevelEnded, TerminalCleaned,
       TerminalCleanupFailed, FailedRunCleaned, ScriptExits, ScriptReturned, HeartbeatJoined,
       ConcludeDirty, ConcludeClean, Capture, ConcludeManual, FailureCleanupClaims,
       FailureCleanupReturned, FailureCleanupUnclaims, ExternalCleanupReturns,
       ExternalCleanupRecorded, ExternalCleanupEnds, HeartbeatStep, HeartbeatReturns,
       HeartbeatRaises, HeartbeatTaskFails, WatchdogStep, WatchdogDecides, WatchdogClaims,
       WatchdogCleans, WatchdogReleases, WatchdogMarksDirty, WatchdogFinishes, Crash, Lapse,
       boundVars, runVars
  <1>2. crashes \in Nat
    BY TypesSplit DEF RunInv, ProcessTypes
  <1>3. ~Crash
    BY <1>2 DEF Crash
  <1> QED
    BY <1>1, <1>3

\* Every step keeps it.
LEMMA AttendedStep ==
    ASSUME AttendedInv, [RunNext]_runVars
    PROVE  AttendedInv'
  <1>1. OwnershipInv'
    BY OwnershipStep DEF AttendedInv
  <1> SUFFICES ASSUME crashes' = 0 PROVE Attended'
    BY <1>1 DEF AttendedInv
  <1> OwnershipInv /\ Attended /\ ~Crash
    BY CrashesCounted DEF AttendedInv, OwnershipInv
  <1>2. CASE UNCHANGED runVars
    BY <1>2 DEF runVars, coordVars, Attended, Owners, Watching
  <1>3. CASE RunNext
    BY <1>3, StartAttended, TaskOwners, TaskWatching, OthersAttended DEF Attended, RunNext
  <1> QED
    BY <1>2, <1>3

\* Until a crash, every claim is where the one who made it will finish it.
THEOREM AttendedOwnership == RunSpec => []AttendedInv
  <1>1. ASSUME RunInit PROVE AttendedInv
    <2>1. OwnershipInv
      BY <1>1, OwnershipInit
    <2>2. cleanup_claim = NoClaim /\ watchdog.pc = "idle"
      BY <1>1 DEF RunInit, Init, WatchdogIdle
    <2> QED
      BY <2>1, <2>2, NotTheWatchdogs DEF AttendedInv, Attended, Owners, Watching
  <1>2. AttendedInv /\ [RunNext]_runVars => AttendedInv'
    BY AttendedStep
  <1> QED
    BY <1>1, <1>2, PTL DEF RunSpec

\* Every cleanup claim has the task or the tick that made it, for any runs and any
\* number of lapses, until the process dies; and as long as the driver has not
\* failed, that task has not been left by an exception.
THEOREM ClaimsHaveLiveOwners == RunSpec => [](crashes = 0 => ClaimHasLiveOwner)
  <1>1. AttendedInv => (crashes = 0 => ClaimHasLiveOwner)
    BY DEF AttendedInv, Attended, Owners, Watching, ClaimHasLiveOwner, WatchdogAt,
       OwnershipInv, Kinds, At
  <1> QED
    BY <1>1, AttendedOwnership, PTL
=============================================================================
