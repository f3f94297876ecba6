--------------------------- MODULE AdaptiveProofs ---------------------------
(***************************************************************************)
(* Proofs about AdaptiveController, for every plan the validators accept,  *)
(* however many levels and conditions it has, and for any observations.    *)
(***************************************************************************)
EXTENDS AdaptiveController, FiniteSetTheorems, TLAPS

\* Of a plan, what the proofs need.
LEMMA PlanFacts ==
    ASSUME plan \in Plans
    PROVE  /\ Levels \in Nat \ {0}
           /\ \A l \in LevelIndex :
                 /\ Settle[l] \in Nat /\ MinHold[l] \in Nat /\ Timeout[l] \in Nat
                 /\ Timeout[l] >= Settle[l] /\ Timeout[l] >= MinHold[l]
           /\ \A g \in Gates : GateTicks[g] \in Nat \ {0}
           /\ Mode \in {"calibration", "evaluation"}
  BY ControllerAssumption
  DEF ControllerAssumption, Levels, LevelIndex, Settle, MinHold, Timeout, GateTicks, Mode

LEMMA UpdatedType ==
    ASSUME NEW k \in Streaks, NEW g, NEW e \in Nat, NEW s
    PROVE  Updated(k, g, e, s) \in Streaks
  BY DEF Updated, NoStreak, Streaks

LEMMA MaxOfTwo ==
    ASSUME NEW a \in Nat, NEW b \in Nat, NEW c \in Nat
    PROVE  c >= a /\ c >= b => c >= Max({a, b})
  BY DEF Max

-----------------------------------------------------------------------------
\* What a tick may make of a controller that is not finished: what it is, what
\* has been confirmed, when it is a success, and how the levels run out.
Typed(r) == r \in ControllerStates
Unconfirmed(r) ==
    r.phase \notin Terminal =>
        ~Confirmed("abort", r.streaks) /\ ~Confirmed("must_rule_out", r.streaks)
SafeSuccess(r, s) ==
    r.phase = "succeeded" =>
        /\ r.elapsed >= Settle[r.level] /\ r.elapsed >= MinHold[r.level]
        /\ ~SafetyUnknown(s) /\ ~SafetyPending(s)
GetsOn(c, r, e) ==
    \/ r.phase \in Terminal
    \/ r.level = c.level + 1 /\ r.elapsed = 0
    \/ r.level = c.level /\ r.elapsed = e /\ e < Timeout[c.level]
Good(c, r, e, s) == Typed(r) /\ Unconfirmed(r) /\ SafeSuccess(r, s) /\ GetsOn(c, r, e)

\* A transition changes phase, action and reason.
LEMMA ToFacts ==
    ASSUME NEW c \in ControllerStates, NEW p \in Phases, NEW a \in Actions, NEW r \in Reasons
    PROVE  /\ To(c, p, a, r) \in ControllerStates
           /\ To(c, p, a, r).phase = p /\ To(c, p, a, r).level = c.level
           /\ To(c, p, a, r).elapsed = c.elapsed /\ To(c, p, a, r).streaks = c.streaks
  BY DEF To, ControllerStates

\* A run that ends other than by success ends well.
LEMMA EndIsGood ==
    ASSUME NEW c \in ControllerStates, NEW e, NEW s, NEW p \in Terminal \ {"succeeded"},
           NEW a \in Actions, NEW r \in Reasons
    PROVE  Good(c, To(c, p, a, r), e, s)
  <1> DEFINE d == To(c, p, a, r)
  <1>1. d \in ControllerStates /\ d.phase = p
    BY ToFacts DEF Phases
  <1> HIDE DEF d
  <1>2. Good(c, d, e, s)
    BY <1>1 DEF Good, Typed, Unconfirmed, SafeSuccess, GetsOn
  <1> QED BY <1>2 DEF d

\* A level is started with nothing seen.
LEMMA AtLevelIsGood ==
    ASSUME plan \in Plans, NEW c, NEW l \in LevelIndex, l \in {0, c.level + 1},
           NEW a \in Actions, NEW r \in Reasons, NEW e, NEW s
    PROVE  /\ Typed(AtLevel(l, a, r)) /\ Unconfirmed(AtLevel(l, a, r))
           /\ l = c.level + 1 => Good(c, AtLevel(l, a, r), e, s)
  <1> DEFINE none == [g \in Gates |-> NoStreak]
             d == [phase |-> "settling", level |-> l, elapsed |-> 0, streaks |-> none,
                   action |-> a, reason |-> r]
  <1>1. none \in [Gates -> Streaks]
    BY DEF NoStreak, Streaks
  <1>2. ~Confirmed("abort", none) /\ ~Confirmed("must_rule_out", none)
    BY PlanFacts DEF Confirmed, NoStreak, Gates
  <1>3. d = AtLevel(l, a, r)
    BY DEF AtLevel
  <1> HIDE DEF none
  <1>4. d \in ControllerStates
    <2>1. "settling" \in Phases /\ 0 \in Nat
      BY DEF Phases
    <2> QED BY <1>1, <2>1 DEF ControllerStates
  <1>5. /\ Typed(d) /\ Unconfirmed(d)
        /\ l = c.level + 1 => Good(c, d, e, s)
    BY <1>2, <1>4 DEF Good, Typed, Unconfirmed, SafeSuccess, GetsOn
  <1> QED BY <1>3, <1>5

LEMMA EscalateIsGood ==
    ASSUME plan \in Plans, NEW c \in ControllerStates, NEW e, NEW s, NEW reason \in Reasons
    PROVE  Good(c, EscalateOrFail(c, reason), e, s)
  <1>1. /\ "failed" \in Terminal \ {"succeeded"} /\ "fail" \in Actions
        /\ {"evaluation_level_insufficient", "calibration_levels_exhausted"} \subseteq Reasons
    BY DEF Terminal, Actions, Reasons
  <1>2. CASE EscalateOrFail(c, reason) = To(c, "failed", "fail", "evaluation_level_insufficient")
    BY <1>1, <1>2, EndIsGood
  <1>3. CASE EscalateOrFail(c, reason) = To(c, "failed", "fail", "calibration_levels_exhausted")
    BY <1>1, <1>3, EndIsGood
  <1>4. CASE /\ ~(c.level + 1 >= Levels)
             /\ EscalateOrFail(c, reason) = AtLevel(c.level + 1, "escalate", reason)
    <2>1. c.level + 1 \in LevelIndex
      BY <1>4, PlanFacts DEF LevelIndex, ControllerStates
    <2>2. "escalate" \in Actions
      BY DEF Actions
    <2> QED BY <1>4, <2>1, <2>2, AtLevelIsGood
  <1> QED BY <1>2, <1>3, <1>4 DEF EscalateOrFail

LEMMA TimedOutIsGood ==
    ASSUME plan \in Plans, NEW c \in ControllerStates, NEW e, NEW s,
           NEW unknown \in BOOLEAN, NEW pending \in BOOLEAN
    PROVE  Good(c, TimedOut(c, unknown, pending), e, s)
  <1>1. /\ "failed" \in Terminal \ {"succeeded"} /\ "fail" \in Actions
        /\ "aborted" \in Terminal \ {"succeeded"} /\ "abort" \in Actions
        /\ {"safety_observation_unavailable", "safety_condition_unresolved", "level_timeout",
            "evaluation_level_timeout"} \subseteq Reasons
    BY DEF Terminal, Actions, Reasons
  <1> QED BY <1>1, EndIsGood, EscalateIsGood DEF TimedOut

-----------------------------------------------------------------------------
\* While a level goes on it is within its time, and no danger is confirmed.
LEMMA WaitIsGood ==
    ASSUME plan \in Plans, NEW c \in ControllerStates, NEW e, NEW s,
           c.elapsed = e, e < Timeout[c.level],
           ~Confirmed("abort", c.streaks), ~Confirmed("must_rule_out", c.streaks),
           NEW p \in {"settling", "evaluating"}, NEW r \in Reasons
    PROVE  Good(c, To(c, p, "wait", r), e, s)
  <1> DEFINE d == To(c, p, "wait", r)
  <1>1. p \in Phases /\ "wait" \in Actions /\ p # "succeeded"
    BY DEF Phases, Actions
  <1>2. /\ d \in ControllerStates /\ d.phase = p /\ d.level = c.level
        /\ d.elapsed = c.elapsed /\ d.streaks = c.streaks
    BY <1>1, ToFacts
  <1> HIDE DEF d
  <1>3. Good(c, d, e, s)
    BY <1>1, <1>2 DEF Good, Typed, Unconfirmed, SafeSuccess, GetsOn
  <1> QED BY <1>3 DEF d

\* Success comes after the hold and with a safe look at the signals.
LEMMA SuccessIsGood ==
    ASSUME plan \in Plans, NEW c \in ControllerStates, NEW e, NEW s,
           c.elapsed = e, e >= Settle[c.level], e >= MinHold[c.level],
           ~SafetyUnknown(s), ~SafetyPending(s)
    PROVE  Good(c, To(c, "succeeded", "succeed", "success"), e, s)
  <1> DEFINE d == To(c, "succeeded", "succeed", "success")
  <1>1. /\ "succeeded" \in Phases /\ "succeeded" \in Terminal /\ "succeed" \in Actions
        /\ "success" \in Reasons
    BY DEF Phases, Terminal, Actions, Reasons
  <1>2. /\ d \in ControllerStates /\ d.phase = "succeeded" /\ d.level = c.level
        /\ d.elapsed = c.elapsed
    BY <1>1, ToFacts
  <1> HIDE DEF d
  <1>3. Good(c, d, e, s)
    BY <1>1, <1>2 DEF Good, Typed, Unconfirmed, SafeSuccess, GetsOn
  <1> QED BY <1>3 DEF d

LEMMA DecideIsGood ==
    ASSUME plan \in Plans, NEW c \in ControllerStates, NEW e \in Nat, NEW s,
           c.elapsed = e, e >= Settle[c.level], e >= MinHold[c.level],
           ~Confirmed("abort", c.streaks)
    PROVE  Good(c, Decide(c, e, s), e, s)
  <1> DEFINE safe == ~SafetyUnknown(s) /\ ~SafetyPending(s)
  <1>1. /\ "aborted" \in Terminal \ {"succeeded"} /\ "abort" \in Actions
        /\ {"must_rule_out_detected", "escalate_condition", "conditions_pending",
            "safety_observation_pending"} \subseteq Reasons
        /\ "evaluating" \in {"settling", "evaluating"}
    BY DEF Terminal, Actions, Reasons
  <1>2. CASE Confirmed("must_rule_out", c.streaks)
    BY <1>1, <1>2, EndIsGood DEF Decide
  <1>3. CASE ~Confirmed("must_rule_out", c.streaks) /\ safe /\ Confirmed("success", c.streaks)
    BY <1>3, SuccessIsGood DEF Decide
  <1>4. CASE /\ ~Confirmed("must_rule_out", c.streaks)
             /\ safe /\ ~Confirmed("success", c.streaks) /\ Confirmed("escalate", c.streaks)
    BY <1>1, <1>4, EscalateIsGood DEF Decide
  <1>5. CASE /\ ~Confirmed("must_rule_out", c.streaks)
             /\ ~(safe /\ Confirmed("success", c.streaks))
             /\ ~(safe /\ Confirmed("escalate", c.streaks))
    <2>1. CASE e >= Timeout[c.level]
      <3>1. SafetyUnknown(s) \in BOOLEAN /\ SafetyPending(s) \in BOOLEAN
        BY DEF SafetyUnknown, SafetyPending, HasUnusable
      <3> QED BY <1>5, <2>1, <3>1, TimedOutIsGood DEF Decide
    <2>2. CASE ~(e >= Timeout[c.level])
      <3>1. e < Timeout[c.level]
        BY <2>2, PlanFacts DEF ControllerStates
      <3>2. \A r \in {"conditions_pending", "safety_observation_pending"} :
              Good(c, To(c, "evaluating", "wait", r), e, s)
        BY <1>1, <1>5, <3>1, WaitIsGood
      <3> QED BY <1>5, <2>2, <3>2 DEF Decide
    <2> QED BY <2>1, <2>2
  <1> QED BY <1>2, <1>3, <1>4, <1>5

\* What is dropped while a level settles or is held leaves nothing to confirm.
LEMMA DropPendingFacts ==
    ASSUME plan \in Plans, NEW streaks \in [Gates -> Streaks]
    PROVE  /\ DropPending(streaks) \in [Gates -> Streaks]
           /\ ~Confirmed("must_rule_out", DropPending(streaks))
           /\ Confirmed("abort", DropPending(streaks)) => Confirmed("abort", streaks)
  BY PlanFacts DEF DropPending, NoStreak, Streaks, Confirmed, Gates

\* One tick, for every plan, state and reading.
LEMMA AdvanceIsGood ==
    ASSUME plan \in Plans, NEW c \in ControllerStates, c.phase \notin Terminal,
           NEW e \in Nat, NEW s
    PROVE  Good(c, Advance(c, e, s), e, s)
  <1> DEFINE updated == [g \in Gates |-> Updated(c.streaks[g], g, e, s)]
             d == [c EXCEPT !.elapsed = e, !.streaks = updated]
             early == [d EXCEPT !.streaks = DropPending(d.streaks)]
  <1>1. updated \in [Gates -> Streaks]
    BY UpdatedType DEF ControllerStates
  <1>2. Advance(c, e, s) =
          IF Confirmed("abort", d.streaks) THEN To(d, "aborted", "abort", "abort_condition")
          ELSE IF e < Settle[d.level] THEN To(early, "settling", "wait", "settling")
          ELSE IF e < MinHold[d.level] THEN To(early, "evaluating", "wait", "min_hold")
          ELSE Decide(d, e, s)
    BY DEF Advance
  <1> HIDE DEF updated
  <1>3. /\ d \in ControllerStates /\ d.elapsed = e /\ d.level = c.level /\ d.streaks = updated
        /\ d.level \in LevelIndex
    BY <1>1 DEF ControllerStates
  <1> HIDE DEF d
  <1>4. DropPending(d.streaks) \in [Gates -> Streaks]
    BY <1>1, <1>3, DropPendingFacts
  <1>5. /\ early \in ControllerStates /\ early.elapsed = e /\ early.level = c.level
        /\ early.streaks = DropPending(d.streaks)
    BY <1>3, <1>4 DEF ControllerStates
  <1>6. /\ ~Confirmed("must_rule_out", early.streaks)
        /\ Confirmed("abort", early.streaks) => Confirmed("abort", d.streaks)
    BY <1>1, <1>3, <1>5, DropPendingFacts
  <1> HIDE DEF early
  <1>7. \A b \in ControllerStates : \A r :
          b.level = c.level /\ Good(b, r, e, s) => Good(c, r, e, s)
    BY DEF Good, GetsOn
  <1>8. /\ "aborted" \in Terminal \ {"succeeded"} /\ "abort" \in Actions
        /\ {"abort_condition", "settling", "min_hold"} \subseteq Reasons
        /\ "settling" \in {"settling", "evaluating"} /\ "evaluating" \in {"settling", "evaluating"}
    BY DEF Terminal, Actions, Reasons
  <1>9. /\ Settle[c.level] \in Nat /\ MinHold[c.level] \in Nat /\ Timeout[c.level] \in Nat
        /\ Settle[c.level] <= Timeout[c.level] /\ MinHold[c.level] <= Timeout[c.level]
    BY <1>3, PlanFacts
  <1>10. CASE Confirmed("abort", d.streaks)
    <2>1. Good(d, To(d, "aborted", "abort", "abort_condition"), e, s)
      BY <1>3, <1>8, EndIsGood
    <2> QED BY <1>2, <1>3, <1>7, <1>10, <2>1
  <1>11. CASE ~Confirmed("abort", d.streaks) /\ (e < Settle[d.level] \/ e < MinHold[d.level])
    <2>1. e < Timeout[early.level]
      BY <1>3, <1>5, <1>9, <1>11
    <2>2. /\ Good(early, To(early, "settling", "wait", "settling"), e, s)
          /\ Good(early, To(early, "evaluating", "wait", "min_hold"), e, s)
      BY <1>5, <1>6, <1>8, <1>11, <2>1, WaitIsGood
    <2> QED BY <1>2, <1>3, <1>5, <1>7, <1>11, <2>2
  <1>12. CASE ~Confirmed("abort", d.streaks) /\ ~(e < Settle[d.level] \/ e < MinHold[d.level])
    <2>1. e >= Settle[d.level] /\ e >= MinHold[d.level]
      BY <1>3, <1>9, <1>12
    <2>2. Good(d, Decide(d, e, s), e, s)
      BY <1>3, <1>12, <2>1, DecideIsGood
    <2> QED BY <1>2, <1>3, <1>7, <1>12, <2>2
  <1> QED BY <1>10, <1>11, <1>12

-----------------------------------------------------------------------------
\* The run keeps its plan, so what is defined from the plan stays as it is.
LEMMA PlanKept ==
    ASSUME plan' = plan
    PROVE  /\ LevelIndex' = LevelIndex /\ Readings' = Readings
           /\ ControllerStates' = ControllerStates /\ Timeout' = Timeout
           /\ Unconfirmed(controller)' <=> Unconfirmed(controller')
           /\ SafeSuccess(controller, signals)' <=> SafeSuccess(controller', signals')
  <1>1. LevelIndex' = LevelIndex /\ Timeout' = Timeout
    BY DEF LevelIndex, Levels, Timeout
  <1>2. Readings' = Readings
    BY DEF Readings, Conditions, GateConds
  <1>3. ControllerStates' = ControllerStates
    BY <1>1 DEF ControllerStates
  <1>4. Unconfirmed(controller)' <=> Unconfirmed(controller')
    BY DEF Unconfirmed, Confirmed, GateConds, GateTicks
  <1>5. /\ (SafetyUnknown(signals))' <=> SafetyUnknown(signals')
        /\ (SafetyPending(signals))' <=> SafetyPending(signals')
    BY DEF SafetyUnknown, SafetyPending, HasUnusable, Matches, GateConds, GateMatch
  <1>6. SafeSuccess(controller, signals)' <=> SafeSuccess(controller', signals')
    BY <1>5 DEF SafeSuccess, Settle, MinHold
  <1> QED BY <1>1, <1>2, <1>3, <1>4, <1>6

\* Besides the types, the facts of a tick that are true of every state.
AdaptiveInv == TypeOK /\ Unconfirmed(controller) /\ SafeSuccess(controller, signals)

LEMMA InitAdaptive == Init => AdaptiveInv
  <1> SUFFICES ASSUME Init PROVE AdaptiveInv
    OBVIOUS
  <1>1. plan \in Plans
    BY DEF Init
  <1>2. 0 \in LevelIndex /\ "start" \in Actions /\ "level_started" \in Reasons
    BY <1>1, PlanFacts DEF LevelIndex, Actions, Reasons
  <1>3. Typed(controller) /\ Unconfirmed(controller)
    BY <1>1, <1>2, AtLevelIsGood DEF Init, Start
  <1>4. controller.phase = "settling"
    BY DEF Init, Start, AtLevel
  <1>5. signals \in Readings
    BY DEF Init, Readings, Unreadable
  <1> QED BY <1>1, <1>3, <1>4, <1>5 DEF AdaptiveInv, TypeOK, Typed, SafeSuccess

\* A tick keeps the invariant, and no reading takes back a level or makes one
\* last longer.
LEMMA TickPreserves ==
    ASSUME AdaptiveInv, Tick
    PROVE  /\ AdaptiveInv'
           /\ \E step \in Steps : GetsOn(controller, controller', controller.elapsed + step)
  <1>1. PICK step \in Steps :
          controller' = Advance(controller, controller.elapsed + step, signals')
    BY DEF Tick
  <1>2. /\ plan \in Plans /\ controller \in ControllerStates /\ controller.phase \notin Terminal
        /\ controller.elapsed + step \in Nat /\ plan' = plan /\ signals' \in Readings
    BY ControllerAssumption DEF AdaptiveInv, TypeOK, Tick, ControllerAssumption, ControllerStates
  <1>3. Good(controller, controller', controller.elapsed + step, signals')
    BY <1>1, <1>2, AdvanceIsGood
  <1> QED BY <1>2, <1>3, PlanKept DEF Good, Typed, AdaptiveInv, TypeOK

LEMMA CleanupPreserves ==
    ASSUME AdaptiveInv, Cleanup
    PROVE  AdaptiveInv' /\ controller'.phase \in Terminal
  <1>1. PICK succeeded \in BOOLEAN : controller' = Finalize(controller, succeeded)
    BY DEF Cleanup
  <1>2. /\ plan \in Plans /\ controller \in ControllerStates /\ controller.phase \in Terminal
        /\ plan' = plan /\ signals' = signals /\ signals \in Readings
    BY DEF AdaptiveInv, TypeOK, Cleanup
  <1>3. /\ controller' \in ControllerStates /\ controller'.phase \in {controller.phase, "dirty"}
        /\ controller'.level = controller.level /\ controller'.elapsed = controller.elapsed
    <2>1. CASE succeeded
      BY <1>1, <1>2, <2>1 DEF Finalize, ControllerStates, Actions
    <2>2. CASE ~succeeded
      <3>1. /\ "dirty" \in Phases /\ "mark_dirty" \in Actions /\ "cleanup_failed" \in Reasons
        BY DEF Phases, Terminal, Actions, Reasons
      <3> QED BY <1>1, <1>2, <2>2, <3>1, ToFacts DEF Finalize
    <2> QED BY <2>1, <2>2
  <1>4. controller'.phase \in Terminal
    BY <1>2, <1>3 DEF Terminal
  <1>5. Unconfirmed(controller') /\ SafeSuccess(controller', signals')
    BY <1>2, <1>3, <1>4 DEF AdaptiveInv, Unconfirmed, SafeSuccess
  <1> QED BY <1>2, <1>3, <1>4, <1>5, PlanKept DEF AdaptiveInv, TypeOK

\* The invariant of the controller, for every plan and any observations.
THEOREM AdaptiveSafety == Spec => []AdaptiveInv
  <1>1. AdaptiveInv /\ [Next]_controllerVars => AdaptiveInv'
    <2> SUFFICES ASSUME AdaptiveInv, [Next]_controllerVars PROVE AdaptiveInv'
      OBVIOUS
    <2>1. CASE Tick BY <2>1, TickPreserves
    <2>2. CASE Cleanup BY <2>2, CleanupPreserves
    <2>3. CASE UNCHANGED controllerVars
      BY <2>3, PlanKept DEF controllerVars, AdaptiveInv, TypeOK, Unconfirmed, SafeSuccess
    <2> QED BY <2>1, <2>2, <2>3 DEF Next
  <1> QED BY <1>1, InitAdaptive, PTL DEF Spec

\* The controller is always within the levels of its plan.
THEOREM AdaptiveTypes == Spec => []TypeOK
  <1>1. AdaptiveInv => TypeOK
    BY DEF AdaptiveInv
  <1> QED BY <1>1, AdaptiveSafety, PTL

\* Success is declared only past the hold and in a tick that has seen safety.
THEOREM AdaptiveSuccess == Spec => []SuccessIsSafe
  <1>1. AdaptiveInv => SuccessIsSafe
    <2> SUFFICES ASSUME AdaptiveInv, controller.phase = "succeeded" PROVE
          /\ controller.elapsed >= Hold
          /\ Matches("must_rule_out", signals) = "false"
          /\ Matches("abort", signals) # "true"
          /\ ~HasUnusable("abort", signals)
      BY DEF SuccessIsSafe
    <2>1. /\ controller.elapsed >= Settle[controller.level]
          /\ controller.elapsed >= MinHold[controller.level]
          /\ ~SafetyUnknown(signals) /\ ~SafetyPending(signals)
      BY DEF AdaptiveInv, SafeSuccess
    <2>2. controller.elapsed \in Nat /\ Settle[controller.level] \in Nat
          /\ MinHold[controller.level] \in Nat
      BY PlanFacts DEF AdaptiveInv, TypeOK, ControllerStates
    <2>3. controller.elapsed >= Hold
      BY <2>1, <2>2, MaxOfTwo DEF Hold
    <2>4. Matches("must_rule_out", signals) \in {"true", "false", "unknown"}
      BY DEF Matches
    <2> QED BY <2>1, <2>3, <2>4 DEF SafetyUnknown, SafetyPending
  <1> QED BY <1>1, AdaptiveSafety, PTL

\* A danger that is confirmed is never waited on.
THEOREM AdaptiveDanger == Spec => []DangerIsNotWaitedOn
  <1>1. AdaptiveInv => DangerIsNotWaitedOn
    BY DEF AdaptiveInv, Unconfirmed, DangerIsNotWaitedOn
  <1> QED BY <1>1, AdaptiveSafety, PTL

\* Every step ends the run, starts the next level or gets on within its time.
THEOREM AdaptiveLevels == Spec => LevelsRunOut
  <1> DEFINE GetOn ==
        \/ controller'.phase \in Terminal
        \/ controller'.level = controller.level + 1 /\ controller'.elapsed = 0
        \/ /\ controller'.level = controller.level
           /\ controller.elapsed < controller'.elapsed
           /\ controller'.elapsed < Timeout[controller.level]
  <1>1. AdaptiveInv /\ [Next]_controllerVars => [GetOn]_controllerVars
    <2> SUFFICES ASSUME AdaptiveInv, Next PROVE GetOn
      OBVIOUS
    <2>1. CASE Cleanup BY <2>1, CleanupPreserves
    <2>2. CASE Tick
      <3>1. PICK step \in Steps : GetsOn(controller, controller', controller.elapsed + step)
        BY <2>2, TickPreserves
      <3>2. step \in Nat \ {0} /\ controller.elapsed \in Nat
        BY ControllerAssumption DEF ControllerAssumption, AdaptiveInv, TypeOK, ControllerStates
      <3> QED BY <3>1, <3>2 DEF GetsOn
    <2> QED BY <2>1, <2>2 DEF Next
  <1> QED BY <1>1, AdaptiveSafety, PTL DEF Spec, LevelsRunOut

-----------------------------------------------------------------------------
\* A finite set of natural numbers that is not empty has a least element, and
\* Min is one.
LEMMA FiniteMin ==
    ASSUME NEW S \in SUBSET Nat, IsFiniteSet(S), S # {}
    PROVE  Min(S) \in S /\ \A y \in S : Min(S) <= y
  <1> DEFINE Below(x) == {y \in S : y < x}
             T == {Below(x) : x \in S}
  <1>1. T \subseteq FiniteSubsetsOf(S) /\ T # {}
    <2>1. \A x \in S : Below(x) \in SUBSET S /\ IsFiniteSet(Below(x))
      BY FS_Subset
    <2> QED BY <2>1 DEF FiniteSubsetsOf
  <1>2. PICK b \in T : \A c \in T : ~(<<c, b>> \in StrictSubsetOrdering(S))
    <2> HIDE DEF T
    <2> QED BY <1>1, FS_StrictSubsetOrderingWellFounded, WFMin
  <1>3. PICK x \in S : b = Below(x)
    BY <1>2
  <1>4. ASSUME NEW y \in S PROVE x <= y
    <2> SUFFICES ASSUME y < x PROVE FALSE
      OBVIOUS
    <2>1. Below(y) \in T /\ Below(y) \subseteq S /\ Below(x) \subseteq S
      OBVIOUS
    <2>2. Below(y) \subseteq Below(x) /\ Below(y) # Below(x)
      <3>1. y \in Below(x) /\ y \notin Below(y)
        OBVIOUS
      <3>2. \A z \in S : z < y => z < x
        OBVIOUS
      <3>3. Below(y) \subseteq Below(x)
        BY <3>2
      <3> HIDE DEF Below
      <3> QED BY <3>1, <3>3
    <2>3. <<Below(y), b>> \in StrictSubsetOrdering(S)
      <3> HIDE DEF Below
      <3> QED BY <1>3, <2>1, <2>2 DEF StrictSubsetOrdering
    <2> QED BY <1>2, <2>1, <2>3
  <1> QED BY <1>4 DEF Min

\* And a greatest, and Max is one.
LEMMA FiniteMax ==
    ASSUME NEW S \in SUBSET Nat, IsFiniteSet(S), S # {}
    PROVE  Max(S) \in S /\ \A y \in S : y <= Max(S)
  <1> DEFINE Above(x) == {y \in S : y > x}
             T == {Above(x) : x \in S}
  <1>1. T \subseteq FiniteSubsetsOf(S) /\ T # {}
    <2>1. \A x \in S : Above(x) \in SUBSET S /\ IsFiniteSet(Above(x))
      BY FS_Subset
    <2> QED BY <2>1 DEF FiniteSubsetsOf
  <1>2. PICK b \in T : \A c \in T : ~(<<c, b>> \in StrictSubsetOrdering(S))
    <2> HIDE DEF T
    <2> QED BY <1>1, FS_StrictSubsetOrderingWellFounded, WFMin
  <1>3. PICK x \in S : b = Above(x)
    BY <1>2
  <1>4. ASSUME NEW y \in S PROVE y <= x
    <2> SUFFICES ASSUME y > x PROVE FALSE
      OBVIOUS
    <2>1. Above(y) \in T /\ Above(y) \subseteq S /\ Above(x) \subseteq S
      OBVIOUS
    <2>2. Above(y) \subseteq Above(x) /\ Above(y) # Above(x)
      <3>1. y \in Above(x) /\ y \notin Above(y)
        OBVIOUS
      <3>2. \A z \in S : z > y => z > x
        OBVIOUS
      <3>3. Above(y) \subseteq Above(x)
        BY <3>2
      <3> HIDE DEF Above
      <3> QED BY <3>1, <3>3
    <2>3. <<Above(y), b>> \in StrictSubsetOrdering(S)
      <3> HIDE DEF Above
      <3> QED BY <1>3, <2>1, <2>2 DEF StrictSubsetOrdering
    <2> QED BY <1>2, <2>1, <2>3
  <1> QED BY <1>4 DEF Max

-----------------------------------------------------------------------------
\* Of the signals of a gate, what the proofs need.
LEMMA GateFacts ==
    ASSUME plan \in Plans, NEW g \in Gates
    PROVE  /\ GateConds[g] \subseteq Conditions /\ IsFiniteSet(GateConds[g])
           /\ \A c \in GateConds[g] : Interval[c] \in Nat
           /\ GateMatch[g] \in {"all", "any"}
  <1>1. /\ IsFiniteSet(ConditionsOf(plan)) /\ plan.match \in [Gates -> {"all", "any"}]
        /\ plan.interval \in [ConditionsOf(plan) -> Nat]
    BY ControllerAssumption DEF ControllerAssumption
  <1>2. plan.conds[g] \subseteq ConditionsOf(plan)
    BY DEF ConditionsOf
  <1>3. IsFiniteSet(plan.conds[g])
    BY <1>1, <1>2, FS_Subset
  <1> QED BY <1>1, <1>2, <1>3 DEF GateConds, GateMatch, Interval, Conditions

\* What a finite set of signals is read in, is a finite set of times.
LEMMA TimesFinite ==
    ASSUME NEW C, IsFiniteSet(C), C # {}, NEW f \in [C -> Nat]
    PROVE  LET times == {f[c] : c \in C}
           IN  times \in SUBSET Nat /\ times # {} /\ IsFiniteSet(times)
  <1> DEFINE times == {f[c] : c \in C}
  <1>1. f \in Surjection(C, times)
    BY DEF Surjection
  <1>2. IsFiniteSet(times)
    BY <1>1, FS_Surjection
  <1> QED BY <1>2

\* The time between two samples of a gate.
LEMMA SampleGapFacts ==
    ASSUME plan \in Plans, NEW g \in Gates
    PROVE  /\ SampleGap(g) \in Nat
           /\ GateMatch[g] = "all" => \A c \in GateConds[g] : Interval[c] <= SampleGap(g)
           /\ GateMatch[g] # "all" => \A c \in GateConds[g] : SampleGap(g) <= Interval[c]
  <1>1. CASE GateConds[g] = {}
    BY <1>1 DEF SampleGap
  <1>2. CASE GateConds[g] # {}
    <2> DEFINE f == [c \in GateConds[g] |-> Interval[c]]
               times == {f[c] : c \in GateConds[g]}
    <2>1. f \in [GateConds[g] -> Nat]
      BY GateFacts
    <2>2. times = {Interval[c] : c \in GateConds[g]}
      OBVIOUS
    <2>3. times \in SUBSET Nat /\ times # {} /\ IsFiniteSet(times)
      <3> HIDE DEF f
      <3> QED BY <1>2, <2>1, GateFacts, TimesFinite
    <2>4. \A c \in GateConds[g] : Interval[c] \in times
      BY <2>2
    <2> HIDE DEF times, f
    <2>5. /\ Max(times) \in Nat /\ \A y \in times : y <= Max(times)
          /\ Min(times) \in Nat /\ \A y \in times : Min(times) <= y
      BY <2>3, FiniteMax, FiniteMin
    <2>6. SampleGap(g) = IF GateMatch[g] = "all" THEN Max(times) ELSE Min(times)
      BY <1>2, <2>2 DEF SampleGap
    <2> QED BY <2>4, <2>5, <2>6
  <1> QED BY <1>1, <1>2

\* A gate that matches counts no quicker than its signals renew, and one that
\* cannot be told holds no longer than they take.
LEMMA IndependenceFacts ==
    ASSUME plan \in Plans, NEW g \in Gates, NEW s \in Readings
    PROVE  /\ IndependenceSec(g, s) \in Nat
           /\ Matches(g, s) = "true" => SampleGap(g) <= IndependenceSec(g, s)
           /\ Matches(g, s) = "unknown" => IndependenceSec(g, s) <= SampleGap(g)
  <1> DEFINE C == Carrying(g, s)
  <1>1. C \subseteq GateConds[g] /\ SampleGap(g) \in Nat
    BY SampleGapFacts DEF Carrying
  <1>2. CASE C = {}
    <2>1. IndependenceSec(g, s) = 0
      BY <1>2 DEF IndependenceSec
    <2>2. Matches(g, s) # "true"
      BY <1>2, GateFacts DEF Carrying, Matches
    <2> QED BY <1>1, <2>1, <2>2
  <1>3. CASE C # {}
    <2> DEFINE f == [c \in C |-> UpdateInterval(c, s)]
               times == {f[c] : c \in C}
    <2>1. f \in [C -> Nat] /\ IsFiniteSet(C)
      BY <1>1, GateFacts, FS_Subset DEF UpdateInterval
    <2>2. times = {UpdateInterval(c, s) : c \in C}
      OBVIOUS
    <2>3. times \in SUBSET Nat /\ times # {} /\ IsFiniteSet(times)
      <3> HIDE DEF f, C
      <3> QED BY <1>3, <2>1, TimesFinite
    <2>4. /\ \A c \in C : UpdateInterval(c, s) \in times
          /\ \A t \in times : \E c \in C : t = UpdateInterval(c, s)
      BY <2>2
    <2>5. IndependenceSec(g, s) = IF GateMatch[g] = "all" THEN Max(times) ELSE Min(times)
      BY <1>3, <2>2 DEF IndependenceSec
    <2> HIDE DEF times, f, C
    <2>6. /\ Max(times) \in times /\ \A y \in times : y <= Max(times)
          /\ Min(times) \in times /\ \A y \in times : Min(times) <= y
      BY <2>3, FiniteMax, FiniteMin
    <2>7. IndependenceSec(g, s) \in times /\ IndependenceSec(g, s) \in Nat
      BY <2>3, <2>5, <2>6
    <2>8. PICK slowest \in C : IndependenceSec(g, s) = UpdateInterval(slowest, s)
      BY <2>4, <2>7
    <2>9. CASE GateMatch[g] = "all"
      <3>1. C = GateConds[g]
        BY <2>9 DEF C, Carrying
      <3>2. UpdateInterval(slowest, s) <= SampleGap(g)
        BY <1>1, <2>9, <3>1, SampleGapFacts DEF UpdateInterval
      <3>3. ASSUME Matches(g, s) = "true" PROVE SampleGap(g) <= IndependenceSec(g, s)
        <4>1. \A c \in C : UpdateInterval(c, s) = Interval[c]
          BY <2>9, <3>1, <3>3 DEF UpdateInterval, Matches
        <4>2. times = {Interval[c] : c \in GateConds[g]}
          BY <2>2, <3>1, <4>1 DEF f, times
        <4> QED BY <1>3, <2>5, <2>7, <2>9, <3>1, <4>2 DEF SampleGap
      <3> QED BY <2>7, <2>8, <3>2, <3>3
    <2>10. CASE GateMatch[g] # "all"
      <3>1. s[slowest] = "true"
        BY <2>10 DEF C, Carrying
      <3>2. Matches(g, s) # "unknown"
        BY <1>1, <2>10, <3>1 DEF Matches
      <3>3. SampleGap(g) <= UpdateInterval(slowest, s)
        BY <1>1, <2>10, <3>1, SampleGapFacts DEF UpdateInterval
      <3> QED BY <2>7, <2>8, <3>2, <3>3
    <2> QED BY <2>9, <2>10
  <1> QED BY <1>2, <1>3

-----------------------------------------------------------------------------
\* What a streak says: its samples are a gap apart, the first of them not
\* before `from` and the last not after `e`.
Spaced(k, g, from, e) ==
    k.n > 0 => k.at <= e /\ from <= k.at /\ (k.n - 1) * SampleGap(g) <= k.at - from
\* How long one that cannot be told has been held.
HeldFor(k, e, s) ==
    k.n > 0 /\ Matches("success", s) = "unknown"
        => e - k.at <= UnknownHoldFactor * SampleGap("success")

\* A tick counts a sample a gap after the one before, or none.
LEMMA UpdatedSpaced ==
    ASSUME plan \in Plans, NEW g \in Gates, NEW s \in Readings, NEW k \in Streaks,
           NEW from \in Nat, NEW e0 \in Nat, NEW e \in Nat, e0 <= e, from <= e,
           Spaced(k, g, from, e0)
    PROVE  Spaced(Updated(k, g, e, s), g, from, e)
  <1> DEFINE gap == SampleGap(g)
             r == Updated(k, g, e, s)
  <1>1. gap \in Nat /\ IndependenceSec(g, s) \in Nat /\ k.n \in Nat /\ k.at \in Nat
    BY SampleGapFacts, IndependenceFacts DEF Streaks
  <1>2. CASE r = NoStreak
    BY <1>2 DEF NoStreak, Spaced
  <1>3. CASE r = k
    BY <1>1, <1>3 DEF Spaced
  <1>4. CASE r = [n |-> 1, at |-> e]
    <2>1. r.n = 1 /\ r.at = e
      BY <1>4
    <2>2. (1 - 1) * gap = 0
      BY <1>1
    <2> QED BY <2>1, <2>2 DEF Spaced
  <1>5. CASE /\ r = [n |-> k.n + 1, at |-> e] /\ k.n > 0
             /\ Matches(g, s) = "true" /\ e - k.at >= IndependenceSec(g, s)
    <2>1. r.n = k.n + 1 /\ r.at = e
      BY <1>5
    <2>2. gap <= e - k.at
      <3>1. gap <= IndependenceSec(g, s)
        BY <1>5, IndependenceFacts
      <3> QED BY <1>1, <1>5, <3>1
    <2>3. (k.n - 1) * gap <= k.at - from /\ from <= k.at
      BY <1>5 DEF Spaced
    <2> HIDE DEF r
    <2> DEFINE before == (k.n - 1) * gap
               after == (r.n - 1) * gap
    <2>4. after = before + gap /\ before \in Int
      <3>1. (k.n + 1 - 1) * gap = (k.n - 1) * gap + gap /\ (k.n - 1) * gap \in Int
        BY <1>1
      <3>2. r.n - 1 = k.n + 1 - 1
        BY <1>1, <2>1
      <3> HIDE DEF gap
      <3>3. after = (k.n + 1 - 1) * gap
        BY <3>2
      <3> QED BY <3>1, <3>3
    <2>5. before <= k.at - from
      BY <2>3
    <2> HIDE DEF before, after
    <2>6. after <= r.at - from /\ r.at <= e /\ from <= r.at
      BY <1>1, <2>1, <2>2, <2>4, <2>5
    <2> QED BY <2>6 DEF Spaced, after, r
  <1> QED BY <1>1, <1>2, <1>3, <1>4, <1>5 DEF Updated

\* A tick that cannot tell success keeps what was seen for a limited time.
LEMMA UpdatedHeld ==
    ASSUME plan \in Plans, NEW s \in Readings, NEW k \in Streaks, NEW e \in Nat
    PROVE  HeldFor(Updated(k, "success", e, s), e, s)
  <1> DEFINE r == Updated(k, "success", e, s)
  <1> SUFFICES ASSUME r.n > 0, Matches("success", s) = "unknown"
               PROVE  e - r.at <= UnknownHoldFactor * SampleGap("success")
    BY DEF HeldFor
  <1>1. /\ SampleGap("success") \in Nat /\ IndependenceSec("success", s) \in Nat
        /\ IndependenceSec("success", s) <= SampleGap("success")
    BY SampleGapFacts, IndependenceFacts DEF Gates
  <1>2. r = k /\ e - k.at <= UnknownHoldFactor * IndependenceSec("success", s)
    BY DEF Updated, NoStreak
  <1>3. k.at \in Nat
    BY DEF Streaks
  <1> QED BY <1>1, <1>2, <1>3 DEF UnknownHoldFactor

-----------------------------------------------------------------------------
\* What the streaks of a controller say: their samples are a gap apart; those
\* of the veto and the escalation were seen after the hold, unless the run was
\* ended by the abort gate; and an unfinished run holds what it cannot tell for
\* a limited time.
HoldOf(l) == Max({Settle[l], MinHold[l]})
Excused == {"abort_condition", "cleanup_failed"}
AllSpaced(d) == \A g \in Gates : Spaced(d.streaks[g], g, 0, d.elapsed)
PendingSpaced(d) ==
    \A g \in {"must_rule_out", "escalate"} :
        Spaced(d.streaks[g], g, HoldOf(d.level), d.elapsed)
Evidence(d, s) ==
    /\ AllSpaced(d)
    /\ d.reason \notin Excused => PendingSpaced(d)
    /\ d.phase \notin Terminal =>
          d.reason \notin Excused /\ HeldFor(d.streaks["success"], d.elapsed, s)

LEMMA HoldFacts ==
    ASSUME plan \in Plans, NEW l \in LevelIndex
    PROVE  /\ HoldOf(l) \in Nat
           /\ \A e \in Nat : e >= Settle[l] /\ e >= MinHold[l] => HoldOf(l) <= e
  <1> DEFINE both == {Settle[l], MinHold[l]}
  <1>1. Settle[l] \in Nat /\ MinHold[l] \in Nat
    BY PlanFacts
  <1>2. IsFiniteSet(both)
    <2>1. IsFiniteSet({Settle[l]})
      BY FS_Singleton
    <2>2. both = {Settle[l]} \cup {MinHold[l]}
      OBVIOUS
    <2> QED BY <2>1, <2>2, FS_AddElement
  <1>3. Max(both) \in both
    <2> HIDE DEF both
    <2>1. both \in SUBSET Nat /\ both # {}
      BY <1>1 DEF both
    <2> QED BY <1>2, <2>1, FiniteMax
  <1> QED BY <1>1, <1>3 DEF HoldOf

\* A transition keeps the streaks.
LEMMA ToEvidence ==
    ASSUME plan \in Plans, NEW d \in ControllerStates, NEW s,
           AllSpaced(d), NEW p \in Phases, NEW a \in Actions, NEW r \in Reasons,
           r \notin Excused => PendingSpaced(d),
           p \notin Terminal =>
               r \notin Excused /\ HeldFor(d.streaks["success"], d.elapsed, s)
    PROVE  Evidence(To(d, p, a, r), s)
  <1> DEFINE t == To(d, p, a, r)
  <1>1. t.phase = p /\ t.level = d.level /\ t.elapsed = d.elapsed /\ t.streaks = d.streaks
    BY ToFacts
  <1>2. t.reason = r
    BY DEF To, ControllerStates
  <1> HIDE DEF t
  <1>3. Evidence(t, s)
    BY <1>1, <1>2 DEF Evidence, AllSpaced, PendingSpaced
  <1> QED BY <1>3 DEF t

\* A level starts with no sample.
LEMMA AtLevelEvidence ==
    ASSUME NEW l, NEW a, NEW r \in Reasons \ Excused, NEW s
    PROVE  Evidence(AtLevel(l, a, r), s)
  <1> DEFINE d == AtLevel(l, a, r)
  <1>1. d.reason = r /\ \A g \in Gates : d.streaks[g].n = 0
    BY DEF AtLevel, NoStreak
  <1> HIDE DEF d
  <1>2. Evidence(d, s)
    BY <1>1 DEF Evidence, AllSpaced, PendingSpaced, Spaced, HeldFor, Gates
  <1> QED BY <1>2 DEF d

LEMMA EscalateEvidence ==
    ASSUME plan \in Plans, NEW d \in ControllerStates, NEW s, AllSpaced(d), PendingSpaced(d),
           NEW reason \in Reasons \ Excused
    PROVE  Evidence(EscalateOrFail(d, reason), s)
  <1>1. /\ "failed" \in Phases /\ "failed" \in Terminal /\ "fail" \in Actions
        /\ {"evaluation_level_insufficient", "calibration_levels_exhausted"} \subseteq Reasons
    BY DEF Phases, Terminal, Actions, Reasons
  <1> QED BY <1>1, ToEvidence, AtLevelEvidence DEF EscalateOrFail

LEMMA TimedOutEvidence ==
    ASSUME plan \in Plans, NEW d \in ControllerStates, NEW s, AllSpaced(d), PendingSpaced(d),
           NEW unknown \in BOOLEAN, NEW pending \in BOOLEAN
    PROVE  Evidence(TimedOut(d, unknown, pending), s)
  <1>1. /\ {"failed", "aborted"} \subseteq Phases /\ {"failed", "aborted"} \subseteq Terminal
        /\ {"fail", "abort"} \subseteq Actions
        /\ {"safety_observation_unavailable", "safety_condition_unresolved",
            "evaluation_level_timeout"} \subseteq Reasons
        /\ "level_timeout" \in Reasons \ Excused
    BY DEF Phases, Terminal, Actions, Reasons, Excused
  <1> QED BY <1>1, ToEvidence, EscalateEvidence DEF TimedOut

LEMMA DecideEvidence ==
    ASSUME plan \in Plans, NEW d \in ControllerStates, NEW e \in Nat, NEW s,
           d.elapsed = e, AllSpaced(d), PendingSpaced(d),
           HeldFor(d.streaks["success"], e, s)
    PROVE  Evidence(Decide(d, e, s), s)
  <1>1. /\ {"aborted", "succeeded", "evaluating"} \subseteq Phases
        /\ {"aborted", "succeeded"} \subseteq Terminal
        /\ {"abort", "succeed", "wait"} \subseteq Actions
        /\ {"must_rule_out_detected", "success", "conditions_pending",
            "safety_observation_pending"} \subseteq Reasons
        /\ "escalate_condition" \in Reasons \ Excused
        /\ {"conditions_pending", "safety_observation_pending"} \cap Excused = {}
    BY DEF Phases, Terminal, Actions, Reasons, Excused
  <1>2. SafetyUnknown(s) \in BOOLEAN /\ SafetyPending(s) \in BOOLEAN
    BY DEF SafetyUnknown, SafetyPending, HasUnusable
  <1>3. Evidence(TimedOut(d, SafetyUnknown(s), SafetyPending(s)), s)
    BY <1>2, TimedOutEvidence
  <1>4. Evidence(EscalateOrFail(d, "escalate_condition"), s)
    BY <1>1, EscalateEvidence
  <1>5. /\ Evidence(To(d, "aborted", "abort", "must_rule_out_detected"), s)
        /\ Evidence(To(d, "succeeded", "succeed", "success"), s)
    BY <1>1, ToEvidence
  <1>6. \A r \in {"conditions_pending", "safety_observation_pending"} :
          Evidence(To(d, "evaluating", "wait", r), s)
    BY <1>1, ToEvidence
  <1> QED BY <1>3, <1>4, <1>5, <1>6 DEF Decide

\* One tick, for every plan, state and reading.
LEMMA AdvanceEvidence ==
    ASSUME plan \in Plans, NEW c \in ControllerStates, c.phase \notin Terminal,
           NEW s0, Evidence(c, s0), NEW e \in Nat, c.elapsed <= e, NEW s \in Readings
    PROVE  Evidence(Advance(c, e, s), s)
  <1> DEFINE updated == [g \in Gates |-> Updated(c.streaks[g], g, e, s)]
             d == [c EXCEPT !.elapsed = e, !.streaks = updated]
             early == [d EXCEPT !.streaks = DropPending(d.streaks)]
  <1>1. updated \in [Gates -> Streaks]
    BY UpdatedType DEF ControllerStates
  <1>2. Advance(c, e, s) =
          IF Confirmed("abort", d.streaks) THEN To(d, "aborted", "abort", "abort_condition")
          ELSE IF e < Settle[d.level] THEN To(early, "settling", "wait", "settling")
          ELSE IF e < MinHold[d.level] THEN To(early, "evaluating", "wait", "min_hold")
          ELSE Decide(d, e, s)
    BY DEF Advance
  <1>3. \A g \in Gates : updated[g] = Updated(c.streaks[g], g, e, s)
    OBVIOUS
  <1> HIDE DEF updated
  <1>4. /\ d \in ControllerStates /\ d.elapsed = e /\ d.level = c.level /\ d.streaks = updated
        /\ d.level \in LevelIndex
    BY <1>1 DEF ControllerStates
  <1>5. /\ c.streaks \in [Gates -> Streaks] /\ c.elapsed \in Nat
        /\ \A g \in Gates : Spaced(c.streaks[g], g, 0, c.elapsed)
        /\ \A g \in {"must_rule_out", "escalate"} :
              Spaced(c.streaks[g], g, HoldOf(c.level), c.elapsed)
    BY DEF ControllerStates, Evidence, AllSpaced, PendingSpaced
  <1>6. /\ Settle[c.level] \in Nat /\ MinHold[c.level] \in Nat /\ HoldOf(c.level) \in Nat
        /\ e >= Settle[c.level] /\ e >= MinHold[c.level] => HoldOf(c.level) <= e
    BY <1>4, PlanFacts, HoldFacts
  <1> HIDE DEF d
  <1>7. AllSpaced(d)
    <2>1. \A g \in Gates : Spaced(updated[g], g, 0, e)
      BY <1>3, <1>5, UpdatedSpaced
    <2> QED BY <1>4, <2>1 DEF AllSpaced
  <1>8. HeldFor(d.streaks["success"], e, s)
    <2>1. "success" \in Gates
      BY DEF Gates
    <2>2. c.streaks["success"] \in Streaks
      BY <1>5, <2>1
    <2> QED BY <1>3, <1>4, <2>1, <2>2, UpdatedHeld
  <1>9. ASSUME HoldOf(c.level) <= e PROVE PendingSpaced(d)
    <2>1. {"must_rule_out", "escalate"} \subseteq Gates
      BY DEF Gates
    <2>2. \A g \in {"must_rule_out", "escalate"} : Spaced(updated[g], g, HoldOf(c.level), e)
      BY <1>3, <1>5, <1>6, <1>9, <2>1, UpdatedSpaced
    <2> QED BY <1>4, <2>2 DEF PendingSpaced
  <1>10. DropPending(d.streaks) \in [Gates -> Streaks]
    BY <1>1, <1>4, DropPendingFacts
  <1>11. /\ early \in ControllerStates /\ early.elapsed = e /\ early.level = c.level
         /\ early.streaks = DropPending(d.streaks)
    BY <1>4, <1>10 DEF ControllerStates
  <1> HIDE DEF early
  <1>12. /\ early.streaks["must_rule_out"].n = 0 /\ early.streaks["escalate"].n = 0
         /\ \A g \in Gates \ {"must_rule_out", "escalate"} : early.streaks[g] = d.streaks[g]
    BY <1>11 DEF DropPending, NoStreak, Gates
  <1>13. /\ AllSpaced(early) /\ PendingSpaced(early)
         /\ HeldFor(early.streaks["success"], e, s)
    <2>1. early.streaks["success"] = d.streaks["success"]
      BY <1>12 DEF Gates
    <2>2. PendingSpaced(early)
      BY <1>12 DEF PendingSpaced, Spaced
    <2>3. AllSpaced(early)
      BY <1>4, <1>7, <1>11, <1>12 DEF AllSpaced, Spaced
    <2> QED BY <1>8, <2>1, <2>2, <2>3
  <1>14. /\ {"aborted", "settling", "evaluating"} \subseteq Phases /\ "aborted" \in Terminal
         /\ {"abort", "wait"} \subseteq Actions
         /\ {"abort_condition", "settling", "min_hold"} \subseteq Reasons
         /\ "abort_condition" \in Excused /\ {"settling", "min_hold"} \cap Excused = {}
    BY DEF Phases, Terminal, Actions, Reasons, Excused
  <1>15. Evidence(To(d, "aborted", "abort", "abort_condition"), s)
    BY <1>4, <1>7, <1>14, ToEvidence
  <1>16. /\ Evidence(To(early, "settling", "wait", "settling"), s)
         /\ Evidence(To(early, "evaluating", "wait", "min_hold"), s)
    BY <1>11, <1>13, <1>14, ToEvidence
  <1>17. ASSUME e >= Settle[c.level], e >= MinHold[c.level] PROVE Evidence(Decide(d, e, s), s)
    BY <1>4, <1>6, <1>7, <1>8, <1>9, <1>17, DecideEvidence
  <1> QED BY <1>2, <1>4, <1>6, <1>15, <1>16, <1>17

-----------------------------------------------------------------------------
LEMMA EvidenceKept ==
    ASSUME plan' = plan
    PROVE  Evidence(controller, signals)' <=> Evidence(controller', signals')
  <1>1. /\ \A g : SampleGap(g)' = SampleGap(g)
        /\ \A l : HoldOf(l)' = HoldOf(l)
    BY DEF SampleGap, HoldOf, GateConds, GateMatch, Interval, Settle, MinHold
  <1>2. (Matches("success", signals))' = Matches("success", signals')
    BY DEF Matches, GateConds, GateMatch
  <1>3. AllSpaced(controller)' <=> AllSpaced(controller')
    BY <1>1 DEF AllSpaced, Spaced
  <1>4. PendingSpaced(controller)' <=> PendingSpaced(controller')
    BY <1>1 DEF PendingSpaced, Spaced
  <1>5. HeldFor(controller.streaks["success"], controller.elapsed, signals)' <=>
        HeldFor(controller'.streaks["success"], controller'.elapsed, signals')
    BY <1>1, <1>2 DEF HeldFor
  <1> QED BY <1>3, <1>4, <1>5 DEF Evidence

LEMMA InitEvidence == Init => Evidence(controller, signals)
  <1>1. "level_started" \in Reasons \ Excused
    BY DEF Reasons, Excused
  <1> QED BY <1>1, AtLevelEvidence DEF Init, Start

LEMMA TickEvidence ==
    ASSUME AdaptiveInv, Evidence(controller, signals), Tick
    PROVE  Evidence(controller, signals)'
  <1>1. PICK step \in Steps :
          controller' = Advance(controller, controller.elapsed + step, signals')
    BY DEF Tick
  <1>2. /\ plan \in Plans /\ controller \in ControllerStates /\ controller.phase \notin Terminal
        /\ controller.elapsed + step \in Nat /\ controller.elapsed <= controller.elapsed + step
        /\ plan' = plan /\ signals' \in Readings
    <2>1. step \in Nat /\ controller.elapsed \in Nat
      BY ControllerAssumption DEF ControllerAssumption, AdaptiveInv, TypeOK, ControllerStates
    <2>2. signals' \in Readings /\ plan' = plan
      BY DEF Tick
    <2> QED BY <2>1, <2>2 DEF AdaptiveInv, TypeOK, Tick
  <1>3. Evidence(controller', signals')
    BY <1>1, <1>2, AdvanceEvidence
  <1> QED BY <1>2, <1>3, EvidenceKept

LEMMA CleanupEvidence ==
    ASSUME AdaptiveInv, Evidence(controller, signals), Cleanup
    PROVE  Evidence(controller, signals)'
  <1>1. PICK succeeded \in BOOLEAN : controller' = Finalize(controller, succeeded)
    BY DEF Cleanup
  <1>2. controller \in ControllerStates /\ controller.phase \in Terminal /\ plan' = plan
    BY DEF AdaptiveInv, TypeOK, Cleanup
  <1>3. /\ controller'.streaks = controller.streaks /\ controller'.level = controller.level
        /\ controller'.elapsed = controller.elapsed /\ controller'.phase \in Terminal
        /\ controller'.reason \in {controller.reason, "cleanup_failed"}
    BY <1>1, <1>2 DEF Finalize, To, ControllerStates, Terminal
  <1>4. Evidence(controller', signals')
    BY <1>3 DEF Evidence, AllSpaced, PendingSpaced, Excused
  <1> QED BY <1>2, <1>4, EvidenceKept

\* What the streaks say is so in every state, for every plan and observation.
THEOREM AdaptiveEvidence == Spec => [](AdaptiveInv /\ Evidence(controller, signals))
  <1>1. Init => Evidence(controller, signals)
    BY InitEvidence
  <1>2. AdaptiveInv /\ Evidence(controller, signals) /\ [Next]_controllerVars
          => Evidence(controller, signals)'
    <2> SUFFICES ASSUME AdaptiveInv, Evidence(controller, signals), [Next]_controllerVars
                 PROVE  Evidence(controller, signals)'
      OBVIOUS
    <2>1. CASE Tick BY <2>1, TickEvidence
    <2>2. CASE Cleanup BY <2>2, CleanupEvidence
    <2>3. CASE UNCHANGED controllerVars
      BY <2>3, EvidenceKept DEF controllerVars
    <2> QED BY <2>1, <2>2, <2>3 DEF Next
  <1> QED BY <1>1, <1>2, AdaptiveSafety, PTL DEF Spec

\* consecutive_ticks counts observations of the source, not readings of the
\* same one: n samples of a gate have taken n - 1 of its intervals.
THEOREM SamplesAreSpaced == Spec => []SamplesAreIndependent
  <1>1. AdaptiveInv /\ Evidence(controller, signals) => SamplesAreIndependent
    <2> SUFFICES ASSUME AdaptiveInv, Evidence(controller, signals), NEW g \in Gates,
                        controller.streaks[g].n > 0
                 PROVE  LET k == controller.streaks[g]
                        IN  k.at <= controller.elapsed /\ (k.n - 1) * SampleGap(g) <= k.at
      BY DEF SamplesAreIndependent
    <2>1. controller.streaks[g].at \in Nat
      BY DEF AdaptiveInv, TypeOK, ControllerStates, Streaks
    <2>2. Spaced(controller.streaks[g], g, 0, controller.elapsed)
      BY DEF Evidence, AllSpaced
    <2>3. controller.streaks[g].at - 0 = controller.streaks[g].at
      BY <2>1
    <2> QED BY <2>2, <2>3 DEF Spaced
  <1> QED BY <1>1, AdaptiveEvidence, PTL

\* The veto and the escalation are carried by what was seen after min_hold, in
\* every run the abort gate did not end.
THEOREM PendingIsSeenAfterTheHold == Spec => []PendingEvidenceIsPostHold
  <1>1. AdaptiveInv /\ Evidence(controller, signals) => PendingEvidenceIsPostHold
    <2> SUFFICES ASSUME AdaptiveInv, Evidence(controller, signals),
                        NEW g \in {"must_rule_out", "escalate"}, controller.streaks[g].n > 0,
                        controller.reason \notin {"abort_condition", "cleanup_failed"}
                 PROVE  LET k == controller.streaks[g]
                        IN  k.at >= Hold /\ (k.n - 1) * SampleGap(g) <= k.at - Hold
      BY DEF PendingEvidenceIsPostHold
    <2>1. Spaced(controller.streaks[g], g, HoldOf(controller.level), controller.elapsed)
      BY DEF Evidence, PendingSpaced, Excused
    <2>2. Hold = HoldOf(controller.level)
      BY DEF Hold, HoldOf
    <2>3. HoldOf(controller.level) \in Nat /\ controller.streaks[g].at \in Nat
      BY HoldFacts DEF AdaptiveInv, TypeOK, ControllerStates, Streaks, Gates
    <2> QED BY <2>1, <2>2, <2>3 DEF Spaced
  <1> QED BY <1>1, AdaptiveEvidence, PTL

\* Evidence of success is held through unreadable samples for at most twice the
\* time its signals take to renew.
THEOREM SuccessIsHeldForLimitedTime == Spec => []HeldEvidenceIsBounded
  <1>1. AdaptiveInv /\ Evidence(controller, signals) => HeldEvidenceIsBounded
    BY DEF Evidence, HeldFor, HeldEvidenceIsBounded
  <1> QED BY <1>1, AdaptiveEvidence, PTL
=============================================================================
