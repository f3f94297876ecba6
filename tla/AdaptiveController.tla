------------------------- MODULE AdaptiveController -------------------------
(***************************************************************************)
(* The adaptive scenario controller (backend/app/adaptive.py): a pure      *)
(* state machine that is shown one observation per tick and decides        *)
(* whether the injected level has shown its effect, should be stepped up,  *)
(* or must be given up.  A condition is a signal compared with a value:    *)
(* all the controller sees of it in a tick is whether it holds, does not   *)
(* hold, or cannot be told.  Advance is the function `advance`; the        *)
(* specification drives it the way its callers do, with any readings at    *)
(* any times that do not go back.                                          *)
(***************************************************************************)
EXTENDS Integers, FiniteSetsExt

CONSTANTS
    Plans, \* the adaptive specifications a run may be given, see ControllerAssumption
    Steps  \* bound of the model: seconds that may pass between two ticks

VARIABLES
    plan,       \* the AdaptiveSpec of the run
    controller, \* the ControllerState
    signals     \* the readings of the last tick

controllerVars == <<plan, controller, signals>>

Gates == {"abort", "must_rule_out", "success", "escalate"}

\* Of a plan: the mode; the number of levels, and of each level the settling
\* time, the least hold and the timeout in seconds; of each gate its conditions
\* ({} when it has none), whether all or any of them must match, and
\* consecutive_ticks; and the seconds between new samples of each condition's
\* signal.  The validators of AdaptiveSpec refuse everything else.
ConditionsOf(p) == UNION {p.conds[g] : g \in Gates}
ControllerAssumption ==
    /\ Steps \subseteq Nat \ {0}
    /\ \A p \in Plans :
        LET levels == 0..(p.levels - 1)
        IN  /\ p.mode \in {"calibration", "evaluation"} /\ p.levels \in Nat \ {0}
            /\ DOMAIN p.conds = Gates /\ IsFiniteSet(ConditionsOf(p))
            /\ p.conds["must_rule_out"] # {} /\ p.conds["success"] # {}
            /\ p.match \in [Gates -> {"all", "any"}]
            /\ p.ticks \in [Gates -> Nat \ {0}]
            /\ p.interval \in [ConditionsOf(p) -> Nat]
            /\ p.mode = "evaluation" => p.levels = 1
            /\ p.mode = "calibration" /\ p.levels > 1 => p.conds["escalate"] # {}
            /\ p.settle \in [levels -> Nat] /\ p.minHold \in [levels -> Nat]
            /\ p.timeout \in [levels -> Nat \ {0}]
            /\ \A l \in levels : p.timeout[l] >= p.settle[l] /\ p.timeout[l] >= p.minHold[l]
ASSUME ControllerAssumption

Mode == plan.mode
Levels == plan.levels
LevelIndex == 0..(Levels - 1)
Settle == plan.settle
MinHold == plan.minHold
Timeout == plan.timeout
GateConds == plan.conds
GateMatch == plan.match
GateTicks == plan.ticks
Conditions == ConditionsOf(plan)
Interval == plan.interval

HoldOnUnknown == {"success"}
UnknownHoldFactor == 2

\* A reading that cannot be used is "unusable" or, when the reader of its
\* signal raised, "raised": then it comes without the signal's interval, which
\* only the gates that are held on unknown look at.
Unreadable == {"unusable", "raised"}
Readings ==
    {s \in [Conditions -> {"true", "false"} \cup Unreadable] :
        \A c \in Conditions :
            s[c] = "raised" => \E g \in HoldOnUnknown : c \in GateConds[g]}

-----------------------------------------------------------------------------
\* _matches: three-valued; a reading that decides the gate decides it even
\* when others cannot be read.
Matches(g, s) ==
    LET decisive == IF GateMatch[g] = "all" THEN "false" ELSE "true"
        agreeing == IF GateMatch[g] = "all" THEN "true" ELSE "false"
    IN  IF \E c \in GateConds[g] : s[c] = decisive THEN decisive
        ELSE IF GateConds[g] # {} /\ \A c \in GateConds[g] : s[c] = agreeing THEN agreeing
        ELSE "unknown"

\* _independence_sec: an "all" gate is as slow as its slowest signal, an "any"
\* gate as quick as the quickest one that carries it.
Carrying(g, s) == {c \in GateConds[g] : GateMatch[g] = "all" \/ s[c] = "true"}
UpdateInterval(c, s) == IF s[c] = "raised" THEN 0 ELSE Interval[c]
IndependenceSec(g, s) ==
    IF Carrying(g, s) = {} THEN 0
    ELSE IF GateMatch[g] = "all" THEN Max({UpdateInterval(c, s) : c \in Carrying(g, s)})
    ELSE Min({UpdateInterval(c, s) : c \in Carrying(g, s)})

HasUnusable(g, s) == \E c \in GateConds[g] : s[c] \in Unreadable

\* A streak: how many independent samples in a row, and when the last of them
\* was counted.
NoStreak == [n |-> 0, at |-> 0]
\* Mutant: every tick that matches counts, new sample or not.
UpdatedCountingTicks(k, g, e, s) ==
    CASE Matches(g, s) = "true" -> [n |-> k.n + 1, at |-> e]
      [] Matches(g, s) = "unknown" /\ g \in HoldOnUnknown -> k
      [] OTHER -> NoStreak

\* Mutant: what was seen of success is held however long nothing is read.
UpdatedHoldingForEver(k, g, e, s) ==
    CASE Matches(g, s) = "true" /\ k.n = 0 -> [n |-> 1, at |-> e]
      [] Matches(g, s) = "true" /\ k.n > 0 ->
           IF e - k.at >= IndependenceSec(g, s) THEN [n |-> k.n + 1, at |-> e] ELSE k
      [] Matches(g, s) = "unknown" /\ g \in HoldOnUnknown -> k
      [] OTHER -> NoStreak

\* _updated_streaks, for one gate.
Updated(k, g, e, s) ==
    CASE Matches(g, s) = "true" /\ k.n = 0 -> [n |-> 1, at |-> e]
      [] Matches(g, s) = "true" /\ k.n > 0 ->
           IF e - k.at >= IndependenceSec(g, s) THEN [n |-> k.n + 1, at |-> e] ELSE k
      [] Matches(g, s) = "unknown" /\ g \in HoldOnUnknown ->
           IF e - k.at <= UnknownHoldFactor * IndependenceSec(g, s) THEN k ELSE NoStreak
      [] OTHER -> NoStreak

Confirmed(g, streaks) == GateConds[g] # {} /\ streaks[g].n >= GateTicks[g]

\* Mutant: the evidence of the settling injection is kept.
DropPendingNothing(streaks) == streaks

\* _drop_pending_streaks.
DropPending(streaks) ==
    [g \in Gates |-> IF g \in {"must_rule_out", "escalate"} THEN NoStreak ELSE streaks[g]]

-----------------------------------------------------------------------------
Terminal == {"succeeded", "failed", "aborted", "dirty"}

\* ControllerState at the start of a level: nothing has been seen of it.
AtLevel(l, action, reason) ==
    [phase |-> "settling", level |-> l, elapsed |-> 0,
     streaks |-> [g \in Gates |-> NoStreak], action |-> action, reason |-> reason]
Start == AtLevel(0, "start", "level_started")

To(c, phase, action, reason) ==
    [c EXCEPT !.phase = phase, !.action = action, !.reason = reason]

\* Mutant: past the last level comes the first.
EscalateOrFailWrapping(c, reason) ==
    IF Mode = "evaluation" THEN To(c, "failed", "fail", "evaluation_level_insufficient")
    ELSE AtLevel((c.level + 1) % Levels, "escalate", reason)

\* _escalate_or_fail.
EscalateOrFail(c, reason) ==
    IF Mode = "evaluation" THEN To(c, "failed", "fail", "evaluation_level_insufficient")
    ELSE IF c.level + 1 >= Levels THEN To(c, "failed", "fail", "calibration_levels_exhausted")
    ELSE AtLevel(c.level + 1, "escalate", reason)

\* Mutant: an evaluation whose level has timed out is started over.
TimedOutStartingOver(c, unknown, pending) ==
    IF unknown THEN To(c, "aborted", "abort", "safety_observation_unavailable")
    ELSE IF pending THEN To(c, "aborted", "abort", "safety_condition_unresolved")
    ELSE IF Mode = "calibration" THEN EscalateOrFail(c, "level_timeout")
    ELSE Start

\* The end of a level that decided nothing; what is not known to be safe is
\* not given another level.
TimedOut(c, unknown, pending) ==
    IF unknown THEN To(c, "aborted", "abort", "safety_observation_unavailable")
    ELSE IF pending THEN To(c, "aborted", "abort", "safety_condition_unresolved")
    ELSE IF Mode = "calibration" THEN EscalateOrFail(c, "level_timeout")
    ELSE To(c, "failed", "fail", "evaluation_level_timeout")

SafetyUnknown(s) == HasUnusable("abort", s) \/ Matches("must_rule_out", s) = "unknown"
SafetyPending(s) == Matches("abort", s) = "true" \/ Matches("must_rule_out", s) = "true"

\* Mutant: the veto is looked at after success and escalation.
DecideVetoLate(c, e, s) ==
    LET safe == ~SafetyUnknown(s)
    IN  IF safe /\ Confirmed("success", c.streaks)
        THEN To(c, "succeeded", "succeed", "success")
        ELSE IF safe /\ Confirmed("escalate", c.streaks)
        THEN EscalateOrFail(c, "escalate_condition")
        ELSE IF Confirmed("must_rule_out", c.streaks)
        THEN To(c, "aborted", "abort", "must_rule_out_detected")
        ELSE IF e >= Timeout[c.level] THEN TimedOut(c, SafetyUnknown(s), SafetyPending(s))
        ELSE To(c, "evaluating", "wait", "conditions_pending")

\* advance, once the level has been held for min_hold seconds.
Decide(c, e, s) ==
    LET safe == ~SafetyUnknown(s) /\ ~SafetyPending(s)
    IN  IF Confirmed("must_rule_out", c.streaks)
        THEN To(c, "aborted", "abort", "must_rule_out_detected")
        ELSE IF safe /\ Confirmed("success", c.streaks)
        THEN To(c, "succeeded", "succeed", "success")
        ELSE IF safe /\ Confirmed("escalate", c.streaks)
        THEN EscalateOrFail(c, "escalate_condition")
        ELSE IF e >= Timeout[c.level] THEN TimedOut(c, SafetyUnknown(s), SafetyPending(s))
        ELSE To(c, "evaluating", "wait",
                IF safe THEN "conditions_pending" ELSE "safety_observation_pending")

\* Mutant: while the level settles, nothing is looked at.
AdvanceSettlingBlind(state, e, s) ==
    LET c == [state EXCEPT !.elapsed = e,
                           !.streaks = [g \in Gates |-> Updated(state.streaks[g], g, e, s)]]
        early == [c EXCEPT !.streaks = DropPending(c.streaks)]
    IN  IF state.phase \in Terminal THEN state
        ELSE IF e < Settle[c.level] THEN To(early, "settling", "wait", "settling")
        ELSE IF Confirmed("abort", c.streaks) THEN To(c, "aborted", "abort", "abort_condition")
        ELSE IF e < MinHold[c.level] THEN To(early, "evaluating", "wait", "min_hold")
        ELSE Decide(c, e, s)

\* advance: one tick, `e` seconds into the level, with readings `s`.
Advance(state, e, s) ==
    LET c == [state EXCEPT !.elapsed = e,
                           !.streaks = [g \in Gates |-> Updated(state.streaks[g], g, e, s)]]
        early == [c EXCEPT !.streaks = DropPending(c.streaks)]
    IN  IF state.phase \in Terminal THEN state
        ELSE IF Confirmed("abort", c.streaks) THEN To(c, "aborted", "abort", "abort_condition")
        ELSE IF e < Settle[c.level] THEN To(early, "settling", "wait", "settling")
        ELSE IF e < MinHold[c.level] THEN To(early, "evaluating", "wait", "min_hold")
        ELSE Decide(c, e, s)

\* finalize_cleanup.
Finalize(c, succeeded) ==
    IF succeeded THEN [c EXCEPT !.action = "mark_clean"]
    ELSE To(c, "dirty", "mark_dirty", "cleanup_failed")

-----------------------------------------------------------------------------
Init ==
    /\ plan \in Plans
    /\ controller = Start
    /\ signals = [c \in Conditions |-> "unusable"]

Tick ==
    /\ controller.phase \notin Terminal
    /\ signals' \in Readings
    /\ \E step \in Steps :
          controller' = Advance(controller, controller.elapsed + step, signals')
    /\ UNCHANGED plan

Cleanup ==
    /\ controller.phase \in Terminal
    /\ controller.action \notin {"mark_clean", "mark_dirty"}
    /\ \E succeeded \in BOOLEAN : controller' = Finalize(controller, succeeded)
    /\ UNCHANGED <<plan, signals>>

Next == Tick \/ Cleanup

\* The driver ticks for as long as the controller is not finished, and then
\* cleans up.
Spec == Init /\ [][Next]_controllerVars /\ WF_controllerVars(Next)

-----------------------------------------------------------------------------
Phases == {"settling", "evaluating"} \cup Terminal
Actions == {"start", "wait", "succeed", "escalate", "fail", "abort",
            "mark_clean", "mark_dirty"}
Reasons == {"level_started", "settling", "min_hold", "conditions_pending",
            "safety_observation_pending", "success", "escalate_condition", "level_timeout",
            "abort_condition", "must_rule_out_detected", "safety_observation_unavailable",
            "safety_condition_unresolved", "evaluation_level_insufficient",
            "evaluation_level_timeout", "calibration_levels_exhausted", "cleanup_failed"}
Streaks == [n : Nat, at : Nat]
ControllerStates ==
    [phase : Phases, level : LevelIndex, elapsed : Nat, streaks : [Gates -> Streaks],
     action : Actions, reason : Reasons]

\* Type invariant: the controller is always within the levels of its plan.
TypeOK == plan \in Plans /\ controller \in ControllerStates /\ signals \in Readings

\* The least time between two samples a gate may count.
SampleGap(g) ==
    IF GateConds[g] = {} THEN 0
    ELSE IF GateMatch[g] = "all" THEN Max({Interval[c] : c \in GateConds[g]})
    ELSE Min({Interval[c] : c \in GateConds[g]})

\* consecutive_ticks counts observations of the source, not readings of the
\* same one: n samples of a gate have taken n - 1 of its intervals.
SamplesAreIndependent ==
    \A g \in Gates :
        LET k == controller.streaks[g]
        IN  k.n > 0 => /\ k.at <= controller.elapsed
                       /\ (k.n - 1) * SampleGap(g) <= k.at

Hold == Max({Settle[controller.level], MinHold[controller.level]})

\* The veto and the escalation are carried by what was seen after min_hold:
\* the injection's own settling can neither veto the run nor abandon the level.
\* (A run ended by the abort gate, before or after its cleanup, keeps whatever
\* streaks it had.)
PendingEvidenceIsPostHold ==
    \A g \in {"must_rule_out", "escalate"} :
        LET k == controller.streaks[g]
        IN  k.n > 0 /\ controller.reason \notin {"abort_condition", "cleanup_failed"} =>
                /\ k.at >= Hold
                /\ (k.n - 1) * SampleGap(g) <= k.at - Hold

\* Success is declared only past the hold, and only in a tick in which every
\* abort signal could be read, none fired and other causes were ruled out.
SuccessIsSafe ==
    controller.phase = "succeeded" =>
        /\ controller.elapsed >= Hold
        /\ Matches("must_rule_out", signals) = "false"
        /\ Matches("abort", signals) # "true"
        /\ ~HasUnusable("abort", signals)

\* A danger that is confirmed is never waited on: the tick that confirms it
\* aborts, settling or not.
DangerIsNotWaitedOn ==
    controller.phase \notin Terminal =>
        ~Confirmed("abort", controller.streaks) /\ ~Confirmed("must_rule_out", controller.streaks)

\* Evidence of success is held through unreadable samples for at most twice
\* the time its signals take to renew.
HeldEvidenceIsBounded ==
    /\ controller.phase \notin Terminal
    /\ controller.streaks["success"].n > 0
    /\ Matches("success", signals) = "unknown"
    => controller.elapsed - controller.streaks["success"].at
         <= UnknownHoldFactor * SampleGap("success")

\* The comment on _HOLD_ON_UNKNOWN: a gauge going blind does not un-observe the
\* damage that was seen, for twice the time its signals take to renew.
UnreadableIsHeld ==
    [][LET k == controller.streaks["success"]
       IN  /\ k.n > 0 /\ controller'.phase \notin Terminal
           /\ controller'.action # "escalate"
           /\ Matches("success", signals') = "unknown"
           /\ controller'.elapsed - k.at <= UnknownHoldFactor * SampleGap("success")
           => controller'.streaks["success"] = k]_controllerVars

\* A tick that does not end the run either gets on within a level whose time is
\* not up or starts the next one: no reading takes back a level or makes one
\* last longer, so the time of a run is limited by the sum of the timeouts.
LevelsRunOut ==
    [][\/ controller'.phase \in Terminal
       \/ controller'.level = controller.level + 1 /\ controller'.elapsed = 0
       \/ /\ controller'.level = controller.level
          /\ controller.elapsed < controller'.elapsed
          /\ controller'.elapsed < Timeout[controller.level]]_controllerVars

\* However the observations fall, the run ends and is cleaned up.
EveryRunEnds == <>(controller.action \in {"mark_clean", "mark_dirty"})
=============================================================================
