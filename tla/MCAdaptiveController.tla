------------------------ MODULE MCAdaptiveController ------------------------
(***************************************************************************)
(* The controller for TLC: two calibration levels with one condition per   *)
(* gate and a success signal that renews every two seconds, and an         *)
(* evaluation without abort and escalation whose success gate reads two    *)
(* signals and wants any of them.                                          *)
(***************************************************************************)
EXTENDS AdaptiveController

CONSTANTS danger, cause, fast, slow, quiet

Calibration ==
    [mode |-> "calibration", levels |-> 2,
     settle |-> [l \in 0..1 |-> IF l = 0 THEN 3 ELSE 1],
     minHold |-> [l \in 0..1 |-> IF l = 0 THEN 4 ELSE 2],
     timeout |-> [l \in 0..1 |-> 7],
     conds |-> [g \in Gates |-> CASE g = "abort" -> {danger} [] g = "must_rule_out" -> {cause}
                                   [] g = "success" -> {slow} [] OTHER -> {quiet}],
     match |-> [g \in Gates |-> "all"],
     ticks |-> [g \in Gates |-> IF g = "success" THEN 3 ELSE 2],
     interval |-> [c \in {danger, cause, slow, quiet} |-> IF c = slow THEN 2 ELSE 0]]

Evaluation ==
    [mode |-> "evaluation", levels |-> 1,
     settle |-> [l \in 0..0 |-> 3], minHold |-> [l \in 0..0 |-> 4],
     timeout |-> [l \in 0..0 |-> 7],
     conds |-> [g \in Gates |-> CASE g = "must_rule_out" -> {cause}
                                   [] g = "success" -> {fast, slow} [] OTHER -> {}],
     match |-> [g \in Gates |-> "any"],
     ticks |-> [g \in Gates |-> IF g = "success" THEN 3 ELSE 2],
     interval |-> [c \in {cause, fast, slow} |->
                     CASE c = slow -> 3 [] c = fast -> 2 [] OTHER -> 0]]

MCPlans == {Calibration, Evaluation}
MCCalibrations == {Calibration}
=============================================================================
