------------------------- MODULE MCAdaptiveRuntime -------------------------
(* Model checking of AdaptiveRuntime: two companions, three levels, an     *)
(* injection that may last six time units and a recovery of three.         *)
EXTENDS AdaptiveRuntime
=============================================================================
