--------------------------- MODULE MCRunLifecycle ---------------------------
(* Model checking of RunLifecycle: up to four run ids, of one adaptive and  *)
(* of one script scenario.                                                  *)
EXTENDS RunLifecycle

CONSTANTS r1, r2, r3, r4, ext, scr

MCScenarioOf == [r \in Runs |-> IF r \in {r1, r2} THEN ext ELSE scr]
=============================================================================
