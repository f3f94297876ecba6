----------------------------- MODULE MCLiveQueue -----------------------------
(***************************************************************************)
(* The live queue for TLC: every combination of mode and pass, the v2 and  *)
(* the cycle queue with disturbances in pairs or alone; one scenario under *)
(* a topology collector.                                                   *)
(***************************************************************************)
EXTENDS LiveQueue

Setup(mode, pass, r, f, m) ==
    [mode |-> mode, pass |-> pass, topology |-> FALSE, items |-> MaxItems,
     resumes |-> r, faults |-> f, manuals |-> m]

WithTopology(s) == [s EXCEPT !.topology = TRUE, !.items = 1]

MCSetups ==
    {Setup("v2", "dataset", 1, 1, 0), Setup("v2", "dataset", 1, 0, 1),
     Setup("v2", "smoke", 1, 0, 0), Setup("v2", "smoke", 0, 1, 0),
     Setup("cycle", "dataset", 1, 0, 0), Setup("cycle", "dataset", 0, 1, 0),
     Setup("cycle", "smoke", 0, 0, 1),
     WithTopology(Setup("cycle", "dataset", 0, 1, 0)),
     WithTopology(Setup("cycle", "dataset", 1, 0, 1))}
==============================================================================
