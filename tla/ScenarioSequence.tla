-------------------------- MODULE ScenarioSequence --------------------------
(***************************************************************************)
(* What the live queue promises (backend/app/live_queue.py): the scenarios *)
(* of its list are settled one by one and in order, each by a proven run   *)
(* or by being skipped, only while the queue is active; the list may grow; *)
(* nothing settled is taken back before a new queue begins, and a closed   *)
(* queue can only be followed by a new one.                                *)
(***************************************************************************)
EXTENDS Naturals, Sequences

VARIABLES
    state,    \* "idle", "active", "paused" or "closed"
    size,     \* length of the list
    outcomes  \* how the first scenarios were settled: "done" or "skipped"

vars == <<state, size, outcomes>>

Init == state = "idle" /\ size = 0 /\ outcomes = <<>>

\* A new queue forgets the one before it.
Begin ==
    /\ state \in {"idle", "closed"} /\ state' = "active"
    /\ size' \in Nat \ {0}
    /\ outcomes' = <<>>

Grow == state # "closed" /\ size' \in Nat /\ size' >= size

\* The queue closes with its last scenario.
Settle ==
    /\ state = "active" /\ Grow
    /\ \E outcome \in {"done", "skipped"} : outcomes' = Append(outcomes, outcome)
    /\ Len(outcomes') <= size'
    /\ state' = IF Len(outcomes') = size' THEN "closed" ELSE "active"

Extend == state # "idle" /\ Grow /\ UNCHANGED <<state, outcomes>>

Pause == state = "active" /\ state' = "paused" /\ Grow /\ UNCHANGED outcomes

Resume == state = "paused" /\ state' = "active" /\ UNCHANGED <<size, outcomes>>

Cancel == state = "paused" /\ state' = "closed" /\ UNCHANGED <<size, outcomes>>

Next == Begin \/ Settle \/ Extend \/ Pause \/ Resume \/ Cancel

Spec == Init /\ [][Next]_vars
=============================================================================
