-------------------------- MODULE TopologyCollector --------------------------
(***************************************************************************)
(* The topology snapshots of a cycle (backend/app/topology_collector.py):  *)
(* a task of the queue's process that writes graph and service tree into   *)
(* the directory of the present scenario and lists them in a manifest.     *)
(* Every attempt of a scenario uses the same directory; a run's marker     *)
(* names it for the capture.                                               *)
(***************************************************************************)
EXTENDS Naturals

VARIABLES
    collecting, \* a collector is running, in memory
    bundle,     \* the present scenario's directory: "absent", "listed" (the manifest
                \* describes what is in it), "writing" (all but what a collection going
                \* on has written) or "partial" (not what one that failed has left)
    marked,     \* the present scenario's runs with a topology-bundle.path
    lost        \* those of them whose snapshots made way for a later attempt's

topologyVars == <<collecting, bundle, marked, lost>>

TopologyInit ==
    collecting = FALSE /\ bundle = "absent" /\ marked = {} /\ lost = {}

\* collect_once fetches and writes without giving the event loop back: what runs
\* on the loop waits for it, what runs in a thread does not.
LoopIsFree == bundle # "writing"

\* The loop turns, and the first pair is fetched, before anybody looks again.
CollectorHasRun == (collecting => bundle # "absent") /\ LoopIsFree

\* Mutant: what an earlier attempt left is not wiped.
CollectorStartsUnwiped(attempts) ==
    /\ collecting' = TRUE
    /\ bundle' = IF bundle = "absent" THEN "absent" ELSE "partial"
    /\ UNCHANGED <<marked, lost>>

\* _start_cycle_topology.  What an earlier attempt left is wiped; wiping and
\* starting may fail, and the cycle then goes on without a collector.
CollectorStarts(attempts) ==
    /\ \/ collecting' = TRUE /\ bundle' = "absent"
       \/ collecting' = FALSE /\ bundle' \in IF bundle = "absent" THEN {"absent"}
                                            ELSE {"absent", "partial"}
    /\ lost' = lost \cup (marked \cap attempts)
    /\ UNCHANGED marked

CollectorStops == collecting' = FALSE /\ UNCHANGED <<bundle, marked, lost>>

\* The next scenario, and another queue, has a directory of its own; what is
\* left of this one's is not looked at any more.
CollectorMovesOn == collecting' = FALSE /\ bundle' = "absent" /\ marked' = {} /\ lost' = {}

\* _write_topology_bundle_marker.
Marks(r) ==
    /\ marked' = IF collecting THEN marked \cup {r} ELSE marked
    /\ UNCHANGED <<collecting, bundle, lost>>

\* collect_once writes the graph, fetches and writes the service tree, and then
\* the manifest.
CollectionBegins ==
    /\ collecting /\ bundle \in {"absent", "listed"}
    /\ bundle' = "writing"
    /\ UNCHANGED <<collecting, marked, lost>>

\* The manifest is written: fetches that failed are listed as failed, what an
\* earlier collection wrote and did not list stays unlisted.  (Over unlisted files
\* a collection is one step: until its manifest is there they are as they were.)
CollectionEnds ==
    /\ collecting
    /\ \/ bundle = "writing" /\ bundle' = "listed"
       \/ bundle = "partial" /\ bundle' \in {"partial", "listed"}
    /\ UNCHANGED <<collecting, marked, lost>>

\* It raises between its writes; run() goes on.
CollectionFails ==
    /\ bundle = "writing"
    /\ bundle' = "partial"
    /\ UNCHANGED <<collecting, marked, lost>>

\* The process dies, maybe between two writes.
CollectorDies ==
    /\ collecting' = FALSE
    /\ bundle' = IF bundle = "writing" THEN "partial" ELSE bundle
    /\ UNCHANGED <<marked, lost>>
=============================================================================
