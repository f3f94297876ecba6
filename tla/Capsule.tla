------------------------------- MODULE Capsule -------------------------------
(***************************************************************************)
(* The capsule of a run (RunArtifactStore in backend/app/production_       *)
(* runtime.py): a frozen copy of the contract tree that injects and cleans *)
(* up, its hashes, the plan compiled from it, and the manifest that binds  *)
(* them.  It is published by one rename when the run starts; when the run  *)
(* ends DIRTY because its own executor is defective, the operator may ask  *)
(* for a cleanup that first cuts the tree anew from the live one, by       *)
(* several renames and writes that a fault can interrupt.                  *)
(*                                                                         *)
(* A contract tree is the version of its executor and the target it        *)
(* compiles to; a hash of a tree or of a plan is the tree itself.          *)
(***************************************************************************)
EXTENDS Naturals

CONSTANTS
    Mechanisms, \* versions of the executor
    Defective,  \* those that cannot clean up
    Targets,    \* scenario, profiles and levels a plan may be compiled to
    Missing,    \* a file that is not there
    MaxDeploys, \* bound of the model: changes of the live tree
    MaxFaults   \* bound of the model: crashes, and repairs that raise

Trees == [mechanism : Mechanisms, target : Targets]

\* capsule.json of a tree.
Manifest(tree) == [hashes |-> tree, plan |-> tree]

ASSUME CapsuleAssumption ==
    /\ Defective \subseteq Mechanisms /\ MaxDeploys \in Nat /\ MaxFaults \in Nat
    /\ Missing \notin Targets
    /\ \A tree \in Trees : Missing \notin {tree, Manifest(tree)}

VARIABLES
    live,        \* the mounted contract tree
    staging,     \* the tree in the staging directory of the task under way
    dir,         \* the run's directory: contracts, hashes.json, plan.json,
                 \* capsule.json, and of capsule-repair.json the manifest its last
                 \* entry leads to and whether any entry leaves a gap
    step,        \* where the run, or its cleanup, is
    injected,    \* the target that was injected and is not cleaned up
    published,   \* history: the tree the capsule was published with
    interrupted, \* history: a fault has hit between the first rename of a repair
                 \* and its last write
    deploys, faults

capsuleVars == <<live, staging, dir, step, injected, published, interrupted, deploys, faults>>
environment == <<live, deploys, faults, interrupted>>

NoDirectory ==
    [contracts |-> Missing, hashes |-> Missing, plan |-> Missing, manifest |-> Missing,
     recorded |-> Missing, gap |-> FALSE]

Init ==
    /\ live \in Trees /\ staging = Missing /\ dir = NoDirectory /\ step = "absent"
    /\ injected = Missing /\ published = Missing /\ interrupted = FALSE
    /\ deploys = 0 /\ faults = 0

\* verify_capsule: capsule.json names hashes.json and plan.json, which name the
\* contracts as they are.
Verifies ==
    /\ dir.manifest # Missing
    /\ dir.manifest = [hashes |-> dir.hashes, plan |-> dir.plan]
    /\ dir.contracts = dir.hashes

-----------------------------------------------------------------------------
\* prepare_capsule: everything is built in the staging directory, from the copy
\* made there.
PrepareStages ==
    /\ step = "absent"
    /\ staging' = live /\ step' = "staged"
    /\ UNCHANGED <<dir, injected, published, environment>>

Publish ==
    /\ step = "staged"
    /\ dir' = [contracts |-> staging, hashes |-> staging, plan |-> staging,
               manifest |-> Manifest(staging), recorded |-> Manifest(staging), gap |-> FALSE]
    /\ published' = staging
    /\ staging' = Missing /\ step' = "running"
    /\ UNCHANGED <<injected, environment>>

\* The run injects what the plan says, and cannot take it back.
RunEndsDirty ==
    /\ step = "running" /\ Verifies
    /\ injected' = dir.plan.target
    /\ step' = "dirty"
    /\ UNCHANGED <<staging, dir, published, environment>>

\* The operator's cleanup of the DIRTY run, with or without a repair.
CleanupStarts(repair) ==
    /\ step = "dirty"
    /\ step' = IF repair THEN "repair" ELSE "cleanup"
    /\ UNCHANGED <<staging, dir, injected, published, environment>>

-----------------------------------------------------------------------------
\* repair_capsule_contracts.

\* Mutant: the fingerprints are compared too.
SameTargetUnmasked == live = dir.plan

\* _target_fields: of the plan all but the fingerprints of the mechanism.
SameTarget == live.target = dir.plan.target

RepairStages ==
    /\ step = "repair" /\ Verifies /\ SameTarget
    /\ staging' = live /\ step' = "remove"
    /\ UNCHANGED <<dir, injected, published, environment>>

\* Mutant: the target is compared after the old contracts are gone.
RepairRefusesTooLate ==
    /\ step = "repair" /\ ~(Verifies /\ SameTarget)
    /\ dir' = [dir EXCEPT !.contracts = Missing] /\ step' = "dirty"
    /\ UNCHANGED <<staging, injected, published, environment>>

RepairRefuses ==
    /\ step = "repair" /\ ~(Verifies /\ SameTarget)
    /\ step' = "dirty"
    /\ UNCHANGED <<staging, dir, injected, published, environment>>

\* The swap, one rename after the other.
Swap(from, file, tree, to) ==
    /\ step = from
    /\ dir' = [dir EXCEPT ![file] = tree] /\ step' = to
    /\ UNCHANGED <<staging, injected, published, environment>>
RemoveContracts == Swap("remove", "contracts", Missing, "contracts")
ReplaceContracts == Swap("contracts", "contracts", staging, "hashes")
ReplaceHashes == Swap("hashes", "hashes", staging, "plan")
ReplacePlan == Swap("plan", "plan", staging, "record")

\* Mutant: what the repair replaced is read after it has been replaced.
ReplacedReadLate == [hashes |-> dir.hashes, plan |-> dir.plan]

\* capsule-repair.json: from what the manifest named when the repair began to
\* what it will name.
Replaced == dir.manifest
Record ==
    /\ step = "record"
    /\ dir' = [dir EXCEPT !.gap = @ \/ Replaced # dir.recorded, !.recorded = Manifest(staging)]
    /\ step' = "manifest"
    /\ UNCHANGED <<staging, injected, published, environment>>

WriteManifest ==
    /\ step = "manifest"
    /\ dir' = [dir EXCEPT !.manifest = Manifest(staging)]
    /\ staging' = Missing
    /\ step' = "cleanup"
    /\ UNCHANGED <<injected, published, environment>>

Repair ==
    \/ RepairStages \/ RepairRefuses \/ RemoveContracts \/ ReplaceContracts
    \/ ReplaceHashes \/ ReplacePlan \/ Record \/ WriteManifest

\* The capsule must verify, its plan must be what its contracts compile to, and
\* then they are run.
Cleanup ==
    /\ step = "cleanup"
    /\ IF Verifies /\ dir.contracts = dir.plan /\ dir.contracts.mechanism \notin Defective
       THEN step' = "clean" /\ injected' = Missing
       ELSE step' = "dirty" /\ UNCHANGED injected
    /\ UNCHANGED <<staging, dir, published, environment>>

-----------------------------------------------------------------------------
\* A deployment changes the live tree file by file.
Deploy ==
    /\ deploys < MaxDeploys
    /\ \/ \E m \in Mechanisms : live' = [live EXCEPT !.mechanism = m]
       \/ \E t \in Targets : live' = [live EXCEPT !.target = t]
    /\ deploys' = deploys + 1
    /\ UNCHANGED <<staging, dir, step, injected, published, interrupted, faults>>

\* The process dies, or a step of the repair raises.  The run stays DIRTY, and
\* what was staged is lost (after a crash it lies about).
InSwap == step \in {"contracts", "hashes", "plan", "record", "manifest"}
Fault ==
    /\ step \notin {"absent", "running", "dirty", "clean"} /\ faults < MaxFaults
    /\ step' = IF step = "staged" THEN "absent" ELSE "dirty"
    /\ staging' = Missing
    /\ interrupted' = (interrupted \/ InSwap)
    /\ faults' = faults + 1
    /\ UNCHANGED <<live, dir, injected, published, deploys>>

Next ==
    \/ PrepareStages \/ Publish \/ RunEndsDirty
    \/ \E repair \in BOOLEAN : CleanupStarts(repair)
    \/ Repair \/ Cleanup \/ Deploy \/ Fault

\* A cleanup that has begun goes on, and the operator asks for a repair again
\* and again while the run is DIRTY.
Spec ==
    /\ Init /\ [][Next]_capsuleVars
    /\ WF_capsuleVars(Repair) /\ WF_capsuleVars(Cleanup)
    /\ SF_capsuleVars(CleanupStarts(TRUE))

-----------------------------------------------------------------------------
(* Properties *)

\* A capsule that verifies tells its own history: it still targets what was
\* injected, and its repairs lead without a gap from the tree it was published
\* with to the one it has now, whatever was interrupted or refused in between.
HistoryIsComplete ==
    Verifies /\ ~InSwap =>
        /\ dir.plan.target = published.target
        /\ injected \in {Missing, dir.plan.target}
        /\ ~dir.gap /\ dir.recorded = dir.manifest

\* A run's capsule verifies whenever nobody is repairing it: a repair that is
\* refused, or that fails before its swap, has not written a byte.  Only a fault
\* within the swap leaves a capsule that does not verify.
CapsuleStaysWhole ==
    step \in {"running", "dirty", "cleanup", "clean"} => Verifies \/ interrupted

\* A run that its own defective executor keeps DIRTY is freed once the live tree
\* has a working executor for the same target: by a repair, unless a fault has
\* interrupted one within its swap, after which the capsule refuses for ever.
DirtyRunIsFreed ==
    <>[](live.mechanism \notin Defective /\ injected \in {Missing, live.target})
        => (step = "dirty" ~> (step = "clean" \/ interrupted))
=============================================================================
