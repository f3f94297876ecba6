---------------------------- MODULE CapsuleProofs ----------------------------
(***************************************************************************)
(* Proofs about Capsule: whatever trees, deployments and faults there are, *)
(* a capsule verifies unless a fault has hit a repair within its swap, and *)
(* one that verifies has a complete history.                               *)
(***************************************************************************)
EXTENDS Capsule, TLAPS

Published == step \notin {"absent", "staged"}
Holding == {"staged", "remove", "contracts", "hashes", "plan", "record", "manifest"}
Steps == Holding \cup {"absent", "running", "dirty", "repair", "cleanup", "clean"}

\* What is staged is a tree, and there is no directory before publication.
StagedTrees ==
    /\ step \in Steps
    /\ live \in Trees
    /\ step \in Holding => staging \in Trees
    /\ DOMAIN dir = {"contracts", "hashes", "plan", "manifest", "recorded", "gap"}
    /\ ~Published => dir = NoDirectory
    /\ interrupted \in BOOLEAN

\* A swap replaces one file after the other by what is staged.
SwapProgress ==
    /\ step \in {"hashes", "plan", "record", "manifest"} => dir.contracts = staging
    /\ step \in {"plan", "record", "manifest"} => dir.hashes = staging
    /\ step \in {"record", "manifest"} => dir.plan = staging

\* Nothing but a fault within the swap leaves a capsule that does not verify.
WholeOrInterrupted == Published /\ ~InSwap => Verifies \/ interrupted

\* Neither a repair nor a run leaves the target the capsule was published with.
TargetKept ==
    /\ Published => /\ dir.plan.target = published.target
                    /\ injected \in {Missing, published.target}
    /\ Published /\ step \in Holding => staging.target = published.target
    /\ ~Published => injected = Missing

\* The record leads to what the manifest names, or to what it would have to name.
RecordLeadsOn ==
    Published =>
        /\ dir.gap = FALSE
        /\ step = "remove" => dir.recorded = dir.manifest
        /\ step = "manifest" => dir.recorded = Manifest(staging)
        /\ InSwap /\ step # "manifest" => dir.recorded = dir.manifest
        /\ dir.recorded \in {dir.manifest, [hashes |-> dir.hashes, plan |-> dir.plan]}

CapsuleInv ==
    StagedTrees /\ SwapProgress /\ WholeOrInterrupted /\ TargetKept /\ RecordLeadsOn

-----------------------------------------------------------------------------
USE DEF Trees, Manifest, NoDirectory, Published, Holding, Steps, InSwap, Verifies

LEMMA InitCapsule == Init => CapsuleInv
  BY CapsuleAssumption
  DEF Init, CapsuleInv, StagedTrees, SwapProgress, WholeOrInterrupted, TargetKept, RecordLeadsOn

\* Publication, the run and the beginning of a cleanup keep the invariant.
LEMMA RunPreserves ==
    ASSUME CapsuleInv, PrepareStages \/ Publish \/ RunEndsDirty \/ \E b \in BOOLEAN : CleanupStarts(b)
    PROVE  CapsuleInv'
  <1> USE CapsuleAssumption DEF CapsuleInv, StagedTrees, SwapProgress, WholeOrInterrupted,
                                TargetKept, RecordLeadsOn, environment
  <1>1. CASE PrepareStages BY <1>1 DEF PrepareStages
  <1>2. CASE Publish BY <1>2 DEF Publish
  <1>3. CASE RunEndsDirty BY <1>3 DEF RunEndsDirty
  <1>4. CASE \E b \in BOOLEAN : CleanupStarts(b) BY <1>4 DEF CleanupStarts
  <1> QED BY <1>1, <1>2, <1>3, <1>4

\* So does every step of a repair.
LEMMA RepairPreserves ==
    ASSUME CapsuleInv, Repair PROVE CapsuleInv'
  <1> USE CapsuleAssumption DEF CapsuleInv, StagedTrees, SwapProgress, WholeOrInterrupted,
                                TargetKept, RecordLeadsOn, environment
  <1>1. CASE RepairStages BY <1>1 DEF RepairStages, SameTarget
  <1>2. CASE RepairRefuses BY <1>2 DEF RepairRefuses
  <1>3. CASE RemoveContracts BY <1>3 DEF RemoveContracts, Swap
  <1>4. CASE ReplaceContracts BY <1>4 DEF ReplaceContracts, Swap
  <1>5. CASE ReplaceHashes BY <1>5 DEF ReplaceHashes, Swap
  <1>6. CASE ReplacePlan BY <1>6 DEF ReplacePlan, Swap
  <1>7. CASE Record BY <1>7 DEF Record, Replaced
  <1>8. CASE WriteManifest BY <1>8 DEF WriteManifest
  <1> QED BY <1>1, <1>2, <1>3, <1>4, <1>5, <1>6, <1>7, <1>8 DEF Repair

\* Whatever is cleaned up, deployed or interrupted.
LEMMA EnvironmentPreserves ==
    ASSUME CapsuleInv, Cleanup \/ Deploy \/ Fault PROVE CapsuleInv'
  <1> USE CapsuleAssumption DEF CapsuleInv, StagedTrees, SwapProgress, WholeOrInterrupted,
                                TargetKept, RecordLeadsOn, environment
  <1>1. CASE Cleanup BY <1>1 DEF Cleanup
  <1>2. CASE Deploy BY <1>2 DEF Deploy
  <1>3. CASE Fault BY <1>3 DEF Fault
  <1> QED BY <1>1, <1>2, <1>3

\* The invariant of the capsule, for any trees, deployments and faults.
THEOREM CapsuleSafety == Spec => []CapsuleInv
  <1>1. CapsuleInv /\ [Next]_capsuleVars => CapsuleInv'
    <2> SUFFICES ASSUME CapsuleInv, [Next]_capsuleVars PROVE CapsuleInv'
      OBVIOUS
    <2>1. CASE UNCHANGED capsuleVars
      BY <2>1 DEF capsuleVars, CapsuleInv, StagedTrees, SwapProgress, WholeOrInterrupted,
                  TargetKept, RecordLeadsOn
    <2>2. CASE Next
      BY <2>2, RunPreserves, RepairPreserves, EnvironmentPreserves DEF Next
    <2> QED BY <2>1, <2>2
  <1> QED BY <1>1, InitCapsule, PTL DEF Spec

\* A capsule verifies whenever nobody is repairing it, unless a fault has hit a
\* repair within its swap: a refused repair has not written a byte.
THEOREM CapsuleIsWhole == Spec => []CapsuleStaysWhole
  <1>1. CapsuleInv => CapsuleStaysWhole
    BY DEF CapsuleInv, WholeOrInterrupted, CapsuleStaysWhole
  <1> QED BY <1>1, CapsuleSafety, PTL

\* A capsule that verifies still targets what was injected, and its repairs lead
\* without a gap to what it is now.
THEOREM CapsuleHistory == Spec => []HistoryIsComplete
  <1>1. CapsuleInv => HistoryIsComplete
    BY CapsuleAssumption DEF CapsuleInv, StagedTrees, TargetKept, RecordLeadsOn, HistoryIsComplete
  <1> QED BY <1>1, CapsuleSafety, PTL
=============================================================================
