------------------------- MODULE CoordinatorProofs -------------------------
(***************************************************************************)
(* The coordinator's invariants and its refinement of TestbedOwnership,    *)
(* for any runs, any claimants and any number of leases.  The conjunction  *)
(* below is inductive as it stands: a claim can only be shown to name the  *)
(* coordinator's target together with SingleOwner (else clearing the dirty *)
(* record would change the target under a claim), and the tokens need the  *)
(* types.                                                                  *)
(***************************************************************************)
EXTENDS Coordinator, TLAPS

CoordInv ==
    /\ TypeOK
    /\ SingleOwner
    /\ ClaimNamesTarget
    /\ TokensIssued

USE DEF Fenced, NoFenced, ClaimBy, NoClaim, FencedRuns, Claims

\* The empty document satisfies the invariant.
LEMMA InitCoordInv == Init => CoordInv
  BY CoordinatorAssumption
  DEF Init, CoordInv, TypeOK, SingleOwner, ClaimNamesTarget, TokensIssued, Target

\* Each method preserves the invariant, whoever calls it.  Stated per method,
\* so that a composing module can cite the one it calls.
LEMMA AcquirePreserves ==
    ASSUME NEW r \in Runs, CoordInv, Acquire(r) PROVE CoordInv'
  BY CoordinatorAssumption
  DEF CoordInv, TypeOK, SingleOwner, ClaimNamesTarget, TokensIssued, Target,
      Acquire, Idle

LEMMA HeartbeatPreserves ==
    ASSUME NEW r \in Runs, NEW t \in IssuedTokens, CoordInv, Heartbeat(r, t)
    PROVE CoordInv'
  BY CoordinatorAssumption
  DEF CoordInv, TypeOK, SingleOwner, ClaimNamesTarget, TokensIssued, Target,
      Heartbeat, HoldsLease

LEMMA ReleasePreserves ==
    ASSUME NEW r \in Runs, NEW t \in IssuedTokens, CoordInv, Release(r, t)
    PROVE CoordInv'
  BY CoordinatorAssumption
  DEF CoordInv, TypeOK, SingleOwner, ClaimNamesTarget, TokensIssued, Target,
      Release, HoldsLease

LEMMA MarkDirtyPreserves ==
    ASSUME NEW r \in Runs, NEW t \in IssuedTokens, CoordInv, MarkDirty(r, t)
    PROVE CoordInv'
  BY CoordinatorAssumption
  DEF CoordInv, TypeOK, SingleOwner, ClaimNamesTarget, TokensIssued, Target,
      MarkDirty, HoldsLease

LEMMA ReadoptDirtyPreserves ==
    ASSUME NEW r \in Runs, NEW t \in IssuedTokens, CoordInv, ReadoptDirty(r, t)
    PROVE CoordInv'
  BY CoordinatorAssumption
  DEF CoordInv, TypeOK, SingleOwner, ClaimNamesTarget, TokensIssued, Target,
      ReadoptDirty, Idle, IssuedTokens

LEMMA ClaimCleanupPreserves ==
    ASSUME NEW r \in Runs, NEW t \in IssuedTokens, NEW c \in Claimants,
           CoordInv, ClaimCleanup(r, t, c)
    PROVE CoordInv'
  BY CoordinatorAssumption
  DEF CoordInv, TypeOK, SingleOwner, ClaimNamesTarget, TokensIssued, Target,
      ClaimCleanup, IssuedTokens

LEMMA ClaimExpiredCleanupPreserves ==
    ASSUME NEW c \in Claimants, CoordInv, ClaimExpiredCleanup(c)
    PROVE CoordInv'
  BY CoordinatorAssumption
  DEF CoordInv, TypeOK, SingleOwner, ClaimNamesTarget, TokensIssued, Target,
      ClaimExpiredCleanup

LEMMA ClearDirtyPreserves ==
    ASSUME NEW r \in Runs, NEW t \in IssuedTokens, CoordInv, ClearDirty(r, t)
    PROVE CoordInv'
  BY CoordinatorAssumption
  DEF CoordInv, TypeOK, SingleOwner, ClaimNamesTarget, TokensIssued, Target,
      ClearDirty

LEMMA FinishCleanupClaimPreserves ==
    ASSUME NEW r \in Runs, NEW t \in IssuedTokens, NEW c \in Claimants,
           CoordInv, FinishCleanupClaim(r, t, c)
    PROVE CoordInv'
  BY CoordinatorAssumption
  DEF CoordInv, TypeOK, SingleOwner, ClaimNamesTarget, TokensIssued, Target,
      FinishCleanupClaim

LEMMA LeaseLapsesPreserves ==
    ASSUME CoordInv, LeaseLapses PROVE CoordInv'
  BY CoordinatorAssumption
  DEF CoordInv, TypeOK, SingleOwner, ClaimNamesTarget, TokensIssued, Target,
      LeaseLapses

LEMMA StepCoordInv == CoordInv /\ [Call]_coordVars => CoordInv'
  <1> SUFFICES ASSUME CoordInv, [Call]_coordVars PROVE CoordInv'
    OBVIOUS
  <1>1. CASE \E r \in Runs : Acquire(r)
    BY <1>1, AcquirePreserves
  <1>2. ASSUME NEW r \in Runs, NEW t \in IssuedTokens,
               \/ Heartbeat(r, t) \/ Release(r, t) \/ MarkDirty(r, t)
               \/ ReadoptDirty(r, t) \/ ClearDirty(r, t)
        PROVE CoordInv'
    BY <1>2, HeartbeatPreserves, ReleasePreserves, MarkDirtyPreserves,
       ReadoptDirtyPreserves, ClearDirtyPreserves
  <1>3. ASSUME NEW r \in Runs, NEW t \in IssuedTokens, NEW c \in Claimants,
               ClaimCleanup(r, t, c) \/ FinishCleanupClaim(r, t, c)
        PROVE CoordInv'
    BY <1>3, ClaimCleanupPreserves, FinishCleanupClaimPreserves
  <1>4. CASE \E c \in Claimants : ClaimExpiredCleanup(c)
    BY <1>4, ClaimExpiredCleanupPreserves
  <1>5. CASE LeaseLapses
    BY <1>5, LeaseLapsesPreserves
  <1>6. CASE UNCHANGED coordVars
    BY <1>6 DEF coordVars, CoordInv, TypeOK, SingleOwner, ClaimNamesTarget,
                TokensIssued, Target
  <1>7. QED
    BY <1>1, <1>2, <1>3, <1>4, <1>5, <1>6 DEF Call

\* Whatever sequence of coordinator methods is called with whatever issued
\* tokens, the document stays well formed, has one owner, holds a claim only
\* for that owner, and never holds a token it has yet to issue.
THEOREM CoordinatorSafety == Spec => []CoordInv
  BY InitCoordInv, StepCoordInv, PTL DEF Spec, Next

\* The document always parses as a CoordinatorState, and only a lease is ever
\* stale.
THEOREM CoordinatorTypes == Spec => []TypeOK
  BY CoordinatorSafety, PTL DEF CoordInv

\* At no time are a lease and a DIRTY run held together.
THEOREM CoordinatorSingleOwner == Spec => []SingleOwner
  BY CoordinatorSafety, PTL DEF CoordInv

\* A claim never outlives the run it was made for.
THEOREM CoordinatorClaims == Spec => []ClaimNamesTarget
  BY CoordinatorSafety, PTL DEF CoordInv

\* A claimed, lapsed lease is renewed by no call at all: only the end of the
\* claim, or of the lease, can follow.
LEMMA StepFence ==
    ASSUME CoordInv, [Call]_coordVars,
           cleanup_claim # NoClaim, lease_age = "lapsed", active_lease' = active_lease
    PROVE  lease_age' = "lapsed"
  <1> USE CoordinatorAssumption DEF CoordInv, TypeOK
  <1>1. CASE UNCHANGED coordVars
    BY <1>1 DEF coordVars
  <1>2. ASSUME NEW r \in Runs, Acquire(r) PROVE FALSE
    BY <1>2 DEF Acquire, Idle
  <1>3. ASSUME NEW r \in Runs, NEW t \in IssuedTokens, Heartbeat(r, t) PROVE FALSE
    BY <1>3 DEF Heartbeat
  <1>4. ASSUME NEW r \in Runs, NEW t \in IssuedTokens, Release(r, t) \/ MarkDirty(r, t)
        PROVE FALSE
    BY <1>4 DEF Release, MarkDirty
  <1> QED
    BY <1>1, <1>2, <1>3, <1>4
    DEF Call, ReadoptDirty, ClearDirty, ClaimCleanup, FinishCleanupClaim,
        ClaimExpiredCleanup, LeaseLapses

\* The fence holds of every behaviour of the coordinator.
THEOREM CoordinatorFence == Spec => ClaimIsTerminalFence
  <1>1. CoordInv /\ [Call]_coordVars
          => [cleanup_claim # NoClaim /\ lease_age = "lapsed" /\ active_lease' = active_lease
                => lease_age' = "lapsed"]_coordVars
    BY StepFence
  <1> QED
    BY <1>1, CoordinatorSafety, PTL DEF Spec, Next, ClaimIsTerminalFence

-----------------------------------------------------------------------------
\* The refinement: the empty document is the free testbed, and every method is
\* one abstract step or changes nothing the abstraction can see.
LEMMA InitRefines == Init => Ownership!Init
  BY DEF Init, Ownership!Init, Target

LEMMA StepRefines ==
    CoordInv /\ [Call]_coordVars => [Ownership!Next]_(Ownership!ownershipVars)
  <1> SUFFICES ASSUME CoordInv, [Call]_coordVars
               PROVE  [Ownership!Next]_(Ownership!ownershipVars)
    OBVIOUS
  <1> USE CoordinatorAssumption
      DEF CoordInv, TypeOK, SingleOwner, ClaimNamesTarget, TokensIssued, Target
  <1>1. ASSUME NEW r \in Runs, Acquire(r) PROVE Ownership!Grant(r)
    BY <1>1 DEF Acquire, Idle, Ownership!Grant
  <1>2. ASSUME NEW r \in Runs, NEW t \in IssuedTokens, Heartbeat(r, t)
        PROVE UNCHANGED Ownership!ownershipVars
    BY <1>2 DEF Heartbeat, HoldsLease, Ownership!ownershipVars
  <1>3. ASSUME NEW r \in Runs, NEW t \in IssuedTokens, Release(r, t)
        PROVE Ownership!HandBack
    BY <1>3 DEF Release, HoldsLease, Ownership!HandBack, Ownership!Free
  <1>4. ASSUME NEW r \in Runs, NEW t \in IssuedTokens, MarkDirty(r, t)
        PROVE Ownership!Quarantine
    BY <1>4 DEF MarkDirty, HoldsLease, Ownership!Quarantine
  <1>5. ASSUME NEW r \in Runs, NEW t \in IssuedTokens, ReadoptDirty(r, t)
        PROVE Ownership!TakeBack(r, t)
    BY <1>5 DEF ReadoptDirty, Idle, IssuedTokens, Ownership!TakeBack
  <1>6. ASSUME NEW r \in Runs, NEW t \in IssuedTokens, ClearDirty(r, t)
        PROVE Ownership!Restore
    BY <1>6 DEF ClearDirty, Ownership!Restore, Ownership!Free
  <1>7. ASSUME NEW r \in Runs, NEW t \in IssuedTokens, NEW c \in Claimants,
               ClaimCleanup(r, t, c)
        PROVE Ownership!BeginCleaning(c)
    BY <1>7 DEF ClaimCleanup, IssuedTokens, Ownership!BeginCleaning
  <1>8. ASSUME NEW r \in Runs, NEW t \in IssuedTokens, NEW c \in Claimants,
               FinishCleanupClaim(r, t, c)
        PROVE Ownership!EndCleaning
    BY <1>8 DEF FinishCleanupClaim, Ownership!EndCleaning
  <1>9. ASSUME NEW c \in Claimants, ClaimExpiredCleanup(c)
        PROVE Ownership!BeginCleaning(c)
    BY <1>9 DEF ClaimExpiredCleanup, Ownership!BeginCleaning
  <1>10. CASE LeaseLapses
    BY <1>10 DEF LeaseLapses, Ownership!ownershipVars
  <1>11. CASE UNCHANGED coordVars
    BY <1>11 DEF coordVars, Ownership!ownershipVars
  <1>12. ASSUME NEW r \in Runs, NEW t \in IssuedTokens, ReadoptDirty(r, t)
         PROVE Ownership!Next
    BY <1>5, <1>12 DEF Ownership!Next, IssuedTokens
  <1> QED
    BY <1>1, <1>2, <1>3, <1>4, <1>6, <1>7, <1>8, <1>9, <1>10, <1>11, <1>12
    DEF Call, Ownership!Next

\* The coordinator implements the exclusive ownership of the testbed: each
\* grant is under a fresh number, a quarantine survives until its cleaner
\* restores it, and the cleaner never changes hands.
THEOREM CoordinatorRefinesOwnership == Spec => ImplementsOwnership
  BY InitRefines, StepRefines, CoordinatorSafety, PTL
  DEF Spec, Next, ImplementsOwnership, Ownership!Spec
=============================================================================
