---------------------------- MODULE Coordinator ----------------------------
(***************************************************************************)
(* The global coordinator (backend/app/coordinator.py) and the watchdog's  *)
(* pure decision (watchdog.py).  The coordinator is one JSON document;     *)
(* every method reads it, checks it and replaces it under one exclusive    *)
(* flock, so a method is one atomic step whoever calls it.  A method       *)
(* either returns, and is the action below, or raises and changes nothing: *)
(* an action is enabled exactly when its method returns.                   *)
(*                                                                         *)
(* Time.  The runner passes the same number of seconds as lease length and *)
(* as heartbeat timeout, so both deadlines of a lease pass at one moment:  *)
(* lease_age says whether it has.  LeaseLapses is that moment.           *)
(***************************************************************************)
EXTENDS Naturals

CONSTANTS
    Runs,       \* run ids
    Claimants,  \* who may claim a cleanup
    NoRun, NoClaimant,
    MaxToken    \* bound of the model: the last fencing token it issues

ASSUME CoordinatorAssumption ==
    /\ NoRun \notin Runs
    /\ NoClaimant \notin Claimants
    /\ MaxToken \in Nat

VARIABLES next_fencing_token, active_lease, dirty_run, cleanup_claim, lease_age

coordVars ==
    <<next_fencing_token, active_lease, dirty_run, cleanup_claim, lease_age>>

-----------------------------------------------------------------------------
\* A lease and a dirty record name a run and its fencing token; the scenario
\* is part of the run id.
Fenced(r, t) == [run |-> r, token |-> t]
NoFenced == Fenced(NoRun, 0)

ClaimBy(r, t, c) == [run |-> r, token |-> t, claimant |-> c]
NoClaim == ClaimBy(NoRun, 0, NoClaimant)

Target == IF active_lease # NoFenced THEN active_lease ELSE dirty_run
\* Mutant: the run and the token of the caller are not looked at.
HoldsLeaseUnfenced(r, t) == active_lease # NoFenced

HoldsLease(r, t) == t # 0 /\ active_lease = Fenced(r, t)
Idle == active_lease = NoFenced /\ dirty_run = NoFenced

IssuedTokens == 1..(next_fencing_token - 1)

Init ==
    /\ next_fencing_token = 1
    /\ active_lease = NoFenced
    /\ dirty_run = NoFenced
    /\ cleanup_claim = NoClaim
    /\ lease_age = "fresh"

-----------------------------------------------------------------------------
\* Mutant: the counter is not advanced past the token just issued.
AcquireReusingToken(r) ==
    /\ Idle
    /\ active_lease' = Fenced(r, next_fencing_token)
    /\ cleanup_claim' = NoClaim
    /\ lease_age' = "fresh"
    /\ UNCHANGED <<next_fencing_token, dirty_run>>

Acquire(r) ==
    /\ Idle
    /\ active_lease' = Fenced(r, next_fencing_token)
    /\ next_fencing_token' = next_fencing_token + 1
    /\ cleanup_claim' = NoClaim
    /\ lease_age' = "fresh"
    /\ UNCHANGED dirty_run

\* Mutant: a claimed lease can still be renewed.
HeartbeatDespiteClaim(r, t) ==
    /\ HoldsLease(r, t)
    /\ lease_age' = "fresh"
    /\ UNCHANGED <<next_fencing_token, active_lease, dirty_run, cleanup_claim>>

Heartbeat(r, t) ==
    /\ HoldsLease(r, t)
    /\ cleanup_claim = NoClaim
    /\ lease_age' = "fresh"
    /\ UNCHANGED <<next_fencing_token, active_lease, dirty_run, cleanup_claim>>

\* Mutant: the claim outlives the lease it was made for.
ReleaseKeepingClaim(r, t) ==
    /\ HoldsLease(r, t)
    /\ active_lease' = NoFenced
    /\ lease_age' = "fresh"
    /\ UNCHANGED <<next_fencing_token, dirty_run, cleanup_claim>>

Release(r, t) ==
    /\ HoldsLease(r, t)
    /\ active_lease' = NoFenced
    /\ cleanup_claim' = NoClaim
    /\ lease_age' = "fresh"
    /\ UNCHANGED <<next_fencing_token, dirty_run>>

\* Mutant: the dirty record is written and the lease is kept.
MarkDirtyKeepingLease(r, t) ==
    /\ HoldsLease(r, t)
    /\ dirty_run' = active_lease
    /\ UNCHANGED <<next_fencing_token, active_lease, cleanup_claim, lease_age>>

MarkDirty(r, t) ==
    /\ HoldsLease(r, t)
    /\ active_lease' = NoFenced
    /\ dirty_run' = active_lease
    /\ lease_age' = "fresh"
    /\ UNCHANGED <<next_fencing_token, cleanup_claim>>

ReadoptDirty(r, t) ==
    /\ Idle
    /\ cleanup_claim = NoClaim
    /\ dirty_run' = Fenced(r, t)
    /\ UNCHANGED <<next_fencing_token, active_lease, cleanup_claim, lease_age>>

ClaimCleanup(r, t, c) ==
    /\ t # 0
    /\ Target = Fenced(r, t)
    /\ cleanup_claim = NoClaim
    /\ cleanup_claim' = ClaimBy(r, t, c)
    /\ UNCHANGED <<next_fencing_token, active_lease, dirty_run, lease_age>>

\* The second look at the deadlines, inside the lock.
ClaimExpiredCleanup(c) ==
    /\ active_lease # NoFenced
    /\ dirty_run = NoFenced
    /\ cleanup_claim = NoClaim
    /\ lease_age = "lapsed"
    /\ cleanup_claim' = ClaimBy(active_lease.run, active_lease.token, c)
    /\ UNCHANGED <<next_fencing_token, active_lease, dirty_run, lease_age>>

ClearDirty(r, t) ==
    /\ t # 0
    /\ dirty_run = Fenced(r, t)
    /\ cleanup_claim.run = r /\ cleanup_claim.token = t
    /\ dirty_run' = NoFenced
    /\ cleanup_claim' = NoClaim
    /\ UNCHANGED <<next_fencing_token, active_lease, lease_age>>

FinishCleanupClaim(r, t, c) ==
    /\ t # 0
    /\ cleanup_claim = ClaimBy(r, t, c)
    /\ cleanup_claim' = NoClaim
    /\ UNCHANGED <<next_fencing_token, active_lease, dirty_run, lease_age>>

\* The holder has not been heard of for lease_sec seconds.
LeaseLapses ==
    /\ active_lease # NoFenced
    /\ lease_age = "fresh"
    /\ lease_age' = "lapsed"
    /\ UNCHANGED <<next_fencing_token, active_lease, dirty_run, cleanup_claim>>

\* decide_watchdog: what a watchdog that reads this state is told to do.
WatchdogDecision ==
    CASE Target = NoFenced                                       -> "idle"
      [] Target # NoFenced /\ cleanup_claim # NoClaim            -> "cleanup_claimed"
      [] cleanup_claim = NoClaim /\ dirty_run # NoFenced         -> "block_dirty"
      [] cleanup_claim = NoClaim /\ active_lease # NoFenced
            /\ dirty_run = NoFenced /\ lease_age = "lapsed" -> "claim_cleanup"
      [] OTHER                                                   -> "healthy"

-----------------------------------------------------------------------------
\* Any client may call any method with any run, any token that was ever
\* issued and any claimant: nothing is assumed of the callers.
Call ==
    \/ \E r \in Runs : Acquire(r)
    \/ \E r \in Runs, t \in IssuedTokens :
          \/ Heartbeat(r, t)
          \/ Release(r, t)
          \/ MarkDirty(r, t)
          \/ ReadoptDirty(r, t)
          \/ ClearDirty(r, t)
          \/ \E c \in Claimants : ClaimCleanup(r, t, c) \/ FinishCleanupClaim(r, t, c)
    \/ \E c \in Claimants : ClaimExpiredCleanup(c)
    \/ LeaseLapses

Next == Call /\ next_fencing_token' <= MaxToken + 1

Spec == Init /\ [][Next]_coordVars

-----------------------------------------------------------------------------
FencedRuns == [run : Runs, token : Nat \ {0}]
Claims == [run : Runs, token : Nat \ {0}, claimant : Claimants]

\* Type invariant: the document always parses as a CoordinatorState, and only
\* a lease can be stale.
TypeOK ==
    /\ next_fencing_token \in Nat \ {0}
    /\ active_lease \in FencedRuns \cup {NoFenced}
    /\ dirty_run \in FencedRuns \cup {NoFenced}
    /\ cleanup_claim \in Claims \cup {NoClaim}
    /\ lease_age \in {"fresh", "lapsed"}
    /\ lease_age = "lapsed" => active_lease # NoFenced

\* A run holds the lease or a run is DIRTY, never both: mark_dirty and
\* readopt_dirty are the only writers of dirty_run and neither may leave the
\* document in a state in which two runs could be cleaned.
SingleOwner == active_lease = NoFenced \/ dirty_run = NoFenced

\* A cleanup claim always names the run and the token the coordinator holds:
\* no sequence of calls leaves a claim that outlives its run, which would
\* fence the next run's heartbeats and refuse its cleanup.
ClaimNamesTarget ==
    cleanup_claim # NoClaim =>
        Target = Fenced(cleanup_claim.run, cleanup_claim.token)

\* Every token in the document was issued, so the next lease is granted under
\* a token no stale holder can present.
TokensIssued ==
    /\ active_lease.token < next_fencing_token
    /\ dirty_run.token < next_fencing_token

\* The coordinator implements the abstract ownership of the testbed: the
\* lease is ownership, DIRTY is quarantine, the claimant is the cleaner.
Ownership == INSTANCE TestbedOwnership WITH
    Cleaners <- Claimants,
    NoCleaner <- NoClaimant,
    phase <- IF active_lease # NoFenced THEN "owned"
             ELSE IF dirty_run # NoFenced THEN "quarantined" ELSE "free",
    owner <- Target.run,
    grant <- Target.token,
    granted <- next_fencing_token - 1,
    cleaner <- cleanup_claim.claimant

ImplementsOwnership == Ownership!Spec

\* A claimed lease that has lapsed stays lapsed: once a cleaner owns the
\* cleanup, the run it cleans up after cannot heartbeat its way back.
ClaimIsTerminalFence ==
    [][cleanup_claim # NoClaim /\ lease_age = "lapsed" /\ active_lease' = active_lease
         => lease_age' = "lapsed"]_coordVars
=============================================================================
