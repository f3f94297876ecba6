------------------------- MODULE TestbedOwnership -------------------------
(***************************************************************************)
(* What the coordinator promises about the one shared testbed, with no     *)
(* word about leases, heartbeats or files: at any time the testbed is free,*)
(* owned by one running run, or quarantined by one run that could not be   *)
(* cleaned.  Every ownership is granted under a number never granted       *)
(* before, and the owner is cleaned by at most one cleaner at a time.      *)
(***************************************************************************)
EXTENDS Naturals

CONSTANTS Runs, Cleaners, NoRun, NoCleaner

VARIABLES phase,    \* "free", "owned" or "quarantined"
          owner,    \* the run the testbed is owned or quarantined by
          grant,    \* the number its ownership was granted under
          granted,  \* how many numbers have been granted
          cleaner   \* who is cleaning the owner, if anybody

ownershipVars == <<phase, owner, grant, granted, cleaner>>

Init ==
    /\ phase = "free"
    /\ owner = NoRun
    /\ grant = 0
    /\ granted = 0
    /\ cleaner = NoCleaner

\* The free testbed goes to run r under the next number.
Grant(r) ==
    /\ phase = "free"
    /\ phase' = "owned"
    /\ owner' = r
    /\ grant' = granted + 1
    /\ granted' = granted + 1
    /\ cleaner' = NoCleaner

\* A quarantine that was forgotten is taken back, under its old number.
TakeBack(r, n) ==
    /\ phase = "free"
    /\ n \in 1..granted
    /\ phase' = "quarantined"
    /\ owner' = r
    /\ grant' = n
    /\ UNCHANGED <<granted, cleaner>>

\* The owner is done; nobody cleans a free testbed.
Free ==
    /\ phase' = "free"
    /\ owner' = NoRun
    /\ grant' = 0
    /\ cleaner' = NoCleaner
    /\ UNCHANGED granted

HandBack == phase = "owned" /\ Free

\* A quarantine ends only at the hands of a cleaner.
Restore == phase = "quarantined" /\ cleaner # NoCleaner /\ Free

Quarantine ==
    /\ phase = "owned"
    /\ phase' = "quarantined"
    /\ UNCHANGED <<owner, grant, granted, cleaner>>

BeginCleaning(c) ==
    /\ phase # "free"
    /\ cleaner = NoCleaner
    /\ cleaner' = c
    /\ UNCHANGED <<phase, owner, grant, granted>>

EndCleaning ==
    /\ cleaner # NoCleaner
    /\ cleaner' = NoCleaner
    /\ UNCHANGED <<phase, owner, grant, granted>>

Next ==
    \/ \E r \in Runs : Grant(r) \/ \E n \in 1..granted : TakeBack(r, n)
    \/ HandBack \/ Restore \/ Quarantine
    \/ \E c \in Cleaners : BeginCleaning(c)
    \/ EndCleaning

Spec == Init /\ [][Next]_ownershipVars
=============================================================================
