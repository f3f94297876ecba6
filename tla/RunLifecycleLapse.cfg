CONSTANTS
    r1 = r1
    r2 = r2
    r3 = r3
    r4 = r4
    ext = ext
    scr = scr
    Watchdog = Watchdog
    Operator = Operator
    Runs = {r1, r3, r4}
    Scenarios = {ext, scr}
    Adaptive = {ext}
    ScenarioOf <- MCScenarioOf
    Claimants = {r1, r2, r3, r4, Watchdog, Operator}
    NoRun = NoRun
    NoClaimant = NoClaimant
    MaxToken = 4
    Appliers = {"blocking", "awaited"}
    MaxCrashes = 0
    MaxLapses = 1
    MaxFailures = 1
SPECIFICATION FairSpec
CHECK_DEADLOCK FALSE
INVARIANTS ClaimHasLiveOwner CapturedRunsAreClean
PROPERTIES ClaimIsTerminalFence NoForeignEnd LapsedLeaseIsResolved
