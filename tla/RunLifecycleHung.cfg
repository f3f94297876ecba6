CONSTANTS
    r1 = r1
    r2 = r2
    r3 = r3
    r4 = r4
    ext = ext
    scr = scr
    Watchdog = Watchdog
    Operator = Operator
    Runs = {r1, r2, r3}
    Scenarios = {ext, scr}
    Adaptive = {ext}
    ScenarioOf <- MCScenarioOf
    Claimants = {r1, r2, r3, r4, Watchdog, Operator}
    NoRun = NoRun
    NoClaimant = NoClaimant
    MaxToken = 4
    Appliers = {"blocking"}
    MaxCrashes = 0
    MaxLapses = 1
    MaxFailures = 0
SPECIFICATION RunSpec
CHECK_DEADLOCK FALSE
INVARIANTS ReportedRunIsAlive
