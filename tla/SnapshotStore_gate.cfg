CONSTANTS
    c1 = c1
    c2 = c2
    daemon = daemon
    boot = boot
    work = work
    Clients = {c1}
    Daemon = daemon
    Shapes = {boot, work}
    Boot = boot
    ClientOps = {"restore"}
    NoProcesses = {}
    GuardBootstrap = FALSE
    Recent = 1
    SafetyKeep = 1
    KeepsPeriods = FALSE
    MaxSnaps = 3
    MaxVer = 3
    MaxFaults = 0
SPECIFICATION Spec
INVARIANTS ReplacesOnlyBootstrap
CHECK_DEADLOCK FALSE
