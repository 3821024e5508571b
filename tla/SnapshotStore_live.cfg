CONSTANTS
    c1 = c1
    c2 = c2
    daemon = daemon
    boot = boot
    work = work
    Clients = {c1}
    Daemon = daemon
    Shapes = {boot, work}
    Boot = boot
    ClientOps = {"pin"}
    NoProcesses = {}
    GuardBootstrap = FALSE
    Recent = 1
    SafetyKeep = 1
    KeepsPeriods = FALSE
    MaxSnaps = 5
    MaxVer = 2
    MaxFaults = 2
SPECIFICATION FairSpec
PROPERTIES CurrentCatchesUp
CHECK_DEADLOCK FALSE
