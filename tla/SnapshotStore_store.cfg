CONSTANTS
    c1 = c1
    c2 = c2
    daemon = daemon
    boot = boot
    work = work
    Clients = {c1, c2}
    Daemon = daemon
    Shapes = {boot, work}
    Boot = boot
    ClientOps = {"save", "labelled", "initial", "pin", "unpin", "restore"}
    NoProcesses = {c2}
    GuardBootstrap = TRUE
    Recent = 0
    SafetyKeep = 1
    KeepsPeriods = FALSE
    MaxSnaps = 3
    MaxVer = 2
    MaxFaults = 1
SPECIFICATION Spec
INVARIANTS TypeOK StoreInv CheckpointFitsBase LastSaveIsCurrent SafetyCopyHeld
PROPERTIES KeepsRecoveryPoint CurrentNeverGoesBack InitialSaveKeepsHistory ProtectedCurrentStays
CHECK_DEADLOCK FALSE
