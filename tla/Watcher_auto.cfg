SPECIFICATION LiveSpec
CONSTANTS
    boot = boot
    work = work
    Shapes = {boot, work}
    Boot = boot
    AutoRestore = TRUE
    MaxIds = 6
    MaxGen = 3
    MaxChanges = 2
    MaxDeaths = 1
INVARIANTS TypeOK HalfRestoredNeverCurrent AutoRestoreStillWanted
PROPERTIES PreviousCurrentStays AutosaveCatchesUp
CHECK_DEADLOCK FALSE
