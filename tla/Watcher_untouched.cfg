SPECIFICATION Spec
CONSTANTS
    boot = boot
    work = work
    Shapes = {boot, work}
    Boot = boot
    AutoRestore = TRUE
    MaxIds = 3
    MaxGen = 2
    MaxChanges = 2
    MaxDeaths = 1
INVARIANTS UntouchedMeansUntouched
CHECK_DEADLOCK FALSE
