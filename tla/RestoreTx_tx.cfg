CONSTANTS
    t1 = t1
    t2 = t2
    Target <- TwoSessions
    Backup <- Temporaries
    Saved <- Snapshot3
    Deferred = {3}
    Preferred <- ClientState
    Terminals = {t1, t2}
    UserNames = {"a", "c"}
    MaxFaults = 1
    MaxActs = 2
SPECIFICATION Spec
INVARIANTS TypeOK RollbackIsTrue RestoredNames TerminalsArrived
PROPERTIES KeepsPromise
CHECK_DEADLOCK FALSE
