CONSTANTS
    t1 = t1
    t2 = t2
    Target <- TwoSessions
    Backup <- Temporaries
    Saved <- Snapshot
    Deferred = {}
    Preferred <- ClientState
    Terminals = {t1, t2}
    UserNames = {"a", "c"}
    MaxFaults = 1
    MaxActs = 0
SPECIFICATION Spec
INVARIANTS RestoresNames
CHECK_DEADLOCK FALSE
