SPECIFICATION LiveSpec
CONSTANTS
    s1 = s1
    r1 = r1
    r2 = r2
    Stoppers = {s1}
    Reloaders = {r1, r2}
    MaxGen = 2
    MaxFaults = 2
INVARIANTS TypeOK AcknowledgedIsKept AcknowledgedDecides
PROPERTIES AcknowledgedHappens
CHECK_DEADLOCK FALSE
