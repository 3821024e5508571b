SPECIFICATION Spec
CONSTANTS
    Starts <- MCStarts
    Bases = {0, 1}
    Renumbering = {FALSE, TRUE}
    PaneBaseMax = 3
    DefaultRows = 5
CHECK_DEADLOCK FALSE
INVARIANTS TypeOK HooksDoNoHarm EveryServerFits LossIsNoticed LinksRestored SelectionRestored WindowsRestored RefusedForKnownReasons
