SPECIFICATION Spec
CONSTANTS
    Starts <- MCStarts
    Bases = {0, 1}
    Renumbering = {FALSE}
    PaneBaseMax = 3
    DefaultRows = 5
CHECK_DEADLOCK FALSE
INVARIANT PlaceholderHasRoom
