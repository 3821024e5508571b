SPECIFICATION Spec
CONSTANTS
    Recent = 1
    Safety = 1
    HourlyDays = 1
    DailyDays = 2
    Minutes = 2
    Hours = 2
    MaxTime = 10
INVARIANTS TypeOK PeriodsRemembered
PROPERTIES HistoryBounded
CHECK_DEADLOCK FALSE
