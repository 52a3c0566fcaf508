\* The tape is shorter than the trades, and the interval shorter than the run.
CONSTANTS
    Window = 2
    Limit = 3
    MaxTime = 5
    MaxTrades = 4
SPECIFICATION Spec
INVARIANTS JudgedOnce NoneMissed
CHECK_DEADLOCK FALSE
