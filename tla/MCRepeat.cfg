\* A repeat with an end: 2 ticks over 9, so 6 runs, and a clock that leaves room for two overruns.
CONSTANTS
    Every = 2
    HasEnd = TRUE
    Duration = 9
    MaxTime = 13
SPECIFICATION FairSpec
INVARIANTS RunsWithinTotal NoBurst OnTheGrid
PROPERTY EndedRepeatReturns
