\* One market; three ticks, so a breach can be lost sight of and come back.
CONSTANTS
    Rows = {"USDC@binance"}
    Amounts = {"2 sells", "3 sells"}
    HasCsv = TRUE
    MaxTicks = 3
SPECIFICATION FairSpec
INVARIANTS EveryStateAnnounced
PROPERTIES ErrorClearsNothing BellRings
CHECK_DEADLOCK FALSE
