CONSTANTS
    Procs = {p1, p2}
    p1 = p1
    p2 = p2
    Absent = Absent
    Broken = Broken
    Symbols = {"S"}
    Chains = {"eth", "bsc"}
    Networks = {"eth", "bsc", "erc20"}
    Contracts = {"a", "b"}
    ChainOf <- MCChainOf
    CoinLists <- MCCoinLists
    Searches <- MCSearches
    Jobs <- MCJobs
    RecentMax = 2
    Addresses = {"0xab", "0xAB", "0xcd", "0xef"}
    Fold <- MCFold
    Books <- MCBooks
    MaxCommands = 3
    MaxJobs = 3
SPECIFICATION HomeSpec
CONSTRAINT MCBound
INVARIANTS NeverSilent SavedPassesCheck RecentAreSaved OneEntryPerAddress
PROPERTIES SerialSaveIsAtomic BrokenBookKept
CHECK_DEADLOCK FALSE
SYMMETRY MCTasks
