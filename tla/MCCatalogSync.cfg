\* One process at a time, three syncs: one that dies or fails, and two after it.
CONSTANTS
    a = "a"
    b = "b"
    c = "c"
    Procs = {"p1"}
    N = 3
    Sums = {"a", "b", "c"}
    Versions = {"v1", "v2", "v3"}
    Catalog <- MCCatalog
    DiskFails = TRUE
    MaxSyncs = 3
SPECIFICATION Spec
INVARIANTS NeverBlocked
PROPERTIES InstalledWhole OldKeptUntilNewWhole ReportTrue ImplementsSwap
CHECK_DEADLOCK FALSE
