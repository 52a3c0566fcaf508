\* Two processes that sync at the same time.
CONSTANTS
    a = "a"
    b = "b"
    c = "c"
    Procs = {"p1", "p2"}
    N = 3
    Sums = {"a", "b", "c"}
    Versions = {"v1", "v2", "v3"}
    Catalog <- MCCatalog
    DiskFails = FALSE
    MaxSyncs = 2
SPECIFICATION Spec

PROPERTIES ErrorLosesNothing
CHECK_DEADLOCK FALSE
