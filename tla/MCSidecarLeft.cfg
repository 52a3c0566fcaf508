CONSTANTS
    Runs = {r1, r2}
    Children = {c1, c2}
    Cmds = {q1, q2}
    r1 = r1
    r2 = r2
    c1 = c1
    c2 = c2
    q1 = q1
    q2 = q2
    NoChild = NoChild
    Nobody = Nobody
    Absent = Absent
    Broken = Broken
    MaxPolls = 1
    MaxBuilds = 2
    MaxBegun = 3
SPECIFICATION Spec
PROPERTY SidecarStopsWithServer
CHECK_DEADLOCK FALSE
SYMMETRY MCAlike
