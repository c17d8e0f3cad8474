SPECIFICATION Spec
CONSTANTS
    Stations = {s1}
    Infos = {i1}
    Conns = {c1, c2}
    Threads = {t1, t2, t3}
    None = None
    MaxRetries = 1
    Commands = {"add", "remove", "connect", "disconnect", "send", "shutdown"}
    MaxCommands = 2
    MaxDrops = 1
    Calm = FALSE
VIEW NoReports
SYMMETRY Symmetry
INVARIANTS TypeOK SingleOwner DialIsPrivate
PROPERTIES HandlesUsedRight
CHECK_DEADLOCK FALSE
