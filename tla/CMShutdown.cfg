SPECIFICATION LiveSpec
CONSTANTS
    Stations = {s1}
    Infos = {i1}
    Conns = {c1, c2}
    Threads = {t1, t2}
    None = None
    MaxRetries = 1
    Commands = {"add", "shutdown"}
    MaxCommands = 2
    MaxDrops = 0
    Calm = FALSE
PROPERTIES ShutdownCompletes
CHECK_DEADLOCK FALSE
