SPECIFICATION LiveSpec
CONSTANTS
    Stations = {s1}
    Infos = {i1}
    Conns = {c1, c2}
    Threads = {t1, t2}
    None = None
    MaxRetries = 1
    Commands = {"add", "remove", "disconnect"}
    MaxCommands = 3
    MaxDrops = 1
    Calm = FALSE
PROPERTIES DestroyCompletes
CHECK_DEADLOCK FALSE
