SPECIFICATION RecoverSpec
CONSTANTS
    Stations = {s1}
    Infos = {i1}
    Conns = {c1, c2}
    Threads = {t1, t2}
    None = None
    MaxRetries = 0
    Commands = {"add", "connect"}
    MaxCommands = 2
    MaxDrops = 1
    Calm = FALSE
PROPERTIES Settles
CHECK_DEADLOCK FALSE
