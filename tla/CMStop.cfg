SPECIFICATION Spec
CONSTANTS
    Stations = {s1}
    Infos = {i1}
    Conns = {c1, c2}
    Threads = {t1, t2}
    None = None
    MaxRetries = 1
    Commands = {"add", "disconnect"}
    MaxCommands = 2
    MaxDrops = 1
    Calm = FALSE
PROPERTIES ReconnectStops
CHECK_DEADLOCK FALSE
