SPECIFICATION RecoverSpec
CONSTANTS
    Stations = {s1}
    Infos = {i1}
    Conns = {c1, c2}
    Threads = {t1, t2}
    None = None
    MaxRetries = 2
    Commands = {"add", "connect", "disconnect", "send"}
    MaxCommands = 4
    MaxDrops = 2
    Calm = TRUE
INVARIANTS NoFault NoOrphan RestAccurate DisconnectedStaysDown
PROPERTIES Settles DropRecovers GivesUp PromiseKept
CHECK_DEADLOCK FALSE
