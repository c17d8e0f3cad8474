SPECIFICATION Spec
CONSTANTS
    s1 = s1
    s2 = s2
    Stations = {s1, s2}
    Default = s1
    NoStation = NoStation
    LikeARoute = {s2}
    HostWord <- MCHostWord
    Threads = {t1, t2}
    Reporters = {r1}
    Commands = {"control"}
    None = None
    MaxEvents = 3
INVARIANTS TypeOK MapsAgree StatusFollows PageFollows
PROPERTIES AskedIsDone Answered
CHECK_DEADLOCK FALSE
