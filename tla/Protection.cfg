SPECIFICATION Spec
CONSTANTS
    Stations = {s1}
    NaN = NaN
    Infinite = Infinite
    Decades <- MCDecades
    NoAsdu = NoAsdu
    Asdus <- MCAsdus
    Commands <- MCCommands
    Times <- MCTimes
    Addresses = {0, 1, 2, 3}
    PackWidth = 2
    MaxEvents = 2
    MAX_POINTS = 1
    POINTS_CLEANUP_THRESHOLD = 2
    MaxPackets = 1
    MaxDrops = 1
    MaxSeconds = 1
INVARIANTS ProtectionShown
CHECK_DEADLOCK FALSE
