SPECIFICATION Spec
CONSTANTS
    Browsers = {b1}
    MaxMessages = 1
    MaxJoins = 1
INVARIANTS StopWakesAll
CHECK_DEADLOCK FALSE
