SPECIFICATION Spec
CONSTANTS
    Browsers = {b1, b2}
    MaxMessages = 2
    MaxJoins = 3
INVARIANTS TypeOK InOrderNoGap NeverSleepsOnMessage
PROPERTIES BroadcastCompletes Delivered StopEndsClients
CHECK_DEADLOCK FALSE
