SPECIFICATION LiveSpec
CONSTANTS
    Requests = {1, 2}
    MaxMsgId = 7
    IdsBufferSize = 4
    MaxFaults = 1
    Faults = {"cancel", "error", "break", "refuse", "fatal", "forget", "check", "stop"}
    Misreads = FALSE
PROPERTY KeepsPromise
CHECK_DEADLOCK FALSE
