SPECIFICATION Spec
CONSTANTS
    Requests = {1, 2}
    MaxMsgId = 5
    IdsBufferSize = 4
    MaxFaults = 1
    Faults = {"cancel", "error", "break", "refuse", "fatal", "forget", "check", "stop"}
    Misreads = TRUE
INVARIANT ResponseIsOfRequest
CHECK_DEADLOCK FALSE
