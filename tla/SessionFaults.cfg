SPECIFICATION Spec
CONSTANTS
    Requests = {1, 2}
    MaxMsgId = 5
    IdsBufferSize = 4
    MaxFaults = 2
    Faults = {"cancel", "error", "break", "refuse", "fatal", "forget", "check", "stop"}
    Misreads = TRUE
INVARIANTS TypeOK OwnAnswer NothingForgotten
CHECK_DEADLOCK FALSE
