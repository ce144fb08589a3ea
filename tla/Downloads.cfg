SPECIFICATION Spec
CONSTANTS
    Files = {f1}
    Streams = {s1}
    PartsCount = 2
    StartWaited = 1
    MaxWaited = 2
    MaxSessions = 2
    RetrySuccesses = 1
    RemoveAfterTimeouts = 1
    MaxRemoves = 1
    OnCdn = {f1}
    MaxInputs = 2
    MaxFaults = 1
INVARIANTS TypeOK AmountsMatch FinishedIsWhole NothingStalls
CHECK_DEADLOCK FALSE
