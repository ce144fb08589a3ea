SPECIFICATION LiveSpec
CONSTANTS
    Requests = {1, 2}
    Dcs = {1, 2}
    MaxDelay = 1
    MaxErrors = 4
INVARIANTS TypeOK Placed FoundByDc DelayedIsTimed
PROPERTY Settles
CHECK_DEADLOCK FALSE
