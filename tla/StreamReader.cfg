CONSTANTS
    Sizes = {2, 3}
    PartsInSlice = 2
    MaxOnlyInHeader = 2
    MaxPartsInHeader = 2
    OutsideFirstGood = 0
    SlicesInMemory = 1
    PreloadAhead = 0
    LoadMax = 1
    DownloaderLimit = 1
    RequestLimit = 2
    CachedAtStart = {{}, {0}}
    UsesCache = {TRUE, FALSE}
    ReadParts = {2}
    SemBound = 1
    MaxEvents = 3
SPECIFICATION Spec
INVARIANTS AssertionsHold ThreadsApart
PROPERTIES FillReturns DownloaderServed
CHECK_DEADLOCK FALSE
