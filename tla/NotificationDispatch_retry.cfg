SPECIFICATION Spec
CONSTANTS
    MaxMessages = 2
    MaxNow = 2
    MaxPerJob = 2
    MaxFaults = 0
    FolderCount = 1
    FetchLimit = 2
    Sources = {"graph"}
    Jobs = {j1}
    SendsFail = TRUE
    SameSecond = TRUE
INVARIANTS FailedStaysAhead
CHECK_DEADLOCK FALSE
