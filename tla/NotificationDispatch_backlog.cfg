SPECIFICATION FairSpec
CONSTANTS
    MaxMessages = 2
    MaxNow = 3
    MaxPerJob = 1
    MaxFaults = 0
    FolderCount = 2
    FetchLimit = 1
    Sources = {"graph", "imap"}
    Jobs = {j1}
    SendsFail = TRUE
    SameSecond = FALSE
PROPERTIES BacklogIsSent NothingSkipped
CHECK_DEADLOCK FALSE
