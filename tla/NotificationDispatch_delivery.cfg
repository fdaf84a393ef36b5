SPECIFICATION Spec
CONSTANTS
    MaxMessages = 2
    MaxNow = 3
    MaxPerJob = 1
    MaxFaults = 1
    FolderCount = 1
    FetchLimit = 2
    Sources = {"graph", "imap"}
    Jobs = {j1, j2}
    SendsFail = TRUE
    SameSecond = TRUE
SYMMETRY JobSymmetry
INVARIANTS TypeOK SentOnce
PROPERTIES CursorMonotone DeliveryLedgerSpec 
CHECK_DEADLOCK FALSE
