SPECIFICATION MailReadSpec
CONSTANTS
    Readers = {w1, w2}
    MaxMails = 2
    Coded = {1}
    Linked = {2}
    MaxReads = 2
    MaxEdits = 1
INVARIANTS ExtractFallsBack
CHECK_DEADLOCK FALSE
