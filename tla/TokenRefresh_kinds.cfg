SPECIFICATION FairSpec
CONSTANTS
    Runs = {r1, r2}
    Accounts = {a1}
    Kinds = {"manual_all", "scheduled_manual", "scheduled", "retry_failed"}
    Others = {}
    NoRun = NoRun
    MaxOverruns = 1
    MaxRotations = 0
    MaxEdits = 0
INVARIANTS TypeOK NoConcurrentRefresh
PROPERTIES RefreshLedgerSpec LockComesBack
CHECK_DEADLOCK FALSE
