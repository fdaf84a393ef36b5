SPECIFICATION Spec
CONSTANTS
    Runs = {r1, r2}
    Accounts = {a1}
    Kinds = {"manual_all", "retry_failed"}
    Others = {t1}
    NoRun = NoRun
    MaxOverruns = 0
    MaxRotations = 2
    MaxEdits = 1
SYMMETRY RefreshSymmetry
PROPERTIES TokenNeverGoesBack
CHECK_DEADLOCK FALSE
