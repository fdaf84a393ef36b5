SPECIFICATION Spec
CONSTANTS
    a1 = a1
    a2 = a2
    bot = bot
    rival = rival
    w1 = w1
    w2 = w2
    Accounts = {a1}
    Callers = {bot, rival}
    Projects = {alpha}
    NoProject = NoProject
    NoCaller = NoCaller
    Results = {"success"}
    Workers = {w1, w2}
    MaxClaims = 2
    MaxReads = 1
SYMMETRY PoolSymmetry
INVARIANTS TypeOK ProjectExclusive HolderIsLatestGrant WritesFindTheirRow LogFollowsClaim
PROPERTIES LedgerSpec
CHECK_DEADLOCK FALSE
