SPECIFICATION Spec
CONSTANTS
    a1 = a1
    a2 = a2
    bot = bot
    rival = rival
    w1 = w1
    w2 = w2
    Accounts = {a1}
    Callers = {bot, rival}
    Projects = {alpha}
    NoProject = NoProject
    NoCaller = NoCaller
    Results = {"network_error"}
    Workers = {w1, w2}
    MaxClaims = 3
    MaxReads = 0
INVARIANTS NoDoubleHold
CHECK_DEADLOCK FALSE
