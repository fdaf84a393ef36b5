SPECIFICATION FairSpec
CONSTANTS
    a1 = a1
    a2 = a2
    bot = bot
    rival = rival
    w1 = w1
    w2 = w2
    Accounts = {a1, a2}
    Callers = {bot}
    Projects = {alpha}
    NoProject = NoProject
    NoCaller = NoCaller
    Results = {"success", "provider_blocked"}
    Workers = {w1}
    MaxClaims = 2
    MaxReads = 0
INVARIANTS CountersMatchLog ClaimsAreClosed
PROPERTIES ClaimEnds
CHECK_DEADLOCK FALSE
