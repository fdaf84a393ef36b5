SPECIFICATION TempMailSpec
CONSTANTS
    Addresses = {x}
    Sharable = {x}
    Providers = {TRUE}
    Consumers = {c1, c2}
    Applicants = {c1}
    Admin = admin
    Nobody = nobody
    MailThreads = {1, 2}
    PollJob = 0
    MaxMail = 1
    MaxBoxes = 2
    MaxProbes = 2
    MaxRequests = 3
    MaxClock = 2
    PollLimit = 1
PROPERTIES TaskProbesAreRead
CHECK_DEADLOCK FALSE
