SPECIFICATION ServicesSpec
CONSTANTS
    Readers = {w1, w2}
    MaxMails = 2
    Coded = {1}
    Linked = {2}
    MaxReads = 2
    MaxEdits = 1
    MinLen = 2
    MaxLen = 3
    YearLen = 2
    Window = 2
    MaxText = 5
    MaxLinks = 2
    AddressFields <- MCAddressFields
    ThirdFields <- MCThirdFields
    FourthFields <- MCFourthFields
    FifthFields <- MCFifthFields
    Emails = {1, 2}
    ImportLists <- MCImportLists
    AccountThreads = {1, 2}
    MaxAccounts = 2
    MaxGroups = 4
    MaxAccountRequests = 2
    MaxChanges = 1
    LoginThreads = {p1, p2}
    MaxAttempts = 2
    MaxSlips = 1
    Tokens = {k1}
    Addresses = {a, b}
    Agents = {f, noagent}
    NoAgent = noagent
    ExportThreads = {t1, t2}
    Unlocked = unlocked
    Editors = {e1, e2}
    MaxSaves = 3
    Programs = {g1, g2}
    Mailboxes = {b1, b2}
    OldSecrets = {a1}
    MaxStarts = 3
INVARIANTS
    TypeOK
    DetailIsTheMail SummaryKeepsUp
    ExtractionIsRight
    ReadsBack
    LoginFailuresBounded
    ExportedOnce
    JobsMatchSettings
    MigrationWhole
PROPERTIES
    ReportIsTrue PlacedByProvider
CHECK_DEADLOCK FALSE
