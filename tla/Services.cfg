SPECIFICATION ServicesSpec
CONSTANTS
    ann = ann
    bob = bob
    bad = bad
    Prospects = {ann}
    Strangers = {bob}
    CampaignMails = {m1}
    ReplyMails = {m2}
    EventKinds = {"bounced", "reply"}
    ReplyClasses = {"UNSUBSCRIBE"}
    NoAddress = NoAddress
    MaxStalls = 1
    MaxTrouble = 2
    Clients = {c1, c2}
    Bookers = {b1, b2}
    Amounts = {1, 3}
    MaxBookings = 3
    ImportIds = {i1}
    Mailboxes = {ann, bob}
    Malformed = bad
    Files <- MCFiles
    ChunkSize = 2
    ImportStalls = 1
    MaxImportFaults = 2
    People = {u1}
    Sessions = {s1, s2}
    Calls = {k1, k2}
    Profiles = {f1, f2}
    Nobody = Nobody
    MaxPasswords = 1
    MaxCalls = 4
    Readers = {r1, r2}
    CacheTtl = 4
    BeatTtl = 2
    StaleAfter = 4
    MaxClock = 6
    MaxSending = 2
    MaxTime = 6
    Prompts = {q1, q2}
    MaxRetries = 3
    RateLimit = 2
INVARIANTS
    ServicesTypeOK
    EventsRecordedOnce
    ProcessedIsHandled
    StoredEventsAreKept
    ListedLeadIsBlocked
    RevenueReportsAgree
    ImportAccountsForRows
    CancelledStaysQuiet
    AdmittedWereLive
    OneDefaultProfile
    DashboardIsRecent
    HealthIsTrue
    GivesUpLast
    ConversationsAreOfReplies
PROPERTY OutcomeIsNotOverwritten
CHECK_DEADLOCK FALSE
