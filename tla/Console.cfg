SPECIFICATION ConsoleSpec
CONSTANTS
    Columns = {"INTERESTED", "WON"}
    Tours <- MCTours
    MaxSent = 2
    MaxMisses = 1
    MaxFailures = 2
    LockoutSeconds = 3
    MaxSeconds = 10
    Talks = {t1, t2}
    NoTalk = NoTalk
    MaxNews = 1
    MaxAsks = 2
    MaxFails = 1
    Leads = {1, 2, 3}
    FreshLeads = {1, 3}
    PageLength = 1
    MaxPosts = 2
    MaxTurns = 2
INVARIANTS
    ConsoleTypeOK
    OwnChangesAreShown
    LockoutLimitsGuesses
    ReplyFitsItsThread
    TickedCampaignNamesLeads
CHECK_DEADLOCK FALSE
