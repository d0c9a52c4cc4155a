\* Everything but ratings, registration, sessions and sockets: three calls, four in a conversation, two at a time.
CONSTANTS
    ana = ana
    bia = bia
    rui = rui
    gil = gil
    paulo = paulo
    pia = pia
    eva = eva
    root = root
    here = here
    there = there
    bread = bread
    pipes = pipes
    mon = mon
    tue = tue
    Users = {ana, bia, rui, gil, paulo, pia, eva, root}
    Role <- MCRole
    Home <- MCHome
    MaxCalls = 4
    MaxInFlight = 2
    PageSize = 2
    Categories = {bread, pipes}
    Slots = {mon, tue}
    Renowned = {eva}
    Newcomers = {pia}
    OldRequester = ana
    OldAsker = ana
    OldAsked = paulo
    OldPoster = ana
    OldForgetter = ana
    OldTalk <- MCOldTalk
    None = None
    Scenes <- MCScenes
SPECIFICATION FairSpec
INVARIANTS TypeOK RespondedOnce PageKeepsOrder ReviewStands CommunitiesApart SavesReplace FeaturedHasSeal DeletedIsNotShown ResetIsWhole OneConversationPerPair HistoryIsExact
PROPERTIES EveryCallEnds AftermathFollows
CHECK_DEADLOCK FALSE
