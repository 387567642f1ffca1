SPECIFICATION FairSpec
CONSTANTS
    FragmentData = 2
    MaxFrame = 5
    Generations = {1, 2}
    WatchCapacity = 2
    Recordable = {"MessageReceived", "ConversationCreated"}
    ChangesMax = 5
    Endpoints = 2
    FaultsMax = 1
INVARIANT GapAccounted
PROPERTY EventuallyTold
CHECK_DEADLOCK FALSE
