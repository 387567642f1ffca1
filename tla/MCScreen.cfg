CONSTANTS
    file = file
    reply = reply
    mine = mine
    lost = lost
    chat = chat
    None = None
    Messages <- MCMessages
    GroupOf <- MCGroupOf
    KindOf <- MCKindOf
    Past <- MCPast
    Vault <- MCVault
    Mine = {}
    Nameless = {reply}
    Hits = {reply, mine}
    Sends = {mine}
    Arrivals = {reply}
    PageMax = 2
    ScanMax = 3
    RecordsMax = 9
    PageLimit = 1
    FaultsMax = 1
    MarksMax = 1
SPECIFICATION Spec
INVARIANTS WindowWhole UnreadHonest StoreFaithful
PROPERTIES EventuallyShown
CHECK_DEADLOCK FALSE
