SPECIFICATION FairSpec
CONSTANTS
    MaxMessages = 2
    MaxBytes = 8
    MaxTokens = 4
    Sessions = {s1}
    Messages <- MCMessages
    NoSession = NoSession
    NotTrimming = NotTrimming
    NotReading = NotReading
    NoMessage = NoMessage
    MaxHistory = 4
    MaxLedger = 2
INVARIANTS
    Consistent
    InputIsOneConversation
PROPERTIES
    TrimKeepsRecent
    TrimEnds
