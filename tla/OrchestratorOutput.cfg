SPECIFICATION FairSpec
CONSTANTS
    MaxMessages = 2
    MaxBytes = 20
    MaxTokens = 6
    Agents = {a1}
    code = code
    Capabilities = {code}
    Priorities = {1}
    NoAgent = NoAgent
    PolicyEnabled = TRUE
    MaxInputBytes = 8
    RedactionEnabled = TRUE
    RedactedBytes = 5
    Requests = {r1}
    Sessions = {s1}
    UserRequests <- MCPlainRequests
    NoBudget = NoBudget
    NoPreference = NoPreference
    DefaultCapability = code
    Plans <- MCSplitPlans
    MaxSubtasks = 2
    Infos <- MCInfos
    MaxConcurrency = 1
    Responses <- MCLongResponses
    NoResult = NoResult
INVARIANTS
    OutputIsChecked
