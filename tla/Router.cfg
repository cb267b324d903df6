SPECIFICATION FairSpec
CONSTANTS
    Agents = {a1, a2}
    Capabilities = {code}
    Priorities = {1, 2}
    NoAgent = NoAgent
    Callers = {c1, c2}
    NoCall = NoCall
    Infos <- MCInfos
INVARIANTS
    RouteAnswersBest
    MatchingIsRanked
    ReportIsComplete
PROPERTIES
    EveryCallReturns
