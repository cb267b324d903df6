SPECIFICATION FairToolSpec
CONSTANTS
    Names = {ls, bin}
    PipeSize = 1
    Widths = {1, 3}
    MaxUnits = 2
    MaxLimit = 1
INVARIANTS
    AnswerFitsOutput
    OnlyTimeoutLeavesTool
    NeverStuck
PROPERTIES
    EveryToolEnds
\* One call is made; once it has returned and its tool has ended nothing is left
\* to do.
CHECK_DEADLOCK FALSE
