SPECIFICATION FairSpec
CONSTANTS
    MaxAttempts = 2
    PipeSize = 1
    MaxPrompt = 2
    OutputSizes = {0, 2}
INVARIANTS
    ResultFitsChild
    StuckOnlyOnLargePrompt
PROPERTIES
    EveryChildEnds
\* Once it is answered, or out of attempts, nothing is left to do.
CHECK_DEADLOCK FALSE
