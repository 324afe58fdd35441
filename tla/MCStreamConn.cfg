\* Two chunks each way, so a copy may hold one while another waits; every end,
\* reset, close and failure.  A handler returns once, and the pipe is over.
CONSTANTS
    InChunks = 2
    OutChunks = 2
SPECIFICATION LiveSpec
INVARIANTS
    EofMeansAll
    EndMeansAll
PROPERTIES
    WaitReturns
    FailuresEnd
CHECK_DEADLOCK FALSE
