CONSTANTS
    Workloads <- MCWorkloads
    MAX_COPY_ROWS = 32
    MAX_CODE_ROWS = 12
SPECIFICATION FairSpec
CHECK_DEADLOCK FALSE
INVARIANTS
    ErrorFollowsGeth
    MemoryFollowsGeth
    ReadsSeeLastWrite
    CopiesAccepted
    CodeAccepted
    StepsAccepted
    OnlyThisStep
PROPERTIES
    FrameIsClosed
