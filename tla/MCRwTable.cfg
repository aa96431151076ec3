SPECIFICATION Spec
CONSTANTS
    MemoryBound = 2
    ByteBound = 2
    StackBound = 2
    Values = {0, 1}
    MaxTxs = 2
    Workloads <- MCWorkloads
INVARIANTS
    PaddingAgrees
    TrieHistory
    AssignmentAccepted
