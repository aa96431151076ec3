SPECIFICATION Spec
CONSTANTS
    MemoryBound = 2
    ByteBound = 2
    StackBound = 3
    MptTable <- MCMptTable
    Rows <- MCRows
    MaxRows = 4
INVARIANTS
    ReadConsistency
    PushBeforePop
    StackHasNoGap
    ValuePrevConsistency
CONSTRAINT
    OneKind
CHECK_DEADLOCK FALSE
