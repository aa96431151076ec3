SPECIFICATION Spec
CONSTANTS
    Keys <- MCKeys
    Vals <- MCVals
    MaxDepth = 3
    MaxCalls = 3
    MaxOps = 3
INVARIANTS
    TypeOK
    ReversionLookup
    RevertedOnce
    PersistentOrGrouped
    ReversalCount
PROPERTY
    JournalSpec
