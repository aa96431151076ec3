SPECIFICATION Spec
CONSTANTS
    a1 = a1
    a2 = a2
    k1 = k1
    k2 = k2
    Address = {a1, a2}
    Slot = {k1, k2}
    Preimage = {1}
    Ripemd = a2
    MaxValue = 1
    Workloads <- Loads
INVARIANTS NoPanic StorageTrieFollowsState NothingForgotten
 
CHECK_DEADLOCK FALSE
