SPECIFICATION Spec
CONSTANTS
    IndexBits = 3
    N = 8
    Base = 2
    P = 5
INVARIANTS
    ClaimIsOrdered
    AssignIffGreater
    IndexIsMeaningful
