SPECIFICATION Spec
CONSTANTS
    Fee = 3
    GasReturned = 1
    Reward = 1
    CallDepthLimit = 3
    MaxRws = 600
    Accounts <- MCAccounts
    Slots <- MCSlots
    Coinbase = 9
    Programs <- NewAccountPrograms
    Disputed = {"new account without value"}
INVARIANT
    EvmCircuitAccepts
