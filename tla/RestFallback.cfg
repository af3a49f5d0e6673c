SPECIFICATION Spec
CONSTANTS
    r1 = r1
    r2 = r2
    alice = alice
    Requests = {r1}
    Calls <- MCCalls
    UserOf <- MCUserOf
    Modes = {"rest"}
    MaxAttempts = 3
    MaxStalls = 1
    Faults = FALSE
    NoOne = NoOne
    Free = Free
    Orphan = Orphan
INVARIANT
    UndisturbedActionsResolve
