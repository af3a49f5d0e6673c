SPECIFICATION Spec
CONSTANTS
    r1 = r1
    r2 = r2
    alice = alice
    Requests = {r1, r2}
    Calls <- MCCalls
    UserOf <- MCUserOf
    Modes = {"worker"}
    MaxAttempts = 3
    MaxStalls = 1
    Faults = FALSE
    NoOne = NoOne
    Free = Free
    Orphan = Orphan
INVARIANT
    OneActionPerUser
