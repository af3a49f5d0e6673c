SPECIFICATION FairSpec
CONSTANTS
    r1 = r1
    r2 = r2
    alice = alice
    Requests = {r1, r2}
    Calls <- MCCalls
    UserOf <- MCUserOf
    Modes = {"worker", "inline", "rest", "rest-bare"}
    MaxAttempts = 2
    MaxStalls = 0
    Faults = TRUE
    NoOne = NoOne
    Free = Free
    Orphan = Orphan
PROPERTIES
    ActionsEnd
    NothingHeldForever
