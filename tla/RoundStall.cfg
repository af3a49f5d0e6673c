SPECIFICATION Spec
CONSTANTS
    Host = host
    Guests = {ann, ben}
    MaxPlayers = 3
    InFlightLimit = 2
    MaxRound = 3
INVARIANTS
    RoundsAdvance
