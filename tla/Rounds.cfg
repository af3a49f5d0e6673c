SPECIFICATION Spec
CONSTANTS
    Host = host
    Guests = {ann, ben}
    MaxPlayers = 3
    InFlightLimit = 2
    MaxRound = 3
INVARIANTS
    TypeOK
PROPERTIES
    OnlyDoublesActTwice
    NoLostTurn
    OnlyDeparturesStall
    ImplementsTable
