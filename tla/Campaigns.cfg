SPECIFICATION Spec
CONSTANTS
    Host = host
    Guests = {g1, g2, g3}
    Npcs = {n1}
    MaxPortraits = 1
    MaxPlayers = 2
    Calls = {c1, c2}
    Invites = {i1, i2}
    Codes = {k1, k2, k3}
    NoCode = NoCode
SYMMETRY Symmetry
INVARIANTS TypeOK PartyIsWhole UrlsHaveFiles OverfillBounded DeadCodesBounded
PROPERTIES OnlyTheArtUnmarks
CHECK_DEADLOCK FALSE
