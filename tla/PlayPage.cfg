SPECIFICATION Spec
CONSTANTS
    MaxVersion = 2
    MaxInFlight = 3
    MaxPolls = 1
INVARIANTS TypeOK PanelsConverge PageConverges MapsShowTheMarkers
PROPERTIES SpinnersEnd ArtAppears
CHECK_DEADLOCK FALSE
