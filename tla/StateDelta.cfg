SPECIFICATION Spec
CONSTANTS
    Actions = {a1, a2}
    Removal = removal
    Touched = {"character", "item", "marker"}
    MaxEntries = 2
INVARIANT TypeOK
PROPERTIES ImplementsHistory TransactionsEnd
CHECK_DEADLOCK FALSE
