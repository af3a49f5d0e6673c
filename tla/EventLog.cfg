SPECIFICATION FairSpec
CONSTANTS
    Txs = {t1, t2, t3}
    MaxAppends = 3
INVARIANTS
    TypeOK
    NoGapsNoDuplicates
    OneWriter
PROPERTIES
    TransactionsEnd
    ImplementsHistory
