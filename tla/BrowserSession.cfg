SPECIFICATION Spec
CONSTANTS
    Conns = {1, 2}
    Own = {o1}
    Foreign = {f1}
    Modes = {"rest", "worker", "inline"}
    NoConn = NoConn
    MaxEchoes = 1
    MaxInbox = 2
INVARIANTS TypeOK OneLiveSocket Converges
PROPERTIES OnlyLateStatusSticks OnlyReconnectsDeafen ComposerFrees
CHECK_DEADLOCK FALSE
