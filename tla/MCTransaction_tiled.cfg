SPECIFICATION Spec
CONSTANTS
    Tiled = {a, b}
    Floating = {}
    Workspaces = {w1, w2}
    None = None
    Sizes = {1, 2}
    Share <- MCShare
    MaxConf = 3
INVARIANTS
    TreesSound
    RefsExact
    NothingLost
    ClientKnowsSize
PROPERTIES
    AppliedWhenReady
    ImplementsAtomicLayout
CHECK_DEADLOCK FALSE
