SPECIFICATION Spec
CONSTANTS
    l = l
    r = r
    w1 = w1
    d1 = d1
    d2 = d2
    d3 = d3
    Screens = {l, r}
    Row <- LeftRight
    Windows = {w1}
    Desks = {d1, d2, d3}
    Places = {"p"}
    MaxChanges = 4
    MaxMade = 2
    None = None
SYMMETRY Symmetry
INVARIANTS
    EveryDesktopHasAScreen
    RestoreGoesBack
PROPERTIES
    ReturnsAsItWas
    StaysOnView
CHECK_DEADLOCK FALSE
