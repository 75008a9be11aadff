SPECIFICATION Spec
CONSTANTS
    Screens = {"s1", "s2"}
    Clients = {c1, c2}
    Nobody = Nobody
    Passwords = {"right", "wrong"}
    Right = "right"
    c1 = c1
    c2 = c2
    Bounds <- OneOrTwo
INVARIANTS
    Covered
    KeyboardAtLockScreen
    SurfacesAreExpected
PROPERTIES
    ReturnsOnceLocked
    ImplementsLocked
    SomebodyCanSignIn
    RightPasswordUnlocks
CHECK_DEADLOCK FALSE
