SPECIFICATION Spec
CONSTANTS
    launcher = launcher
    game = game
    wl1 = wl1
    wl2 = wl2
    wg = wg
    Apps = {launcher, game}
    Windows = {wl1, wl2, wg}
    Owner <- OwnerOf
    Worlds <- FamilyOrStrangers
    MayBeBusy = TRUE
    MaxCloses = 1
INVARIANTS
    NobodyIsForgotten
    ShownRuns
PROPERTIES
    CloseIsHandled
CHECK_DEADLOCK FALSE
