SPECIFICATION Spec
CONSTANTS
    Patience = 2
    MaxIdle = 2
    Worlds <- SleepOrIdle
INVARIANTS
    HeldForTheNextSleep
    KeyWorksOnlyWhenRested
    PowerFollowsInput
PROPERTIES
    SleepsLocked
    SleepIsLetGo
CHECK_DEADLOCK FALSE
