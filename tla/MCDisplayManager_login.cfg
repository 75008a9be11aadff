SPECIFICATION Spec
CONSTANTS
    Settings <- GreeterAndAutomatic
    MaxPrompts = 2
    MaxQuickDeaths = 2
INVARIANTS
    PasswordsPassTheDaemonBy
    ScreenHandedOver
    RepliesFitTheAttempt
PROPERTIES
    GreeterComesBack
    OnlySessionDelaysTerm
CHECK_DEADLOCK FALSE
