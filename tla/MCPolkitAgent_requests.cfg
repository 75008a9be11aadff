SPECIFICATION Spec
CONSTANTS
    Requests = {a, b, n}
    NoIdentity = {n}
    Accounts = {0, 1}
    None = none
INVARIANTS
    AnsweredOnce
    WaitTheirTurn
    PasswordStaysInItsDialog
PROPERTIES
    CancelledIsAnswered
CHECK_DEADLOCK FALSE
