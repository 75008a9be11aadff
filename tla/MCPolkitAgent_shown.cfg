SPECIFICATION Spec
CONSTANTS
    Requests = {a, b}
    NoIdentity = {}
    Accounts = {0}
    None = none
INVARIANTS
    AnswerHasAReason
SYMMETRY Symmetry
CHECK_DEADLOCK FALSE
