SPECIFICATION Spec
CONSTANTS
    Ids = {i, j}
    Names = {x, y}
    Conns = {c}
    Worlds <- EachWorld
    CacheOn = TRUE
    Batch = 2
    MaxAccepts = 2
INVARIANTS
    AnsweredOnce
    AnswerFits
    CacheSound
    FailsWhenNoneIsLeft
SYMMETRY Symmetry
CHECK_DEADLOCK FALSE
