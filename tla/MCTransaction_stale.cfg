SPECIFICATION Spec
CONSTANTS
    Tiled = {a}
    Floating = {f}
    Workspaces = {w1}
    None = None
    Sizes = {1, 2}
    Share <- MCShare
    MaxConf = 3
PROPERTY AskedSizeKept
CHECK_DEADLOCK FALSE
