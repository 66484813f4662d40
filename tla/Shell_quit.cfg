CONSTANTS
    H = 3
    N = 3
    T = 2
    Printable = {97}
    QuitKey = 97
CHECK_DEADLOCK FALSE
SPECIFICATION EditorSpec
INVARIANT QuitExits
