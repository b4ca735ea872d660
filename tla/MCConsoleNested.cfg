CONSTANTS
    CMD_BUF_SIZE = 5
    CRT_ROWS = 3
    CRT_COLS = 3
    Chars = {"c", "u", " "}
    Prompt <- MCPrompt
    commands <- MCCommands
    Clear = 1
    PosSize = 13
    MaxKeys = 6
    MaxNest = 2
SPECIFICATION Spec
INVARIANTS BufferInBounds
CHECK_DEADLOCK FALSE
