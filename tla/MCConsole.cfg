CONSTANTS
    CMD_BUF_SIZE = 5
    CRT_ROWS = 3
    CRT_COLS = 3
    Chars = {"c", "u", " "}
    Prompt <- MCPrompt
    commands <- MCCommands
    Clear = 1
    PosSize = 13
    MaxKeys = 10
    MaxNest = 1
SPECIFICATION Spec
INVARIANTS TypeOK EchoFaithful RunsWhatWasTyped ClearLeavesPrompt
CHECK_DEADLOCK FALSE
