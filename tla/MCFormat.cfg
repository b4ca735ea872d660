CONSTANTS
    WordBits = 4
    Words <- MCWords
    Strings <- MCStrings
    NArgs = 2
    Digits = {"3"}
    MaxDigits = 2
SPECIFICATION Spec
INVARIANT PrintsAsC
CHECK_DEADLOCK FALSE
