SPECIFICATION Spec
CONSTANTS
    KEYBOARD_COMMAND_BUFFER_SIZE = 8
    KEYBOARD_CHAR_BUFFER_SIZE = 2
    Lock = {}
    Key = {30}
    Reader = {r1, r2}
    MaxPresses = 2
    MaxNoise = 0
INVARIANT GetCharReturns
\* The user may stop pressing keys.
CHECK_DEADLOCK FALSE
