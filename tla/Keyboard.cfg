SPECIFICATION FairSpec
CONSTANTS
    KEYBOARD_COMMAND_BUFFER_SIZE = 8
    KEYBOARD_CHAR_BUFFER_SIZE = 1
    Lock = {58, 69}
    Key = {30}
    Reader = {r1}
    MaxPresses = 2
    MaxNoise = 3
INVARIANTS
    CommandsKeepTheirArguments LEDsFollowTheLocks GetCharReturns
PROPERTIES
    CommandsAreSent
\* The user may stop pressing keys.
CHECK_DEADLOCK FALSE
