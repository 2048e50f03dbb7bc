SPECIFICATION Spec
CONSTANTS
    IntBits = 8
    Bus = {0, 255}
    KnownVendor <- MCKnownVendor
    LineSize = 12
    MaxArguments = 2
    Line <- MCLine
    Config <- MCConfig
    CommandName <- MCCommandName
    OUT_W = 8
    Readable <- MCReadable
    Garbage <- MCGarbage
    MaxDevices = 3
    MaxBackspaces = 2
INVARIANTS TheLineIsExecuted NumbersAreRead DevicesAreListed
CHECK_DEADLOCK FALSE
