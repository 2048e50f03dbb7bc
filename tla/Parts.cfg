SPECIFICATION PartsSpec
CONSTANTS
    ListHead = {h1, h2}
    Entry = {a, b, c}
    Value = {1, 2}
    Size = 3
    SCREEN_WIDTH = 5
    SCREEN_HEIGHT = 3
    Text <- MCText
    MaxLines = 3
INVARIANTS
    PointersInverse IndexesAgree CursorInScreen CursorIsShown
PROPERTIES
    ImplementsLists ImplementsFifo
