SPECIFICATION Spec
CONSTANTS
    Printable <- MCPrintable
    Dropped = {"^"}
    Upper <- MCUpper
    Widths = {2, 4, 6, 7}
    MaxTyped = 2
    Letters <- MCLetters
    Digits = {"1", "2", "6"}
    Others = {".", "-"}
    Words <- MCWords
    MoreWords <- MCMoreWords
    KnownRoots <- MCKnownRoots
    MaxWords = 3
    MaxBlanks = 2
    LineWidths = {0, 3, 5}
    WordLengths = {1, 2, 4}
    MaxTextWords = 5
    MaxLines = 3
    Names <- MCNames
    MaxEntity = 3
    MaxPieces = 4
    Heights = {1, 3, 5, 8}
    Lengths = {0, 1, 2, 4, 9}
    MaxWheel = 2
    Capacity = 3
    MaxTail = 2
    MaxEntries = 7
    Categories <- MCCategories
    Every <- MCEvery
    Unknown = 9
    Specs <- MCSpecs
    Window = 3
    Times = {1, 5}
    MaxFrames = 7
    kMaxHeadlines = 2
    Timestamps = {1, 2}
    CellHeight = 2
    Clicks <- MCClicks
    MaxBatch = 2
    MaxReceived = 3
    Keys <- MCKeys
    GroupOf <- MCGroupOf
    Positions <- MCPositions
    Costs = {1, 3}
    Values <- MCValues
    Largest = 3
INVARIANTS
    CommandsResolve
    TextIsLaidOut
    RecentAreNewest
    HeldIsShown
PROPERTIES
    CaretInText
    ScrollInRange
    FeedIsRight
CHECK_DEADLOCK FALSE
