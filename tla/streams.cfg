SPECIFICATION Spec
CONSTANTS
    Radix = 2
    FrameSizes <- MCFrameSizes
    MaxFrames = 2
    LinkKinds <- MCLinkKinds
    DataSizes <- MCDataSizes
    MaxMessages = 2
    Chars <- MCChars
    Newline = "n"
    Patterns <- MCPatterns
    CopyBuffer = 3
    ScanBuffer = 2
    MaxOutput = 4
    MaxInput = 2
INVARIANTS
    TypeOK
    LoneFrameNotHeld
    LinkWhole
    LinkBytesInOrder
    PatternFound
PROPERTIES
    StreamsInOrder
    PatternExits
CHECK_DEADLOCK FALSE
