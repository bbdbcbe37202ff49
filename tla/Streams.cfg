CONSTANTS
    r1 = r1
    r2 = r2
    s1 = s1
    s2 = s2
    s3 = s3
    x = x
    y = y
    Runs = {r1, r2}
    Streams = {s1, s2, s3}
    Ids = {x, y}
    Scenes <- AllScenes
    Streamable = {r2}
    MaxEvents = 3
    MaxFragments = 1
SPECIFICATION Spec
CHECK_DEADLOCK FALSE
INVARIANTS
    TypeOK
    FramesAreGapless
    TerminalFrameCloses
    RegistryHoldsOpenStreams
PROPERTIES
    AttachedStreamEnds
