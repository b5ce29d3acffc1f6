CONSTANTS
    Addr = {a1, a2}
    NIL = NIL
    ZERO = NIL
    Imm = {NIL}
    Closed = Closed
    MinLimit = 1
    SmallHeap = 1
    SizeMax = 3
    MaxFrames = 1
    FrameWidth = 1
    StackWords = 1
    MaxItems = 1
    FirstItems = 1
    Texts = {0}
    Calls = {"vector", "push", "values2", "handle", "collect", "collect_precise"}
SPECIFICATION FairSpec
INVARIANTS NoDangling
PROPERTIES TokensNeverReused CollectionEnds ConstructorEnds
CHECK_DEADLOCK FALSE
