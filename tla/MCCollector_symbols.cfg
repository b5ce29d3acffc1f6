CONSTANTS
    Addr = {a1, a2, a3, a4, a5}
    NIL = NIL
    ZERO = NIL
    Imm = {NIL}
    Closed = Closed
    MinLimit = 5
    SmallHeap = 3
    SizeMax = 1
    MaxFrames = 1
    FrameWidth = 1
    StackWords = 1
    MaxItems = 0
    FirstItems = 1
    Texts = {0, 1}
    Calls = {"string", "text", "package", "intern"}
SPECIFICATION Spec
SYMMETRY AddrSymmetry
INVARIANT ChainExact
PROPERTY InternedOnce
CHECK_DEADLOCK FALSE
