CONSTANTS
    Addr = {a1, a2, a3}
    NIL = NIL
    ZERO = NIL
    Imm = {NIL}
    Closed = Closed
    MinLimit = 2
    SmallHeap = 2
    SizeMax = 1
    MaxFrames = 1
    FrameWidth = 1
    StackWords = 1
    MaxItems = 2
    FirstItems = 1
    Texts = {0}
    Calls = {"vector", "push", "cons", "closure", "stack", "collect", "collect_precise"}
SPECIFICATION Spec
SYMMETRY AddrSymmetry
INVARIANTS VectorsComplete WorkFits CountWithinLimit
PROPERTIES SweepIsExact ImplementsManagedHeap ItemsPreserved
CHECK_DEADLOCK FALSE
