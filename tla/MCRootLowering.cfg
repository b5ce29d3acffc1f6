SPECIFICATION Spec
CONSTANTS
    Functions <- MCFunctions
    Free <- MCFree
    Spare = {4, 5, 6}
    NoRef = 0
INVARIANTS ExpansionExact VerifierAgrees RootsHeld
CHECK_DEADLOCK FALSE
