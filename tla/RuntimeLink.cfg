CONSTANT MaxReferences = 2
SPECIFICATION Spec
INVARIANTS NoUndefined AgreesWithStage0
CHECK_DEADLOCK FALSE
