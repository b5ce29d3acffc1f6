CONSTANTS
    Process = {p, q}
    Modes = {"direct", "merge", "link", "freestanding", "mapped"}
    MaxSources = 1
    MaxModules = 1
SPECIFICATION Spec
INVARIANTS OutputComplete StatusTruthful NoResidue MapPrecedesArtifact
PROPERTY OpenFilesStable
CHECK_DEADLOCK FALSE
