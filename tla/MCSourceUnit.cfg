CONSTANTS
    NoFile = NoFile
    Files <- MCFiles
    Paths <- MCPaths
    Realpath <- MCRealpath
    Texts <- MCTexts
    RootPath <- MCRoot
    MaxForms = 2
    Reliable <- ThreeSources
SPECIFICATION FairSpec
INVARIANTS AcceptsValidUnits SplicedOnce SourceOrder NothingLost
PROPERTY Terminates
CHECK_DEADLOCK FALSE
