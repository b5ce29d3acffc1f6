CONSTANTS
    NoFile = NoFile
    Files <- MCFiles
    Paths <- MCPaths
    Realpath <- MCRealpath
    Texts <- Mixed
    RootPath <- MCRoot
    MaxForms = 1
    Reliable <- ThreeSources
SPECIFICATION Spec
INVARIANT NullReleasesAll
CHECK_DEADLOCK FALSE
