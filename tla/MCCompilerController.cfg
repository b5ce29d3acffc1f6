CONSTANTS
    SizeMax = 63
    Bits = 6
    Units <- MCUnits
    Catalogue = 3
    DumpFactor = 2
    DumpBase = 2
    CountFactor = 2
    CountBase = 6
    Lengths = {0, 1, 2, 3, 4, 6, 7, 12, 27, 28, 29, 30, 31, 32, 62, 63}
    Needs = {0, 1, 4, 5, 9, 16, 24, 28, 29, 40}
    TextLengths = {3, 12, 60}
    FaultLengths = {0, 3, 27, 31, 63}
    FaultNeeds = {0, 9, 26}
    FaultTexts = {0, 11, 60}
SPECIFICATION FairSpec
INVARIANTS ExitStatus ReleasedOnce NoFutileRetry GrowthSuffices
PROPERTIES Ends
CHECK_DEADLOCK FALSE
