CONSTANTS
    x = x
    cl = cl
    kw = kw
    so = so
    a = a
    b = b
    shortCl = shortCl
    SymbolNames = {x}
    PackageNames = {cl, kw, so, shortCl, a, b}
    SeedPackages <- WithKeyword
    ClAlias = shortCl
    Keyword = 2
    Length <- MCLength
    SeedNames <- OneName
    SeedBytes = 5
    BucketCount = 0
    Hash <- OneBucket
    PackageCapacity = 5
    SymbolCapacity = 4
    PresentCapacity = 4
    UseCapacity = 3
    AliasCapacity = 2
    BucketCapacity = 0
    NameCapacity = 9
    Forms <- MCForms
SPECIFICATION FormSpec
INVARIANTS TypeOK FormHonoured
PROPERTIES ConflictIsReal OthersUntouched
CHECK_DEADLOCK FALSE
