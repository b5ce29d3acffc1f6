CONSTANTS
    x = x
    y = y
    z = z
    cl = cl
    kw = kw
    so = so
    a = a
    shortCl = shortCl
    SymbolNames = {x}
    PackageNames = {cl, kw, so, shortCl, a}
    SeedPackages <- WithKeyword
    ClAlias = shortCl
    Keyword = 2
    Length <- MCLength
    SeedNames <- OneName
    SeedBytes = 5
    BucketCount = 1
    Hash <- OneBucket
    PackageCapacity = 4
    SymbolCapacity = 3
    PresentCapacity = 2
    UseCapacity = 2
    AliasCapacity = 2
    BucketCapacity = 4
    NameCapacity = 8
SPECIFICATION Spec
INVARIANT ConflictsChecked
CHECK_DEADLOCK FALSE
