CONSTANTS
    x = x
    y = y
    z = z
    cl = cl
    kw = kw
    so = so
    a = a
    shortCl = shortCl
    SymbolNames = {x, y, z}
    PackageNames = {cl, a, so}
    SeedPackages <- ThreePackages
    ClAlias = cl
    Keyword = 0
    Length <- MCLength
    SeedNames <- NoNames
    SeedBytes = 4
    BucketCount = 2
    Hash <- TwoBuckets
    PackageCapacity = 3
    SymbolCapacity = 2
    PresentCapacity = 2
    UseCapacity = 2
    AliasCapacity = 1
    BucketCapacity = 6
    NameCapacity = 99
SYMMETRY Colliding
SPECIFICATION OperationsSpec
INVARIANTS HomeHolds Coherent IndexAgrees
PROPERTY AddingIsStable
