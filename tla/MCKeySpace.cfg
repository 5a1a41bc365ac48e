\* Names and keys that continue one another, with pages of one and of two.
CONSTANTS
    s1 = s1
    Names <- MCNames
    Keys <- MCKeys
    Filters <- MCFilters
    Limits <- MCLimits
    DefaultLimit = 2
    Scanners <- MCScanners
SPECIFICATION Spec
INVARIANT KeyInv
PROPERTY ImplementsCatalog
VIEW KeysView
