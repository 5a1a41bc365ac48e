\* Two puts in flight against the deletion and re-creation of two buckets by
\* two owners, with restarts.
CONSTANTS
    b1 = b1
    b2 = b2
    badName = badName
    alice = alice
    bob = bob
    nulOwner = nulOwner
    r1 = r1
    r2 = r2
    h1 = h1
    h2 = h2
    Names <- MCNames
    Owners <- MCOwners
    IndexableOwners <- MCIndexableOwners
    Keys <- MCKeys
    Handlers <- MCHandlers
    NoRecord = NoRecord
    Missing = Missing
    NoPut = NoPut
    ValidNames <- TwoNames
    StorableKeys <- OneKey
    Refs <- TwoRefs
SPECIFICATION Spec
INVARIANT MetadataInv
INVARIANT OwnerListingExact
PROPERTY BucketLifecycle
PROPERTY ImplementsDirectory
SYMMETRY NameSymmetry
VIEW StateView
