\* The design's claim that an upload cannot slip past a bucket deletion.
CONSTANTS
    b1 = b1
    b2 = b2
    badName = badName
    alice = alice
    bob = bob
    nulOwner = nulOwner
    r1 = r1
    r2 = r2
    h1 = h1
    h2 = h2
    Names <- MCNames
    Owners <- MCOwners
    IndexableOwners <- MCIndexableOwners
    Keys <- MCKeys
    Handlers <- MCHandlers
    NoRecord = NoRecord
    Missing = Missing
    NoPut = NoPut
    ValidNames <- OneName
    StorableKeys <- OneKey
    Refs <- OneRef
SPECIFICATION Spec
INVARIANT NoOrphanObjects
