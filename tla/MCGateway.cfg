\* Two requests at once by two users, two upload handlers in metadata-service and
\* a fault.
CONSTANTS
    b1 = b1
    alice = alice
    bob = bob
    r1 = r1
    r2 = r2
    r3 = r3
    r4 = r4
    h1 = h1
    h2 = h2
    g1 = g1
    g2 = g2
    NoRecord = NoRecord
    Missing = Missing
    NoPut = NoPut
    Free = Free
    NoHandler = NoHandler
    Names <- OneName
    ValidNames <- OneName
    Owners <- TwoOwners
    IndexableOwners <- TwoOwners
    Principals <- TwoOwners
    Keys <- TwoKeys
    StorableKeys <- TwoKeys
    Refs <- OneRef
    Uploads <- AnyUpload
    UrlKey <- PlainKey
    Handlers <- TwoHandlers
    Slots <- TwoSlots
    ListLimit = 2
    MaxFaults = 1
SPECIFICATION GatewaySpec
INVARIANT GatewayInv
INVARIANT DanglingExplained
INVARIANT GarbageExplained
INVARIANT OwnerUntilDeleted
VIEW SystemView
SYMMETRY FullSymmetry
