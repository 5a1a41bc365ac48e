\* Clients that take turns and store each content under one key.
CONSTANTS
    b1 = b1
    alice = alice
    bob = bob
    r1 = r1
    r2 = r2
    r3 = r3
    r4 = r4
    h1 = h1
    h2 = h2
    g1 = g1
    g2 = g2
    NoRecord = NoRecord
    Missing = Missing
    NoPut = NoPut
    Free = Free
    NoHandler = NoHandler
    Names <- OneName
    ValidNames <- OneName
    Owners <- TwoOwners
    IndexableOwners <- TwoOwners
    Principals <- TwoOwners
    Keys <- ThreeKeys
    StorableKeys <- TwoKeys
    Refs <- FourRefs
    Uploads <- OwnUpload
    UrlKey <- PlainKey
    Handlers <- OneHandler
    Slots <- OneSlot
    ListLimit = 1
    MaxFaults = 0
SPECIFICATION GatewaySpec
PROPERTY ImplementsObjectStore
VIEW ClientView
SYMMETRY OwnerSymmetry
