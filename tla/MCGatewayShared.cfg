\* One client that takes turns and stores one content under two keys.
CONSTANTS
    b1 = b1
    alice = alice
    bob = bob
    r1 = r1
    r2 = r2
    r3 = r3
    r4 = r4
    h1 = h1
    h2 = h2
    g1 = g1
    g2 = g2
    NoRecord = NoRecord
    Missing = Missing
    NoPut = NoPut
    Free = Free
    NoHandler = NoHandler
    Names <- OneName
    ValidNames <- OneName
    Owners <- OneOwner
    IndexableOwners <- OneOwner
    Principals <- OneOwner
    Keys <- TwoKeys
    StorableKeys <- TwoKeys
    Refs <- OneRef
    Uploads <- AnyUpload
    UrlKey <- PlainKey
    Handlers <- OneHandler
    Slots <- OneSlot
    ListLimit = 2
    MaxFaults = 0
SPECIFICATION GatewaySpec
INVARIANT BytesKeptWhileReferenced
