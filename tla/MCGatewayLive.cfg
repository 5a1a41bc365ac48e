\* One request after the other, with a put that metadata-service may still serve
\* after its caller has given up, or have forgotten in a restart.
\* The second key does not survive the URL path.
CONSTANTS
    b1 = b1
    alice = alice
    bob = bob
    r1 = r1
    r2 = r2
    r3 = r3
    r4 = r4
    h1 = h1
    h2 = h2
    g1 = g1
    g2 = g2
    NoRecord = NoRecord
    Missing = Missing
    NoPut = NoPut
    Free = Free
    NoHandler = NoHandler
    Names <- OneName
    ValidNames <- OneName
    Owners <- OneOwner
    IndexableOwners <- OneOwner
    Principals <- OneOwner
    Keys <- TwoKeys
    StorableKeys <- TwoKeys
    Refs <- OneRef
    Uploads <- AnyUpload
    UrlKey <- QueryKey
    Handlers <- TwoHandlers
    Slots <- OneSlot
    ListLimit = 2
    MaxFaults = 1
SPECIFICATION GatewayFairSpec
PROPERTY RequestsEnd
