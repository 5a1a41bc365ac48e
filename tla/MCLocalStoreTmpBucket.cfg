\* A bucket named tmp.
CONSTANTS
    h1 = h1
    h2 = h2
    r1 = r1
    r2 = r2
    r3 = r3
    Hashes <- OneHash
    Shard <- MCShard
    Namespaces <- TmpBucket
    Requests <- TwoRequests
    TempNames <- MCTempNames
    NoAnswer = NoAnswer
SPECIFICATION Spec
INVARIANT TmpDirStays
