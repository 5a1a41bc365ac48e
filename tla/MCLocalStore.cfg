\* Three requests over two contents whose paths part below the first shard
\* directory.
CONSTANTS
    h1 = h1
    h2 = h2
    r1 = r1
    r2 = r2
    r3 = r3
    Hashes <- TwoHashes
    Shard <- MCShard
    Namespaces <- Bucket
    Requests <- ThreeRequests
    TempNames <- MCTempNames
    NoAnswer = NoAnswer
SPECIFICATION Spec
INVARIANT TypeOK
INVARIANT TmpDirStays
INVARIANT OwnTempFile
INVARIANT NoEmptyDirLeft
PROPERTY UploadsGoThrough
PROPERTY ImplementsBlobStore
SYMMETRY Sym3
VIEW StateView
