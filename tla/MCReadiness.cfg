CONSTANTS
    old = old
    new = new
    data1 = data1
    meta = meta
    data2 = data2
    r1 = r1
    Processes <- MCProcesses
    Services <- MCServices
    Service <- MCService
    Stored <- MCStored
    SchemaVersion <- MCVersion
    Requests <- MCRequests
    Writes <- MCRequests
    MaxStarts = 3
    Nobody = Nobody
    NoStamp = NoStamp
SPECIFICATION FairProbeSpec
INVARIANT LifeInv
INVARIANT StoreGuarded
INVARIANT ListeningIsOpen
INVARIANT CutsExplained
INVARIANT AnswersTrue
PROPERTY ReadyMeansUp
PROPERTY UnreadyMeansDown
PROPERTY NoneHangs
PROPERTY ProbeEnds
