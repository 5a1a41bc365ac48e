\* Two users, three access keys, two requests of auth-service at once and one
\* retry; one signed request, sent again and again.
CONSTANTS
    i1 = i1
    i2 = i2
    ann = ann
    ben = ben
    badName = badName
    k1 = k1
    k2 = k2
    k3 = k3
    c1 = c1
    c2 = c2
    r1 = r1
    g1 = g1
    Ids <- MCIds
    Usernames <- MCUsernames
    ValidUsernames <- MCValidUsernames
    AccessKeys <- MCAccessKeys
    Calls <- MCCalls
    MaxRetries = 2
    Requests <- MCRequests
    Checks <- MCChecks
    MaxSkew = 1
    MaxTime = 3
    None = None
SPECIFICATION SignedSpec
INVARIANT TypeOK
INVARIANT UsernameIndexExact
INVARIANT OwnerExists
INVARIANT RevocationStillAuthorized
INVARIANT ActsForSigner
INVARIANT RevocationStops
INVARIANT DenialsJustified
PROPERTY AccessKeyForLife
PROPERTY RevokedOnce
PROPERTY ReplaysEnd
SYMMETRY Sym
VIEW View
