\* One user over two lifetimes of a refresh token.
CONSTANTS
    ann = ann
    Users <- OneUser
    AccessTTL = 2
    RefreshTTL = 3
    MaxTime = 6
    None = None
SPECIFICATION Spec
INVARIANT TypeOK
INVARIANT TokensEnd
INVARIANT SessionEnds
