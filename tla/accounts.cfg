SPECIFICATION FairSpec
CONSTANTS
    u1 = u1
    e1 = e1
    User = {u1, u2}
    Email = {e1, e2}
    Name = {n1}
    MaxTokens = 2
    NoUser = NoUser
    NoEmail = NoEmail
    NoName = NoName
    UserCacheTTL = 1
    RefreshTokenTTL = 2
    Call = {c1, c2}
    Scenario <- MCScenario
INVARIANTS
    TypeOK
    LogoutHolds
    ValidTokensWork
    NothingOutlivesExpiry
    UsersFresh
    ConflictsReported
PROPERTIES
    StaleUsersForgotten
