SPECIFICATION FairSpec
CONSTANTS
    u1 = u1
    u2 = u2
    t1 = t1
    m1 = m1
    m2 = m2
    NoMemo = NoMemo
    NoTeam = NoTeam
    Memo = {m1}
    MaxRetries = 2
    User = {u1}
    Team = {}
    Owner <- MCOwner
    TeamOf <- MCPrivate
    Capacity = 1
    Request = {r1}
    Worker = {w1}
    Timer = {b1}
    Environment = {"sigterm"}
PROPERTIES
    RetriesCompleteBeforeExit
