SPECIFICATION Spec
CONSTANTS
    u1 = u1
    u2 = u2
    t1 = t1
    m1 = m1
    m2 = m2
    NoMemo = NoMemo
    NoTeam = NoTeam
    Memo = {m1, m2}
    MaxRetries = 2
    User = {u1, u2}
    Team = {}
    Owner <- MCOwner
    TeamOf <- MCPrivate
    Capacity = 1
    Request = {r1, r2}
    Worker = {w1}
    Timer = {b1, b2}
    Environment = {"refused", "unacked", "sigterm", "crash"}
SYMMETRY Symmetry
INVARIANTS
    TypeOK
    OneJobPerMemo
    JobStatus
    NoRequestMeetsClosedQueue
    RepliesAreTrue
PROPERTIES
    DeletedFrozen
