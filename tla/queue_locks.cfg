SPECIFICATION FairSpec
CONSTANTS
    NoMemo = NoMemo
    Memo = {m1, m2}
    MaxRetries = 1
    Producer = {p1, p2, p3}
    Closer = {c1, c2}
    Capacity = 2
INVARIANTS
    TypeOK
    NeverPanics
PROPERTIES
    ImplementsQueue
    CloseReturns
