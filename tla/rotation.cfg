SPECIFICATION Spec
CONSTANTS
    NoUser = NoUser
    NoFamily = NoFamily
    User = {u1}
    Family = {f1, f2}
    Careful = {f1}
    MaxTokens = 3
    Lifetime = 2
    Call = {c1, c2, c3}
    Scenario <- AllScenarios
SYMMETRY Symmetry
INVARIANTS
    TypeOK
    EndingAnswersHold
    ListedSessionsEnd
    IndexOutlivesSessions
    CarefulClientsStay
PROPERTIES
    ImplementsSessions
