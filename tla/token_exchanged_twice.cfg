SPECIFICATION Spec
CONSTANTS
    NoUser = NoUser
    NoFamily = NoFamily
    User = {u1}
    Family = {f1}
    Careful = {}
    MaxTokens = 3
    Lifetime = 2
    Call = {c1, c2}
    Scenario <- SmoothScenario
SYMMETRY Symmetry
INVARIANT
    ExchangedOnce
