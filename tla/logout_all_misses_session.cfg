SPECIFICATION Spec
CONSTANTS
    NoUser = NoUser
    NoFamily = NoFamily
    User = {u1}
    Family = {f1, f2}
    Careful = {f1, f2}
    MaxTokens = 3
    Lifetime = 2
    Call = {c1, c2}
    Scenario <- SmoothScenario
SYMMETRY Symmetry
PROPERTY
    ListsAllFamilies
