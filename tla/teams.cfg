SPECIFICATION Spec
CONSTANTS
    u1 = u1
    u2 = u2
    u3 = u3
    u4 = u4
    a1 = a1
    a2 = a2
    a3 = a3
    a4 = a4
    User = {u1, u2, u3, u4}
    Address = {a1, a2, a3, a4}
    Spelling = {lower, Capitals}
    LowerCase = lower
    MaxTeams = 2
    Slug = {s1, s2}
    Invitation = {i1, i2, i3}
    MaxMemos = 2
    NoUser = NoUser
    NoAddress = NoAddress
    NoEmail = NoEmail
    NoSlug = NoSlug
    NoInvitation = NoInvitation
    Call = {c1, c2}
    PageRequest <- MCPages
    Seats = 2
    MayNameSelf = FALSE
    Scenario <- MCScenario
SYMMETRY Symmetry
INVARIANTS
    TypeOK
    OwnerAgreement
    SeatsRespected
    DeletedTeamsAreEmpty
    MembersWereInvited
    RefusalsChangeNothing
    InternalErrorsExplained
    ListedOnItsPage
    InvitationsShownCanBeTaken
PROPERTIES
    DeletedTeamsStay
    MemosDeletedByRight
