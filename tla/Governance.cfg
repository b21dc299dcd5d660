SPECIFICATION Spec
CONSTANTS
    u1 = u1  create = create  lower = lower
    k1 = k1  k2 = k2  w1 = w1  w2 = w2
    Users <- MCUsers
    Commands <- MCCommands
    Request <- MCRequest
    None = None
    Callers <- MCCallers
    Actor <- MCActor
    Drafts <- MCDrafts
    MaxSourceVersion = 5
    Workers <- MCWorkers
    LastPage = 1
    MaxFence = 2
SYMMETRY MCSymmetry
CHECK_DEADLOCK FALSE
INVARIANTS
    GovernanceTypeOK
    EventsTellVersions
    LeaseNeedsActiveSource
    PagesFollowOneAnother
    PagesAreOfLastStart
PROPERTY StoppedForGood
