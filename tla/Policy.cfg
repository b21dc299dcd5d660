SPECIFICATION Spec
CONSTANTS
    u1 = u1  create = create  demote = demote  revoke = revoke  archive = archive
    r1 = r1  r2 = r2  a = a  b = b
    Users <- MCUsers
    Commands <- MCCommands
    Request <- MCRequest
    None = None
    Requests <- MCRequests
    Requester <- MCRequester
    Versions <- MCVersions
    Rules <- MCRules
    Publications <- MCPublications
CHECK_DEADLOCK FALSE
INVARIANTS
    AnswerWithinLayers
    AnswerIsAudited
PROPERTY FormerMembersAreDenied
