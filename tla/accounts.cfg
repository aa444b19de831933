SPECIFICATION AccountSpec
CONSTANTS
    None = None
    Emails = {mail}
    UserIds = {u1, u2}
    Requests = {r1, r2}
    alone = request
    Moderators = {}
    FewSecrets = 2
    MaxSecrets = 4
INVARIANTS
    AccountTypeOK
    OneAccountPerEmail
    SessionsProven
    SecretsUsedOnce
PROPERTIES
    GoodStanding
    DecisionsKept
CHECK_DEADLOCK FALSE
SYMMETRY MCSymmetry
