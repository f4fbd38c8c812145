CONSTANTS
    Requests = {r1, r2}
    Admins = {a1}
    SessionIds = {s1, s2, s3}
    RefreshTTL = 2
    AbsoluteTTL = 1
    IdleTTL = 1
    MaxActive = 1
    Horizon = 2
    Checks = {q1}
    RoleAdmins = {d1}
    AuthTTL = 1
    APITTL = 1
    HTTPTimeout = 1
    AccessTTL = 4
    WriteTimeout = 1
    PermHorizon = 5
    Clients = {c1, c2, c3}
    Secrets = {1, 2}
    Sharers = {h1, h2}
    Visitors = {w1, w2}
    Tokens = {l1, l2}
    NoToken = NoToken
SPECIFICATION Spec
SYMMETRY Symmetry
CONSTRAINTS LastRowEarly ClaimsAlone
CHECK_DEADLOCK FALSE
INVARIANTS OneSessionPerLogin RevokedForGood RedeemedOnce LinksExclusive
PROPERTIES AuthenticationExpires BlockedNoDelivery GrantIsRecent RefusedForGood
