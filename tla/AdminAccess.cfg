SPECIFICATION AccessSpec
CONSTANTS
    Orgs = {o1}
    Users = {u1}
    Workers = {x1, x2}
    Hour = 1
    PerHour = 1
    LinkTTL = 1
    SessionTTL = 1
    MaxTime = 2
    MaxLinks = 3
    MaxSessions = 2
    MaxTokens = 1
    Production = FALSE
    MaxDisabled = 1
    Routes = {"me", "create_member", "list_members", "api_keys", "configure", "view"}
    GivenRoles = {"owner", "viewer"}
    Expiries = {2}
    ScopeSets <- MCScopeSets
SYMMETRY MCSymmetry
CHECK_DEADLOCK FALSE
INVARIANTS
    RecentLinksBounded
    LinkSessions
PROPERTIES
    AuthorityCurrent
