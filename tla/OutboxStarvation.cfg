SPECIFICATION FairSpec
CONSTANTS
    e1 = e1
    e2 = e2
    p1 = p1
    p2 = p2
    t1 = t1
    t2 = t2
    w1 = w1
    w2 = w2
    NoRow = NoRow
    Events = {e1, e2}
    Tenants = {t1, t2}
    Endpoints = {p1}
    Workers = {w1}
    TenantOf <- TwoTenants
    Unknown = {}
    Batch = 1
    MaxAttempts = 2
    MaxAborts = 0
CHECK_DEADLOCK FALSE
PROPERTY PendingIsResolved
