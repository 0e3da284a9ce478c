SPECIFICATION Spec
CONSTANTS
    e1 = e1
    e2 = e2
    p1 = p1
    p2 = p2
    t1 = t1
    w1 = w1
    s1 = s1
    s2 = s2
    NoRow = NoRow
    Events = {e1}
    Tenants = {t1}
    Endpoints = {p1}
    Workers = {w1}
    TenantOf <- MCTenantOf
    Unknown = {}
    Batch = 1
    MaxAttempts = 1
    MaxAborts = 1
    Slots = {s1, s2}
    Attempts = 2
    MaxStalled = 1
    Threshold = 2
    MaxChanges = 1
SYMMETRY Symmetry
INVARIANTS
    NothingLostSilently
    ExhaustedLeavesDeadLetter
PROPERTY
    AcceptedOnce
CHECK_DEADLOCK FALSE
