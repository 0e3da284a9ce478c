SPECIFICATION AutomationSpec
CONSTANTS
    e1 = e1
    e2 = e2
    p1 = p1
    t1 = t1
    t2 = t2
    m1 = m1
    a1 = a1
    c1 = c1
    c2 = c2
    w1 = w1
    w2 = w2
    f1 = f1
    r1 = r1
    r2 = r2
    j1 = j1
    j2 = j2
    x1 = x1
    x3 = x3
    NoRow = NoRow
    NoMessage = NoMessage
    NoRun = NoRun
    NoWorkflow = NoWorkflow
    NoJob = NoJob
    Events = {e1, e2}
    Tenants = {t1, t2}
    Endpoints = {p1}
    Workers = {w1, w2}
    TenantOf <- TwoTenants
    Unknown = {}
    Batch = 2
    MaxAttempts = 2
    MaxAborts = 1
    Messages = {m1}
    Addresses = {a1}
    Senders = {c1}
    Mailers = {w1, w2}
    MaxTroubles = 2
    MaxEdits = 1
    Clients = {c1, c2}
    MaxTime = 3
    FireAttempts = 2
    MaxFaults = 1
    MaxRequests = 3
    Workflows = {f1}
    Runs = {r1, r2}
    ResumeJobs = {j1, j2}
    Triggers = {x1}
    Processors = {x3}
    StepCount = 2
    StepCap = 2
    WaitsAt <- Waits
    MaxDisruptions = 1
INVARIANTS
    NoSubscriberSkipped
    SentTwiceOnlyIfStalledEarly
PROPERTIES
    ResettledOnlyByRival
    PendingIsResolved
    MessageSettles
    PendingFires
    RunEnds
    SteadyEntryRespected
CHECK_DEADLOCK FALSE
