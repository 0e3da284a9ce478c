SPECIFICATION Spec
CONSTANTS
    x1 = x1
    x2 = x2
    x3 = x3
    s1 = s1
    s2 = s2
    s3 = s3
    t1 = t1
    p1 = p1
    p2 = p2
    k1 = k1
    u1 = u1
    u2 = u2
    u3 = u3
    e1 = e1
    e2 = e2
    f1 = f1
    f2 = f2
    r1 = r1
    r2 = r2
    j1 = j1
    j2 = j2
    m1 = m1
    m2 = m2
    m3 = m3
    a1 = a1
    n1 = n1
    v1 = v1
    v2 = v2
    v3 = v3
    v4 = v4
    v5 = v5
    k2 = k2
    k3 = k3
    n2 = n2
    q1 = q1
    q2 = q2
    q3 = q3
    NoEvent = NoEvent
    NoBuyer = NoBuyer
    NoKey = NoKey
    NoPhone = NoPhone
    NoImport = NoImport
    NoSession = NoSession
    NoToken = NoToken
    NoPayment = NoPayment
    NoUser = NoUser
    NoRun = NoRun
    NoWorkflow = NoWorkflow
    NoJob = NoJob
    NoMessage = NoMessage
    NoEnrollment = NoEnrollment
    Callers = {x1, x2, x3}
    Threshold = 2
    MaxFailures = 5
    SessionIds = {s1, s2, s3}
    ResetTokens = {t1}
    Requests = {x1, x2}
    MaxChanges = 1
    Payments = {p1, p2}
    Totals = {0, 2}
    NoPaper = NoPaper
    Clerks = {x1, x2}
    MaxOutages = 1
    Operators = {x1, x2}
    Contacts = {k1}
    MaxMishaps = 1
    Users = {u1, u2, u3}
    Admins = {x1, x2}
    Edits = {e1, e2}
    Tabs = {x1, x2}
    Clients = {x1, x2}
    MaxTime = 3
    FireAttempts = 2
    MaxFaults = 2
    MaxRequests = 3
    Workflows = {f1, f2}
    Runs = {r1, r2}
    ResumeJobs = {j1, j2}
    Triggers = {x1, x2}
    Processors = {x3}
    WaitsAt <- Waits
    StepCount = 2
    StepCap = 2
    MaxDisruptions = 1
    Messages = {m1, m2, m3}
    Addresses = {a1}
    Senders = {x1, x2}
    Mailers = {}
    MaxTroubles = 1
    MaxEdits = 1
    Enrollments = {n1}
    ToEmail <- Target
    Tickers = {x1, x2}
    MaxSteps = 2
    Rotations = {x1, x2}
    Deliveries = {e1}
    Tries = 2
    Events = {v1, v2, v3, v4, v5}
    Kind <- KindOf
    Hooks = {x1, x2}
    Buyers = {u1, u2}
    Payer <- BoughtBy
    MaxPosts = 3
    MaxLosses = 1
    Imports = {s1, s2}
    Keys = {k1, k2, k3}
    Phones = {q1, q2, q3}
    NameOf <- Names
    PhoneOf <- PhonesOf
    Compact <- WithoutSpaces
    File <- Sheet
    Workers = {x1, x2}
    MaxUpsets = 2
SYMMETRY Symmetry
INVARIANTS
    TypeOK
    OpenForCause
    ConsumedOnce
    LiveSessionsAreCurrent
    StatusMatchesPayments
    QueueMatchesStatus
    OwnerRemains
    NoEditLost
    NeverEarlyUnlessCrossed
    OneRunPerPair
    StepsOnceAndAll
    StepsAccounted
    RepeatedOrEarlyOnlyIfDisturbed
    SwapIsSafe
    CallbacksCountOnce
    RerunIsSafe
PROPERTIES
    OvertakenOnlyAfterTry
    NothingReopened
CHECK_DEADLOCK FALSE
