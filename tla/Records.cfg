SPECIFICATION RecordsSpec
CONSTANTS
    ana = ana
    bob = bob
    manager = manager
    p1 = p1
    p2 = p2
    c1 = c1
    c2 = c2
    s1 = s1
    s2 = s2
    t1 = t1
    t2 = t2
    t3 = t3
    system = system
    System = system
    Calls = {c1, c2}
    Handlers = {c1, c2}
    MaxRequests = 2
    Policies = {p1, p2}
    MaxSteps = 2
    Assignee <- MCAssignee
    SlaSteps <- MCSlaSteps
    Users = {ana, bob}
    Agents = {ana}
    Asked = {"SENT"}
    SlaPolicies = {p2}
    Direct = {p2}
    RoleOf <- MCRoleOf
    MaxCrashes = 1
    NoSigner = NoSigner
    Signers = {s1, s2}
    Order <- MCOrder
    MaxSends = 2
    NoTxn = NoTxn
    Txns = {t1, t2, t3}
    MaxRows = 4
    Gaps <- Moving
    Skew <- Ahead
SYMMETRY Symmetry
INVARIANTS
    RecordsTypeOK
    ApprovedByOthers
    OneVerdictPerStep
    StepsInOrder
    LiveRequestWaits
    GateNeedsEveryPolicy
    ActiveMeansAllSigned
    LastSignatureCompletes
    SequentialOrder
    VerifierAccepts
PROPERTIES
    AppendOnlyLog
CHECK_DEADLOCK FALSE
