SPECIFICATION Spec
CONSTANTS
    ana = ana
    bob = bob
    manager = manager
    p1 = p1
    p2 = p2
    c1 = c1
    c2 = c2
    System = system
    system = system
    Calls = {c1, c2}
    MaxRequests = 1
    Policies = {p1}
    MaxSteps = 1
    Assignee <- MCAssigneeSelf
    SlaSteps <- MCSlaSteps
    Users = {ana, bob}
    Agents = {ana}
    Asked = {"SENT"}
    SlaPolicies = {p1}
    Direct = {p1}
    RoleOf <- MCRoleOf
    MaxCrashes = 0
SYMMETRY Symmetry
INVARIANT
    SomebodyApproved
CHECK_DEADLOCK FALSE
