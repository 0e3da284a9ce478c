------------------------------- MODULE Accounts -------------------------------
(***************************************************************************)
(* The users of one tenant (apps/api/src/modules/users and scim): roles    *)
(* and activation.  updateRole and deactivate read the user and count the  *)
(* active owners, then write that user's row, in one READ COMMITTED        *)
(* transaction: nothing locks the rows that were counted.  SCIM writes     *)
(* roles and activation without a count.                                   *)
(***************************************************************************)
EXTENDS Naturals, FiniteSets

CONSTANTS
    Users,
    Admins,       \* slots for transactions in flight
    NoUser

VARIABLES
    role,       \* OWNER, MEMBER (any other role), or NONE: no row yet
    enabled,    \* isActive
    admin,      \* local state of each transaction
    skewed,     \* history: two transactions that take an owner away overlapped
    provisioned \* history: the identity provider took an owner away

accVars == <<role, enabled, admin, skewed, provisioned>>

-----------------------------------------------------------------------------
Off == [at |-> "idle", op |-> "none", u |-> NoUser]
AdminAt(x, pc) == admin[x].at = pc
Turn(x, d) == admin' = [admin EXCEPT ![x] = d]

Owners == {u \in Users : role[u] = "OWNER" /\ enabled[u]}

\* Faulty: inactive owners count.
CountAny == Cardinality({u \in Users : role[u] = "OWNER"})

OwnerCount == Cardinality(Owners)

AccInit ==
    /\ \E first \in Users : role = [u \in Users |-> IF u = first THEN "OWNER" ELSE "NONE"]
    /\ enabled = [u \in Users |-> TRUE]
    /\ admin = [x \in Admins |-> Off]
    /\ skewed = FALSE
    /\ provisioned = FALSE

-----------------------------------------------------------------------------
\* A transaction that may take an owner away: it reads the target and, if the
\* target is an owner, the count.
BeginLoss(x, op, u) ==
    /\ AdminAt(x, "idle")
    /\ Owners # {}
    /\ role[u] # "NONE"
    /\ role[u] = "OWNER" => OwnerCount > 1
    /\ Turn(x, [at |-> "write", op |-> op, u |-> u])
    /\ skewed' = (skewed \/ \E y \in Admins : AdminAt(y, "write"))
    /\ UNCHANGED <<role, enabled, provisioned>>

\* The demotion, and the deactivation; the latter by a user who stays.
WriteLoss(x) ==
    /\ AdminAt(x, "write")
    /\ LET u == admin[x].u IN
          IF admin[x].op = "demote"
          THEN role' = [role EXCEPT ![u] = "MEMBER"] /\ UNCHANGED enabled
          ELSE enabled' = [enabled EXCEPT ![u] = FALSE] /\ UNCHANGED role
    /\ Turn(x, Off)
    /\ UNCHANGED <<skewed, provisioned>>

\* The transaction fails and is rolled back.
RollBack(x) ==
    /\ AdminAt(x, "write")
    /\ Turn(x, Off)
    /\ UNCHANGED <<role, enabled, skewed, provisioned>>

\* updateRole to OWNER, by an owner; no count is needed.
Promote(u) ==
    /\ Owners # {}
    /\ role[u] # "NONE"
    /\ role' = [role EXCEPT ![u] = "OWNER"]
    /\ skewed' = (skewed \/ \E y \in Admins : admin[y].u = u)
    /\ UNCHANGED <<enabled, admin, provisioned>>

Activate(u) ==
    /\ Owners # {}
    /\ role[u] # "NONE"
    /\ enabled' = [enabled EXCEPT ![u] = TRUE]
    /\ UNCHANGED <<role, admin, skewed, provisioned>>

Invite(u, r) ==
    /\ Owners # {}
    /\ role[u] = "NONE"
    /\ role' = [role EXCEPT ![u] = r]
    /\ enabled' = [enabled EXCEPT ![u] = TRUE]
    /\ UNCHANGED <<admin, skewed, provisioned>>

\* scim: a patch of a group sets the role, a patch of the user isActive.
ProvisionRole(u) ==
    /\ role[u] # "NONE"
    /\ \/ \E r \in {"OWNER", "MEMBER"} : role' = [role EXCEPT ![u] = r] /\ UNCHANGED enabled
       \/ \E b \in BOOLEAN : enabled' = [enabled EXCEPT ![u] = b] /\ UNCHANGED role
    /\ provisioned' = (provisioned \/ u \in Owners \/ \E x \in Admins : admin[x].u = u)
    /\ UNCHANGED <<admin, skewed>>

AccNext ==
    \/ \E x \in Admins :
          \/ \E op \in {"demote", "deactivate"}, u \in Users : BeginLoss(x, op, u)
          \/ WriteLoss(x) \/ RollBack(x)
    \/ \E u \in Users :
          \/ Promote(u) \/ Activate(u) \/ ProvisionRole(u)
          \/ \E r \in {"OWNER", "MEMBER"} : Invite(u, r)

AccSpec == AccInit /\ [][AccNext]_accVars

-----------------------------------------------------------------------------
AccTypeOK ==
    /\ role \in [Users -> {"OWNER", "MEMBER", "NONE"}]
    /\ enabled \in [Users -> BOOLEAN]
    /\ \A x \in Admins : AdminAt(x, "idle") <=> admin[x] = Off

(* "Prevent demoting the last OWNER - tenant would become unmanageable"     *)
(* (users.service.ts:138): an active owner remains, unless two transactions *)
(* counted the owners before either of them wrote, or the identity provider *)
(* took one away.                                                           *)
OwnerRemains == Owners = {} => skewed \/ provisioned
===============================================================================
