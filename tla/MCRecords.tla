------------------------------- MODULE MCRecords -------------------------------
(***************************************************************************)
(* Model checking of the records that people decide about: approvals of a  *)
(* quote, the e-sign ceremony of a contract, and the audit trail of one.   *)
(* part says which of them a behaviour is about, and never changes.        *)
(***************************************************************************)
EXTENDS Approvals, ContractSigning, AuditTrail, Sequences, TLC

CONSTANTS ana, bob, manager, p1, p2, c1, c2, s1, s2, t1, t2, t3, system

VARIABLE part

\* ana asks.  p1: a step by role, then her own; p2: her own, then bob's.
MCAssignee == [p \in {p1, p2} |-> IF p = p1 THEN <<manager, ana>> ELSE <<ana, bob>>]
\* ana has the role of the first step of p1 as well.
MCRoleOf == [u \in Users |-> manager]
MCSlaSteps == {<<p1, 1>>}

MCOrder == [s \in Signers |-> IF s = s1 THEN 0 ELSE 1]

\* Two inserts in one millisecond, or not; the replica of t3 is ahead.
Moving == {0, 1}
Ahead == [t \in Txns |-> IF t = t3 THEN 1 ELSE 0]

recordsVars == <<part, vars, signingVars, chainVars>>

RecordsInit ==
    /\ part \in {"approvals", "signing", "trail"}
    /\ Init /\ SigningInit /\ ChainInit
    \* The mode of signing matters to one part only.
    /\ part # "signing" => mode = "PARALLEL"

RecordsNext ==
    /\ part' = part
    /\ \/ part = "approvals" /\ UNCHANGED <<signingVars, chainVars>> /\ Next
       \/ part = "signing" /\ UNCHANGED <<vars, chainVars>> /\ SigningNext
       \/ part = "trail" /\ UNCHANGED <<vars, signingVars>> /\ ChainNext

RecordsSpec == RecordsInit /\ [][RecordsNext]_recordsVars

\* The slots of the approvals and of the ceremony are the same values.
Symmetry == Permutations(Calls)

(* The type invariant of the component that is running; the others stay as  *)
(* they begin.                                                              *)
RecordsTypeOK ==
    CASE part = "approvals" -> TypeOK
      [] part = "signing" -> SigningTypeOK
      [] part = "trail" -> ChainTypeOK
===============================================================================
