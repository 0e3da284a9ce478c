---------------------------- MODULE MCApprovals ----------------------------
EXTENDS Approvals, Sequences, TLC

CONSTANTS ana, bob, manager, p1, p2, c1, c2, system

\* ana asks.  p1: a step by role, then her own; p2: her own, then bob's.
MCAssignee == [p \in {p1, p2} |-> IF p = p1 THEN <<manager, ana>> ELSE <<ana, bob>>]

\* A policy whose only step is the requester's own.
MCAssigneeSelf == [p \in {p1} |-> <<ana>>]

\* ana has the role of the first step of p1 as well.
MCRoleOf == [u \in Users |-> manager]
MCSlaSteps == {<<p1, 1>>}

Symmetry == Permutations(Calls)
=============================================================================
