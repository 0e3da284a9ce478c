----------------------------- MODULE MCSequences -----------------------------
(***************************************************************************)
(* One e-mail sequence with one tick at a time and no failure.             *)
(***************************************************************************)
EXTENDS EmailSequences

CONSTANTS n1, a1

Target == [e \in Enrollments |-> a1]
===============================================================================
