------------------------------- MODULE MCImports -------------------------------
(***************************************************************************)
(* A file of one client, whose phone is written with a space, imported     *)
(* twice by one worker that never fails.                                   *)
(***************************************************************************)
EXTENDS Imports

CONSTANTS k1, q1, q2

Names == [k \in Keys |-> k]
PhonesOf == [k \in Keys |-> q1]
WithoutSpaces == [q \in Phones |-> q2]
Rows == <<k1>>
===============================================================================
