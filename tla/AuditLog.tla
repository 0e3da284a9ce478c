------------------------------ MODULE AuditLog ------------------------------
(***************************************************************************)
(* What the audit trail of a contract promises (AuditChainService, "append-*)
(* only hash-chained audit trail"), whatever the clocks show: entries come *)
(* only after all that are there, and each carries one that was dated last *)
(* among all that were there before it.                                    *)
(***************************************************************************)
EXTENDS Integers

VARIABLE log   \* the entries, each [id, at, prev]; prev of the first one is 0

Earlier(e, l) == {f \in l : f.id < e.id}

\* In l, the entry e is the first one, or carries one of the latest before it.
CarriesLatest(e, l) ==
    \/ e.prev = 0 /\ Earlier(e, l) = {}
    \/ \E p \in Earlier(e, l) : p.id = e.prev /\ \A f \in Earlier(e, l) : f.at =< p.at

Init == log = {}

\* A transaction adds its entries, all of them after those that are there.
Extend ==
    /\ log \subseteq log'
    /\ \A e \in log, f \in log' \ log : e.id < f.id
    /\ \A e \in log' : CarriesLatest(e, log')

Spec == Init /\ [][Extend]_log
=============================================================================
