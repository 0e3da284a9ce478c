----------------------------- MODULE AuditTrail -----------------------------
(***************************************************************************)
(* The trail of one contract as an auditor reads it: the committed rows.   *)
(* It implements the append-only linked log.                               *)
(***************************************************************************)
EXTENDS AuditChain

Entry(r) == [id |-> r, at |-> at[r], prev |-> prev[r]]
Trail == {Entry(r) : r \in committed}

Log == INSTANCE AuditLog WITH log <- Trail

(* The trail implements the append-only log, by any clocks: no commit       *)
(* changes or drops an entry, none comes before one that was there, and     *)
(* every entry carries one that was dated last when it was appended -       *)
(* neither a stale one, nor one of a transaction that rolled back.          *)
AppendOnlyLog == Log!Spec
=============================================================================
