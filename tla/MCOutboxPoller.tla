--------------------------- MODULE MCOutboxPoller ---------------------------
(* Small instances of OutboxPoller: two rows of two tenants, or of one.    *)
EXTENDS OutboxPoller, TLC

CONSTANTS e1, e2, p1, p2, t1, t2, w1, w2

\* Each row has a tenant of its own; only the first has an endpoint.
TwoTenants == (e1 :> t1) @@ (e2 :> t2) @@ (p1 :> t1)
=============================================================================
