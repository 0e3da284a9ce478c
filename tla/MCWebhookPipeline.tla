-------------------------- MODULE MCWebhookPipeline -------------------------
EXTENDS WebhookPipeline, TLC

CONSTANTS e1, e2, p1, p2, t1, w1, s1, s2

MCTenantOf == [x \in Events \cup Endpoints |-> t1]

Symmetry == Permutations(Slots)
=============================================================================
