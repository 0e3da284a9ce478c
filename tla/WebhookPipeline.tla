-------------------------- MODULE WebhookPipeline ---------------------------
(***************************************************************************)
(* The outbox poller and the delivery worker together: the poller's adds   *)
(* are the offers the delivery queue receives, a job id is known to the    *)
(* poller for as long as the queue keeps the job, and the endpoints the    *)
(* worker disables are the endpoints the poller no longer finds.           *)
(***************************************************************************)
EXTENDS Naturals, FiniteSets

CONSTANTS
    Events, Tenants, Endpoints, TenantOf, Unknown,
    Workers, Batch, MaxAttempts, MaxAborts, NoRow,  \* see OutboxPoller
    Slots, Attempts, MaxStalled, Threshold,         \* see WebhookDelivery
    MaxChanges   \* bound on administrators' changes and forgotten jobs

ASSUME PipelineAssumption ==
    /\ IsFiniteSet(Events)
    /\ TenantOf \in [Events \cup Endpoints -> Tenants]
    /\ Unknown \subseteq Events
    /\ Batch \in Nat \ {0}
    /\ MaxAttempts \in Nat \ {0}
    /\ MaxAborts \in Nat
    /\ NoRow \notin Events
    /\ Attempts \in Nat \ {0}
    /\ MaxStalled \in Nat
    /\ Threshold \in Nat \ {0}
    /\ MaxChanges \in Nat

VARIABLES
    status, attempts, age, ticks, drain, aborts, added, steady, contested,
    job, exec, live, active, deleted, failures, dead,
    accepted, skipped, troubled, forgotten,
    changes
pollerVars == <<status, attempts, age, ticks, drain, aborts, added, steady, contested>>
queueVars == <<job, exec, active, deleted, failures, dead, accepted, skipped, troubled,
             forgotten>>
vars == <<pollerVars, queueVars, live, changes>>

Jobs == {j \in Events \X Endpoints : TenantOf[j[1]] = TenantOf[j[2]]}
EndpointOf == [j \in Jobs |-> j[2]]

D == INSTANCE WebhookDelivery
P == INSTANCE OutboxPoller WITH
        queued <- {j \in Jobs : job[j].state # "absent"},
        matching <- active

Init == D!Init /\ P!Init /\ changes = 0

-----------------------------------------------------------------------------
(* Steps of the poller; only the add reaches the delivery queue.           *)

Add(w, p) ==
    /\ drain[w].pc = "enqueue"
    /\ D!Offer(<<drain[w].row, p>>)
    /\ P!Enqueue(w, p)
    /\ UNCHANGED changes

PollerStep ==
    /\ UNCHANGED <<queueVars, live, changes>>
    /\ \/ \E e \in Events : P!Publish(e)
       \/ P!Tick
       \/ \E w \in Workers :
             \/ P!StartDrain(w) \/ P!Fetch(w) \/ P!FilterActive(w) \/ P!Dispatch(w)
             \/ P!MarkPublished(w) \/ P!RowThrows(w) \/ P!MarkFailed(w)
             \/ P!GiveUp(w) \/ P!EndDrain(w) \/ P!Abort(w)

(* Steps of the queue and the delivery worker.  An endpoint that becomes   *)
(* inactive, or active again, has not matched all along.                   *)
Resubscribed == steady' = [e \in Events |-> steady[e] \cap (active \cap active')]

DeliveryStep(s) ==
    /\ D!Execute(s) \/ D!Stall(s) \/ D!DatabaseFails(s) \/ \E j \in Jobs : D!Take(s, j)
    /\ Resubscribed
    /\ UNCHANGED <<status, attempts, age, ticks, drain, aborts, added, contested, changes>>

Administer ==
    /\ changes < MaxChanges
    /\ changes' = changes + 1
    /\ \/ \E p \in Endpoints : D!Delete(p) \/ \E on \in BOOLEAN : D!SetActive(p, on)
       \/ \E t \in Tenants : D!ToggleTenant(t)
       \/ \E j \in Jobs : D!Forget(j)
    /\ Resubscribed
    /\ UNCHANGED <<status, attempts, age, ticks, drain, aborts, added, contested>>

Next ==
    \/ PollerStep
    \/ \E w \in Workers, p \in Endpoints : Add(w, p)
    \/ \E s \in Slots : DeliveryStep(s)
    \/ Administer

Spec == Init /\ [][Next]_vars

-----------------------------------------------------------------------------
Finished(j) == job[j].state \in {"completed", "failed"}

(* End to end: once a row is PUBLISHED, every endpoint that stayed active   *)
(* for it has a job that is still running, or was answered with a 2xx, or   *)
(* left a dead letter for replay.  Only a stalled execution, a failed       *)
(* database call or a suspension of the tenant can lose it.                 *)
NothingLostSilently ==
    \A j \in Jobs :
        /\ status[j[1]] = "PUBLISHED"
        /\ j[2] \in steady[j[1]]
        /\ j[1] \notin Unknown
        /\ job[j].state \notin {"waiting", "active"}
        => \/ j \in accepted \cup dead \cup troubled
           \/ <<j, "tenant">> \in skipped

(* A subscriber that accepted a delivery does not get it again: the poller  *)
(* may add the job twice, but the deterministic jobId makes the second add  *)
(* a no-op.  A job whose execution stalled or lost a database call after    *)
(* the POST is delivered again, and so is one BullMQ has already evicted.   *)
AcceptedOnce ==
    [][\A s \in Slots : exec[s].pc = "post" /\ exec'[s].pc = "persist"
            => exec[s].job \cap accepted \subseteq troubled \cup forgotten]_vars

(* A job that needed every attempt and never got a 2xx leaves a dead        *)
(* letter, even when the endpoint is disabled on the way, for as long as    *)
(* the endpoint exists: deleting it deletes its deliveries.                 *)
ExhaustedLeavesDeadLetter ==
    \A j \in Jobs :
        /\ Finished(j)
        /\ j \notin accepted \cup troubled
        /\ skipped \cap ({j} \X D!Reasons) = {}
        /\ EndpointOf[j] \notin deleted
        => j \in dead
=============================================================================
