--------------------------- MODULE WebhookDelivery --------------------------
(***************************************************************************)
(* The webhook-delivery queue and the worker that drains it                *)
(* (apps/api/src/infra/outbox/webhook-delivery.processor.ts), with the     *)
(* endpoint operations of modules/webhooks/webhooks.service.ts.            *)
(*                                                                         *)
(* One job is one (outbox row, endpoint) pair.  An execution reads the     *)
(* tenant, then the endpoint, validates the URL, POSTs, inserts the        *)
(* WebhookDelivery row and then updates the endpoint's counters, each in a *)
(* transaction of its own.  BullMQ retries an execution that throws, and   *)
(* hands a job whose lock expired to another execution while the first one *)
(* may still be running.                                                   *)
(***************************************************************************)
EXTENDS Naturals, FiniteSets

CONSTANTS
    Jobs,
    Endpoints,
    Tenants,
    EndpointOf,   \* the endpoint of a job
    TenantOf,     \* the tenant of an endpoint
    Slots,        \* executions the workers can run at once (concurrency: 10)
    Attempts,     \* the attempts option of the job
    MaxStalled,   \* maxStalledCount
    Threshold     \* CONSECUTIVE_FAILURE_DISABLE_THRESHOLD

VARIABLES
    job,        \* BullMQ's record of each job
    exec,       \* what each slot is executing
    live,       \* tenants with isActive and no suspendedAt
    active,     \* endpoints with isActive
    deleted,    \* endpoints an administrator deleted
    failures,   \* consecutiveFailures
    dead,       \* jobs with a WebhookDelivery row that has deadLetter set
    accepted,   \* history: jobs the subscriber answered with a 2xx
    skipped,    \* history: jobs dropped before the POST, with the reason
    troubled,   \* history: jobs that stalled or lost a database call
    forgotten   \* history: jobs BullMQ evicted after they finished

endpointVars == <<active, deleted, failures>>
history == <<accepted, skipped, troubled, forgotten>>
vars == <<job, exec, live, endpointVars, dead, history>>

-----------------------------------------------------------------------------
States == {"absent", "waiting", "active", "completed", "failed"}
Answers == {"none", "ok", "gone", "error"}
Stages == {"idle", "tenant", "endpoint", "validate", "reject", "post",
           "persist", "account", "disable"}
Reasons == {"tenant", "endpoint"}

Absent == [state |-> "absent", made |-> 0, stalls |-> 0]
\* A slot: its stage, its job (a singleton when busy), the attemptsMade it was
\* handed, the answer to its POST, and whether it still holds the job's lock.
Free == [pc |-> "idle", job |-> {}, made |-> 0, answer |-> "none", owner |-> FALSE]

Init ==
    /\ job = [j \in Jobs |-> Absent]
    /\ exec = [s \in Slots |-> Free]
    /\ live = Tenants
    /\ active = Endpoints
    /\ deleted = {}
    /\ failures = [p \in Endpoints |-> 0]
    /\ dead = {}
    /\ accepted = {}
    /\ skipped = {}
    /\ troubled = {}
    /\ forgotten = {}

-----------------------------------------------------------------------------
(* The queue, as BullMQ keeps it.                                          *)

\* Faulty: every add gets a job id of its own.
OfferAnew(j) ==
    /\ job' = [job EXCEPT ![j] = [Absent EXCEPT !.state = "waiting"]]
    /\ UNCHANGED <<exec, live, endpointVars, dead, history>>

\* deliveryQueue.add: a job id BullMQ still knows is left as it is.
Offer(j) ==
    /\ job' = IF job[j].state = "absent" THEN [job EXCEPT ![j].state = "waiting"]
                                         ELSE job
    /\ UNCHANGED <<exec, live, endpointVars, dead, history>>

\* removeOnComplete and removeOnFail: the oldest finished jobs are forgotten.
Forget(j) ==
    /\ job[j].state \in {"completed", "failed"}
    /\ job' = [job EXCEPT ![j] = Absent]
    /\ forgotten' = forgotten \cup {j}
    /\ UNCHANGED <<exec, live, endpointVars, dead, accepted, skipped, troubled>>

JobOf(s) == CHOOSE j \in Jobs : j \in exec[s].job
At(s, pc) == exec[s].pc = pc

Take(s, j) ==
    /\ At(s, "idle")
    /\ job[j].state = "waiting"
    /\ job' = [job EXCEPT ![j].state = "active"]
    /\ exec' = [exec EXCEPT ![s] = [Free EXCEPT !.pc = "tenant", !.job = {j},
                                               !.made = job[j].made, !.owner = TRUE]]
    /\ UNCHANGED <<live, endpointVars, dead, history>>

\* process() returned; a slot that lost the lock no longer settles the job.
Complete(s) ==
    /\ job' = IF exec[s].owner THEN [job EXCEPT ![JobOf(s)].state = "completed"] ELSE job
    /\ exec' = [exec EXCEPT ![s] = Free]

\* process() threw: back to the queue, or failed after the last attempt.
Throw(s) ==
    LET j == JobOf(s)
        made == exec[s].made + 1
    IN /\ job' = IF exec[s].owner
                 THEN [job EXCEPT ![j].made = made,
                                  ![j].state = IF made < Attempts THEN "waiting" ELSE "failed"]
                 ELSE job
       /\ exec' = [exec EXCEPT ![s] = Free]

\* The lock expired.  The execution died with its process, or it lives on
\* without the job; either way the job is handed out again, but only so often.
Stall(s) ==
    LET j == JobOf(s) IN
    /\ ~At(s, "idle")
    /\ exec[s].owner
    /\ job' = [job EXCEPT ![j].stalls = @ + 1,
                          ![j].state = IF job[j].stalls < MaxStalled THEN "waiting" ELSE "failed"]
    /\ exec' \in {[exec EXCEPT ![s] = Free], [exec EXCEPT ![s].owner = FALSE]}
    /\ troubled' = troubled \cup {j}
    /\ UNCHANGED <<live, endpointVars, dead, accepted, skipped, forgotten>>

\* A database call of process() failed: the exception reaches BullMQ.
DatabaseFails(s) ==
    /\ ~At(s, "idle")
    /\ ~At(s, "post")
    /\ Throw(s)
    /\ troubled' = troubled \cup exec[s].job
    /\ UNCHANGED <<live, endpointVars, dead, accepted, skipped, forgotten>>

-----------------------------------------------------------------------------
(* WebhookDeliveryProcessor.process, by the calls it awaits.               *)

Goto(s, pc) == exec' = [exec EXCEPT ![s].pc = pc]
Endpoint(s) == EndpointOf[JobOf(s)]

CheckTenant(s) ==
    /\ At(s, "tenant")
    /\ IF TenantOf[Endpoint(s)] \in live
       THEN Goto(s, "endpoint") /\ UNCHANGED <<job, skipped>>
       ELSE /\ Complete(s)
            /\ skipped' = skipped \cup {<<JobOf(s), "tenant">>}
    /\ UNCHANGED <<live, endpointVars, dead, accepted, troubled, forgotten>>

LoadEndpoint(s) ==
    /\ At(s, "endpoint")
    /\ IF Endpoint(s) \in active \ deleted
       THEN Goto(s, "validate") /\ UNCHANGED <<job, skipped>>
       ELSE /\ Complete(s)
            /\ skipped' = skipped \cup {<<JobOf(s), "endpoint">>}
    /\ UNCHANGED <<live, endpointVars, dead, accepted, troubled, forgotten>>

\* urlValidator.validateUrl resolves the host again; a rejected URL is
\* recorded as a dead letter before the endpoint is disabled.
Validate(s) ==
    /\ At(s, "validate")
    /\ \/ Goto(s, "post") /\ UNCHANGED dead
       \/ /\ Endpoint(s) \notin deleted
          /\ Goto(s, "reject")
          /\ dead' = dead \cup exec[s].job
    /\ UNCHANGED <<job, live, endpointVars, history>>

Post(s) ==
    /\ At(s, "post")
    /\ \E a \in Answers \ {"none"} :
          /\ exec' = [exec EXCEPT ![s].pc = "persist", ![s].answer = a]
          /\ accepted' = IF a = "ok" THEN accepted \cup exec[s].job ELSE accepted
    /\ UNCHANGED <<job, live, endpointVars, dead, skipped, troubled, forgotten>>

\* Faulty: off by one.
ExhaustedOffByOne(s) == Attempts < exec[s].made + 1

\* attemptsRemaining <= 0
Exhausted(s) == Attempts <= exec[s].made + 1

\* persistDelivery, before any counter is touched.
Persist(s) ==
    /\ At(s, "persist")
    /\ Endpoint(s) \notin deleted
    /\ dead' = IF exec[s].answer = "gone" \/ (exec[s].answer = "error" /\ Exhausted(s))
               THEN dead \cup exec[s].job ELSE dead
    /\ Goto(s, "account")
    /\ UNCHANGED <<job, live, endpointVars, history>>

\* After a failure: an exhausted job returns, any other throws to be retried.
Settle(s) == IF Exhausted(s) THEN Complete(s) ELSE Throw(s)

RecordHealthy(s) ==
    /\ At(s, "account")
    /\ exec[s].answer = "ok"
    /\ Endpoint(s) \notin deleted
    /\ failures' = [failures EXCEPT ![Endpoint(s)] = 0]
    /\ Complete(s)
    /\ UNCHANGED <<live, active, deleted, dead, history>>

\* The increment and the decision are one update; disabling is another one.
RecordFailure(s) ==
    /\ At(s, "account")
    /\ exec[s].answer = "error"
    /\ Endpoint(s) \notin deleted
    /\ failures' = [failures EXCEPT ![Endpoint(s)] = @ + 1]
    /\ IF failures[Endpoint(s)] + 1 >= Threshold THEN Goto(s, "disable") /\ UNCHANGED job
                                                 ELSE Settle(s)
    /\ UNCHANGED <<live, active, deleted, dead, history>>

\* disableEndpoint: at the threshold, on 410 Gone, on a rejected URL.
Disable(s) ==
    /\ \/ At(s, "disable") /\ Settle(s)
       \/ (At(s, "reject") \/ (At(s, "account") /\ exec[s].answer = "gone")) /\ Complete(s)
    /\ Endpoint(s) \notin deleted
    /\ active' = active \ {Endpoint(s)}
    /\ UNCHANGED <<live, deleted, failures, dead, history>>

\* The endpoint was deleted meanwhile: the insert of its delivery violates the
\* foreign key, an update of the endpoint finds no row, and both throw.
WriteToDeleted(s) ==
    /\ exec[s].pc \in {"validate", "persist", "account", "disable", "reject"}
    /\ Endpoint(s) \in deleted
    /\ Throw(s)
    /\ troubled' = troubled \cup exec[s].job
    /\ UNCHANGED <<live, endpointVars, dead, accepted, skipped, forgotten>>

-----------------------------------------------------------------------------
(* Administrators.                                                         *)

\* WebhooksService.update with isActive; the failure count stays.
SetActive(p, on) ==
    /\ p \notin deleted
    /\ active' = IF on THEN active \cup {p} ELSE active \ {p}
    /\ UNCHANGED <<job, exec, live, deleted, failures, dead, history>>

\* The endpoint's WebhookDelivery rows are deleted with it (onDelete: Cascade).
Delete(p) ==
    /\ p \notin deleted
    /\ deleted' = deleted \cup {p}
    /\ active' = active \ {p}
    /\ dead' = {j \in dead : EndpointOf[j] # p}
    /\ UNCHANGED <<job, exec, live, failures, history>>

ToggleTenant(t) ==
    /\ live' = IF t \in live THEN live \ {t} ELSE live \cup {t}
    /\ UNCHANGED <<job, exec, endpointVars, dead, history>>

-----------------------------------------------------------------------------
Execute(s) ==
    \/ CheckTenant(s) \/ LoadEndpoint(s) \/ Validate(s) \/ Post(s) \/ Persist(s)
    \/ RecordHealthy(s) \/ RecordFailure(s) \/ Disable(s) \/ WriteToDeleted(s)

Next ==
    \/ \E j \in Jobs : Offer(j) \/ Forget(j) \/ \E s \in Slots : Take(s, j)
    \/ \E s \in Slots : Execute(s) \/ Stall(s) \/ DatabaseFails(s)
    \/ \E p \in Endpoints : Delete(p) \/ \E on \in BOOLEAN : SetActive(p, on)
    \/ \E t \in Tenants : ToggleTenant(t)

Spec == Init /\ [][Next]_vars
=============================================================================
