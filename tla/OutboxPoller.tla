---------------------------- MODULE OutboxPoller ----------------------------
(***************************************************************************)
(* The transactional outbox of apps/api/src/infra/outbox and the poller    *)
(* that drains it into the webhook-delivery queue.                         *)
(*                                                                         *)
(* A business transaction inserts a PENDING row (OutboxService.publish).   *)
(* A repeatable BullMQ job, the tick, wakes one OutboxPoller worker, which *)
(* reads the oldest PENDING rows, drops those whose tenant is suspended,   *)
(* and for each surviving row reads the tenant's active endpoints, adds    *)
(* one delivery job per endpoint and marks the row PUBLISHED.  None of     *)
(* these steps shares a transaction with the next one.                     *)
(*                                                                         *)
(* Every replica of the API runs one poller worker (concurrency: 1), so    *)
(* Workers is the set of replicas.                                         *)
(***************************************************************************)
EXTENDS Naturals, FiniteSets

CONSTANTS
    Events,       \* outbox rows the business code may insert
    Tenants,
    Endpoints,    \* webhook endpoints
    Workers,      \* API replicas, each with one OutboxPoller worker
    TenantOf,     \* the tenant of a row or of an endpoint
    Unknown,      \* rows whose eventType is not a member of WebhookEvent
    Batch,        \* OUTBOX_BATCH_SIZE
    MaxAttempts,  \* OUTBOX_MAX_ATTEMPTS
    MaxAborts,    \* bound on the number of drains cut short by a crash
    NoRow         \* the worker is between two rows

ASSUME OutboxAssumption ==
    /\ IsFiniteSet(Events)
    /\ TenantOf \in [Events \cup Endpoints -> Tenants]
    /\ Unknown \subseteq Events
    /\ Batch \in Nat \ {0}
    /\ MaxAttempts \in Nat \ {0}
    /\ MaxAborts \in Nat
    /\ NoRow \notin Events

VARIABLES
    status,     \* OutboxEvent.status; NONE: not inserted yet
    attempts,   \* OutboxEvent.attempts
    age,        \* OutboxEvent.createdAt, as a rank
    live,       \* tenants with isActive and no suspendedAt
    matching,   \* endpoints with isActive whose events list has the event
    ticks,      \* drain jobs waiting in the outbox-poll queue, at most one
    drain,      \* the state of each worker's process()
    queued,     \* job ids the webhook-delivery queue still knows
    aborts,
    added,      \* history: <<e, p>> of every deliveryQueue.add that returned
    steady,     \* history: endpoints matching ever since the row was inserted
    contested       \* history: rows that two workers had in hand at once

rows == <<status, attempts, age>>
config == <<live, matching, steady>>
vars == <<rows, config, ticks, drain, queued, aborts, added, contested>>

-----------------------------------------------------------------------------
Statuses == {"NONE", "PENDING", "PUBLISHED", "FAILED"}
Stages == {"idle", "fetch", "filter", "row", "enqueue", "mark", "bump", "giveUp"}
Jobs == Events \X Endpoints

EndpointsOf(e) == {p \in Endpoints : TenantOf[p] = TenantOf[e]}

DrainState == [pc : Stages, batch : SUBSET Events, row : Events \cup {NoRow},
               targets : SUBSET Endpoints]

\* A worker between two steps of process(): the rows still to dispatch, the
\* row being dispatched and the endpoints it has not been enqueued for yet.
Idle == [pc |-> "idle", batch |-> {}, row |-> NoRow, targets |-> {}]
BetweenRows(d) == [d EXCEPT !.pc = "row", !.row = NoRow, !.targets = {}]

Init ==
    /\ status = [e \in Events |-> "NONE"]
    /\ attempts = [e \in Events |-> 0]
    /\ age = [e \in Events |-> 0]
    /\ live = Tenants
    /\ matching \in SUBSET Endpoints
    /\ ticks = 0
    /\ drain = [w \in Workers |-> Idle]
    /\ queued = {}
    /\ aborts = 0
    /\ added = {}
    /\ steady = [e \in Events |-> {}]
    /\ contested = {}

-----------------------------------------------------------------------------
(* The writers: a business transaction, an administrator, BullMQ.          *)

\* OutboxService.publish inside the transaction of the business write.
Publish(e) ==
    /\ status[e] = "NONE"
    /\ status' = [status EXCEPT ![e] = "PENDING"]
    /\ age' = [age EXCEPT ![e] = Cardinality({f \in Events : status[f] # "NONE"}) + 1]
    /\ steady' = [steady EXCEPT ![e] = matching \cap EndpointsOf(e)]
    /\ UNCHANGED <<attempts, live, matching, ticks, drain, queued, aborts, added, contested>>

\* WebhooksService.create/update/delete, or the delivery worker disabling p.
ToggleEndpoint(p) ==
    /\ matching' = IF p \in matching THEN matching \ {p} ELSE matching \cup {p}
    /\ steady' = [e \in Events |-> steady[e] \ {p}]
    /\ UNCHANGED <<rows, live, ticks, drain, queued, aborts, added, contested>>

\* Suspension of a tenant, and its reversal.
ToggleTenant(t) ==
    /\ live' = IF t \in live THEN live \ {t} ELSE live \cup {t}
    /\ UNCHANGED <<rows, matching, steady, ticks, drain, queued, aborts, added, contested>>

\* The repeatable job fires; BullMQ keeps a single pending instance of it.
Tick ==
    /\ ticks = 0
    /\ ticks' = 1
    /\ UNCHANGED <<rows, config, drain, queued, aborts, added, contested>>

\* removeOnComplete: the delivery queue forgets a finished job and its id.
Forget(j) ==
    /\ j \in queued
    /\ queued' = queued \ {j}
    /\ UNCHANGED <<rows, config, ticks, drain, aborts, added, contested>>

-----------------------------------------------------------------------------
(* One drain of worker w.                                                  *)

At(w, pc) == drain[w].pc = pc
AtRow(w) == drain[w].pc \in {"enqueue", "mark", "bump", "giveUp"}

Goes(w, d) == drain' = [drain EXCEPT ![w] = d]

\* What only reads, or only moves w, leaves alone.
Reads == UNCHANGED <<rows, config, queued, aborts, added, contested>>

StartDrain(w) ==
    /\ At(w, "idle")
    /\ ticks = 1
    /\ ticks' = 0
    /\ Goes(w, [Idle EXCEPT !.pc = "fetch"])
    /\ Reads

\* Faulty: the status of the row is not part of the query.
CandidatesAnyStatus == {e \in Events : status[e] # "NONE" /\ attempts[e] < MaxAttempts}

\* Faulty: a row that was tried once is never tried again.
CandidatesFirstTry == {e \in Events : status[e] = "PENDING" /\ attempts[e] = 0}

Candidates == {e \in Events : status[e] = "PENDING" /\ attempts[e] < MaxAttempts}

\* orderBy createdAt asc, take Batch
IsOldest(S, C) ==
    /\ \A e \in S, f \in C \ S : age[e] =< age[f]
    /\ \/ S = C /\ Cardinality(S) =< Batch
       \/ Cardinality(S) = Batch

\* The rows a worker has in hand: still to dispatch, or being dispatched.
Held(w) == drain[w].batch \cup (IF AtRow(w) THEN {drain[w].row} ELSE {})
HeldByOthers(w) == UNION {Held(v) : v \in Workers \ {w}}

Fetch(w) ==
    /\ At(w, "fetch")
    /\ \E S \in SUBSET Candidates :
          /\ IsOldest(S, Candidates)
          /\ Goes(w, [drain[w] EXCEPT !.pc = "filter", !.batch = S])
          /\ contested' = contested \cup (S \cap HeldByOthers(w))
    /\ UNCHANGED <<rows, config, ticks, queued, aborts, added>>

\* filterActiveTenants
FilterActive(w) ==
    /\ At(w, "filter")
    /\ Goes(w, [drain[w] EXCEPT !.pc = "row",
                                  !.batch = {e \in @ : TenantOf[e] \in live}])
    /\ UNCHANGED ticks
    /\ Reads

\* dispatchOne up to the endpoint query; an unknown event has no endpoint.
Targets(e) == IF e \in Unknown THEN {} ELSE matching \cap EndpointsOf(e)

\* Faulty: the row is marked PUBLISHED without its fan-out.
DispatchMarksFirst(w) ==
    /\ At(w, "row")
    /\ \E e \in drain[w].batch :
          Goes(w, [pc |-> "mark", batch |-> drain[w].batch \ {e}, row |-> e,
                     targets |-> {}])
    /\ UNCHANGED ticks
    /\ Reads

Dispatch(w) ==
    /\ At(w, "row")
    /\ \E e \in drain[w].batch :
          /\ \A f \in drain[w].batch : age[e] =< age[f]
          /\ Goes(w, [pc |-> IF Targets(e) = {} THEN "mark" ELSE "enqueue",
                        batch |-> drain[w].batch \ {e}, row |-> e,
                        targets |-> Targets(e)])
    /\ UNCHANGED ticks
    /\ Reads

\* deliveryQueue.add with jobId row::endpoint; a known id is a no-op.
Enqueue(w, p) ==
    /\ At(w, "enqueue")
    /\ p \in drain[w].targets
    /\ queued' = queued \cup {<<drain[w].row, p>>}
    /\ added' = added \cup {<<drain[w].row, p>>}
    /\ Goes(w, [drain[w] EXCEPT !.targets = @ \ {p},
                                  !.pc = IF drain[w].targets = {p} THEN "mark" ELSE @])
    /\ UNCHANGED <<rows, config, ticks, aborts, contested>>

MarkPublished(w) ==
    /\ At(w, "mark")
    /\ status' = [status EXCEPT ![drain[w].row] = "PUBLISHED"]
    /\ Goes(w, BetweenRows(drain[w]))
    /\ UNCHANGED <<attempts, age, config, ticks, queued, aborts, added, contested>>

\* dispatchOne throws: the endpoint query, an add or the update failed.
RowThrows(w) ==
    /\ drain[w].pc \in {"enqueue", "mark"}
    /\ Goes(w, [drain[w] EXCEPT !.pc = "bump", !.targets = {}])
    /\ UNCHANGED ticks
    /\ Reads

\* markFailed, first update: attempts + 1.
MarkFailed(w) ==
    /\ At(w, "bump")
    /\ LET e == drain[w].row IN
          /\ attempts' = [attempts EXCEPT ![e] = @ + 1]
          /\ Goes(w, IF attempts[e] + 1 >= MaxAttempts
                       THEN [drain[w] EXCEPT !.pc = "giveUp"]
                       ELSE BetweenRows(drain[w]))
    /\ UNCHANGED <<status, age, config, ticks, queued, aborts, added, contested>>

\* markFailed, second update.
GiveUp(w) ==
    /\ At(w, "giveUp")
    /\ status' = [status EXCEPT ![drain[w].row] = "FAILED"]
    /\ Goes(w, BetweenRows(drain[w]))
    /\ UNCHANGED <<attempts, age, config, ticks, queued, aborts, added, contested>>

EndDrain(w) ==
    /\ At(w, "row")
    /\ drain[w].batch = {}
    /\ Goes(w, Idle)
    /\ UNCHANGED ticks
    /\ Reads

\* The replica dies, or a read or markFailed itself throws: the drain ends
\* where it is.  A stalled job goes back to the queue.
Abort(w) ==
    /\ ~At(w, "idle")
    /\ aborts < MaxAborts
    /\ aborts' = aborts + 1
    /\ Goes(w, Idle)
    /\ ticks' \in {ticks, 1}
    /\ UNCHANGED <<rows, config, queued, added, contested>>

-----------------------------------------------------------------------------
DrainStep(w) ==
    \/ StartDrain(w) \/ Fetch(w) \/ FilterActive(w) \/ Dispatch(w)
    \/ \E p \in Endpoints : Enqueue(w, p)
    \/ MarkPublished(w) \/ MarkFailed(w) \/ GiveUp(w) \/ EndDrain(w)

Next ==
    \/ \E e \in Events : Publish(e)
    \/ \E p \in Endpoints : ToggleEndpoint(p)
    \/ \E t \in Tenants : ToggleTenant(t)
    \/ Tick
    \/ \E j \in Jobs : Forget(j)
    \/ \E w \in Workers : DrainStep(w) \/ RowThrows(w) \/ Abort(w)

\* BullMQ keeps firing the repeatable job, and a worker that runs keeps
\* running.  Nothing is promised about failures or about administrators.
Fairness ==
    /\ WF_vars(Tick)
    /\ \A w \in Workers : WF_vars(DrainStep(w))

Spec == Init /\ [][Next]_vars
FairSpec == Spec /\ Fairness

-----------------------------------------------------------------------------
TypeOK ==
    /\ status \in [Events -> Statuses]
    /\ attempts \in [Events -> Nat]
    /\ age \in [Events -> Nat]
    /\ live \subseteq Tenants
    /\ matching \subseteq Endpoints
    /\ ticks \in {0, 1}
    /\ drain \in [Workers -> DrainState]
    /\ \A w \in Workers : /\ AtRow(w) => drain[w].row \in Events
                          /\ ~AtRow(w) => drain[w].row = NoRow
    /\ queued \subseteq Jobs
    /\ aborts \in Nat
    /\ added \subseteq Jobs
    /\ steady \in [Events -> SUBSET Endpoints]
    /\ contested \subseteq Events

(* A row is PUBLISHED only after a job was added for every endpoint that   *)
(* matched it all along, whatever crashed, threw or ran twice in between   *)
(* (outbox.poller.ts dispatchOne: adds first, markPublished last).         *)
NoSubscriberSkipped ==
    \A e \in Events \ Unknown :
        status[e] = "PUBLISHED" => \A p \in steady[e] : <<e, p>> \in added

Final(e) == status[e] \in {"PUBLISHED", "FAILED"}
Untouched(e) == /\ status'[e] = status[e]
                /\ \A p \in Endpoints : <<e, p>> \in queued' => <<e, p>> \in queued

(* PUBLISHED and FAILED are final: no late drainer reopens or reverses a   *)
(* row that another one settled, or fans it out once more.  That is what   *)
(* the queue claims: one tick at a time, so that two drainers never race   *)
(* on a row and the PENDING -> PUBLISHED update dedups the fan-out         *)
(* (outbox.scheduler.ts, queue.constants.ts QUEUE_OUTBOX_POLL).            *)
SettledIsFinal ==
    [][\A e \in Events : Final(e) => Untouched(e)]_vars

(* What the code does guarantee, however many replicas drain: a settled row *)
(* is written or fanned out again only when two drainers had it in hand at  *)
(* once.  No crash, throwing add, retried attempt or forgotten job does it, *)
(* and a drainer that overlaps another on other rows does not either.       *)
ResettledOnlyByRival ==
    [][\A e \in Events \ contested : Final(e) => Untouched(e)]_vars

(* The next ticks keep retrying a PENDING row that has attempts left: it   *)
(* is settled, runs out of attempts, or its own tenant gets suspended.     *)
PendingIsResolved ==
    \A e \in Events :
        (status[e] = "PENDING" /\ attempts[e] < MaxAttempts)
            ~> (status[e] # "PENDING" \/ attempts[e] >= MaxAttempts
                                      \/ TenantOf[e] \notin live)
=============================================================================
