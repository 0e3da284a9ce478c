# TLA+ specifications of AMASS CRM

AMASS CRM is a multi-tenant CRM: a NestJS API (`src/apps/api`) over PostgreSQL
and Redis, a React front end (`src/apps/web`), a Python AI worker and shared
packages. Most of the API creates, reads and updates single rows. What ordinary
tests reach least is how requests, BullMQ workers, provider callbacks and
scheduled sweeps work on the same rows, with no transaction around what they do
together. That is what this directory specifies, checks with TLC and proves with
TLAPS: every safety property a run checks is also a theorem for any number of
handlers, rows and messages, liveness apart.

## 1. Inventory

Paths are relative to `src/apps/api/src/modules` unless they begin otherwise.

| Part | State | Operations | What is hard | What makes it correct |
|---|---|---|---|---|
| Outbox and poller (`infra/outbox`) | `outbox_events`, tick, jobs | `publish`, tick, `drainOnce`, `dispatchOne`, `markPublished`, `markFailed` | crashes and throwing calls between transactions | no subscriber skipped, rows settled once, rows retried |
| Webhook delivery (`infra/outbox/webhook-delivery.processor.ts`, `webhooks`) | BullMQ job, endpoint, its two secrets, counters | one execution in nine stages; endpoint administration; rotation | retries, stalled executions that go on, secrets swapped meanwhile | every event accepted, dead-lettered or lost for a known reason |
| Approvals (`approvals`, gate in `quotes`) | request, steps, decisions, quote | open, advance, decide, withdraw, expire, side effects | only `decide` locks the request | four eyes, one verdict per step, order, no request in limbo |
| E-sign ceremony (`contract-signers`, `contracts/services/contract-sweeper`) | contract, signatures, PDF, hash | send, notify, view, sign, decline, sweep and its cascade | row locks, an advisory lock, checks not repeated after a lock | ACTIVE means all signed, the last signature completes, order |
| Audit chain (`contracts/services/audit-chain`) | audit entries | `append`, `verifyContractChain` | order by a clock, rollbacks | no forks, the log only grows |
| Invoices and payments (`invoices`, `payments`) | invoice, payments, stored PDF | update, status, remove, pay, refund, recompute, PDF, overdue sweep | read in one transaction, written in another | status agrees with payments; the PDF is what was issued |
| Email sending (`email`, `email-suppression`, `email-tracking`) | message, job, suppression list | `send`, `sendTransactional`, worker, suppress, unsubscribe, bounce | row and job in two stores, redelivery in SENDING | a message settles and is sent once; the list is respected |
| Email sequences (`email-sequences`) | sequence, enrollments | tick, enroll, unenroll, activate, pause | overlapping ticks, cursor written after the message | each step once and in time |
| Reminders (`reminders`) | row and delayed job | create, update, dismiss, remove, fire | two stores without a transaction | fires at the time last set, unless closed |
| Workflows (`workflows`) | run, resume job | trigger, steps, resume, cancel | redelivery, cancellation while steps run | one run per pair, each step once, runs end |
| Campaigns (`campaigns`, `campaign-recipients`) | campaign, recipients, dispatch job | launch, schedule, pause, resume, cancel, update, remove | row and job in two stores | the job exists exactly when the row says so |
| Sessions (`auth`) | refresh sessions, reset tokens | login, refresh, logout, reset, deactivation | conditional update against revoke-all | a token is consumed once; a reset ends what was before |
| Users and owners (`users`, `scim`) | roles, activation | updateRole, deactivate, activate, invite, SCIM patches | a count read before a write | an owner remains |
| Circuit breaker (`common/resilience`) | state, failures | `exec` | state looked at before an await, changed after it | open exactly for cause |
| Offline queue (`src/apps/web/src`: `lib/api.ts`, `features/offline`) | IndexedDB rows, one replay per tab | store, replay, back off | several tabs, a tab closed half-way | no edit lost, FIFO |
| Calls and subscription billing (`calls`, `billing`) | call, transcription job, keys in Redis, subscription | dial, voice, status and recording callbacks, AI result, Stripe webhook | repeated and concurrent posts, a key set before the work | each event counts once, no answered event is forgotten |
| Importer (`importer`) | ImportJob, job, clients | upload, worker, rerun | stalled workers, restart at row one | a rerun inserts nothing twice; the verdict is true |

How they interact: the outbox feeds the delivery queue; approvals move quotes;
the ceremony appends to the audit chain while it holds its lock; sequences call
the mail sender; workflows call most of the others through single statements;
campaigns, reminders, mail, imports and transcription use BullMQ. The other
parts of the system are in `PROJECT.json` under `components` with the reason why
they are not modelled, and the hazards of the code under `hazards`.

## 2. Modules

| Module | What it is |
|---|---|
| `OutboxPoller`, `OutboxPollerProofs` | outbox rows, tick, one drain per worker; theorems |
| `WebhookDelivery` | delivery queue, executions, endpoints and the deliveries that go with them |
| `WebhookPipeline`, `WebhookPipelineProofs` | the two composed: the poller's add is the queue's offer; it refines `OutboxPoller`; theorems |
| `WebhookSecrets` | rotation of a secret against signing and the subscriber's swap |
| `Approvals`, `ApprovalsProofs` | requests on one quote, and the quote; theorems |
| `ContractSigning`, `ContractSigningProofs` | the ceremony of one contract, the sweep; theorems |
| `AuditLog` | abstract: a linked set of entries that only grows at its end |
| `AuditChain`, `AuditTrail`, `AuditChainProofs` | append, commit, rollback, verifier; the refinement of `AuditLog`; theorems |
| `Billing` | one invoice, payments, PDF |
| `EmailDelivery` | senders, mail queue, suppression list |
| `EmailSequences` | cadences; EXTENDS `EmailDelivery`, whose senders carry the ticks |
| `Reminders`, `WorkflowRuns` | rows with a delayed job |
| `Campaigns` | one campaign and its dispatch job |
| `Sessions`, `Accounts` | the sessions of one user; the users of one tenant |
| `CircuitBreaker` | one breaker |
| `OfflineQueue` | the store and its tabs |
| `ProviderCallbacks` | callbacks of the telephone and the payment provider, the checkouts that name a customer |
| `Imports` | imports of one file |
| `ServicesProofs` | theorems of `CircuitBreaker`, `OfflineQueue`, `Campaigns`, `Billing`, `EmailDelivery`, `EmailSequences`, `Sessions`, `Accounts`, `WebhookSecrets` |
| `AutomationProofs` | theorems of `Reminders`, `WorkflowRuns`, `ProviderCallbacks`, `Imports` |
| `MCServices`, `MCAutomation`, `MCRecords` | EXTEND the modules that share no state: `part` is chosen at the start and says which of them runs |
| `MCServicesProofs` | theorems of `MCServices`: each part behaves as on its own |
| other `MC...` | values of the constants for TLC |

### Conventions

* `runWithTenant` is one PostgreSQL transaction at READ COMMITTED. A transaction
  that reads and writes without a lock is two steps when another can commit in
  between and that matters, else one.
* `SELECT ... FOR UPDATE` and `pg_advisory_xact_lock` are held to the commit; the
  writes of a transaction with locks are published by its commit step.
* A BullMQ job id that the queue still knows makes `add` a no-op, finished jobs
  that are kept included. A job whose lock expired is handed out again, once for
  most queues, while the first execution may live on; its result is then ignored.
* Handlers in flight are slots (`Calls`, `Slots`, `Txns`, `Clerks`, `Hooks`, ...):
  the number that interleave, not the number there may ever be.
* Requests that fail validation before they write anything are left out.
* "history" variables record what happened and are read by no guard.
* A definition whose comment starts with "Faulty" is no part of the system: it is
  the wrong variant of the definition below it (section 5).

### How state and actions correspond to the code

*OutboxPoller.* `Publish` commits a business transaction. A drain fetches (oldest
first, `Batch` rows), filters suspended tenants, then per row `Dispatch` (reads
the endpoints), `Enqueue` for each, `MarkPublished`; or `RowThrows`, after which
`MarkFailed` counts and `GiveUp`, a separate update, sets FAILED.

*WebhookDelivery, WebhookPipeline.* An execution reads the tenant, then the
endpoint, validates the URL, posts, inserts the delivery row, updates the counters
and may disable the endpoint; each step may be the last (`Stall`,
`DatabaseFails`). `Delete` takes the endpoint's delivery rows with it, dead letters
included (`schema.prisma:2222`), and whatever an execution writes for it afterwards
throws (`WriteToDeleted`). `MaxChanges` bounds administrators' changes and evictions.

*WebhookSecrets.* `ReadSecret` and `WriteSecret` are the two transactions of
`rotateSecret`; `Signers` are the secrets a delivery is signed with when its
endpoint is read; `SwapSecret` is the subscriber; `GraceEnds` is 24 hours.

*Approvals.* `step`, `cur`, `status`, `log` are columns; `call` is what a handler has
read. `advanceUntilHumanStep` is split at its transactions;
`applySubjectSideEffects` reads all requests and writes the quote later.

*ContractSigning.* `SignLoad`, `SignCheck`, `SignGate` are unlocked reads; `SignLock`
takes the row, `SignChain` waits for the chain's lock, `SignCommit` counts the open
signers. Decline has the same stages without the second look. `View` and `Invite`
write back a status computed from an older read.

*AuditChain.* Rows are numbered by insert, a hash is the number of the row it was
computed from; `AuditTrail` reads the committed rows as a set of entries, each with
the content its hash is of and the hash it carries of the entry before. `createdAt` is
the time, which `Gaps` moves on (by nothing, too), plus the `Skew` of the replica. `findFirst` may return
any row with the greatest `createdAt`.

*Billing.* A request is a clerk that begins (reads) and writes in a later step; a
payment inserts, sums and flips the status in three. `total` stands for the lines, which
may add up to nothing or less (`packages/shared/src/schemas/invoice.ts:26-33`), and `paper` for the total the stored PDF shows.

*EmailDelivery, EmailSequences.* `send` filters the recipients one after the other,
commits, adds the job; `sendTransactional` adds it inside its transaction, so a
worker may look before the commit. A tick is a sender that reads the cursor, sends
and writes the cursor; `MailRequest` is the call of any other user of the module.

*Reminders, WorkflowRuns.* Row and job are separate variables written by separate
steps; time advances in `TimePasses`; a handler may die between any two. Any query of an
executor, or its `queue.add`, may reject (`EngineThrows`), which ends the only attempt of
its job and leaves the run as it is.

*Campaigns.* An operator enters (reads the row), changes recipients and queue, and
writes the row by id. A draft may be created with a date; `update` is `SetSchedule` for
the date and `Update` for the status.

*Sessions, Accounts.* Each statement of `AuthService` is a step; `Consume` is the
conditional update. `BeginLoss` reads the user and the count of owners, `WriteLoss`
writes, both in one transaction that locks nothing.

*CircuitBreaker.* `Admit` and `Refuse` are the check, `Succeed` and `Fail` what
happens after the await, whatever the state has become; `Cool` is the passing of
the cooldown.

*OfflineQueue.* `Mutate` is a request of the page and `Enqueue` one that the network
refused, stored under the next key of IndexedDB; `Peek` takes the snapshot of a tab,
and `PassOver`, `ExecuteReplay`, `Dequeue`, `Tell`, `Postpone` handle the row with its
lowest key; `Tell` shows a refusal, after the await of the delete. `Close` ends a tab
anywhere.

*ProviderCallbacks.* A hook is a request of a provider being handled: `GetKey` and
`SetKey` are the two Redis calls of the call handlers, `ClaimKey` is the `SET NX` of
billing, `Work...` the effect and `Reply` the answer, after which the provider stops
posting. The dialled call has one row, one transcription and one job. A call that comes
in to a number without a row (`RegisterNumber`), and an event about a customer no tenant
has, are answered without effect; a customer is lost when two checkouts read none, create
one each (`BeginCheckout`) and store theirs by tenant (`StoreCustomer`).

*Imports.* A row of the file is a person, with a name and perhaps a phone. The lookup
(`Alike`) takes a client with that name and, if the row has a phone, with that phone less
its spaces; a row without one is skipped for any namesake. Two jobs carry the same file.
`LosesLock` ends a worker or leaves it running without its job; the job begins again at
the first row. Every update of the ImportJob may throw (`ProcessThrows`), `markFailed`
too.

## 3. Runs

Numbers are distinct states.

| Run | Instance | Shows |
|---|---|---|
| `outbox_starvation` | batch 1; fair | violation: rows of a suspended tenant fill every batch and starve the others |
| `outbox_two_replicas` | 2 workers, no crash | violation: `SettledIsFinal`, which the comments promise; a drain fans a row out, or marks it, that another drain has settled |
| `webhook_pipeline` | 1 row, 1 endpoint, 2 executions, 2 attempts, 1 stall, 1 crash, 1 change; 1.6 million | an event ends accepted, dead-lettered or lost for a named reason (`NothingLostSilently`), a job out of attempts leaves a dead letter, it is accepted once unless something named happened to it |
| `records` | approvals: 2 handlers, 2 policies of 2 steps, 2 requests, 1 crash; ceremony: 2 signers in order, 2 handlers, 2 sends, both modes; trail: 3 transactions, 4 inserts, gaps of 0 and 1, one replica ahead; 3.1 million | `ApprovedByOthers`, `OneVerdictPerStep`, `StepsInOrder`, `LiveRequestWaits`, `GateNeedsEveryPolicy`; `ActiveMeansAllSigned`, `LastSignatureCompletes`, `SequentialOrder`; `VerifierAccepts`, and `AppendOnlyLog`: the trail refines `AuditLog` |
| `approvals_self_skip` | the requester is the only approver | violation: the request is approved by nobody |
| `approvals_verdict` | 1 request of 2 steps | violation: a stale withdrawal or sweep overwrites a verdict |
| `contract_decline` | 1 signer, 2 handlers | violation: decline overwrites a signature it waited for |
| `automation` | outbox: 2 rows of 2 tenants, 1 endpoint, batch 2, 2 attempts, 1 crash with 1 worker, and 1 row with 2 workers; mail: 1 message, 1 sender, 2 workers, 2 troubles; reminders: 2 clients, times to 3; workflows: 2 runs of 2 steps; fair; 220 thousand | liveness: `PendingIsResolved`, `MessageSettles`, `PendingFires`, `RunEnds`, each up to the losses it names; safety: `NoSubscriberSkipped`, `ResettledOnlyByRival`, `SentTwiceOnlyIfStalledEarly`, `SteadyEntryRespected` |
| `services` | thirteen parts with 2 or 3 requests each; 1.3 million | their safety properties, below |
| `invoice_pdf` | one clerk, no failure | violation: the frozen PDF shows the lines of a draft that was edited since |
| `import_spaced` | one worker, no failure, one file twice | violation: a client whose phone has a space is inserted again |
| `sequence_null` | one tick, no failure | violation: a step that was answered null is passed over, not tried again |

The violations disagree with a comment or a test of the repository, which
`PROJECT.json` quotes under `findings`.

What `services` shows, one instance per service. `OpenForCause`: the breaker is away
from closed exactly while the last `Threshold` calls all failed. `ConsumedOnce`,
`LiveSessionsAreCurrent`: no token has two successors; a session that survives a
reset or a deactivation was inserted late by a request that had read the user
before. `StatusMatchesPayments`: an invoice's status is what its payments call for,
except after a write that another request had overtaken, a recompute that never ran,
or a status set by hand, and then only until a recompute that nobody overtakes.
`QueueMatchesStatus`: between handlers campaign and job agree, unless handlers overlapped
or died or the status was set by hand since the last one that had the campaign to itself;
what is SCHEDULED has recipients once it was ever scheduled, for a draft with a date
becomes SCHEDULED without any by pause and resume. `OwnerRemains`: an owner remains unless two counts overlap
or the identity provider takes him away. `NoEditLost`, `OvertakenOnlyAfterTry`: no
stored edit is lost or overtaken untried, but for a refusal whose tab is closed between
the delete and the message. `NeverEarlyUnlessCrossed`: a reminder is
never early unless handlers crossed. `OneRunPerPair`, `StepsOnceAndAll`: one run per
pair unless triggers overlap; a step runs twice only if its job did.
`StepsAccounted`, `RepeatedOrEarlyOnlyIfDisturbed`: a cursor passes no step that was
not answered, by a queued message or by null (which `sequence_null` is about); a step is repeated or early only where ticks overlap or a cursor was not
written. `SwapIsSafe`: while rotations neither overlap nor outrun the subscriber, no
delivery is lost to its signature. `CallbacksCountOnce`: a posted event is applied once
and an answered one is not forgotten, but for the windows its keys leave, calls to a
number without a row, and customers another checkout replaced. `RerunIsSafe`: an import
run again doubles nobody whose phone has no spaces while one worker runs at a time, and
its verdict is true: who is not inserted or counted as failed has a client that the
lookup takes for him. `NothingReopened`: what was closed stays closed unless someone had
read it before.

What `automation` adds. `ResettledOnlyByRival`: a settled row of the outbox is written or
fanned out again only when two drains had that row in hand at once.
`SentTwiceOnlyIfStalledEarly`: mail is sent twice only by a worker that lost its lock
before it marked the row. `SteadyEntryRespected`: an address on the list throughout a call
gets nothing.

Many of these name an exception. Each exception is a history variable, set where
the code leaves the gap, and can be reached: without it the property fails. So the
property says that the gap is the only one. `VerifierAccepts` names its own: committed
rows that `createdAt` does not put in the order of their inserts.

### Bounds

* Two handlers at a time: each hazard is between a handler that read and one that
  committed in between; both then start again in any role, so longer sequences are
  covered by the depth of the search. The theorems have no bound on slots.
* Two rows and two tenants: one row fills a batch and the other starves. One endpoint
  suffices because targets are added independently.
* Two attempts, or two outcomes in a row, are a retry and a last attempt.
* One crash, stall or lost answer (`MaxTroubles`, `MaxFaults`, `MaxDisruptions`,
  `MaxOutages`, `MaxMishaps`, `MaxLosses`; two for reminders, mail liveness and
  imports, where losing the lock twice is what ends a job): a crash frees one
  handler, and the handlers that follow find what it left.
* Three sessions: a login, its successor and a second one that a race could make.
* Three calls of the breaker, threshold 2: two that were admitted before it opened beside
  one after. `MaxFailures` bounds the counter, which only a success resets.
* Three posts and five events: an event posted twice beside its sibling, or thrice. Two
  checkouts: one replaces the customer of the other.
  Two imports of one file of four rows: a person who is there already, a phone with spaces,
  a row without a name, and a namesake without a phone. Totals 0 and 2: nothing due, and a
  payment of a part; a negative total behaves as 0 (the theorems have any set of integers).
* `MaxRequests`, `MaxSends`, `MaxRows`, `MaxAborts`, `MaxChanges`, `MaxEdits`, `MaxSteps`,
  `MaxTime`, `MaxPosts` cap what would grow for ever. All bounds are in guards. Where
  they let the system stop, the deadlock check is off.
* Symmetry is used in runs without liveness only, for slots and payments, among
  which no definition chooses.
* A run of several parts chooses at the start which of them runs, and what an administrator
  had set up before (a matching endpoint, a role, a date, the mode of signing) is chosen
  only for the part that reads it: the others never look at it, so nothing is lost.

### Fairness

`OutboxPoller` asks for weak fairness of `Tick` (a repeatable BullMQ job) and of each
worker's drain. `MCAutomation` asks it of each sender's and handler's own steps, of
each worker's steps, of the passing of time for delayed jobs, and of the stall check
(BullMQ's, every 30 seconds) for jobs whose holder is dead. All are processes that go
on running, or timers of the queue. Nothing is promised about failures, crashes,
users or evictions, so a liveness property must hold if they strike or not; what they
destroy for good is named (`excused`, `bereft`, `orphaned`). The other modules state
safety only.

## 4. Proofs

TLAPS checks the following for every value of the constants that satisfies the named
ASSUME of each module: any number of handlers, workers, rows, messages, crashes. The
assumptions say that a bound is a positive number, that a set which the code counts or
searches is finite, and that the value for "none" is none of the others. No theorem
assumes more.

Each argument has the same form. The property is not inductive, because it speaks of
rows only, and a handler that has read a row and not yet written it can break it. So the
invariant (named below) says for each stage of a handler what remains true of what it
has read, and for each queue which handlers may hold its job. The proof has one step
per action; a lemma shows first that whoever else is in flight keeps what it relies on.

*`OutboxPollerProofs`.* `NeverSkips` (`NoSubscriberSkipped`), from `FanOutInv`: what a
worker about to mark a row has added (`StillToAdd`), that a steady endpoint matches now
(`SteadyMatches`), `InsertedOnly`. `OnlyRivalsResettle` (`ResettledOnlyByRival`), from
`HoldsPending`: a row that a worker has in hand, and that no two had at once, is PENDING
and nobody else's. What the comments promise, `SettledIsFinal`, is refuted by
`outbox_two_replicas`: `concurrency: 1` limits one process (`outbox.poller.ts:16-19`,
`outbox.scheduler.ts:14-16`, `queue.constants.ts:26`).

*`WebhookPipelineProofs`.* `PollerRefined`: the pipeline implements `OutboxPoller`, its
evictions and its disabling of endpoints being steps the poller's environment may take;
hence the poller's theorem holds inside the pipeline. With it `NothingLost`
(`NothingLostSilently`), `DeadLetterLeft`, `DeliveredOnce`. `Inv` joins `LockOK` (one
execution holds the lock of an active job, the others are known to have lost it),
`StagesOK` (what was recorded before a job is settled), `FinishedAccounted` (a finished
or forgotten job has a verdict, a reason or a mishap; what was filed goes with a deleted
endpoint) and `NotAgain` (a job that was
accepted and may still run has met a mishap).

*`ApprovalsProofs`.* `FourEyes`, `OneVerdict`, `InOrder`, `NoLimbo`, `GateHolds`,
`TypeCorrect`: all properties of the run. Only `decide` locks the request, so `Inv` has to
find why the rest may do without: `OneMover` (at most one handler can take a request
further), `NobodyWaits` (none while a step is a human's), `CurrentIsActive`. What a
handler read stays true while it is in flight (`HandlerOK`), and a settled step of a
request that may still move was settled by someone entitled (`SettledIsJustified`).

*`ContractSigningProofs`.* `ActiveIsSignedByAll`, `LastOneIsNoticed`, `OrderIsKept`.
`SigningInv` says of each call that what it read stays true while it is in flight (a
signer's order, earlier signatures, the document) or, for the count of open signers,
while it holds the audit chain (`OneHolder`): that lock serialises the counts.

*`AuditChainProofs`.* By any clocks: `ChainAccepted` (`VerifierAccepts`), as whoever has
uncommitted rows holds the lock (`LockHeld`), and each row carries one that was dated last
among those its transaction saw (`Linked`), which is the one before it while the committed
rows are dated in order; and `TrailImplementsLog`: the chain implements `AuditLog`, a
rollback being a stutter and a commit appending entries to the end (`TrailLinked`,
`Extend`), whatever their dates. Where clocks put committed rows in another order than they
were inserted, the verifier rejects a chain nobody touched; the run reaches that.

*`ServicesProofs`.* Breaker: `OpensForCause`, from `CountIsStreak`: the counter is the
number of failures since the last success, in the order in which calls settle. Offline:
`EditsAreKept`, from `AnswersAreTrue` (a tab that holds a success for a row has had it
carried out) and `RefusedIsGone` (a row to be reported is out of the store), and `DrainsInOrder` (`OvertakenOnlyAfterTry`), from `Numbered` (keys are
never used twice), `HeldWasTried` and `InTurn` (whatever was stored before a row that a
tab still has, and is no longer in its snapshot, was dealt with). Campaigns: `QueueAgrees`, from
`Promise`, what a handler nobody met has made of the queue, `Agreed`, which holds again as
soon as one that was `Alone` has written, and `Listed`.
Billing: `PaymentsDecide` (`StatusMatchesPayments`) and `CancelledInvoice`, from
`Upheld` (what a request nobody overtook relies on), `Accounted` and `Drafts`. Mail:
`SentOnce`, from `OneLock`, `OneCall` and `Once` (the status of the row tells whether it
was tried); `ListRespected`, from `Respectful`. Sequences: `NoStepPassedOver`,
`OneStepPerTick`, `LeftForGood`, from `TicksAccounted`, `OneTick` (an enrollment one tick
has in hand is as that tick read it), `NotAhead` and `LeaversKnown`.
Sessions: `TokensConsumedOnce`, `SessionsAreCurrent`, from `Links`: at
most one successor row exists or is about to be inserted for a session, and only if it is
revoked. Accounts: `TenantKeepsOwner`, from `Guarded`: while no counts overlap, at most
one transaction is about to write, and another owner remains beside its subject. Secrets:
`SwappingIsSafe`, from `SecretsFresh` (what calls in flight generated is theirs alone),
`AnswersActive` (an answer on its way is the active secret) and `ParcelOK` (every attempt
that did not verify was overtaken by a swap).

*`AutomationProofs`.* Reminders: `NeverEarly`, `ClosedForGood`, from `Timely` (the alarm
never precedes the row unless a client is about to correct it) and `Solo`. Workflows:
`OneRun`, `EveryStepOnce`, `CancelledForGood`, from `OneToken` (one executor or one waiting
job pursues a run), `Frontier` (what is behind it has been done), `Unstarted`, `Unpursued`,
`OneAtATime`. Callbacks: `PostedTwiceCountsOnce`, from `OneWorker`, `KeyTells` (a key is
set only for what is done or in hand), `RowFirst`, `PendingHeld`, `CustomerKept` (a customer
that was sold to is the tenant's or was replaced). Imports:
`ImportsMayBeRerun`, from `AtWorkAlone`, `RowsDone` (the rows before the cursor have their
client, or the lookup takes another for it), `OneHolder`, `FirstRun`, `Pursued`.

*`MCServicesProofs`.* A step of one service is a stutter of the others (`PartsStep`), so
the system implements each of them (`PartsOnTheirOwn`). Hence `ServicesTypeCorrect`
(`TypeOK`), from the theorems of types that each module has (`TypeCorrect`,
`...TypeCorrect`), and `NothingIsReopened` (`NothingReopened`), from `ClosedForGood`,
`CancelledForGood`, `CancelledInvoice` and `LeftForGood`.

Every safety property that a run checks is stated by one of these theorems, on the same
definition.

Only model-checked are: liveness (`PendingIsResolved`, `MessageSettles`, `PendingFires`,
`RunEnds`), which with ENABLED is beyond the prover, and that the violations can be
reached. Induction over data is out of the prover's reach too; no module that is proved
about uses a RECURSIVE operator.

## 5. Which property notices which mistake

`PROJECT.json` pairs each property of a passing run with a wrong variant of a
definition that makes TLC refute it, such as adding after marking, signing before the
gate, consuming a token by id alone, or importing without looking. The variants stand
right before the definitions they replace.

## 6. What was met on the way

Beyond the findings, these are places where code and comments differ, or where the
models show a gap. The properties name the gap or leave it out, as said there.

* A tenant suspended between fan-out and delivery loses the event, while the poller
  holds such events back (`outbox.poller.ts:101-106`).
* `email.processor.ts:15` announces 3 attempts with backoff; jobs are added without
  options, so there is one, and a retry would skip every row that is not QUEUED.
* `sendTransactional` adds its job before the commit. `addSystem` leaves an expired entry
  expired. Ticks advance enrollments of PAUSED and ARCHIVED sequences. Enrollments that
  fail stay at the head of the batch (`TICK_BATCH_SIZE`).
* A workflow run whose job is lost stays RUNNING and blocks every later trigger of the
  pair. The step cap compares the index of a step, not a count.
* `launch` makes a CANCELLED campaign ACTIVE (`campaigns.service.ts:75-91`); a deleted
  campaign keeps its job; `cancel` refuses a CANCELLED campaign, so a job that a race left
  behind one stays. A draft with a date that is paused and resumed is SCHEDULED without
  recipients (lines 139, 538). Nothing in the source consumes the dispatch queue.
* A SCIM group patch takes the role of the last owner without a count
  (`scim-groups.service.ts:225`); SCIM deactivation leaves sessions alive.
* `halfOpen` passes every call that arrives, not one trial call
  (`circuit-breaker.ts:13-16`).
* Offline: a 401 drops the edit with an error, an edit made online overtakes stored ones,
  and two tabs may send the same row twice.
* A callback handler that fails after it set its key loses the event: retries within
  300 seconds are answered with 200. Two posts at once are both applied. A late status
  callback rewinds a final status. `initiateCall` marks a call FAILED that was dialled
  when storing its sid fails. A second recording of a call, and a recording that comes
  through again, set PENDING but find the finished job in the queue. The AI worker
  relies on BullMQ's retries (`ai-worker/app/pipeline.py:272`) although the job is added
  with one attempt. Stripe retries for days, its key lives for one.
* Two checkouts at once both create a customer, and the second overwrites the first
  (`billing.service.ts:93-99`): events of a subscription sold to the first are answered with
  200 and dropped. A call to an unknown number is answered and not recorded
  (`calls.service.ts:235`), so a retry after the number is added is skipped by the key.
* The outbox's `markFailed`, `markPublished` and the delivery's updates are by id, without
  a condition on what the row has become.
* An invoice over nothing, or less, stays ISSUED until its first payment makes it PAID: no
  recompute runs when it is issued (`invoices.service.ts:333-334`).
* The importer skips a row without a phone for any client of that name
  (`import.processor.ts:216`), and counts it as skipped. A `markFailed` that throws leaves
  the import RUNNING. A restarted import counts only what its
  last execution did, and may report FAILED for what the first one inserted.
* The conversion of a quote selects `MAX(...) ... FOR UPDATE`, which PostgreSQL refuses.

## 7. Not modelled

* Contents: payloads, images, hash encodings, mail, templates, parsers of import files.
* Numbering of invoices, orders and cases (an advisory lock around a read and an insert);
  the token lock of ANAF (`anaf.service.ts:274-330`); exports; SMS and WhatsApp: each is
  one lock or one row, and interleaves with nothing else that is modelled.
* `deals`: moving a deal and recomputing its base amount read and write one row by id; the
  last write wins, and the code states nothing else.
* The single-flight token refresh of `lib/api.ts`, connection pools, transaction
  time-outs, replay of dead letters by hand, the reminder sweep and the certificate of
  contracts, amendment and termination of contracts.
* CRUD modules, queries and reports, pages of the front end, prompts and scores of the AI
  features. They hold most of the lines of the repository and no protocol; this is why
  the map covers a small share of it.

## 8. Plan

Done: the protocols of section 1 as modules, their safety properties as theorems without
an assumption on replicas or clocks, the refinements of `AuditLog` and `OutboxPoller`. What is left, in the order of its worth:

1. An abstract specification each of a delayed job and its row (what `Reminders`,
   `Campaigns` and `WorkflowRuns` promise when nobody overlaps), with the three shown to
   implement it.
2. What `WebhookPipeline` promises an event, as an abstract specification of one delivery
   (offered, tried, accepted or dead), with the refinement.
3. Numbering under its advisory lock, the conversion of a quote beside `Approvals`, the
   token refresh of the front end, the reminder sweep of contracts.
4. Liveness of imports and of sequences under the fairness of section 3.
