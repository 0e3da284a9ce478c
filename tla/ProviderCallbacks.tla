--------------------------- MODULE ProviderCallbacks ---------------------------
(***************************************************************************)
(* Callbacks of the telephone provider about an inbound call and about one *)
(* that we dial, and of the payment provider about a subscription          *)
(* (apps/api/src/modules/calls and billing).                               *)
(*                                                                         *)
(* A provider posts an event again until it is answered with a 2xx.  Every *)
(* handler puts a key into Redis before it does anything, to skip what was *)
(* processed before: the handlers of calls with GET and then SET, the one  *)
(* of billing with SET NX.                                                 *)
(***************************************************************************)
EXTENDS Naturals, FiniteSets

CONSTANTS
    Events,
    Kind,         \* voice (a call comes in), status, recording, or stripe
    Hooks,        \* slots for handlers in flight
    Buyers,       \* checkouts of the tenant; a customer is named by its creator
    Payer,        \* the checkout whose subscription a stripe event is about
    MaxPosts,     \* bound on the requests of the providers
    MaxLosses,    \* bound on handlers that throw or die, and lost answers
    NoEvent, NoBuyer

ASSUME CallbackAssumption ==
    /\ Kind \in [Events -> {"voice", "status", "recording", "stripe"}]
    /\ Payer \in [{e \in Events : Kind[e] = "stripe"} -> Buyers]
    /\ NoEvent \notin Events
    /\ NoBuyer \notin Buyers

VARIABLES
    posted,     \* events that have happened
    open,       \* those of them not answered with a 2xx
    posts,
    marked,     \* events whose key is in Redis
    hook,       \* local state of each handler
    applied,    \* effects of each event: rows, updates, jobs
    phone,      \* whether the dialled call has a row, and its status
    dialler,    \* initiateCall: idle, dial, store, fail, done
    ringing,    \* the provider carries out the dialled call
    transcription, \* transcriptionStatus of the dialled call
    aiJob,      \* the job of the ai-calls queue whose id is the call's
    routed,     \* the number that is called has a PhoneNumber row
    customer,   \* BillingSubscription.stripeCustomerId
    storing,    \* checkouts that have created a customer and not stored it
    sold,       \* the customer each checkout opened its session for
    losses,
    doubled,      \* history: a key was set by two handlers that both read none
    lapsed,     \* history: the key has expired
    dropped,    \* history: a handler failed after it had set the key
    shadowed,   \* history: recordings whose job had the id of an earlier one
    strangers,  \* history: calls to the number before it had a row
    replaced    \* history: customers another checkout wrote its own over

callbackVars == <<posted, open, posts, marked, hook, applied, phone, dialler, ringing,
                  transcription, aiJob, routed, customer, storing, sold, losses,
                  doubled, lapsed, dropped, shadowed, strangers, replaced>>

-----------------------------------------------------------------------------
NoHook == [at |-> "idle", event |-> NoEvent]
HookAt(h, pc, e) == hook[h] = [at |-> pc, event |-> e]
HookTo(h, pc, e) == hook' = [hook EXCEPT ![h] = [at |-> pc, event |-> e]]
Handled(e) == \E h \in Hooks : hook[h].event = e
Apply(e) == applied' = [applied EXCEPT ![e] = @ + 1]
Lose == losses < MaxLosses /\ losses' = losses + 1

keys == <<marked, doubled, lapsed>>
sales == <<customer, storing, sold, replaced>>
tenant == <<sales, routed>>
call == <<phone, dialler, ringing, transcription, aiJob, shadowed, tenant, strangers>>
provider == <<posted, open, posts>>

CallbackInit ==
    /\ posted = {} /\ open = {} /\ posts = 0
    /\ marked = {}
    /\ hook = [h \in Hooks |-> NoHook]
    /\ applied = [e \in Events |-> 0]
    /\ phone = "NONE"
    /\ dialler = "idle"
    /\ ringing = FALSE
    /\ transcription = "NONE"
    /\ aiJob = [of |-> NoEvent, state |-> "none"]
    /\ routed \in BOOLEAN
    /\ customer = NoBuyer
    /\ storing = {}
    /\ sold = [b \in Buyers |-> NoBuyer]
    /\ losses = 0
    /\ doubled = {} /\ lapsed = {} /\ dropped = {} /\ shadowed = {}
    /\ strangers = {} /\ replaced = {}

-----------------------------------------------------------------------------
(* initiateCall.                                                           *)
dialling == <<provider, keys, hook, applied, transcription, aiJob, dropped, shadowed,
              tenant, strangers>>

\* The row is created before the provider is asked to dial.
CreateCall ==
    /\ dialler = "idle"
    /\ phone' = "QUEUED"
    /\ dialler' = "dial"
    /\ UNCHANGED <<dialling, ringing, losses>>

\* Faulty: the provider is asked before there is a row.
DialFirst ==
    \/ /\ dialler = "idle"
       /\ dialler' = "dial"
       /\ ringing' = TRUE
       /\ UNCHANGED <<dialling, phone, losses>>
    \/ /\ dialler = "dial"
       /\ phone' = "QUEUED"
       /\ dialler' = "store"
       /\ UNCHANGED <<dialling, ringing, losses>>

Dial ==
    /\ dialler = "dial"
    /\ \/ ringing' = TRUE /\ dialler' = "store" /\ UNCHANGED losses
       \* The request fails; the provider may have received it all the same.
       \/ ringing' \in BOOLEAN /\ dialler' = "fail" /\ Lose
    /\ UNCHANGED <<dialling, phone>>

\* The update with the call's sid may fail, or the process die.
StoreSid ==
    /\ dialler = "store"
    /\ \/ dialler' = "done" /\ UNCHANGED losses
       \/ dialler' \in {"fail", "done"} /\ Lose
    /\ UNCHANGED <<dialling, phone, ringing>>

MarkCallFailed ==
    /\ dialler = "fail"
    /\ phone' = "FAILED"
    /\ dialler' = "done"
    /\ UNCHANGED <<dialling, ringing, losses>>

-----------------------------------------------------------------------------
(* What the tenant's administrators do.                                    *)
callbacks == <<provider, keys, hook, applied, phone, dialler, ringing, transcription,
               aiJob, losses, dropped, shadowed, strangers>>

\* PhoneNumbersService.create; a removal only sets deletedAt, which the
\* lookup by number does not ask for.
RegisterNumber ==
    /\ ~routed
    /\ routed' = TRUE
    /\ UNCHANGED <<callbacks, sales>>

\* createCheckoutSession reads the customer; without one it creates one.
BeginCheckout(b) ==
    /\ sold[b] = NoBuyer /\ b \notin storing
    /\ IF customer = NoBuyer
       THEN storing' = storing \cup {b} /\ UNCHANGED sold
       ELSE sold' = [sold EXCEPT ![b] = customer] /\ UNCHANGED storing
    /\ UNCHANGED <<callbacks, routed, customer, replaced>>

\* The update is by tenant, whatever customer is there by now.
StoreCustomer(b) ==
    /\ b \in storing
    /\ storing' = storing \ {b}
    /\ customer' = b
    /\ replaced' = replaced \cup ({customer} \ {NoBuyer})
    /\ sold' = [sold EXCEPT ![b] = b]
    /\ UNCHANGED <<callbacks, routed>>

-----------------------------------------------------------------------------
(* The providers post; the key decides.                                    *)
mine == <<call, losses, dropped>>

Post(h, e) ==
    /\ hook[h] = NoHook
    /\ posts < MaxPosts
    /\ posts' = posts + 1
    /\ \/ e \in open
       \/ /\ e \notin posted
          /\ Kind[e] \in {"status", "recording"} => ringing
          /\ Kind[e] = "stripe" => sold[Payer[e]] # NoBuyer
    /\ posted' = posted \cup {e}
    /\ open' = open \cup {e}
    /\ HookTo(h, IF Kind[e] = "stripe" THEN "claim" ELSE "get", e)
    /\ UNCHANGED <<keys, applied, mine>>

GetKey(h, e) ==
    /\ HookAt(h, "get", e)
    /\ HookTo(h, IF e \in marked THEN "reply" ELSE "set", e)
    /\ UNCHANGED <<provider, keys, applied, mine>>

SetKey(h, e) ==
    /\ HookAt(h, "set", e)
    /\ marked' = marked \cup {e}
    /\ doubled' = IF e \in marked THEN doubled \cup {e} ELSE doubled
    /\ HookTo(h, "work", e)
    /\ UNCHANGED <<provider, lapsed, applied, mine>>

\* Faulty: SET without NX.
ClaimAlways(h, e) ==
    /\ HookAt(h, "claim", e)
    /\ marked' = marked \cup {e}
    /\ HookTo(h, "work", e)
    /\ UNCHANGED <<provider, doubled, lapsed, applied, mine>>

ClaimKey(h, e) ==
    /\ HookAt(h, "claim", e)
    /\ marked' = marked \cup {e}
    /\ HookTo(h, IF e \in marked THEN "reply" ELSE "work", e)
    /\ UNCHANGED <<provider, doubled, lapsed, applied, mine>>

\* 300 seconds, or 24 hours: no handler takes that long.
KeyExpires(e) ==
    /\ e \in marked
    /\ ~Handled(e)
    /\ marked' = marked \ {e}
    /\ lapsed' = lapsed \cup {e}
    /\ UNCHANGED <<provider, hook, doubled, applied, mine>>

-----------------------------------------------------------------------------
(* What each handler does.                                                 *)
rest == <<provider, keys, dialler, ringing, tenant>>

\* A call to a number without a row is answered and not recorded.
\* twilioCallSid is unique: the insert of a row that exists throws.
WorkVoice(h, e) ==
    /\ HookAt(h, "work", e) /\ Kind[e] = "voice"
    /\ \/ /\ ~routed
          /\ strangers' = strangers \cup {e}
          /\ HookTo(h, "reply", e)
          /\ UNCHANGED applied
       \/ /\ routed /\ applied[e] = 0
          /\ Apply(e)
          /\ HookTo(h, "reply", e)
          /\ UNCHANGED strangers
       \/ /\ routed /\ applied[e] # 0
          /\ hook' = [hook EXCEPT ![h] = NoHook]
          /\ UNCHANGED <<applied, strangers>>
    /\ UNCHANGED <<rest, phone, transcription, aiJob, shadowed, losses, dropped>>

WorkStatus(h, e) ==
    /\ HookAt(h, "work", e) /\ Kind[e] = "status"
    /\ IF phone = "NONE" THEN UNCHANGED <<phone, applied>>
       ELSE phone' = "REPORTED" /\ Apply(e)
    /\ HookTo(h, "reply", e)
    /\ UNCHANGED <<rest, strangers, transcription, aiJob, shadowed, losses, dropped>>

WorkRecording(h, e) ==
    /\ HookAt(h, "work", e) /\ Kind[e] = "recording"
    /\ IF phone = "NONE" THEN HookTo(h, "reply", e) /\ UNCHANGED transcription
       ELSE HookTo(h, "add", e) /\ transcription' = "PENDING"
    /\ UNCHANGED <<rest, strangers, applied, phone, aiJob, shadowed, losses, dropped>>

\* aiQueue.add with the call's id: a no-op when the queue has such a job,
\* and it keeps those that are finished.
AddAiJob(h, e) ==
    /\ HookAt(h, "add", e)
    /\ IF aiJob.state = "none"
       THEN /\ aiJob' = [of |-> e, state |-> "waiting"]
            /\ Apply(e)
            /\ UNCHANGED shadowed
       ELSE /\ shadowed' = IF aiJob.of = e THEN shadowed ELSE shadowed \cup {e}
            /\ UNCHANGED <<aiJob, applied>>
    /\ HookTo(h, "reply", e)
    /\ UNCHANGED <<rest, strangers, phone, transcription, losses, dropped>>

\* The upsert, or the update to CANCELED, of the tenant that has this customer;
\* the subscription carries no metadata to fall back on.
WorkStripe(h, e) ==
    /\ HookAt(h, "work", e) /\ Kind[e] = "stripe"
    /\ IF sold[Payer[e]] = customer THEN Apply(e) ELSE UNCHANGED applied
    /\ HookTo(h, "reply", e)
    /\ UNCHANGED <<rest, strangers, phone, transcription, aiJob, shadowed, losses, dropped>>

Reply(h, e) ==
    /\ HookAt(h, "reply", e)
    /\ open' = open \ {e}
    /\ hook' = [hook EXCEPT ![h] = NoHook]
    /\ UNCHANGED <<posted, posts, keys, applied, mine>>

\* The handler throws or dies, or its answer is lost.
HookFails(h) ==
    /\ hook[h] # NoHook
    /\ Lose
    /\ dropped' = IF hook[h].at \in {"work", "add"} THEN dropped \cup {hook[h].event}
                  ELSE dropped
    /\ hook' = [hook EXCEPT ![h] = NoHook]
    /\ UNCHANGED <<provider, keys, applied, call>>

-----------------------------------------------------------------------------
(* The transcription worker, one attempt for a job, and saveAiResult.      *)
others == <<provider, keys, hook, applied, phone, dialler, ringing, dropped, shadowed,
            tenant, strangers>>

TakeAiJob ==
    /\ aiJob.state = "waiting"
    /\ aiJob' = [aiJob EXCEPT !.state = "active"]
    /\ UNCHANGED <<others, transcription, losses>>

SaveAiResult ==
    /\ aiJob.state = "active"
    /\ transcription' = "COMPLETED"
    /\ aiJob' = [aiJob EXCEPT !.state = "completed"]
    /\ UNCHANGED <<others, losses>>

\* The post of the result may fail before or after it was saved.
AiJobFails ==
    /\ aiJob.state = "active"
    /\ Lose
    /\ transcription' \in {transcription, "COMPLETED"}
    /\ aiJob' = [aiJob EXCEPT !.state = "failed"]
    /\ UNCHANGED others

CallbackNext ==
    \/ CreateCall \/ Dial \/ StoreSid \/ MarkCallFailed
    \/ TakeAiJob \/ SaveAiResult \/ AiJobFails \/ RegisterNumber
    \/ \E b \in Buyers : BeginCheckout(b) \/ StoreCustomer(b)
    \/ \E h \in Hooks, e \in Events :
          \/ Post(h, e) \/ GetKey(h, e) \/ SetKey(h, e) \/ ClaimKey(h, e)
          \/ WorkVoice(h, e) \/ WorkStatus(h, e) \/ WorkRecording(h, e)
          \/ AddAiJob(h, e) \/ WorkStripe(h, e) \/ Reply(h, e)
    \/ \E h \in Hooks : HookFails(h)
    \/ \E e \in Events : KeyExpires(e)

CallbackSpec == CallbackInit /\ [][CallbackNext]_callbackVars

-----------------------------------------------------------------------------
CallbackTypeOK ==
    /\ open \subseteq posted /\ posted \subseteq Events
    /\ marked \subseteq posted
    /\ applied \in [Events -> Nat]
    /\ \A h \in Hooks : hook[h] = NoHook \/ hook[h].event \in posted
    /\ phone \in {"NONE", "QUEUED", "FAILED", "REPORTED"}
    /\ transcription \in {"NONE", "PENDING", "COMPLETED"}
    /\ routed \in BOOLEAN
    /\ customer \in Buyers \cup {NoBuyer}
    /\ storing \subseteq Buyers
    /\ sold \in [Buyers -> Buyers \cup {NoBuyer}]

\* An event is applied once, unless two handlers of calls read the key before
\* either wrote it, or the key expired while the provider kept posting.
AppliedOnce ==
    \A e \in Events : applied[e] > 1 =>
        \/ Kind[e] = "status" /\ e \in doubled \cup lapsed
        \/ Kind[e] = "stripe" /\ e \in lapsed

\* An event that was answered was applied, unless a handler failed between
\* its key and its effect, the queue still knew an earlier recording, the call
\* came before the number had a row, or a second checkout, which had read no
\* customer either, wrote its own over the customer of the subscription.
AnsweredWasApplied ==
    \A e \in posted \ open :
        ~Handled(e) => \/ applied[e] > 0
                       \/ e \in dropped \cup shadowed \cup strangers
                       \/ Kind[e] = "stripe" /\ sold[Payer[e]] \in replaced

\* A call whose transcription is PENDING has a job that works on it or has
\* failed, or one of these mishaps befell one of its recordings: a callback that
\* comes through a second time sets PENDING and finds the finished job in its way.
PendingIsWorkedOn ==
    transcription = "PENDING" =>
        \/ aiJob.state \in {"waiting", "active", "failed"}
        \/ shadowed # {}
        \/ \E e \in Events : /\ Kind[e] = "recording"
                             /\ Handled(e) \/ e \in open \cup dropped \cup doubled \cup lapsed

(* "Skip if already processed" (calls.service.ts:166), "same event is a     *)
(* no-op on re-delivery" (billing.service.ts:148): whatever is posted       *)
(* twice, at once, or after a failure, the effects are those of each event  *)
(* once, up to the windows the keys leave.                                  *)
CallbacksCountOnce == AppliedOnce /\ AnsweredWasApplied /\ PendingIsWorkedOn
===============================================================================
