------------------------------ MODULE Approvals ------------------------------
(***************************************************************************)
(* Multi-step approval requests on a quote (apps/api/src/modules/approvals *)
(* and the status changes of modules/quotes that are gated by them).       *)
(*                                                                         *)
(* A request snapshots the step chain of its policy.  advanceUntilHumanStep*)
(* skips the steps assigned to the requester and activates the first other *)
(* one; decide settles the active step; the requester may withdraw; a sweep*)
(* expires overdue requests; a settled request moves the quote.            *)
(*                                                                         *)
(* A call is one handler in flight.  Its database transactions are separate*)
(* steps, and so are a read and the write based on it inside a transaction *)
(* that takes no lock (READ COMMITTED): only decide locks the request row. *)
(***************************************************************************)
EXTENDS Naturals, FiniteSets

CONSTANTS
    Calls,        \* slots for handlers in flight
    MaxRequests,  \* bound on the requests ever opened for the quote
    Policies,     \* active policies whose trigger the quote meets
    MaxSteps,     \* longest chain of steps (10 in StepsConfigSchema)
    Assignee,     \* [Policies -> sequence of users or roles], the stepsConfig
    Direct,       \* policies that createRequest is called with
    SlaPolicies,  \* those among them that it is called with slaDays for
    SlaSteps,     \* <<p, k>> when step k of policy p has slaHours
    Users,
    Agents,       \* users who send the quote or open requests
    Asked,        \* quote statuses that changeStatus is called with
    RoleOf,       \* [Users -> Roles]
    System,       \* decider of automatic decisions
    MaxCrashes    \* bound on the calls cut short

Requests == 1..MaxRequests
Orders == 1..MaxSteps           \* ApprovalStep.order + 1
Roles == {RoleOf[u] : u \in Users}

QuoteStatuses == {"DRAFT", "PENDING_APPROVAL", "SENT", "ACCEPTED", "REJECTED", "EXPIRED"}

ASSUME ApprovalsAssumption ==
    /\ MaxRequests \in Nat \ {0}
    /\ MaxSteps \in Nat \ {0}
    /\ MaxCrashes \in Nat
    /\ System \notin Users
    /\ Users \cap Roles = {}
    /\ Policies # {}
    /\ Agents \subseteq Users
    /\ Asked \subseteq QuoteStatuses
    /\ SlaPolicies \subseteq Direct /\ Direct \subseteq Policies
    /\ \A p \in Policies : /\ DOMAIN Assignee[p] # {}
                           /\ DOMAIN Assignee[p] \subseteq Orders
                           /\ \A k \in DOMAIN Assignee[p] : Assignee[p][k] \in Users \cup Roles

VARIABLES
    opened,    \* number of requests created so far
    status,    \* ApprovalRequest.status
    policy,    \* ApprovalRequest.policyId
    by,        \* ApprovalRequest.requestedBy
    deadline,  \* 1 when ApprovalRequest.expiresAt is set
    cur,       \* ApprovalRequest.currentStepId, 0 when null
    step,      \* ApprovalStep.status of step k of request r
    log,       \* ApprovalDecision rows: <<request, step, decider, status>>
    quote,     \* Quote.status
    call,      \* the local state of each handler in flight
    crashes,
    granted,   \* history: requests that were APPROVED at some time
    dropped    \* history: requests whose next step a handler died before it chose

request == <<opened, policy, by, deadline>>
chain == <<status, cur, step, log, granted>>
vars == <<request, chain, quote, call, crashes, dropped>>

-----------------------------------------------------------------------------
Live == {"PENDING", "IN_PROGRESS"}
Terminal == {"APPROVED", "REJECTED", "CANCELLED", "EXPIRED"}
StepStatuses == {"PENDING", "ACTIVE", "APPROVED", "REJECTED", "SKIPPED"}
Verdicts == {"APPROVED", "REJECTED"}

Opened == 1..opened
StepsOf(r) == DOMAIN Assignee[policy[r]]
AssigneeOf(r, k) == Assignee[policy[r]][k]
SelfAssigned(r, k) == AssigneeOf(r, k) = by[r]
EntitledTo(u, r, k) == AssigneeOf(r, k) \in {u, RoleOf[u]}

AnyPolicy == CHOOSE p \in Policies : TRUE

\* A handler: where it stands, who called it, the request and step it works
\* on, the policy it opens a request for, the policies the gate still has to
\* look at, the quote status it read and the one it will write, whether the
\* gate blocks, and where it goes when it is done with the request.
Idle == [at |-> "idle", user |-> System, req |-> 0, step |-> 0, pol |-> AnyPolicy,
         todo |-> {}, from |-> "DRAFT", to |-> "DRAFT", blocked |-> 0, then |-> "idle"]

Become(c, d) == call' = [call EXCEPT ![c] = d]
At(c, pc) == call[c].at = pc

\* The handler is done with its request: back to the gate, or answered.
Return(c) == IF call[c].then = "gate"
             THEN [call[c] EXCEPT !.at = "gate", !.req = 0, !.step = 0]
             ELSE Idle

Init ==
    /\ opened = 0
    /\ status = [r \in Requests |-> "NONE"]
    /\ policy = [r \in Requests |-> AnyPolicy]
    /\ by = [r \in Requests |-> System]
    /\ deadline = [r \in Requests |-> 0]
    /\ cur = [r \in Requests |-> 0]
    /\ step = [r \in Requests |-> [k \in Orders |-> "PENDING"]]
    /\ log = {}
    /\ quote = "DRAFT"
    /\ call = [c \in Calls |-> Idle]
    /\ crashes = 0
    /\ granted = {}
    /\ dropped = {}

-----------------------------------------------------------------------------
(* QuotesService.changeStatus, with checkAndRequestApprovalForSubject.     *)

Transitions ==
    {<<"DRAFT", "SENT">>, <<"DRAFT", "PENDING_APPROVAL">>,
     <<"PENDING_APPROVAL", "SENT">>, <<"PENDING_APPROVAL", "DRAFT">>,
     <<"SENT", "ACCEPTED">>, <<"SENT", "REJECTED">>, <<"SENT", "EXPIRED">>}

ChangeStatus(c, u, to) ==
    /\ At(c, "idle")
    /\ <<quote, to>> \in Transitions
    /\ LET gated == quote = "DRAFT" /\ to = "SENT"
       IN  Become(c, [Idle EXCEPT !.at = IF gated THEN "gate" ELSE "write",
                                  !.user = u, !.from = quote, !.to = to,
                                  !.todo = IF gated THEN Policies ELSE {}])
    /\ UNCHANGED <<request, chain, quote, crashes, dropped>>

\* The latest request of policy p that is live or APPROVED, 0 when none is.
Existing(p) ==
    LET found == {r \in Opened : policy[r] = p /\ status[r] \in Live \cup {"APPROVED"}}
    IN  IF found = {} THEN 0 ELSE CHOOSE r \in found : \A s \in found : s =< r

\* Faulty: a request in flight satisfies its policy.
GateAnyRequest(c, p) ==
    /\ At(c, "gate")
    /\ p \in call[c].todo
    /\ Become(c, IF Existing(p) = 0
                 THEN [call[c] EXCEPT !.at = "open", !.pol = p, !.then = "gate",
                                      !.todo = @ \ {p}, !.blocked = 1]
                 ELSE [call[c] EXCEPT !.todo = @ \ {p}])
    /\ UNCHANGED <<request, chain, quote, crashes, dropped>>

\* One policy of the loop: to be opened, satisfied or in flight.
Gate(c, p) ==
    /\ At(c, "gate")
    /\ p \in call[c].todo
    /\ LET r == Existing(p) IN
         \/ /\ r = 0
            /\ Become(c, [call[c] EXCEPT !.at = "open", !.pol = p, !.then = "gate",
                                         !.todo = @ \ {p}, !.blocked = 1])
         \/ /\ r # 0
            /\ Become(c, [call[c] EXCEPT !.todo = @ \ {p},
                             !.blocked = IF status[r] = "APPROVED" THEN @ ELSE 1])
    /\ UNCHANGED <<request, chain, quote, crashes, dropped>>

GateDone(c) ==
    /\ At(c, "gate")
    /\ call[c].todo = {}
    /\ Become(c, [call[c] EXCEPT !.at = "write", !.user = System, !.blocked = 0,
                                 !.to = IF call[c].blocked = 1 THEN "PENDING_APPROVAL" ELSE @])
    /\ UNCHANGED <<request, chain, quote, crashes, dropped>>

WriteQuote(c) ==
    /\ At(c, "write")
    /\ quote' = call[c].to
    /\ Become(c, Idle)
    /\ UNCHANGED <<request, chain, crashes, dropped>>

-----------------------------------------------------------------------------
(* Opening a request: createRequest, or the gate.                          *)

CreateRequest(c, u, p) ==
    /\ At(c, "idle")
    /\ Become(c, [Idle EXCEPT !.at = "open", !.user = u, !.pol = p])
    /\ UNCHANGED <<request, chain, quote, crashes, dropped>>

\* openRequest: the request and its steps in one transaction.  Only
\* createRequest passes slaDays.
Open(c) ==
    /\ At(c, "open")
    /\ opened < MaxRequests
    /\ LET r == opened + 1 IN
         /\ opened' = r
         /\ policy' = [policy EXCEPT ![r] = call[c].pol]
         /\ by' = [by EXCEPT ![r] = call[c].user]
         /\ deadline' = [deadline EXCEPT ![r] =
                IF call[c].then # "gate" /\ call[c].pol \in SlaPolicies THEN 1 ELSE 0]
         /\ status' = [status EXCEPT ![r] = "PENDING"]
         /\ Become(c, [call[c] EXCEPT !.at = "advance", !.req = r, !.pol = AnyPolicy])
    /\ UNCHANGED <<cur, step, log, granted, quote, crashes, dropped>>

-----------------------------------------------------------------------------
(* advanceUntilHumanStep: one transaction per iteration, no lock.          *)

\* Faulty: the last open step is considered first.
CandidateLast(r) ==
    LET open == {k \in StepsOf(r) : step[r][k] = "PENDING"}
    IN  IF cur[r] # 0 /\ step[r][cur[r]] = "PENDING" THEN cur[r]
        ELSE IF open = {} THEN 0 ELSE CHOOSE k \in open : \A j \in open : j =< k

\* Faulty: a step that was decided is a candidate again.
CandidateUnskipped(r) ==
    LET open == {k \in StepsOf(r) : step[r][k] # "SKIPPED"}
    IN  IF open = {} THEN 0 ELSE CHOOSE k \in open : \A j \in open : k =< j

\* The current step if it is PENDING, or else the first PENDING one; 0: none.
Candidate(r) ==
    LET open == {k \in StepsOf(r) : step[r][k] = "PENDING"}
    IN  IF cur[r] # 0 /\ step[r][cur[r]] = "PENDING" THEN cur[r]
        ELSE IF open = {} THEN 0 ELSE CHOOSE k \in open : \A j \in open : k =< j

AdvanceRead(c) ==
    /\ At(c, "advance")
    /\ LET r == call[c].req
           waiting == cur[r] # 0 /\ step[r][cur[r]] = "ACTIVE"
           k == Candidate(r)
           next == IF k = 0 THEN "complete"
                   ELSE IF SelfAssigned(r, k) THEN "skip"
                   ELSE IF status[r] = "PENDING" /\ k = 1 THEN "activateFirst"
                   ELSE "activate"
       IN  Become(c, IF status[r] \in Terminal \/ waiting THEN Return(c)
                     ELSE [call[c] EXCEPT !.at = next, !.step = k])
    /\ UNCHANGED <<request, chain, quote, crashes, dropped>>

Skip(c) ==
    /\ At(c, "skip")
    /\ LET r == call[c].req
           k == call[c].step
       IN  /\ log' = log \cup {<<r, k, System, "APPROVED">>}
           /\ step' = [step EXCEPT ![r][k] = "SKIPPED"]
    /\ Become(c, [call[c] EXCEPT !.at = "advance", !.step = 0])
    /\ UNCHANGED <<request, status, cur, granted, quote, crashes, dropped>>

Activate(c) ==
    /\ call[c].at \in {"activateFirst", "activate"}
    /\ LET r == call[c].req
           k == call[c].step
       IN  /\ step' = [step EXCEPT ![r][k] = "ACTIVE"]
           /\ status' = [status EXCEPT ![r] = IF At(c, "activate") THEN "IN_PROGRESS"
                                              ELSE "PENDING"]
           /\ cur' = [cur EXCEPT ![r] = k]
    /\ Become(c, Return(c))
    /\ UNCHANGED <<request, log, granted, quote, crashes, dropped>>

\* No PENDING step is left: the request is APPROVED.
Complete(c) ==
    /\ At(c, "complete")
    /\ LET r == call[c].req IN
         /\ status' = [status EXCEPT ![r] = "APPROVED"]
         /\ cur' = [cur EXCEPT ![r] = 0]
         /\ granted' = granted \cup {r}
    /\ Become(c, [call[c] EXCEPT !.at = "effects"])
    /\ UNCHANGED <<request, step, log, quote, crashes, dropped>>

-----------------------------------------------------------------------------
(* applySubjectSideEffects: two reads and a write, three transactions.     *)

\* What follows the effects: decide goes on to advance if the chain does.
AfterEffects(c) == IF call[c].then = "advance"
                   THEN [call[c] EXCEPT !.at = "advance", !.then = "idle"]
                   ELSE Return(c)

EffectsRead(c) ==
    /\ At(c, "effects")
    /\ Become(c, IF status[call[c].req] \in Verdicts
                 THEN [call[c] EXCEPT !.at = "collect"]
                 ELSE AfterEffects(c))
    /\ UNCHANGED <<request, chain, quote, crashes, dropped>>

Collect(c) ==
    /\ At(c, "collect")
    /\ Become(c, IF \E r \in Opened : status[r] = "REJECTED"
                 THEN [call[c] EXCEPT !.at = "return"]
                 ELSE IF \A r \in Opened : status[r] = "APPROVED"
                 THEN [call[c] EXCEPT !.at = "send"]
                 ELSE AfterEffects(c))
    /\ UNCHANGED <<request, chain, quote, crashes, dropped>>

Flip(c) ==
    /\ call[c].at \in {"return", "send"}
    /\ quote' = IF At(c, "send") THEN "SENT" ELSE "DRAFT"
    /\ Become(c, AfterEffects(c))
    /\ UNCHANGED <<request, chain, crashes, dropped>>

-----------------------------------------------------------------------------
(* decide: one transaction that holds the row lock of the request.         *)

\* Faulty: a role-assigned step does not look at who asked.
MayDecideAnyone(u, r) ==
    /\ status[r] \in Live
    /\ cur[r] # 0
    /\ step[r][cur[r]] = "ACTIVE"
    /\ EntitledTo(u, r, cur[r])

MayDecide(u, r) ==
    /\ status[r] \in Live
    /\ cur[r] # 0
    /\ step[r][cur[r]] = "ACTIVE"
    /\ by[r] # u
    /\ EntitledTo(u, r, cur[r])

Rest(r) == {k \in StepsOf(r) : k > cur[r] /\ step[r][k] = "PENDING"}

\* Faulty: the next step is activated inside the transaction of decide.
DecideActivates(c, u, r, v) ==
    /\ At(c, "idle")
    /\ r \in Opened
    /\ MayDecide(u, r)
    /\ LET final == v = "REJECTED" \/ Rest(r) = {}
           after == IF final THEN 0 ELSE CHOOSE j \in Rest(r) : \A i \in Rest(r) : j =< i
       IN  /\ log' = log \cup {<<r, cur[r], u, v>>}
           /\ step' = [step EXCEPT ![r] = [k \in Orders |-> IF k = cur[r] THEN v
                                                  ELSE IF k = after THEN "ACTIVE" ELSE @[k]]]
           /\ status' = [status EXCEPT ![r] = IF final THEN v ELSE "IN_PROGRESS"]
           /\ cur' = [cur EXCEPT ![r] = after]
           /\ granted' = IF final /\ v = "APPROVED" THEN granted \cup {r} ELSE granted
           /\ Become(c, [Idle EXCEPT !.at = "effects", !.req = r,
                                     !.then = IF final THEN "idle" ELSE "advance"])
    /\ UNCHANGED <<request, quote, crashes, dropped>>

\* Faulty: the settled request keeps its current step.
DecideKeepsCurrent(c, u, r, v) ==
    /\ At(c, "idle")
    /\ r \in Opened
    /\ MayDecide(u, r)
    /\ LET final == v = "REJECTED" \/ Rest(r) = {}
       IN  /\ log' = log \cup {<<r, cur[r], u, v>>}
           /\ step' = [step EXCEPT ![r][cur[r]] = v]
           /\ status' = [status EXCEPT ![r] = IF final THEN v ELSE "IN_PROGRESS"]
           /\ granted' = IF final /\ v = "APPROVED" THEN granted \cup {r} ELSE granted
           /\ Become(c, [Idle EXCEPT !.at = "effects", !.req = r,
                                     !.then = IF final THEN "idle" ELSE "advance"])
    /\ UNCHANGED <<request, cur, quote, crashes, dropped>>

Decide(c, u, r, v) ==
    /\ At(c, "idle")
    /\ r \in Opened
    /\ MayDecide(u, r)
    /\ LET final == v = "REJECTED" \/ Rest(r) = {}
       IN  /\ log' = log \cup {<<r, cur[r], u, v>>}
           /\ step' = [step EXCEPT ![r][cur[r]] = v]
           /\ status' = [status EXCEPT ![r] = IF final THEN v ELSE "IN_PROGRESS"]
           /\ cur' = [cur EXCEPT ![r] = 0]
           /\ granted' = IF final /\ v = "APPROVED" THEN granted \cup {r} ELSE granted
           /\ Become(c, [Idle EXCEPT !.at = "effects", !.req = r,
                                     !.then = IF final THEN "idle" ELSE "advance"])
    /\ UNCHANGED <<request, quote, crashes, dropped>>

-----------------------------------------------------------------------------
(* withdraw and the SLA sweep: what they read is not read again, or not    *)
(* under a lock, when they write.                                          *)

\* What withdraw and the sweep write, from the step id they read.
Close(c, u, s) ==
    LET r == call[c].req
        k == call[c].step
    IN  /\ log' = log \cup {<<r, k, u, s>>}
        /\ step' = IF k = 0 THEN step ELSE [step EXCEPT ![r][k] = "SKIPPED"]
        /\ status' = [status EXCEPT ![r] = s]
        /\ cur' = [cur EXCEPT ![r] = 0]
        /\ Become(c, Idle)
        /\ UNCHANGED <<request, granted, quote, crashes, dropped>>

WithdrawRead(c, u, r) ==
    /\ At(c, "idle")
    /\ r \in Opened
    /\ by[r] = u
    /\ status[r] \in Live
    /\ Become(c, [Idle EXCEPT !.at = "withdraw", !.user = u, !.req = r, !.step = cur[r]])
    /\ UNCHANGED <<request, chain, quote, crashes, dropped>>

Withdraw(c) == At(c, "withdraw") /\ Close(c, call[c].user, "CANCELLED")

\* Any deadline that is set may have passed.
MayBeOverdue(r) ==
    \/ deadline[r] = 1
    \/ cur[r] # 0 /\ step[r][cur[r]] = "ACTIVE" /\ <<policy[r], cur[r]>> \in SlaSteps

SweepScan(c, r) ==
    /\ At(c, "idle")
    /\ r \in Opened
    /\ status[r] \in Live
    /\ MayBeOverdue(r)
    /\ Become(c, [Idle EXCEPT !.at = "recheck", !.req = r, !.step = cur[r]])
    /\ UNCHANGED <<request, chain, quote, crashes, dropped>>

SweepRecheck(c) ==
    /\ At(c, "recheck")
    /\ Become(c, IF status[call[c].req] \in Live THEN [call[c] EXCEPT !.at = "expire"] ELSE Idle)
    /\ UNCHANGED <<request, chain, quote, crashes, dropped>>

Expire(c) == At(c, "expire") /\ Close(c, System, "EXPIRED")

\* A handler that will still look for the next step of r.
Advancing(c, r) ==
    /\ call[c].req = r
    /\ \/ call[c].at \in {"advance", "skip", "activateFirst", "activate", "complete"}
       \/ call[c].at \in {"effects", "collect", "return", "send"} /\ call[c].then = "advance"

\* The process dies, or a transaction fails and the error ends the handler.
Crash(c) ==
    /\ ~At(c, "idle")
    /\ crashes < MaxCrashes
    /\ crashes' = crashes + 1
    /\ dropped' = dropped \cup {r \in Opened : Advancing(c, r)}
    /\ Become(c, Idle)
    /\ UNCHANGED <<request, chain, quote>>

-----------------------------------------------------------------------------
Step(c) ==
    \/ \E p \in Policies : Gate(c, p)
    \/ GateDone(c) \/ WriteQuote(c) \/ Open(c)
    \/ AdvanceRead(c) \/ Skip(c) \/ Activate(c) \/ Complete(c)
    \/ EffectsRead(c) \/ Collect(c) \/ Flip(c)
    \/ Withdraw(c) \/ SweepRecheck(c) \/ Expire(c)

Start(c) ==
    \/ \E u \in Agents : \/ \E to \in Asked : ChangeStatus(c, u, to)
                        \/ \E p \in Direct : CreateRequest(c, u, p)
                        \/ \E r \in Requests : WithdrawRead(c, u, r)
    \/ \E u \in Users, r \in Requests, v \in Verdicts : Decide(c, u, r, v)
    \/ \E r \in Requests : SweepScan(c, r)

Next == \E c \in Calls : Start(c) \/ Step(c) \/ Crash(c)

Spec == Init /\ [][Next]_vars

-----------------------------------------------------------------------------
TypeOK ==
    /\ opened \in 0..MaxRequests
    /\ status \in [Requests -> Live \cup Terminal \cup {"NONE"}]
    /\ policy \in [Requests -> Policies]
    /\ by \in [Requests -> Users \cup {System}]
    /\ deadline \in [Requests -> {0, 1}]
    /\ cur \in [Requests -> {0} \cup Orders]
    /\ \A r \in Opened : cur[r] # 0 => cur[r] \in StepsOf(r) /\ status[r] \in Live
    /\ step \in [Requests -> [Orders -> StepStatuses]]
    /\ quote \in QuoteStatuses
    /\ crashes \in 0..MaxCrashes
    /\ granted \subseteq Opened
    /\ \A c \in Calls : call[c].req \in 0..opened

(* Four eyes: whatever handlers raced or died, a request that was ever     *)
(* APPROVED has, for each step, the approval of someone the step entitles  *)
(* and who did not ask for it, or the step was the requester's own         *)
(* (approvals.service.ts decide, advanceUntilHumanStep; T-APPR-E-01).      *)
ApprovedByOthers ==
    \A r \in granted : \A k \in StepsOf(r) :
        \/ SelfAssigned(r, k)
        \/ \E u \in Users \ {by[r]} : EntitledTo(u, r, k) /\ <<r, k, u, "APPROVED">> \in log

(* Of two approvers who click at the same time one wins: a step never has  *)
(* two verdicts of humans (approvals.service.ts, "Race safety").           *)
OneVerdictPerStep ==
    \A d, e \in log : (d[1] = e[1] /\ d[2] = e[2] /\ {d[3], e[3]} \subseteq Users
                         /\ {d[4], e[4]} \subseteq Verdicts) => d = e

(* The chain is walked in order: no step is put before a human, or settled *)
(* by one, while an earlier step is still to come.                         *)
StepsInOrder ==
    \A r \in Opened : \A j, k \in StepsOf(r) :
        (j < k /\ step[r][k] # "PENDING") => step[r][j] \notin {"PENDING", "ACTIVE"}

(* No request is left in limbo: unless the handler died, a live request    *)
(* that nobody advances waits on an ACTIVE current step, which somebody    *)
(* else than the requester is assigned to (B-2, B-3 in decide).            *)
LiveRequestWaits ==
    \A r \in Opened \ dropped :
        (status[r] \in Live /\ ~\E c \in Calls : Advancing(c, r))
            => /\ cur[r] # 0
               /\ step[r][cur[r]] = "ACTIVE"
               /\ ~SelfAssigned(r, cur[r])

(* A quote leaves DRAFT for SENT through changeStatus only when every      *)
(* policy it meets has been granted (checkAndRequestApprovalForSubject,    *)
(* MED-1: the caller blocks until each policy is satisfied).               *)
GateNeedsEveryPolicy ==
    \A c \in Calls :
        (At(c, "write") /\ call[c].from = "DRAFT" /\ call[c].to = "SENT")
            => \A p \in Policies : \E r \in granted : policy[r] = p

(* A verdict is final: REJECTED is sticky, and so is APPROVED              *)
(* (approvals.state-machine.spec.ts, property 6; approvals.service.ts,     *)
(* "every state mutation runs inside a transaction with FOR UPDATE").      *)
VerdictIsFinal ==
    [][\A r \in Requests : status[r] \in Verdicts => status'[r] = status[r]]_vars

(* If all steps are the requester's own, the request stays open with no    *)
(* current step: nobody but a human grants it (approvals.service.ts, the   *)
(* comments on T-APPR-E-01 and on advanceUntilHumanStep).                  *)
SomebodyApproved ==
    \A r \in granted : \E d \in log : d[1] = r /\ d[3] \in Users /\ d[4] = "APPROVED"
=============================================================================
