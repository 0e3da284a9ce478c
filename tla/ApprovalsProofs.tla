--------------------------- MODULE ApprovalsProofs --------------------------
(***************************************************************************)
(* The invariants of Approvals, for any number of policies, steps, users,  *)
(* requests and handlers in flight.                                        *)
(***************************************************************************)
EXTENDS Approvals, WellFoundedInduction, TLAPS

USE ApprovalsAssumption DEF ApprovalsAssumption

-----------------------------------------------------------------------------
(* The inductive invariant.                                                *)

Settling == {"withdraw", "recheck", "expire"}
Activating == {"activateFirst", "activate"}
Effects == {"effects", "collect", "return", "send"}
Working == {"advance", "skip", "complete"} \cup Activating \cup Effects \cup Settling

Handlers ==
    [at : {"idle", "gate", "open", "write"} \cup Working, user : Users \cup {System},
     req : 0..MaxRequests, step : {0} \cup Orders, pol : Policies, todo : SUBSET Policies,
     from : QuoteStatuses, to : QuoteStatuses, blocked : {0, 1},
     then : {"idle", "gate", "advance"}]

Rows == Requests \X ({0} \cup Orders) \X (Users \cup {System})
           \X (Verdicts \cup {"CANCELLED", "EXPIRED"})

Typed == TypeOK /\ call \in [Calls -> Handlers] /\ log \subseteq Rows

Settled(r, k) == step[r][k] \notin {"PENDING", "ACTIVE"}

\* What ApprovedByOthers asks of one step.
Justified(r, k) ==
    \/ SelfAssigned(r, k)
    \/ \E u \in Users \ {by[r]} : EntitledTo(u, r, k) /\ <<r, k, u, "APPROVED">> \in log

\* Advancing, of the local state of a handler.
Moves(d, r) ==
    /\ d.req = r
    /\ \/ d.at \in {"advance", "skip", "complete"} \cup Activating
       \/ d.at \in Effects /\ d.then = "advance"

\* Some handler or a decision may still take r further.
Movable(r) == cur[r] # 0 \/ \E c \in Calls : Moves(call[c], r)

\* What a handler relies on from what it read before.
HandlerOK(d) ==
    /\ d.at \in Working => d.req \in Opened
    /\ d.at \in {"skip"} \cup Activating =>
          /\ d.step \in StepsOf(d.req)
          /\ step[d.req][d.step] = "PENDING"
          /\ \A j \in StepsOf(d.req) : j < d.step => Settled(d.req, j)
          /\ SelfAssigned(d.req, d.step) <=> d.at = "skip"
    /\ d.at = "complete" => \A k \in StepsOf(d.req) : step[d.req][k] # "PENDING"
    /\ d.at \in Settling /\ d.step # 0 =>
          /\ d.step \in StepsOf(d.req)
          /\ step[d.req][d.step] # "PENDING"
          /\ Movable(d.req) => cur[d.req] = d.step \/ Justified(d.req, d.step)
    /\ d.at = "gate" /\ d.blocked = 0 =>
          \A p \in Policies \ d.todo : \E r \in granted : policy[r] = p
    /\ d.at \in {"open"} \cup Working /\ d.then = "gate" => d.blocked = 1
    /\ d.at = "write" /\ d.from = "DRAFT" /\ d.to = "SENT" =>
          \A p \in Policies : \E r \in granted : policy[r] = p

\* Of the handlers that could take a request further there is one at most, and
\* none while a step waits for a human: what no lock guards has no rival.
OneMover ==
    \A c, d \in Calls, r \in Requests :
        Moves(call[c], r) /\ Moves(call[d], r) => c = d

NobodyWaits ==
    \A c \in Calls, r \in Requests :
        Moves(call[c], r) => cur[r] = 0 /\ \A k \in StepsOf(r) : step[r][k] # "ACTIVE"

CurrentIsActive ==
    \A r \in Opened : cur[r] # 0 => step[r][cur[r]] = "ACTIVE" /\ ~SelfAssigned(r, cur[r])

SettledIsJustified ==
    \A r \in Opened : Movable(r) => \A k \in StepsOf(r) : Settled(r, k) => Justified(r, k)

ApprovedIsGranted == \A r \in Opened : status[r] = "APPROVED" => r \in granted

\* A request that was not opened has no trace.
Fresh ==
    /\ \A r \in Requests \ Opened : cur[r] = 0 /\ \A k \in Orders : step[r][k] = "PENDING"
    /\ \A e \in log : e[1] \in Opened

VerdictsAreSettled ==
    \A e \in log : e[3] \in Users /\ e[4] \in Verdicts => Settled(e[1], e[2]) /\ e[2] \in Orders

LiveIsMovable ==
    \A r \in Opened \ dropped : status[r] \in Live => Movable(r)

Inv ==
    /\ Typed
    /\ \A c \in Calls : HandlerOK(call[c])
    /\ OneMover
    /\ NobodyWaits
    /\ CurrentIsActive
    /\ SettledIsJustified
    /\ ApprovedIsGranted
    /\ Fresh
    /\ VerdictsAreSettled
    /\ LiveIsMovable
    /\ ApprovedByOthers
    /\ OneVerdictPerStep
    /\ StepsInOrder

-----------------------------------------------------------------------------
(* Facts about the operators.                                              *)

LEMMA LeastOfNats ==
    ASSUME NEW S, S \subseteq Nat, S # {}
    PROVE  \E x \in S : \A y \in S : x =< y
<1> DEFINE R == {ss \in Nat \X Nat : ss[1] < ss[2]}
<1>1. R = OpToRel(<, Nat)
  BY Zenon DEF OpToRel
<1>2. IsWellFoundedOn(R, Nat)
  BY <1>1, NatLessThanWellFounded
<1> HIDE DEF R
<1>3. PICK x \in S : \A y \in S : ~ (<<y, x>> \in R)
  BY <1>2, WFMin
<1>4. ASSUME NEW y \in S PROVE x =< y
  <2>1. x \in Nat /\ y \in Nat
    OBVIOUS
  <2>2. y < x => <<y, x>> \in R
    BY <2>1 DEF R
  <2> QED
    BY <1>3, <2>1, <2>2
<1> QED
  BY <1>4

LEMMA GreatestUpTo ==
    ASSUME NEW n \in Nat, NEW S, S \subseteq 1..n, S # {}
    PROVE  \E x \in S : \A y \in S : y =< x
<1> DEFINE B == {b \in Nat : \A y \in S : y =< b}
<1>1. n \in B
  OBVIOUS
<1>2. PICK b \in B : \A e \in B : b =< e
  BY <1>1, LeastOfNats
<1>3. CASE b \in S
  BY <1>3
<1>4. CASE b \notin S
  <2>1. \A y \in S : y \in Nat /\ y >= 1 /\ y =< b /\ y # b
    BY <1>2, <1>4
  <2>2. b - 1 \in Nat /\ \A y \in S : y =< b - 1
    <3>1. b \in Nat /\ \A y \in S : y \in Nat /\ y < b
      BY <2>1
    <3>2. PICK x \in S : TRUE
      OBVIOUS
    <3> HIDE DEF B
    <3>3. b >= 1
      BY <3>1, <3>2, <2>1
    <3> QED
      BY <3>1, <3>3
  <2>3. b - 1 \in B
    BY <2>2
  <2>4. b \in Nat /\ b =< b - 1
    BY <1>2, <2>3
  <2> QED
    BY <2>4
<1> QED
  BY <1>3, <1>4

LEMMA StepsAreOrders == Typed => \A r \in Requests : StepsOf(r) \subseteq Orders /\ Orders \subseteq Nat
  BY DEF Typed, TypeOK, StepsOf, Orders

\* With no current step, Candidate is the first step that is PENDING.
LEMMA CandidateIsFirst ==
    ASSUME Typed, NEW r \in Opened, cur[r] = 0
    PROVE  \/ /\ Candidate(r) = 0
              /\ \A k \in StepsOf(r) : step[r][k] # "PENDING"
           \/ /\ Candidate(r) \in StepsOf(r)
              /\ step[r][Candidate(r)] = "PENDING"
              /\ \A j \in StepsOf(r) : j < Candidate(r) => step[r][j] # "PENDING"
<1> DEFINE open == {k \in StepsOf(r) : step[r][k] = "PENDING"}
<1>0. r \in Requests /\ StepsOf(r) \subseteq Nat
  BY StepsAreOrders DEF Opened, Requests, Typed, TypeOK, Orders
<1>1. CASE open = {}
  BY <1>1 DEF Candidate
<1>2. CASE open # {}
  <2>1. Candidate(r) = CHOOSE k \in open : \A j \in open : k =< j
    BY <1>2 DEF Candidate
  <2>2. \E k \in open : \A j \in open : k =< j
    BY <1>0, <1>2, LeastOfNats
  <2>3. Candidate(r) \in open /\ \A j \in open : Candidate(r) =< j
    BY <2>1, <2>2
  <2> QED
    BY <1>0, <2>3
<1> QED
  BY <1>1, <1>2

LEMMA ExistingIsFound ==
    ASSUME Typed, NEW p \in Policies, Existing(p) # 0
    PROVE  Existing(p) \in Opened /\ policy[Existing(p)] = p
<1> DEFINE found == {r \in Opened : policy[r] = p /\ status[r] \in Live \cup {"APPROVED"}}
<1>1. found # {} /\ Existing(p) = CHOOSE r \in found : \A s \in found : s =< r
  BY DEF Existing
<1>2. opened \in Nat /\ found \subseteq 1..opened
  BY DEF Typed, TypeOK, Opened, Requests
<1>3. \E r \in found : \A s \in found : s =< r
  BY <1>1, <1>2, GreatestUpTo
<1> QED
  BY <1>1, <1>3

LEMMA IdleOK == Typed => Idle \in Handlers /\ HandlerOK(Idle) /\ \A r \in Requests : ~Moves(Idle, r)
  BY DEF Idle, Handlers, HandlerOK, Moves, Working, Activating, Effects, Settling, AnyPolicy,
         QuoteStatuses, Typed, TypeOK

LEMMA InitInv == Init => Inv
<1> SUFFICES ASSUME Init PROVE Inv
  OBVIOUS
<1>1. AnyPolicy \in Policies
  BY DEF AnyPolicy
<1>2. Idle \in Handlers /\ Idle.at = "idle" /\ Idle.req = 0
  BY <1>1 DEF Idle, Handlers, QuoteStatuses
<1>3. Opened = {}
  BY DEF Init, Opened
<1>4. Typed
  BY <1>1, <1>2, <1>3 DEF Init, Typed, TypeOK, StepStatuses, QuoteStatuses
<1>5. \A c \in Calls : HandlerOK(call[c]) /\ \A r \in Requests : ~Moves(call[c], r)
  BY <1>4, IdleOK DEF Init
<1> QED
  BY <1>3, <1>4, <1>5 DEF Init, Inv, OneMover, NobodyWaits, CurrentIsActive, SettledIsJustified,
     ApprovedIsGranted, Fresh, VerdictsAreSettled, LiveIsMovable, ApprovedByOthers,
     OneVerdictPerStep, StepsInOrder

-----------------------------------------------------------------------------
(* Steps that write no row of a request: what the handler has read and where *)
(* it stands is all that changes.                                          *)

LEMMA LocalStep ==
    ASSUME Inv, NEW c \in Calls, NEW d \in Handlers, Become(c, d), d.req \in 0..opened,
           UNCHANGED <<request, chain>>,
           quote' \in QuoteStatuses, crashes' \in 0..MaxCrashes, dropped \subseteq dropped',
           HandlerOK(d),
           \A r \in Requests : Moves(d, r) => Moves(call[c], r),
           \A r \in Opened \ dropped' :
               status[r] \in Live /\ Moves(call[c], r) => Moves(d, r)
    PROVE  Inv'
<1> USE DEF Become, request, chain
<1>0. Typed /\ Opened' = Opened /\ Opened \subseteq Requests
  BY DEF Inv, Typed, TypeOK, Opened, Requests
<1>1. Typed'
  BY <1>0 DEF Typed, TypeOK, Opened, StepsOf
<1>2. \A e \in Calls : call'[e] = IF e = c THEN d ELSE call[e]
  BY <1>0 DEF Typed
<1>3. \A r \in Requests : Movable(r)' => Movable(r)
  BY <1>2 DEF Movable, Moves
<1>4. /\ \A r, k : Settled(r, k)' = Settled(r, k)
      /\ \A r, k : SelfAssigned(r, k)' = SelfAssigned(r, k)
      /\ \A r, k : Justified(r, k)' = Justified(r, k)
      /\ \A r : StepsOf(r)' = StepsOf(r)
  BY DEF Settled, SelfAssigned, Justified, AssigneeOf, EntitledTo, StepsOf
<1>5. \A e \in Calls : HandlerOK(call[e])'
  <2> SUFFICES ASSUME NEW e \in Calls PROVE HandlerOK(call[e])'
    OBVIOUS
  <2>1. HandlerOK(call'[e])
    BY <1>2 DEF Inv
  <2> QED
    BY <2>1, <1>0, <1>3, <1>4 DEF HandlerOK, Working
<1>6. OneMover' /\ NobodyWaits'
  BY <1>0, <1>2, <1>4 DEF Inv, OneMover, NobodyWaits, Moves
<1>7. CurrentIsActive' /\ ApprovedIsGranted' /\ Fresh' /\ VerdictsAreSettled'
  BY <1>0, <1>4 DEF Inv, CurrentIsActive, ApprovedIsGranted, Fresh, VerdictsAreSettled
<1>8. SettledIsJustified'
  BY <1>0, <1>3, <1>4 DEF Inv, SettledIsJustified
<1>9. LiveIsMovable'
  <2> SUFFICES ASSUME NEW r \in Opened \ dropped', status[r] \in Live PROVE Movable(r)'
    BY <1>0 DEF LiveIsMovable
  <2>1. Movable(r)
    BY DEF Inv, LiveIsMovable
  <2>2. CASE cur[r] # 0
    BY <2>2 DEF Movable
  <2>3. ASSUME NEW e \in Calls, Moves(call[e], r) PROVE Movable(r)'
    BY <2>3, <1>0, <1>2 DEF Movable, Moves
  <2> QED
    BY <2>1, <2>2, <2>3 DEF Movable
<1>10. ApprovedByOthers' /\ OneVerdictPerStep' /\ StepsInOrder'
  BY <1>0, <1>4 DEF Inv, ApprovedByOthers, OneVerdictPerStep, StepsInOrder, Justified, SelfAssigned,
     AssigneeOf, EntitledTo, StepsOf
<1> QED
  BY <1>1, <1>5, <1>6, <1>7, <1>8, <1>9, <1>10 DEF Inv

\* Handing the request back ends what a handler could do to it.
LEMMA ReturnOK ==
    ASSUME Inv, NEW c \in Calls, call[c].at \in Working
    PROVE  /\ Return(c) \in Handlers /\ HandlerOK(Return(c)) /\ Return(c).req \in 0..opened
           /\ \A r \in Requests : ~Moves(Return(c), r)
<1>0. Typed /\ call[c] \in Handlers /\ HandlerOK(call[c])
  BY DEF Inv, Typed
<1>1. CASE call[c].then = "gate"
  <2>1. Return(c) = [call[c] EXCEPT !.at = "gate", !.req = 0, !.step = 0]
    BY <1>1 DEF Return
  <2>2. call[c].blocked = 1
    BY <1>0, <1>1 DEF HandlerOK
  <2>3. 0 \in 0..MaxRequests /\ 0 \in {0} \cup Orders
    OBVIOUS
  <2>4. Return(c) \in Handlers /\ Return(c).at = "gate" /\ Return(c).blocked = 1 /\ Return(c).req = 0
    BY <1>0, <2>1, <2>2, <2>3 DEF Handlers
  <2> QED
    BY <1>0, <2>4 DEF HandlerOK, Moves, Working, Activating, Effects, Settling, Typed, TypeOK
<1>2. CASE call[c].then # "gate"
  <2>1. Return(c) = Idle
    BY <1>2 DEF Return
  <2>2. Idle.req = 0 /\ 0 \in 0..opened
    BY <1>0 DEF Idle, Typed, TypeOK
  <2> QED
    BY <1>0, <2>1, <2>2, IdleOK
<1> QED
  BY <1>1, <1>2

LEMMA AfterEffectsOK ==
    ASSUME Inv, NEW c \in Calls, call[c].at \in Effects
    PROVE  /\ AfterEffects(c) \in Handlers /\ HandlerOK(AfterEffects(c))
           /\ AfterEffects(c).req \in 0..opened
           /\ \A r \in Requests : Moves(AfterEffects(c), r) <=> Moves(call[c], r)
<1>0. Typed /\ call[c] \in Handlers /\ HandlerOK(call[c]) /\ call[c].req \in 0..opened
  BY DEF Inv, Typed, TypeOK
<1>1. CASE call[c].then = "advance"
  <2>1. AfterEffects(c) = [call[c] EXCEPT !.at = "advance", !.then = "idle"]
    BY <1>1 DEF AfterEffects
  <2>2. /\ AfterEffects(c) \in Handlers /\ AfterEffects(c).at = "advance"
        /\ AfterEffects(c).then = "idle" /\ AfterEffects(c).req = call[c].req
    BY <1>0, <2>1 DEF Handlers, Working
  <2> QED
    BY <1>0, <1>1, <2>2 DEF HandlerOK, Moves, Working, Activating, Effects, Settling
<1>2. CASE call[c].then # "advance"
  <2>1. AfterEffects(c) = Return(c)
    BY <1>2 DEF AfterEffects
  <2>2. \A r \in Requests : ~Moves(call[c], r)
    BY <1>2 DEF Moves, Effects, Activating
  <2> QED
    BY <2>1, <2>2, ReturnOK DEF Working
<1> QED
  BY <1>1, <1>2

\* Stages at which a handler moves no request.
Quiet == {"idle", "gate", "open", "write"} \cup Settling

LEMMA QuietStep ==
    ASSUME Inv, NEW c \in Calls, NEW d \in Handlers, Become(c, d), d.req \in 0..opened,
           UNCHANGED <<request, chain>>, UNCHANGED <<crashes, dropped>>, quote' \in QuoteStatuses,
           HandlerOK(d), d.at \in Quiet, call[c].at \in Quiet
    PROVE  Inv'
<1>1. \A r : ~Moves(d, r) /\ ~Moves(call[c], r)
  BY DEF Moves, Effects, Activating, Settling, Quiet
<1>2. crashes' \in 0..MaxCrashes /\ dropped \subseteq dropped'
  BY DEF Inv, Typed, TypeOK
<1> QED
  BY <1>1, <1>2, LocalStep

LEMMA ChangeStatusInv ==
    ASSUME Inv, NEW c \in Calls, NEW u \in Agents, NEW to \in Asked, ChangeStatus(c, u, to)
    PROVE  Inv'
<1> DEFINE gated == quote = "DRAFT" /\ to = "SENT"
           d == [Idle EXCEPT !.at = IF gated THEN "gate" ELSE "write",
                             !.user = u, !.from = quote, !.to = to,
                             !.todo = IF gated THEN Policies ELSE {}]
<1>0. Typed /\ Idle \in Handlers /\ call[c].at = "idle"
  BY IdleOK DEF Inv, ChangeStatus, At
<1>1. Become(c, d) /\ UNCHANGED <<request, chain, quote, crashes, dropped>>
  BY DEF ChangeStatus
<1>2. /\ d \in Handlers /\ d.at = IF gated THEN "gate" ELSE "write"
      /\ d.req = 0 /\ d.todo = IF gated THEN Policies ELSE {}
      /\ d.from = quote /\ d.to = to
  BY <1>0 DEF Handlers, Idle, Typed, TypeOK
<1>3. HandlerOK(d)
  BY <1>2 DEF HandlerOK, Working, Activating, Effects, Settling
<1>4. /\ UNCHANGED <<request, chain>> /\ UNCHANGED <<crashes, dropped>>
      /\ quote' \in QuoteStatuses /\ d.req \in 0..opened
      /\ d.at \in Quiet /\ call[c].at \in Quiet
  BY <1>0, <1>1, <1>2 DEF Typed, TypeOK, Quiet
<1> HIDE DEF d
<1> QED
  BY <1>1, <1>2, <1>3, <1>4, QuietStep

LEMMA GateInv ==
    ASSUME Inv, NEW c \in Calls, NEW p \in Policies, Gate(c, p)
    PROVE  Inv'
<1>0. /\ Typed /\ call[c] \in Handlers /\ HandlerOK(call[c]) /\ call[c].at = "gate"
      /\ call[c].req \in 0..opened
      /\ UNCHANGED <<request, chain, quote, crashes, dropped>>
  BY DEF Inv, Typed, TypeOK, Gate, At
<1>1. SUFFICES ASSUME NEW d, Become(c, d), d \in Handlers, HandlerOK(d), d.req = call[c].req,
                      d.at \in {"open", "gate"}
               PROVE  Inv'
  <2>1. CASE Existing(p) = 0
    <3> DEFINE d == [call[c] EXCEPT !.at = "open", !.pol = p, !.then = "gate",
                                    !.todo = @ \ {p}, !.blocked = 1]
    <3>1. Become(c, d)
      BY <2>1 DEF Gate
    <3>2. d \in Handlers /\ d.at = "open" /\ d.blocked = 1 /\ d.req = call[c].req
      BY <1>0 DEF Handlers
    <3>3. HandlerOK(d)
      BY <3>2 DEF HandlerOK, Working, Activating, Effects, Settling
    <3> QED
      BY <1>1, <3>1, <3>2, <3>3
  <2>2. CASE Existing(p) # 0
    <3> DEFINE r == Existing(p)
               b == IF status[r] = "APPROVED" THEN call[c].blocked ELSE 1
               d == [call[c] EXCEPT !.todo = @ \ {p}, !.blocked = b]
    <3>1. Become(c, d)
      BY <2>2 DEF Gate
    <3>2. /\ d \in Handlers /\ d.at = "gate" /\ d.blocked = b /\ d.todo = call[c].todo \ {p}
          /\ d.req = call[c].req
      BY <1>0 DEF Handlers
    <3>3. r \in Opened /\ policy[r] = p
      BY <1>0, <2>2, ExistingIsFound
    <3> HIDE DEF r
    <3>4. ASSUME b = 0 PROVE r \in granted /\ call[c].blocked = 0
      BY <3>3, <3>4 DEF Inv, ApprovedIsGranted
    <3>5. HandlerOK(d)
      BY <1>0, <3>2, <3>3, <3>4 DEF HandlerOK, Working, Activating, Effects, Settling
    <3> QED
      BY <1>1, <3>1, <3>2, <3>5
  <2> QED
    BY <2>1, <2>2
<1>2. /\ UNCHANGED <<request, chain>> /\ UNCHANGED <<crashes, dropped>>
      /\ quote' \in QuoteStatuses /\ d.req \in 0..opened
      /\ d.at \in Quiet /\ call[c].at \in Quiet
  BY <1>0, <1>1 DEF Typed, TypeOK, Quiet
<1> QED
  BY <1>1, <1>2, QuietStep

LEMMA GateDoneInv ==
    ASSUME Inv, NEW c \in Calls, GateDone(c)
    PROVE  Inv'
<1> DEFINE to == IF call[c].blocked = 1 THEN "PENDING_APPROVAL" ELSE call[c].to
           d == [call[c] EXCEPT !.at = "write", !.user = System, !.blocked = 0, !.to = to]
<1>0. /\ Typed /\ call[c] \in Handlers /\ HandlerOK(call[c]) /\ call[c].at = "gate"
      /\ call[c].req \in 0..opened /\ call[c].todo = {}
      /\ UNCHANGED <<request, chain, quote, crashes, dropped>>
  BY DEF Inv, Typed, TypeOK, GateDone, At
<1>1. Become(c, d)
  BY DEF GateDone
<1>2. d \in Handlers /\ d.at = "write" /\ d.to = to /\ d.req = call[c].req
  BY <1>0 DEF Handlers, QuoteStatuses
<1>3. HandlerOK(d)
  BY <1>0, <1>2 DEF HandlerOK, Working, Activating, Effects, Settling, Handlers
<1>4. /\ UNCHANGED <<request, chain>> /\ UNCHANGED <<crashes, dropped>>
      /\ quote' \in QuoteStatuses /\ d.req \in 0..opened
      /\ d.at \in Quiet /\ call[c].at \in Quiet
  BY <1>0, <1>2 DEF Typed, TypeOK, Quiet
<1> HIDE DEF d
<1> QED
  BY <1>1, <1>2, <1>3, <1>4, QuietStep

LEMMA WriteQuoteInv ==
    ASSUME Inv, NEW c \in Calls, WriteQuote(c)
    PROVE  Inv'
<1>0. /\ Typed /\ call[c] \in Handlers /\ call[c].at = "write" /\ Become(c, Idle)
      /\ quote' = call[c].to
      /\ UNCHANGED <<request, chain, crashes, dropped>>
  BY DEF Inv, Typed, WriteQuote, At
<1>1. quote' \in QuoteStatuses
  BY <1>0 DEF Handlers
<1>2. Idle \in Handlers /\ HandlerOK(Idle)
  BY <1>0, IdleOK
<1>3. Idle.req \in 0..opened /\ Idle.at \in Quiet /\ call[c].at \in Quiet
  BY <1>0 DEF Idle, Quiet, Typed, TypeOK
<1>4. UNCHANGED <<request, chain>> /\ UNCHANGED <<crashes, dropped>>
  BY <1>0
<1> QED
  BY <1>0, <1>1, <1>2, <1>3, <1>4, QuietStep

LEMMA CreateRequestInv ==
    ASSUME Inv, NEW c \in Calls, NEW u \in Agents, NEW p \in Direct, CreateRequest(c, u, p)
    PROVE  Inv'
<1> DEFINE d == [Idle EXCEPT !.at = "open", !.user = u, !.pol = p]
<1>0. /\ Typed /\ call[c].at = "idle" /\ Idle \in Handlers
      /\ UNCHANGED <<request, chain, quote, crashes, dropped>> /\ Become(c, d)
  BY IdleOK DEF Inv, CreateRequest, At
<1>1. d \in Handlers /\ d.at = "open" /\ d.req = 0 /\ d.then = "idle"
  BY <1>0 DEF Handlers, Idle
<1>2. HandlerOK(d)
  BY <1>1 DEF HandlerOK, Working, Activating, Effects, Settling
<1>3. /\ UNCHANGED <<request, chain>> /\ UNCHANGED <<crashes, dropped>>
      /\ quote' \in QuoteStatuses /\ d.req \in 0..opened
      /\ d.at \in Quiet /\ call[c].at \in Quiet
  BY <1>0, <1>1 DEF Typed, TypeOK, Quiet
<1> HIDE DEF d
<1> QED
  BY <1>0, <1>1, <1>2, <1>3, QuietStep

LEMMA AdvanceReadInv ==
    ASSUME Inv, NEW c \in Calls, AdvanceRead(c)
    PROVE  Inv'
<1> DEFINE r == call[c].req
           k == Candidate(r)
           next == IF k = 0 THEN "complete"
                   ELSE IF SelfAssigned(r, k) THEN "skip"
                   ELSE IF status[r] = "PENDING" /\ k = 1 THEN "activateFirst"
                   ELSE "activate"
           d == [call[c] EXCEPT !.at = next, !.step = k]
<1>0. /\ Typed /\ call[c] \in Handlers /\ HandlerOK(call[c]) /\ call[c].at = "advance"
      /\ call[c].req \in 0..opened /\ call[c].at \in Working
      /\ UNCHANGED <<request, chain>> /\ UNCHANGED <<crashes, dropped>>
      /\ quote' \in QuoteStatuses /\ crashes' \in 0..MaxCrashes /\ dropped \subseteq dropped'
  BY DEF Inv, Typed, TypeOK, AdvanceRead, At, Working
<1>1. r \in Opened /\ r \in Requests /\ Moves(call[c], r)
  BY <1>0 DEF HandlerOK, Moves, Opened, Requests, Typed, TypeOK
<1>2. cur[r] = 0 /\ \A j \in StepsOf(r) : step[r][j] # "ACTIVE"
  BY <1>1 DEF Inv, NobodyWaits
<1>3. CASE status[r] \in Terminal
  <2>1. Become(c, Return(c))
    BY <1>3 DEF AdvanceRead
  <2>2. \A q \in Opened \ dropped' : status[q] \in Live /\ Moves(call[c], q) => FALSE
    BY <1>3 DEF Moves, Terminal, Live
  <2> QED
    BY <1>0, <2>1, <2>2, ReturnOK, LocalStep
<1>4. CASE status[r] \notin Terminal
  <2>1. Become(c, d)
    BY <1>2, <1>4 DEF AdvanceRead
  <2>2. k = 0 \/ k \in Orders
    BY <1>0, <1>1, <1>2, CandidateIsFirst, StepsAreOrders
  <2>3. d \in Handlers /\ d.at = next /\ d.step = k /\ d.req = r /\ d.then = call[c].then
        /\ d.blocked = call[c].blocked
    <3>1. next \in {"complete", "skip", "activateFirst", "activate"}
      OBVIOUS
    <3>2. next \in {"idle", "gate", "open", "write"} \cup Working /\ k \in {0} \cup Orders
      BY <2>2, <3>1 DEF Working, Activating
    <3> HIDE DEF next, k
    <3> QED
      BY <1>0, <3>2 DEF Handlers
  <2>4. HandlerOK(d)
    <3>1. CASE k = 0
      <4>1. \A j \in StepsOf(r) : step[r][j] # "PENDING"
        BY <1>0, <1>1, <1>2, <3>1, CandidateIsFirst, StepsAreOrders DEF Orders
      <4>2. d.at = "complete"
        BY <2>3, <3>1
      <4> HIDE DEF d
      <4> QED
        BY <1>0, <1>1, <2>3, <4>1, <4>2 DEF HandlerOK, Working, Activating, Effects, Settling
    <3>2. CASE k # 0
      <4>1. /\ k \in StepsOf(r) /\ step[r][k] = "PENDING"
            /\ \A j \in StepsOf(r) : j < k => step[r][j] # "PENDING"
        BY <1>0, <1>1, <1>2, <3>2, CandidateIsFirst
      <4>2. \A j \in StepsOf(r) : j < k => Settled(r, j)
        BY <1>0, <1>1, <1>2, <4>1, StepsAreOrders DEF Settled
      <4>3. d.at \in {"skip"} \cup Activating /\ (SelfAssigned(r, k) <=> d.at = "skip")
        BY <2>3, <3>2 DEF Activating
      <4> HIDE DEF d, k, r
      <4> QED
        BY <1>0, <1>1, <2>3, <4>1, <4>2, <4>3 DEF HandlerOK, Working, Activating, Effects, Settling
    <3> QED
      BY <3>1, <3>2
  <2>5. \A q \in Requests : Moves(d, q) <=> Moves(call[c], q)
    <3>1. d.at \in {"skip", "complete"} \cup Activating
      BY <2>3 DEF Activating
    <3> HIDE DEF d
    <3> QED
      BY <1>0, <2>3, <3>1 DEF Moves
  <2> HIDE DEF d
  <2>6. \A q \in Opened : q \in Requests
    BY <1>0 DEF Typed, TypeOK, Opened, Requests
  <2>7. d.req \in 0..opened
    BY <1>0, <2>3
  <2> QED
    BY <1>0, <2>1, <2>3, <2>4, <2>5, <2>6, <2>7, LocalStep
<1> QED
  BY <1>3, <1>4

\* Steps of applySubjectSideEffects keep moving the request, or never did.
LEMMA EffectsStep ==
    ASSUME Inv, NEW c \in Calls, call[c].at \in Effects, NEW d, Become(c, d),
           \/ d = AfterEffects(c)
           \/ \E pc \in Effects : d = [call[c] EXCEPT !.at = pc],
           UNCHANGED <<request, chain>>, UNCHANGED <<crashes, dropped>>, quote' \in QuoteStatuses
    PROVE  Inv'
<1>0. /\ Typed /\ call[c] \in Handlers /\ HandlerOK(call[c]) /\ call[c].req \in 0..opened
      /\ crashes' \in 0..MaxCrashes /\ dropped \subseteq dropped'
      /\ \A r \in Opened : r \in Requests
  BY DEF Inv, Typed, TypeOK, Opened, Requests
<1>1. /\ d \in Handlers /\ HandlerOK(d) /\ d.req \in 0..opened
      /\ \A r \in Requests : Moves(d, r) <=> Moves(call[c], r)
  <2>1. ASSUME NEW pc \in Effects, d = [call[c] EXCEPT !.at = pc]
        PROVE  <1>1!:
    <3>1. /\ d \in Handlers /\ d.at = pc /\ d.req = call[c].req /\ d.then = call[c].then
          /\ d.blocked = call[c].blocked
      BY <1>0, <2>1 DEF Handlers, Working
    <3> QED
      BY <1>0, <3>1 DEF HandlerOK, Moves, Working, Activating, Effects, Settling
  <2> QED
    BY <2>1, AfterEffectsOK
<1> QED
  BY <1>0, <1>1, LocalStep

LEMMA EffectsInv ==
    ASSUME Inv, NEW c \in Calls, EffectsRead(c) \/ Collect(c) \/ Flip(c)
    PROVE  Inv'
<1>0. quote \in QuoteStatuses /\ "SENT" \in QuoteStatuses /\ "DRAFT" \in QuoteStatuses
  BY DEF Inv, Typed, TypeOK, QuoteStatuses
<1>1. CASE EffectsRead(c)
  <2>1. /\ call[c].at \in Effects /\ UNCHANGED <<request, chain>> /\ UNCHANGED <<crashes, dropped>>
        /\ quote' \in QuoteStatuses
    BY <1>0, <1>1 DEF EffectsRead, At, Effects
  <2>2. \/ Become(c, AfterEffects(c))
        \/ Become(c, [call[c] EXCEPT !.at = "collect"])
    BY <1>1 DEF EffectsRead
  <2> QED
    BY <2>1, <2>2, EffectsStep DEF Effects
<1>2. CASE Collect(c)
  <2>1. /\ call[c].at \in Effects /\ UNCHANGED <<request, chain>> /\ UNCHANGED <<crashes, dropped>>
        /\ quote' \in QuoteStatuses
    BY <1>0, <1>2 DEF Collect, At, Effects
  <2>2. \/ Become(c, AfterEffects(c))
        \/ Become(c, [call[c] EXCEPT !.at = "return"])
        \/ Become(c, [call[c] EXCEPT !.at = "send"])
    BY <1>2 DEF Collect
  <2> QED
    BY <2>1, <2>2, EffectsStep DEF Effects
<1>3. CASE Flip(c)
  <2>1. /\ call[c].at \in Effects /\ UNCHANGED <<request, chain>> /\ UNCHANGED <<crashes, dropped>>
        /\ quote' \in QuoteStatuses /\ Become(c, AfterEffects(c))
    BY <1>0, <1>3 DEF Flip, At, Effects
  <2> QED
    BY <2>1, EffectsStep
<1> QED
  BY <1>1, <1>2, <1>3

LEMMA WithdrawReadInv ==
    ASSUME Inv, NEW c \in Calls, NEW u \in Agents, NEW r \in Requests, WithdrawRead(c, u, r)
    PROVE  Inv'
<1> DEFINE d == [Idle EXCEPT !.at = "withdraw", !.user = u, !.req = r, !.step = cur[r]]
<1>0. /\ Typed /\ call[c].at = "idle" /\ Idle \in Handlers /\ r \in Opened
      /\ UNCHANGED <<request, chain, quote, crashes, dropped>> /\ Become(c, d)
  BY IdleOK DEF Inv, WithdrawRead, At
<1>1. /\ d \in Handlers /\ d.at = "withdraw" /\ d.req = r /\ d.then = "idle" /\ d.step = cur[r]
  <2>1. u \in Users \cup {System} /\ r \in 0..MaxRequests /\ cur[r] \in {0} \cup Orders
    BY <1>0 DEF Typed, TypeOK, Requests
  <2> QED
    BY <1>0, <2>1 DEF Handlers, Idle, Working, Settling
<1>2. HandlerOK(d)
  <2>1. cur[r] # 0 => cur[r] \in StepsOf(r) /\ step[r][cur[r]] # "PENDING"
    BY <1>0 DEF Inv, CurrentIsActive, Typed, TypeOK
  <2> HIDE DEF d
  <2> QED
    BY <1>0, <1>1, <2>1 DEF HandlerOK, Working, Activating, Effects, Settling
<1>3. /\ UNCHANGED <<request, chain>> /\ UNCHANGED <<crashes, dropped>>
      /\ quote' \in QuoteStatuses /\ d.req \in 0..opened
      /\ d.at \in Quiet /\ call[c].at \in Quiet
  BY <1>0, <1>1 DEF Typed, TypeOK, Quiet, Settling, Opened
<1> HIDE DEF d
<1> QED
  BY <1>0, <1>1, <1>2, <1>3, QuietStep

LEMMA SweepScanInv ==
    ASSUME Inv, NEW c \in Calls, NEW r \in Requests, SweepScan(c, r)
    PROVE  Inv'
<1> DEFINE d == [Idle EXCEPT !.at = "recheck", !.req = r, !.step = cur[r]]
<1>0. /\ Typed /\ call[c].at = "idle" /\ Idle \in Handlers /\ r \in Opened
      /\ UNCHANGED <<request, chain, quote, crashes, dropped>> /\ Become(c, d)
  BY IdleOK DEF Inv, SweepScan, At
<1>1. /\ d \in Handlers /\ d.at = "recheck" /\ d.req = r /\ d.then = "idle" /\ d.step = cur[r]
  <2>1. r \in 0..MaxRequests /\ cur[r] \in {0} \cup Orders
    BY <1>0 DEF Typed, TypeOK, Requests
  <2> QED
    BY <1>0, <2>1 DEF Handlers, Idle, Working, Settling
<1>2. HandlerOK(d)
  <2>1. cur[r] # 0 => cur[r] \in StepsOf(r) /\ step[r][cur[r]] # "PENDING"
    BY <1>0 DEF Inv, CurrentIsActive, Typed, TypeOK
  <2> HIDE DEF d
  <2> QED
    BY <1>0, <1>1, <2>1 DEF HandlerOK, Working, Activating, Effects, Settling
<1>3. /\ UNCHANGED <<request, chain>> /\ UNCHANGED <<crashes, dropped>>
      /\ quote' \in QuoteStatuses /\ d.req \in 0..opened
      /\ d.at \in Quiet /\ call[c].at \in Quiet
  BY <1>0, <1>1 DEF Typed, TypeOK, Quiet, Settling, Opened
<1> HIDE DEF d
<1> QED
  BY <1>0, <1>1, <1>2, <1>3, QuietStep

LEMMA SweepRecheckInv ==
    ASSUME Inv, NEW c \in Calls, SweepRecheck(c)
    PROVE  Inv'
<1> DEFINE d == [call[c] EXCEPT !.at = "expire"]
<1>0. /\ Typed /\ call[c].at = "recheck" /\ call[c] \in Handlers /\ HandlerOK(call[c])
      /\ call[c].req \in 0..opened /\ quote \in QuoteStatuses
      /\ UNCHANGED <<request, chain, quote, crashes, dropped>>
  BY DEF Inv, SweepRecheck, At, Typed, TypeOK
<1>1. /\ UNCHANGED <<request, chain>> /\ UNCHANGED <<crashes, dropped>>
      /\ quote' \in QuoteStatuses /\ call[c].at \in Quiet
  BY <1>0 DEF Quiet, Settling
<1>2. CASE Become(c, d)
  <2>1. /\ d \in Handlers /\ d.at = "expire" /\ d.req = call[c].req /\ d.step = call[c].step
        /\ d.then = call[c].then /\ d.blocked = call[c].blocked
    BY <1>0 DEF Handlers, Working, Settling
  <2> HIDE DEF d
  <2>2. HandlerOK(d)
    BY <1>0, <2>1 DEF HandlerOK, Working, Activating, Effects, Settling
  <2>3. d.req \in 0..opened /\ d.at \in Quiet
    BY <1>0, <2>1 DEF Quiet, Settling
  <2> QED
    BY <1>1, <1>2, <2>1, <2>2, <2>3, QuietStep
<1>3. CASE Become(c, Idle)
  <2>1. Idle \in Handlers /\ HandlerOK(Idle)
    BY <1>0, IdleOK
  <2>2. Idle.req \in 0..opened /\ Idle.at \in Quiet
    BY <1>0 DEF Idle, Quiet, Typed, TypeOK
  <2> QED
    BY <1>1, <1>3, <2>1, <2>2, QuietStep
<1> QED
  BY <1>2, <1>3 DEF SweepRecheck

LEMMA AdvancingMoves == Typed => \A c \in Calls, r \in Requests : Advancing(c, r) <=> Moves(call[c], r)
  BY DEF Advancing, Moves, Activating, Effects

LEMMA CrashInv ==
    ASSUME Inv, NEW c \in Calls, Crash(c)
    PROVE  Inv'
<1>0. /\ Typed /\ Become(c, Idle) /\ UNCHANGED <<request, chain>> /\ quote' \in QuoteStatuses
      /\ dropped' = dropped \cup {r \in Opened : Advancing(c, r)}
      /\ \A r \in Opened : r \in Requests
  BY DEF Inv, Crash, Typed, TypeOK, Opened, Requests
<1>1. Idle \in Handlers /\ HandlerOK(Idle) /\ \A r \in Requests : ~Moves(Idle, r)
  BY <1>0, IdleOK
<1>6. Idle.req \in 0..opened
  BY <1>0 DEF Idle, Typed, TypeOK
<1>2. crashes' \in 0..MaxCrashes
  BY DEF Crash, Inv, Typed, TypeOK
<1>3. dropped \subseteq dropped'
  BY <1>0
<1>4. \A r \in Requests : Moves(Idle, r) => Moves(call[c], r)
  BY <1>1
<1>5. \A r \in Opened \ dropped' : status[r] \in Live /\ Moves(call[c], r) => Moves(Idle, r)
  BY <1>0, AdvancingMoves
<1> QED
  BY <1>0, <1>1, <1>2, <1>3, <1>4, <1>5, <1>6, LocalStep

-----------------------------------------------------------------------------
(* Steps that write the rows of one request.  What the other handlers have *)
(* read of it stays true, and no other request is concerned.               *)

\* The invariant, of one request.
RequestOK(r) ==
    /\ \A c, d \in Calls : Moves(call[c], r) /\ Moves(call[d], r) => c = d
    /\ \A c \in Calls : Moves(call[c], r) => cur[r] = 0 /\ \A k \in StepsOf(r) : step[r][k] # "ACTIVE"
    /\ cur[r] # 0 => step[r][cur[r]] = "ACTIVE" /\ ~SelfAssigned(r, cur[r])
    /\ Movable(r) => \A k \in StepsOf(r) : Settled(r, k) => Justified(r, k)
    /\ status[r] = "APPROVED" => r \in granted
    /\ r \notin dropped /\ status[r] \in Live => Movable(r)
    /\ r \in granted => \A k \in StepsOf(r) : Justified(r, k)
    /\ \A j, k \in StepsOf(r) : j < k /\ step[r][k] # "PENDING" => Settled(r, j)

\* The verdicts in the log, of one request.
LogOK(r) ==
    /\ \A e \in log : e[1] = r /\ e[3] \in Users /\ e[4] \in Verdicts
                         => Settled(r, e[2]) /\ e[2] \in Orders
    /\ \A d, e \in log : /\ d[1] = r /\ e[1] = r /\ d[2] = e[2]
                         /\ {d[3], e[3]} \subseteq Users /\ {d[4], e[4]} \subseteq Verdicts
                         => d = e

InvByRequest ==
    /\ Typed
    /\ \A c \in Calls : HandlerOK(call[c])
    /\ \A r \in Opened : RequestOK(r) /\ LogOK(r)
    /\ Fresh

LEMMA InvOfRequests == Inv <=> InvByRequest
<1>1. Typed => Opened \subseteq Requests /\ granted \subseteq Opened
  BY DEF Typed, TypeOK, Opened, Requests
<1>2. Typed /\ (\A c \in Calls : HandlerOK(call[c]))
        => \A c \in Calls, r \in Requests : Moves(call[c], r) => r \in Opened
  BY DEF HandlerOK, Moves, Working
<1>3. Inv => \A r \in Opened : RequestOK(r) /\ LogOK(r)
  <2> SUFFICES ASSUME Inv, NEW r \in Opened PROVE RequestOK(r) /\ LogOK(r)
    OBVIOUS
  <2>0. Typed /\ r \in Requests
    BY <1>1 DEF Inv
  <2>1. RequestOK(r)
    BY <2>0 DEF Inv, RequestOK, OneMover, NobodyWaits, CurrentIsActive, SettledIsJustified,
       ApprovedIsGranted, LiveIsMovable, ApprovedByOthers, StepsInOrder, Settled, Justified
  <2>2. LogOK(r)
    BY <2>0 DEF Inv, LogOK, VerdictsAreSettled, OneVerdictPerStep
  <2> QED
    BY <2>1, <2>2
<1>4. ASSUME Typed, \A c \in Calls : HandlerOK(call[c]),
             \A r \in Opened : RequestOK(r) /\ LogOK(r), Fresh
      PROVE  Inv
  <2>1. OneMover /\ NobodyWaits
    BY <1>2, <1>4 DEF RequestOK, OneMover, NobodyWaits
  <2>2. CurrentIsActive /\ SettledIsJustified /\ ApprovedIsGranted /\ LiveIsMovable
    BY <1>4 DEF RequestOK, CurrentIsActive, SettledIsJustified, ApprovedIsGranted, LiveIsMovable
  <2>3. ApprovedByOthers /\ StepsInOrder
    BY <1>1, <1>4 DEF RequestOK, ApprovedByOthers, StepsInOrder, Justified, Settled
  <2>4. VerdictsAreSettled /\ OneVerdictPerStep
    BY <1>4 DEF LogOK, VerdictsAreSettled, OneVerdictPerStep, Fresh
  <2> QED
    BY <1>4, <2>1, <2>2, <2>3, <2>4 DEF Inv
<1> QED
  BY <1>3, <1>4 DEF Inv, InvByRequest

\* Handler c goes on as d and writes request r: its status, current step and step
\* statuses, and rows of the log.  A step that was settled stays settled.
Writes(c, d, r, st, cu, S, rows) ==
    /\ d \in Handlers /\ Become(c, d)
    /\ r \in Opened
    /\ st \in Live \cup Terminal \cup {"NONE"} /\ cu \in {0} \cup StepsOf(r) /\ (cu # 0 => st \in Live)
    /\ S \in [Orders -> StepStatuses]
    /\ \A k \in Orders : /\ step[r][k] # "PENDING" => S[k] # "PENDING"
                         /\ Settled(r, k) => S[k] \notin {"PENDING", "ACTIVE"}
    /\ rows \subseteq Rows /\ \A e \in rows : e[1] = r
    /\ status' = [status EXCEPT ![r] = st]
    /\ cur' = [cur EXCEPT ![r] = cu]
    /\ step' = [step EXCEPT ![r] = S]
    /\ log' = log \cup rows
    /\ granted' \in {granted, granted \cup {r}}
    /\ \A q \in Requests \ {r} : ~Moves(call[c], q) /\ ~Moves(d, q)
    /\ d.req \in 0..opened
    /\ UNCHANGED <<request, quote, crashes, dropped>>

LEMMA WriteFrame ==
    ASSUME Inv, NEW c \in Calls, NEW d, NEW r, NEW st, NEW cu, NEW S, NEW rows,
           Writes(c, d, r, st, cu, S, rows)
    PROVE  /\ Typed' /\ r \in Requests /\ Opened' = Opened /\ UNCHANGED request /\ dropped' = dropped
           /\ log \subseteq log' /\ granted \subseteq granted'
           /\ status'[r] = st /\ cur'[r] = cu /\ step'[r] = S
           /\ \A q \in Requests \ {r} :
                  status'[q] = status[q] /\ cur'[q] = cur[q] /\ step'[q] = step[q]
           /\ \A e \in Calls : call'[e] = IF e = c THEN d ELSE call[e]
           /\ \A q : StepsOf(q)' = StepsOf(q)
           /\ \A q, k : SelfAssigned(q, k)' = SelfAssigned(q, k)
           /\ \A q, k : Justified(q, k) => Justified(q, k)'
<1> USE DEF Writes, request
<1>0. Typed /\ Opened' = Opened /\ r \in Requests
  BY DEF Inv, Typed, TypeOK, Opened, Requests
<1>1. /\ status'[r] = st /\ cur'[r] = cu /\ step'[r] = S
      /\ \A q \in Requests \ {r} :
             status'[q] = status[q] /\ cur'[q] = cur[q] /\ step'[q] = step[q]
  BY <1>0 DEF Typed, TypeOK
<1>2. \A e \in Calls : call'[e] = IF e = c THEN d ELSE call[e]
  BY <1>0 DEF Typed, Become
<1>3. /\ \A q : StepsOf(q)' = StepsOf(q)
      /\ \A q, k : SelfAssigned(q, k)' = SelfAssigned(q, k)
      /\ \A q, k : Justified(q, k) => Justified(q, k)'
  BY DEF SelfAssigned, Justified, AssigneeOf, EntitledTo, StepsOf
<1>4. Typed'
  <2>1. call' \in [Calls -> Handlers]
    BY <1>0 DEF Typed, Become
  <2>2. log' \subseteq Rows /\ granted' \subseteq Opened'
    BY <1>0 DEF Typed, TypeOK
  <2>3. /\ status' \in [Requests -> Live \cup Terminal \cup {"NONE"}]
        /\ cur' \in [Requests -> {0} \cup Orders]
        /\ step' \in [Requests -> [Orders -> StepStatuses]]
    BY <1>0, StepsAreOrders DEF Typed, TypeOK
  <2>4. \A q \in Opened' : cur'[q] # 0 => cur'[q] \in StepsOf(q)' /\ status'[q] \in Live
    BY <1>0, <1>1, <1>3 DEF Typed, TypeOK, Opened, Requests
  <2>5. \A e \in Calls : call'[e].req \in 0..opened'
    BY <1>0, <1>2 DEF Typed, TypeOK
  <2> QED
    BY <1>0, <2>1, <2>2, <2>3, <2>4, <2>5 DEF Typed, TypeOK
<1> QED
  BY <1>0, <1>1, <1>2, <1>3, <1>4

\* What another handler has read of r stays true if no step it will write is taken
\* from under it, and what a stale slot names is justified or dead.
LEMMA OthersKeep ==
    ASSUME Inv, NEW c \in Calls, NEW d, NEW r, NEW st, NEW cu, NEW S, NEW rows,
           Writes(c, d, r, st, cu, S, rows),
           NEW e \in Calls \ {c}, call[e].req = r,
           call[e].at \in {"skip"} \cup Activating => S[call[e].step] = step[r][call[e].step],
           \A k \in StepsOf(r) : Movable(r)' /\ step[r][k] # "PENDING"
               => (Movable(r) /\ cur[r] # k) \/ Justified(r, k)'
    PROVE  HandlerOK(call[e])'
<1>0. /\ HandlerOK(call[e]) /\ call'[e] = call[e] /\ StepsOf(r) \subseteq Orders
      /\ r \in Requests /\ Opened' = Opened /\ step'[r] = S /\ granted \subseteq granted'
      /\ UNCHANGED request
  BY WriteFrame, StepsAreOrders DEF Inv
<1>1. /\ StepsOf(r)' = StepsOf(r)
      /\ \A k : SelfAssigned(r, k)' = SelfAssigned(r, k)
      /\ \A k : Justified(r, k) => Justified(r, k)'
      /\ \A k \in StepsOf(r) : Settled(r, k) => Settled(r, k)'
  <2>1. \A k \in StepsOf(r) : Settled(r, k) => Settled(r, k)'
    BY <1>0 DEF Writes, Settled
  <2> QED
    BY <2>1, WriteFrame
<1>2. ASSUME call[e].at \in {"skip"} \cup Activating
      PROVE  /\ call[e].step \in StepsOf(r)
             /\ step'[r][call[e].step] = "PENDING"
             /\ \A j \in StepsOf(r) : j < call[e].step => Settled(r, j)'
             /\ SelfAssigned(r, call[e].step) <=> call[e].at = "skip"
  BY <1>0, <1>1, <1>2 DEF HandlerOK
<1>3. ASSUME call[e].at \in Settling, call[e].step # 0
      PROVE  /\ call[e].step \in StepsOf(r)
             /\ step'[r][call[e].step] # "PENDING"
  BY <1>0, <1>1, <1>3 DEF HandlerOK, Writes
<1>4. ASSUME call[e].at \in Settling, call[e].step # 0, Movable(r)', NEW k, k = call[e].step
      PROVE  cur'[r] = k \/ Justified(r, k)'
  <2>1. k \in StepsOf(r) /\ step[r][k] # "PENDING" /\ (Movable(r) => cur[r] = k \/ Justified(r, k))
    BY <1>0, <1>4 DEF HandlerOK
  <2> QED
    BY <1>1, <1>4, <2>1
<1>5. ASSUME call[e].at = "complete" PROVE \A k \in StepsOf(r) : step'[r][k] # "PENDING"
  BY <1>0, <1>5 DEF HandlerOK, Writes
<1>6. /\ call[e].at \in Working => call[e].req \in Opened
      /\ call[e].at = "gate" /\ call[e].blocked = 0 =>
            \A p \in Policies \ call[e].todo : \E q \in granted' : policy'[q] = p
      /\ call[e].at \in {"open"} \cup Working /\ call[e].then = "gate" => call[e].blocked = 1
      /\ call[e].at = "write" /\ call[e].from = "DRAFT" /\ call[e].to = "SENT" =>
            \A p \in Policies : \E q \in granted' : policy'[q] = p
  BY <1>0 DEF HandlerOK, request
<1> QED
  BY <1>0, <1>1, <1>2, <1>3, <1>4, <1>5, <1>6 DEF HandlerOK

LEMMA WriteStep ==
    ASSUME Inv, NEW c \in Calls, NEW d, NEW r, NEW st, NEW cu, NEW S, NEW rows,
           Writes(c, d, r, st, cu, S, rows),
           \A e \in Calls \ {c} : call[e].req = r /\ call[e].at \in {"skip"} \cup Activating
               => S[call[e].step] = step[r][call[e].step],
           \A k \in StepsOf(r) : Movable(r)' /\ step[r][k] # "PENDING"
               => (Movable(r) /\ cur[r] # k) \/ Justified(r, k)',
           \A e \in rows : e[3] \in Users /\ e[4] \in Verdicts
               => /\ rows = {e} /\ e[2] \in Orders /\ ~Settled(r, e[2])
                  /\ S[e[2]] \notin {"PENDING", "ACTIVE"},
           HandlerOK(d)', RequestOK(r)'
    PROVE  Inv'
<1>0. /\ Typed /\ Typed' /\ r \in Requests /\ Opened' = Opened /\ UNCHANGED request
      /\ dropped' = dropped /\ log \subseteq log' /\ granted \subseteq granted'
      /\ r \in Opened /\ Opened \subseteq Requests /\ step'[r] = S
  <2>1. r \in Opened /\ Typed
    BY DEF Inv, Writes
  <2>2. Opened \subseteq Requests
    BY <2>1 DEF Typed, TypeOK, Opened, Requests
  <2> QED
    BY <2>1, <2>2, WriteFrame
<1>1. \A e \in Calls : call'[e] = IF e = c THEN d ELSE call[e]
  BY WriteFrame
<1>2. ASSUME NEW q \in Requests \ {r}
      PROVE  /\ Movable(q)' <=> Movable(q)
             /\ \A k : Settled(q, k)' = Settled(q, k)
             /\ \A k : SelfAssigned(q, k)' = SelfAssigned(q, k)
             /\ \A k : Justified(q, k) => Justified(q, k)'
             /\ StepsOf(q)' = StepsOf(q)
             /\ status'[q] = status[q] /\ cur'[q] = cur[q] /\ step'[q] = step[q]
             /\ \A e \in Calls : Moves(call'[e], q) <=> Moves(call[e], q)
  <2>1. /\ \A k : SelfAssigned(q, k)' = SelfAssigned(q, k)
        /\ \A k : Justified(q, k) => Justified(q, k)'
        /\ StepsOf(q)' = StepsOf(q)
        /\ status'[q] = status[q] /\ cur'[q] = cur[q] /\ step'[q] = step[q]
    BY <1>2, WriteFrame
  <2>2. \A e \in Calls : Moves(call'[e], q) <=> Moves(call[e], q)
    BY <1>1 DEF Writes
  <2>3. Movable(q)' <=> Movable(q)
    BY <2>1, <2>2 DEF Movable
  <2> QED
    BY <2>1, <2>2, <2>3 DEF Settled
<1>3. \A e \in Calls : HandlerOK(call[e])'
  <2>0. HandlerOK(call[c])'
    BY <1>1
  <2> SUFFICES ASSUME NEW e \in Calls \ {c} PROVE HandlerOK(call[e])'
    BY <2>0
  <2>1. CASE call[e].req = r
    BY <2>1, OthersKeep
  <2>2. CASE call[e].req # r
    <3>1. HandlerOK(call[e]) /\ call'[e] = call[e]
      BY <1>1 DEF Inv
    <3>2. call[e].at \in Working => call[e].req \in Requests \ {r}
      BY <1>0, <3>1, <2>2 DEF HandlerOK
    <3> QED
      BY <1>0, <1>2, <3>1, <3>2 DEF HandlerOK, Working, request
  <2> QED
    BY <2>1, <2>2
<1>4. ASSUME NEW q \in Opened \ {r} PROVE RequestOK(q)' /\ LogOK(q)'
  <2>0. q \in Requests \ {r}
    BY <1>0
  <2>2. RequestOK(q) /\ LogOK(q)
    BY InvOfRequests DEF InvByRequest
  <2>3. q \in granted' <=> q \in granted
    BY <2>0 DEF Writes
  <2>4. RequestOK(q)'
    BY <1>0, <1>2, <2>0, <2>2, <2>3 DEF RequestOK
  <2>5. \A e \in log' : e[1] = q => e \in log
    BY <2>0 DEF Writes
  <2>6. LogOK(q)'
    BY <1>2, <2>0, <2>2, <2>5 DEF LogOK
  <2> QED
    BY <2>4, <2>6
<1>5. LogOK(r)'
  <2>1. LogOK(r) /\ log' = log \cup rows
    BY <1>0, InvOfRequests DEF InvByRequest, Writes
  <2>2. \A k \in Orders : Settled(r, k) => Settled(r, k)'
    BY <1>0 DEF Writes, Settled
  <2>3. \A e \in log' : e[1] = r /\ e[3] \in Users /\ e[4] \in Verdicts
                         => Settled(r, e[2])' /\ e[2] \in Orders
    BY <1>0, <2>1, <2>2 DEF LogOK, Settled
  <2>4. ASSUME NEW a \in log', NEW b \in log', a[1] = r, b[1] = r, a[2] = b[2],
               {a[3], b[3]} \subseteq Users, {a[4], b[4]} \subseteq Verdicts
        PROVE  a = b
    <3>1. CASE a \in log /\ b \in log
      BY <2>1, <2>4, <3>1 DEF LogOK
    <3>2. CASE a \in rows
      <4>1. rows = {a} /\ ~Settled(r, b[2])
        BY <2>4, <3>2
      <4> QED
        BY <2>1, <2>4, <4>1 DEF LogOK
    <3>3. CASE b \in rows
      <4>1. rows = {b} /\ ~Settled(r, a[2])
        BY <2>4, <3>3
      <4> QED
        BY <2>1, <2>4, <4>1 DEF LogOK
    <3> QED
      BY <2>1, <3>1, <3>2, <3>3
  <2> QED
    BY <2>3, <2>4 DEF LogOK
<1>6. Fresh'
  BY <1>0, <1>2 DEF Inv, Fresh, Writes
<1>7. \A q \in Opened : RequestOK(q)' /\ LogOK(q)'
  BY <1>4, <1>5
<1>8. InvByRequest'
  BY <1>0, <1>3, <1>6, <1>7 DEF InvByRequest
<1> QED
  BY <1>8, InvOfRequests, PTL

\* The one handler that moves a request writes it.
LEMMA MoverStep ==
    ASSUME Inv, NEW c \in Calls, NEW d, NEW r, NEW st, NEW cu, NEW S, NEW rows,
           Writes(c, d, r, st, cu, S, rows), Moves(call[c], r),
           \A e \in rows : e[3] \notin Users,
           HandlerOK(d)', RequestOK(r)'
    PROVE  Inv'
<1>0. Typed /\ r \in Requests /\ r \in Opened /\ StepsOf(r) \subseteq Orders
  <2>1. r \in Requests
    BY WriteFrame
  <2> QED
    BY <2>1, StepsAreOrders DEF Inv, Writes
<1>1. cur[r] = 0 /\ \A e \in Calls \ {c} : ~Moves(call[e], r)
  BY <1>0 DEF Inv, OneMover, NobodyWaits
<1>2. \A e \in Calls \ {c} : call[e].req = r => call[e].at \notin {"skip"} \cup Activating
  BY <1>1 DEF Moves
<1>3. Movable(r) /\ \A k \in StepsOf(r) : cur[r] # k
  BY <1>0, <1>1 DEF Movable, Orders
<1> QED
  BY <1>2, <1>3, WriteStep

LEMMA SkipInv ==
    ASSUME Inv, NEW c \in Calls, Skip(c)
    PROVE  Inv'
<1>1. PICK r, k, d, S, rows :
          /\ r = call[c].req /\ k = call[c].step
          /\ d = [call[c] EXCEPT !.at = "advance", !.step = 0]
          /\ S = [step[r] EXCEPT ![k] = "SKIPPED"]
          /\ rows = {<<r, k, System, "APPROVED">>}
  OBVIOUS
<1>2. /\ Typed /\ call[c] \in Handlers /\ HandlerOK(call[c]) /\ call[c].at = "skip"
      /\ call[c].req \in 0..opened
  BY DEF Inv, Typed, TypeOK, Skip, At
<1>3. /\ r \in Opened /\ r \in Requests /\ Moves(call[c], r)
      /\ step[r][k] = "PENDING" /\ k \in StepsOf(r) /\ SelfAssigned(r, k)
      /\ \A j \in StepsOf(r) : j < k => Settled(r, j)
  BY <1>1, <1>2 DEF HandlerOK, Moves, Opened, Requests, Typed, TypeOK, Working
<1>4. StepsOf(r) \subseteq Orders /\ k \in Orders /\ Orders \subseteq Nat
  BY <1>2, <1>3, StepsAreOrders
<1>5. RequestOK(r) /\ cur[r] = 0
  BY <1>3, InvOfRequests DEF InvByRequest, RequestOK
<1>6. d \in Handlers /\ d.at = "advance" /\ d.req = r /\ d.then = call[c].then
      /\ d.blocked = call[c].blocked
  BY <1>1, <1>2 DEF Handlers, Working
<1>7. S \in [Orders -> StepStatuses] /\ \A j \in Orders : S[j] = IF j = k THEN "SKIPPED" ELSE step[r][j]
  BY <1>1, <1>2, <1>3, <1>4 DEF Typed, TypeOK, StepStatuses
<1>8. Writes(c, d, r, status[r], cur[r], S, rows)
  <2>1. status[r] \in Live \cup Terminal \cup {"NONE"}
    BY <1>2, <1>3 DEF Typed, TypeOK
  <2>2. rows \subseteq Rows /\ \A e \in rows : e[1] = r
    BY <1>1, <1>3, <1>4 DEF Rows, Verdicts
  <2>3. /\ status' = [status EXCEPT ![r] = status[r]]
        /\ cur' = [cur EXCEPT ![r] = cur[r]]
        /\ step' = [step EXCEPT ![r] = S]
        /\ log' = log \cup rows /\ granted' = granted /\ Become(c, d)
        /\ UNCHANGED <<request, quote, crashes, dropped>>
    BY <1>1, <1>2 DEF Skip, Typed, TypeOK
  <2>4. \A j \in Orders : /\ step[r][j] # "PENDING" => S[j] # "PENDING"
                         /\ Settled(r, j) => S[j] \notin {"PENDING", "ACTIVE"}
    BY <1>3, <1>7 DEF Settled
  <2>5. \A q \in Requests \ {r} : ~Moves(call[c], q) /\ ~Moves(d, q)
    BY <1>1, <1>6 DEF Moves
  <2> QED
    BY <1>1, <1>2, <1>3, <1>5, <1>6, <1>7, <2>1, <2>2, <2>3, <2>4, <2>5 DEF Writes
<1>9. Movable(r) /\ Movable(r)' /\ (\A e \in Calls : Moves(call'[e], r) <=> Moves(call[e], r))
      /\ step'[r] = S /\ cur'[r] = 0 /\ status'[r] = status[r]
  <2>1. /\ \A e \in Calls : call'[e] = IF e = c THEN d ELSE call[e]
        /\ step'[r] = S /\ cur'[r] = cur[r] /\ status'[r] = status[r]
    BY <1>8, WriteFrame
  <2>2. \A e \in Calls : Moves(call'[e], r) <=> Moves(call[e], r)
    BY <1>3, <1>6, <2>1 DEF Moves
  <2> QED
    BY <1>3, <1>5, <2>1, <2>2 DEF Movable
<1>10. RequestOK(r)'
  <2>1. /\ dropped' = dropped /\ granted' = granted /\ StepsOf(r)' = StepsOf(r)
        /\ \A j : SelfAssigned(r, j)' = SelfAssigned(r, j)
        /\ \A j : Justified(r, j) => Justified(r, j)'
    BY <1>8, WriteFrame DEF Skip
  <2>2. \A j \in StepsOf(r) : Settled(r, j)' <=> Settled(r, j) \/ j = k
    BY <1>3, <1>4, <1>7, <1>9 DEF Settled
  <2>3. \A j \in StepsOf(r) : S[j] # "ACTIVE"
    BY <1>3, <1>4, <1>5, <1>7 DEF RequestOK
  <2>4. \A i, j \in StepsOf(r) : i < j /\ S[j] # "PENDING" => Settled(r, i)'
    BY <1>3, <1>4, <1>5, <1>7, <2>2 DEF RequestOK
  <2>5. Justified(r, k)'
    BY <1>3, <2>1 DEF Justified
  <2>6. \A j \in StepsOf(r) : Settled(r, j)' => Justified(r, j)'
    BY <1>5, <1>9, <2>1, <2>2, <2>5 DEF RequestOK
  <2> QED
    BY <1>5, <1>9, <2>1, <2>3, <2>4, <2>6 DEF RequestOK
<1>11. HandlerOK(d)'
  <2>1. Opened' = Opened
    BY <1>8, WriteFrame
  <2>2. d.then = "gate" => d.blocked = 1
    BY <1>2, <1>6 DEF HandlerOK, Working
  <2> QED
    BY <1>3, <1>6, <2>1, <2>2 DEF HandlerOK, Working, Activating, Effects, Settling
<1>12. \A e \in rows : e[3] \notin Users
  BY <1>1
<1> QED
  BY <1>3, <1>8, <1>10, <1>11, <1>12, MoverStep

LEMMA ReturnShape ==
    ASSUME Inv, NEW c \in Calls, call[c].at \in Working
    PROVE  /\ Return(c) \in Handlers /\ Return(c).req = 0 /\ Return(c).at \in {"idle", "gate"}
           /\ Return(c).at = "gate" => Return(c).blocked = 1
<1>0. Typed /\ call[c] \in Handlers /\ HandlerOK(call[c])
  BY DEF Inv, Typed
<1>1. CASE call[c].then = "gate"
  <2>1. Return(c) = [call[c] EXCEPT !.at = "gate", !.req = 0, !.step = 0]
    BY <1>1 DEF Return
  <2>2. call[c].blocked = 1 /\ Return(c) \in Handlers
    BY <1>0, <1>1, ReturnOK DEF HandlerOK
  <2> QED
    BY <1>0, <2>1, <2>2 DEF Handlers
<1>2. CASE call[c].then # "gate"
  <2>1. Return(c) = Idle /\ Idle \in Handlers
    BY <1>0, <1>2, IdleOK DEF Return
  <2> QED
    BY <2>1 DEF Idle
<1> QED
  BY <1>1, <1>2

LEMMA ActivateInv ==
    ASSUME Inv, NEW c \in Calls, Activate(c)
    PROVE  Inv'
<1>1. PICK r, k, d, S, st :
          /\ r = call[c].req /\ k = call[c].step /\ d = Return(c)
          /\ S = [step[r] EXCEPT ![k] = "ACTIVE"]
          /\ st = IF At(c, "activate") THEN "IN_PROGRESS" ELSE "PENDING"
  OBVIOUS
<1>2. /\ Typed /\ call[c] \in Handlers /\ HandlerOK(call[c]) /\ call[c].at \in Activating
      /\ call[c].at \in Working
  BY DEF Inv, Typed, Activate, Activating, Working
<1>3. /\ r \in Opened /\ r \in Requests /\ Moves(call[c], r)
      /\ step[r][k] = "PENDING" /\ k \in StepsOf(r) /\ ~SelfAssigned(r, k)
      /\ \A j \in StepsOf(r) : j < k => Settled(r, j)
  BY <1>1, <1>2 DEF HandlerOK, Moves, Opened, Requests, Typed, TypeOK, Working, Activating
<1>4. StepsOf(r) \subseteq Orders /\ k \in Orders /\ Orders \subseteq Nat /\ k # 0
  BY <1>2, <1>3, StepsAreOrders DEF Orders
<1>5. RequestOK(r) /\ Movable(r)
  BY <1>3, InvOfRequests DEF InvByRequest, Movable
<1>6. /\ d \in Handlers /\ d.req = 0 /\ d.at \in {"idle", "gate"}
      /\ (d.at = "gate" => d.blocked = 1) /\ ~Moves(d, r)
  <2>1. d \in Handlers /\ d.req = 0 /\ d.at \in {"idle", "gate"} /\ (d.at = "gate" => d.blocked = 1)
    BY <1>1, <1>2, ReturnShape
  <2> QED
    BY <2>1 DEF Moves, Activating, Effects
<1>7. S \in [Orders -> StepStatuses] /\ \A j \in Orders : S[j] = IF j = k THEN "ACTIVE" ELSE step[r][j]
  BY <1>1, <1>2, <1>3, <1>4 DEF Typed, TypeOK, StepStatuses
<1>8. Writes(c, d, r, st, k, S, {})
  <2>1. /\ status' = [status EXCEPT ![r] = st]
        /\ cur' = [cur EXCEPT ![r] = k]
        /\ step' = [step EXCEPT ![r] = S]
        /\ log' = log \cup {} /\ granted' = granted /\ Become(c, d)
        /\ UNCHANGED <<request, quote, crashes, dropped>>
    BY <1>1, <1>2 DEF Activate, Typed, TypeOK
  <2>2. \A j \in Orders : /\ step[r][j] # "PENDING" => S[j] # "PENDING"
                         /\ Settled(r, j) => S[j] \notin {"PENDING", "ACTIVE"}
    BY <1>3, <1>7 DEF Settled
  <2>3. \A q \in Requests \ {r} : ~Moves(call[c], q) /\ ~Moves(d, q)
    BY <1>1, <1>6 DEF Moves, Activating, Effects
  <2>4. st \in Live /\ d.req \in 0..opened
    BY <1>1, <1>2, <1>6 DEF Live, Typed, TypeOK
  <2> QED
    BY <1>3, <1>4, <1>6, <1>7, <2>1, <2>2, <2>3, <2>4 DEF Writes
<1>9. /\ step'[r] = S /\ cur'[r] = k /\ status'[r] = st /\ Movable(r)'
      /\ \A e \in Calls : ~Moves(call'[e], r)
  <2>1. /\ \A e \in Calls : call'[e] = IF e = c THEN d ELSE call[e]
        /\ step'[r] = S /\ cur'[r] = k /\ status'[r] = st
    BY <1>8, WriteFrame
  <2>2. \A e \in Calls : ~Moves(call'[e], r)
    BY <1>3, <1>5, <1>6, <2>1 DEF RequestOK
  <2> QED
    BY <1>4, <2>1, <2>2 DEF Movable
<1>10. RequestOK(r)'
  <2>1. /\ dropped' = dropped /\ StepsOf(r)' = StepsOf(r)
        /\ \A j : SelfAssigned(r, j)' = SelfAssigned(r, j)
        /\ \A j : Justified(r, j) => Justified(r, j)'
    BY <1>8, WriteFrame
  <2>2. granted' = granted /\ st # "APPROVED"
    BY <1>1 DEF Activate
  <2>3. \A j \in StepsOf(r) : Settled(r, j)' <=> Settled(r, j)
    BY <1>3, <1>4, <1>7, <1>9 DEF Settled
  <2>4. \A i, j \in StepsOf(r) : i < j /\ S[j] # "PENDING" => Settled(r, i)'
    BY <1>3, <1>4, <1>5, <1>7, <2>3 DEF RequestOK
  <2>5. \A j \in StepsOf(r) : Settled(r, j)' => Justified(r, j)'
    BY <1>5, <2>1, <2>3 DEF RequestOK
  <2>6. S[k] = "ACTIVE" /\ ~SelfAssigned(r, k)'
    BY <1>3, <1>4, <1>7, <2>1
  <2>7. r \in granted' => \A j \in StepsOf(r) : Justified(r, j)'
    BY <1>5, <2>1, <2>2 DEF RequestOK
  <2> QED
    BY <1>9, <2>1, <2>2, <2>4, <2>5, <2>6, <2>7 DEF RequestOK
<1>11. HandlerOK(d)'
  BY <1>6 DEF HandlerOK, Working, Activating, Effects, Settling
<1> QED
  BY <1>3, <1>8, <1>10, <1>11, MoverStep

LEMMA CompleteInv ==
    ASSUME Inv, NEW c \in Calls, Complete(c)
    PROVE  Inv'
<1>1. PICK r, d, S : r = call[c].req /\ d = [call[c] EXCEPT !.at = "effects"] /\ S = step[r]
  OBVIOUS
<1>2. /\ Typed /\ call[c] \in Handlers /\ HandlerOK(call[c]) /\ call[c].at = "complete"
      /\ call[c].req \in 0..opened
  BY DEF Inv, Typed, TypeOK, Complete, At
<1>3. /\ r \in Opened /\ r \in Requests /\ Moves(call[c], r)
      /\ \A k \in StepsOf(r) : step[r][k] # "PENDING"
  BY <1>1, <1>2 DEF HandlerOK, Moves, Opened, Requests, Typed, TypeOK, Working
<1>4. RequestOK(r) /\ Movable(r) /\ cur[r] = 0
  BY <1>3, InvOfRequests DEF InvByRequest, Movable, RequestOK
<1>5. /\ d \in Handlers /\ d.at = "effects" /\ d.req = r /\ d.then = call[c].then
      /\ d.blocked = call[c].blocked
  BY <1>1, <1>2 DEF Handlers, Working, Effects
<1>6. \A k \in StepsOf(r) : Settled(r, k) /\ Justified(r, k)
  BY <1>3, <1>4 DEF RequestOK, Settled
<1>7. Writes(c, d, r, "APPROVED", 0, S, {})
  <2>1. /\ status' = [status EXCEPT ![r] = "APPROVED"]
        /\ cur' = [cur EXCEPT ![r] = 0]
        /\ step' = [step EXCEPT ![r] = S] /\ S \in [Orders -> StepStatuses]
        /\ log' = log \cup {} /\ granted' = granted \cup {r} /\ Become(c, d)
        /\ UNCHANGED <<request, quote, crashes, dropped>>
    BY <1>1, <1>2, <1>3 DEF Complete, Typed, TypeOK
  <2>2. \A j \in Orders : Settled(r, j) => S[j] \notin {"PENDING", "ACTIVE"}
    BY <1>1 DEF Settled
  <2>3. \A q \in Requests \ {r} : ~Moves(call[c], q) /\ ~Moves(d, q)
    BY <1>1, <1>5 DEF Moves
  <2> QED
    BY <1>1, <1>2, <1>3, <1>5, <2>1, <2>2, <2>3 DEF Writes, Terminal
<1>8. /\ step'[r] = step[r] /\ cur'[r] = 0 /\ status'[r] = "APPROVED" /\ r \in granted'
      /\ \A e \in Calls : Moves(call'[e], r) => Moves(call[e], r)
  <2>1. /\ \A e \in Calls : call'[e] = IF e = c THEN d ELSE call[e]
        /\ step'[r] = S /\ cur'[r] = 0 /\ status'[r] = "APPROVED"
    BY <1>7, WriteFrame
  <2> QED
    BY <1>1, <1>3, <2>1 DEF Complete
<1>9. RequestOK(r)'
  <2>1. /\ StepsOf(r)' = StepsOf(r)
        /\ \A j : Justified(r, j) => Justified(r, j)'
        /\ \A j : Settled(r, j)' = Settled(r, j)
    BY <1>7, <1>8, WriteFrame DEF Settled
  <2> QED
    BY <1>4, <1>6, <1>8, <2>1 DEF RequestOK, Live
<1>10. HandlerOK(d)'
  <2>1. Opened' = Opened
    BY <1>7, WriteFrame
  <2>2. d.then = "gate" => d.blocked = 1
    BY <1>2, <1>5 DEF HandlerOK, Working
  <2> QED
    BY <1>3, <1>5, <2>1, <2>2 DEF HandlerOK, Working, Activating, Effects, Settling
<1> QED
  BY <1>3, <1>7, <1>9, <1>10, MoverStep

\* decide finds a step that waits, so that no handler is moving the request.
LEMMA DecideInv ==
    ASSUME Inv, NEW c \in Calls, NEW u \in Users, NEW r \in Requests, NEW v \in Verdicts,
           Decide(c, u, r, v)
    PROVE  Inv'
<1>1. PICK k, final, d, S, st, rows :
          /\ k = cur[r]
          /\ final = (v = "REJECTED" \/ Rest(r) = {})
          /\ d = [Idle EXCEPT !.at = "effects", !.req = r,
                              !.then = IF final THEN "idle" ELSE "advance"]
          /\ S = [step[r] EXCEPT ![k] = v]
          /\ st = IF final THEN v ELSE "IN_PROGRESS"
          /\ rows = {<<r, k, u, v>>}
  OBVIOUS
<1>2. /\ Typed /\ Idle \in Handlers /\ call[c].at = "idle" /\ r \in Opened /\ MayDecide(u, r)
      /\ v \in {"APPROVED", "REJECTED"}
  BY IdleOK DEF Inv, Decide, At, Verdicts
<1>3. /\ k \in StepsOf(r) /\ step[r][k] = "ACTIVE" /\ k # 0 /\ k = cur[r]
      /\ StepsOf(r) \subseteq Orders /\ Orders \subseteq Nat
      /\ by[r] # u /\ EntitledTo(u, r, k)
  BY <1>1, <1>2, StepsAreOrders DEF MayDecide, Typed, TypeOK
<1>4. RequestOK(r) /\ Movable(r) /\ \A e \in Calls : ~Moves(call[e], r)
  BY <1>2, <1>3, InvOfRequests DEF InvByRequest, RequestOK, Movable
<1>5. /\ d \in Handlers /\ d.at = "effects" /\ d.req = r
      /\ d.then = IF final THEN "idle" ELSE "advance"
  <2>1. r \in 0..MaxRequests
    BY <1>2 DEF Requests
  <2> QED
    BY <1>1, <1>2, <2>1 DEF Handlers, Idle, Working, Effects
<1>6. S \in [Orders -> StepStatuses] /\ \A j \in Orders : S[j] = IF j = k THEN v ELSE step[r][j]
  BY <1>1, <1>2, <1>3 DEF Typed, TypeOK, StepStatuses
<1>7. Writes(c, d, r, st, 0, S, rows)
  <2>1. /\ status' = [status EXCEPT ![r] = st]
        /\ cur' = [cur EXCEPT ![r] = 0]
        /\ step' = [step EXCEPT ![r] = S]
        /\ log' = log \cup rows /\ granted' \in {granted, granted \cup {r}}
        /\ Become(c, d)
        /\ UNCHANGED <<request, quote, crashes, dropped>>
    BY <1>1, <1>2 DEF Decide, Typed, TypeOK
  <2>2. \A j \in Orders : /\ step[r][j] # "PENDING" => S[j] # "PENDING"
                         /\ Settled(r, j) => S[j] \notin {"PENDING", "ACTIVE"}
    BY <1>2, <1>6 DEF Settled
  <2>3. \A q \in Requests \ {r} : ~Moves(call[c], q) /\ ~Moves(d, q)
    BY <1>2, <1>5 DEF Moves, Activating, Effects
  <2>4. rows \subseteq Rows /\ \A e \in rows : e[1] = r
    BY <1>1, <1>2, <1>3 DEF Rows
  <2>5. st \in Live \cup Terminal /\ d.req \in 0..opened
    BY <1>1, <1>2, <1>5 DEF Live, Terminal, Opened
  <2> QED
    BY <1>2, <1>5, <1>6, <2>1, <2>2, <2>3, <2>4, <2>5 DEF Writes
<1>8. /\ step'[r] = S /\ cur'[r] = 0 /\ status'[r] = st
      /\ \A e \in Calls : Moves(call'[e], r) <=> e = c /\ ~final
      /\ Movable(r)' <=> ~final
  <2>1. /\ \A e \in Calls : call'[e] = IF e = c THEN d ELSE call[e]
        /\ step'[r] = S /\ cur'[r] = 0 /\ status'[r] = st
    BY <1>7, WriteFrame
  <2>2. Moves(d, r) <=> ~final
    BY <1>5 DEF Moves, Effects, Activating
  <2>3. \A e \in Calls : Moves(call'[e], r) <=> e = c /\ ~final
    BY <1>4, <2>1, <2>2
  <2> QED
    BY <2>1, <2>3 DEF Movable
<1>9. /\ StepsOf(r)' = StepsOf(r) /\ dropped' = dropped
      /\ \A j : Justified(r, j) => Justified(r, j)'
      /\ \A j \in StepsOf(r) : Settled(r, j)' <=> Settled(r, j) \/ j = k
  <2>1. \A j \in StepsOf(r) : Settled(r, j)' <=> Settled(r, j) \/ j = k
    BY <1>2, <1>3, <1>6, <1>8 DEF Settled
  <2> QED
    BY <1>7, <2>1, WriteFrame
<1>10. ASSUME v = "APPROVED" PROVE Justified(r, k)'
  <2>1. by'[r] = by[r] /\ policy'[r] = policy[r] /\ log' = log \cup rows
    BY <1>1 DEF Decide, request
  <2>2. <<r, k, u, "APPROVED">> \in log' /\ EntitledTo(u, r, k)'
    BY <1>1, <1>3, <1>10, <2>1 DEF EntitledTo, AssigneeOf
  <2> QED
    BY <1>3, <2>1, <2>2 DEF Justified
<1>11. \A j \in StepsOf(r) : j < k => Settled(r, j)
  BY <1>3, <1>4 DEF RequestOK
<1>12. \A j \in StepsOf(r) : j > k => step[r][j] = "PENDING"
  <2>1. ~Settled(r, k)
    BY <1>3 DEF Settled
  <2> QED
    BY <1>3, <1>4, <2>1 DEF RequestOK
<1>13. ASSUME v = "APPROVED", final, NEW j \in StepsOf(r) PROVE Justified(r, j)'
  <2>1. Rest(r) = {}
    BY <1>1, <1>13
  <2>2. ~(j > k)
    BY <1>3, <1>12, <2>1 DEF Rest
  <2>3. CASE j = k
    BY <1>10, <1>13, <2>3
  <2>4. CASE j < k
    BY <1>4, <1>9, <1>11, <2>4 DEF RequestOK
  <2>5. j \in Nat /\ k \in Nat
    BY <1>3
  <2> QED
    BY <2>2, <2>3, <2>4, <2>5
<1>14. RequestOK(r)'
  <2>1. \A e, f \in Calls : Moves(call[e], r)' /\ Moves(call[f], r)' => e = f
    BY <1>8
  <2>2. \A j \in StepsOf(r) : S[j] # "ACTIVE"
    <3>1. \A j \in StepsOf(r) : j # k => S[j] = step[r][j]
      BY <1>3, <1>6
    <3>2. S[k] # "ACTIVE"
      BY <1>2, <1>3, <1>6
    <3>3. ASSUME NEW j \in StepsOf(r), j # k PROVE step[r][j] # "ACTIVE"
      <4>1. j \in Nat /\ k \in Nat
        BY <1>3
      <4>2. j < k \/ j > k
        BY <3>3, <4>1
      <4> QED
        BY <1>11, <1>12, <4>2 DEF Settled
    <3> QED
      BY <3>1, <3>2, <3>3
  <2>3. Movable(r)' => \A j \in StepsOf(r) : Settled(r, j)' => Justified(r, j)'
    <3>1. ~final => v = "APPROVED"
      BY <1>1, <1>2
    <3> QED
      BY <1>4, <1>8, <1>9, <1>10, <3>1 DEF RequestOK
  <2>4. st = "APPROVED" => final /\ v = "APPROVED" /\ r \in granted'
    BY <1>1, <1>2 DEF Decide
  <2>5. st \in Live => Movable(r)'
    BY <1>1, <1>2, <1>8 DEF Live
  <2>6. r \in granted' => r \in granted \/ (final /\ v = "APPROVED")
    BY <1>1 DEF Decide
  <2>7. r \in granted' => \A j \in StepsOf(r) : Justified(r, j)'
    BY <1>4, <1>9, <1>13, <2>6 DEF RequestOK
  <2>8. \A i, j \in StepsOf(r) : i < j /\ S[j] # "PENDING" => Settled(r, i)'
    BY <1>3, <1>4, <1>6, <1>9, <1>11 DEF RequestOK
  <2> QED
    BY <1>8, <1>9, <2>1, <2>2, <2>3, <2>4, <2>5, <2>7, <2>8 DEF RequestOK
<1>15. HandlerOK(d)'
  <2>1. Opened' = Opened
    BY <1>7, WriteFrame
  <2>2. d.then # "gate"
    BY <1>5
  <2> QED
    BY <1>2, <1>5, <2>1, <2>2 DEF HandlerOK, Working, Activating, Effects, Settling
<1>16. \A e \in Calls \ {c} : call[e].req = r /\ call[e].at \in {"skip"} \cup Activating
           => S[call[e].step] = step[r][call[e].step]
  BY <1>4 DEF Moves
<1>17. \A j \in StepsOf(r) : Movable(r)' /\ step[r][j] # "PENDING"
           => (Movable(r) /\ cur[r] # j) \/ Justified(r, j)'
  BY <1>1, <1>2, <1>3, <1>4, <1>8, <1>10
<1>18. \A e \in rows : e[3] \in Users /\ e[4] \in Verdicts
           => /\ rows = {e} /\ e[2] \in Orders /\ ~Settled(r, e[2])
              /\ S[e[2]] \notin {"PENDING", "ACTIVE"}
  BY <1>1, <1>2, <1>3, <1>6 DEF Settled
<1> QED
  BY <1>7, <1>14, <1>15, <1>16, <1>17, <1>18, WriteStep

\* What withdraw and the sweep read of the current step may be stale: then no
\* handler moves the request, or the step had its verdict.
LEMMA CloseInv ==
    ASSUME Inv, NEW c \in Calls, NEW u \in Users \cup {System}, NEW s \in {"CANCELLED", "EXPIRED"},
           call[c].at \in Settling, Close(c, u, s)
    PROVE  Inv'
<1>1. PICK r, k, d, S, rows :
          /\ r = call[c].req /\ k = call[c].step /\ d = Idle
          /\ S = IF k = 0 THEN step[r] ELSE [step[r] EXCEPT ![k] = "SKIPPED"]
          /\ rows = {<<r, k, u, s>>}
  OBVIOUS
<1>2. /\ Typed /\ call[c] \in Handlers /\ HandlerOK(call[c]) /\ call[c].at \in Working
      /\ Idle \in Handlers /\ \A q \in Requests : ~Moves(Idle, q)
  BY IdleOK DEF Inv, Typed, Working
<1>3. /\ r \in Opened /\ r \in Requests /\ k \in {0} \cup Orders
      /\ k # 0 => /\ k \in StepsOf(r) /\ step[r][k] # "PENDING"
                  /\ Movable(r) => cur[r] = k \/ Justified(r, k)
  BY <1>1, <1>2 DEF HandlerOK, Opened, Requests, Typed, TypeOK, Handlers
<1>4. RequestOK(r) /\ StepsOf(r) \subseteq Orders /\ Orders \subseteq Nat /\ 0 \notin Orders
  BY <1>2, <1>3, InvOfRequests, StepsAreOrders DEF InvByRequest, Orders
<1>5. /\ S \in [Orders -> StepStatuses]
      /\ \A j \in Orders : S[j] = IF j = k THEN "SKIPPED" ELSE step[r][j]
  <2>1. step[r] \in [Orders -> StepStatuses]
    BY <1>2, <1>3 DEF Typed, TypeOK
  <2> QED
    BY <1>1, <1>3, <1>4, <2>1 DEF StepStatuses
<1>6. Writes(c, d, r, s, 0, S, rows)
  <2>1. /\ status' = [status EXCEPT ![r] = s]
        /\ cur' = [cur EXCEPT ![r] = 0]
        /\ log' = log \cup rows /\ granted' = granted /\ Become(c, d)
        /\ UNCHANGED <<request, quote, crashes, dropped>>
    BY <1>1 DEF Close
  <2>2. step' = [step EXCEPT ![r] = S]
    BY <1>1, <1>2, <1>3 DEF Close, Typed, TypeOK
  <2>3. \A j \in Orders : /\ step[r][j] # "PENDING" => S[j] # "PENDING"
                         /\ Settled(r, j) => S[j] \notin {"PENDING", "ACTIVE"}
    BY <1>5 DEF Settled
  <2>4. \A q \in Requests \ {r} : ~Moves(call[c], q) /\ ~Moves(d, q)
    BY <1>1, <1>2 DEF Moves
  <2>5. rows \subseteq Rows /\ \A e \in rows : e[1] = r
    BY <1>1, <1>3 DEF Rows
  <2>6. s \in Terminal /\ d.req \in 0..opened
    BY <1>1, <1>2 DEF Terminal, Idle, Typed, TypeOK
  <2> QED
    BY <1>1, <1>2, <1>3, <1>5, <2>1, <2>2, <2>3, <2>4, <2>5, <2>6 DEF Writes
<1>7. /\ step'[r] = S /\ cur'[r] = 0 /\ status'[r] = s
      /\ \A e \in Calls : Moves(call'[e], r) => Moves(call[e], r)
  <2>1. /\ \A e \in Calls : call'[e] = IF e = c THEN d ELSE call[e]
        /\ step'[r] = S /\ cur'[r] = 0 /\ status'[r] = s
    BY <1>6, WriteFrame
  <2> QED
    BY <1>1, <1>2, <1>3, <2>1
<1>8. Movable(r)' => Movable(r) /\ cur[r] = 0
  BY <1>4, <1>7 DEF Movable, RequestOK
<1>9. /\ StepsOf(r)' = StepsOf(r) /\ granted' = granted
      /\ \A j : Justified(r, j) => Justified(r, j)'
      /\ \A j \in StepsOf(r) : Settled(r, j)' <=> Settled(r, j) \/ j = k
  <2>1. \A j \in StepsOf(r) : Settled(r, j)' <=> Settled(r, j) \/ j = k
    BY <1>4, <1>5, <1>7 DEF Settled
  <2>2. granted' = granted
    BY DEF Close
  <2> QED
    BY <1>6, <2>1, <2>2, WriteFrame
<1>10. RequestOK(r)'
  <2>1. \A e, f \in Calls : Moves(call[e], r)' /\ Moves(call[f], r)' => e = f
    BY <1>4, <1>7 DEF RequestOK
  <2>2. \A e \in Calls : Moves(call[e], r)' => \A j \in StepsOf(r) : S[j] # "ACTIVE"
    BY <1>4, <1>5, <1>7 DEF RequestOK
  <2>3. Movable(r)' => \A j \in StepsOf(r) : Settled(r, j)' => Justified(r, j)'
    BY <1>3, <1>4, <1>8, <1>9 DEF RequestOK
  <2>4. \A i, j \in StepsOf(r) : i < j /\ S[j] # "PENDING" => Settled(r, i)'
    BY <1>3, <1>4, <1>5, <1>9 DEF RequestOK
  <2>5. r \in granted' => \A j \in StepsOf(r) : Justified(r, j)'
    BY <1>4, <1>9 DEF RequestOK
  <2> QED
    BY <1>7, <1>9, <2>1, <2>2, <2>3, <2>4, <2>5 DEF RequestOK, Live
<1>11. HandlerOK(d)'
  BY <1>1 DEF Idle, HandlerOK, Working, Activating, Effects, Settling
<1>12. \A e \in Calls \ {c} : call[e].req = r /\ call[e].at \in {"skip"} \cup Activating
           => S[call[e].step] = step[r][call[e].step]
  <2> SUFFICES ASSUME NEW e \in Calls \ {c}, call[e].req = r, call[e].at \in {"skip"} \cup Activating
               PROVE  S[call[e].step] = step[r][call[e].step]
    OBVIOUS
  <2>1. call[e].step \in StepsOf(r) /\ step[r][call[e].step] = "PENDING"
    BY DEF Inv, HandlerOK
  <2>2. call[e].step \in Orders /\ call[e].step # k
    BY <1>3, <1>4, <2>1
  <2> QED
    BY <1>5, <2>2
<1>13. \A j \in StepsOf(r) : Movable(r)' /\ step[r][j] # "PENDING"
           => (Movable(r) /\ cur[r] # j) \/ Justified(r, j)'
  BY <1>4, <1>8
<1>14. \A e \in rows : ~(e[3] \in Users /\ e[4] \in Verdicts)
  BY <1>1 DEF Verdicts
<1> QED
  BY <1>6, <1>10, <1>11, <1>12, <1>13, <1>14, WriteStep

\* A new request starts with its handler moving it and no trace of its own.
LEMMA OpenInv ==
    ASSUME Inv, NEW c \in Calls, Open(c)
    PROVE  Inv'
<1>1. PICK r, d : r = opened + 1 /\ d = [call[c] EXCEPT !.at = "advance", !.req = r, !.pol = AnyPolicy]
  OBVIOUS
<1>2. /\ Typed /\ call[c] \in Handlers /\ HandlerOK(call[c]) /\ call[c].at = "open"
      /\ r \in Requests /\ r \notin Opened /\ Opened' = Opened \cup {r} /\ Opened \subseteq Requests
      /\ opened' = r /\ AnyPolicy \in Policies
  BY <1>1 DEF Inv, Open, At, Typed, TypeOK, Opened, Requests, AnyPolicy
<1>3. /\ policy' = [policy EXCEPT ![r] = call[c].pol]
      /\ by' = [by EXCEPT ![r] = call[c].user]
      /\ status' = [status EXCEPT ![r] = "PENDING"]
      /\ Become(c, d)
      /\ UNCHANGED <<cur, step, log, granted, quote, crashes, dropped>>
  BY <1>1 DEF Open
<1>4. /\ d \in Handlers /\ d.at = "advance" /\ d.req = r /\ d.then = call[c].then
      /\ d.blocked = call[c].blocked
  <2>1. r \in 0..MaxRequests
    BY <1>2 DEF Requests
  <2> QED
    BY <1>1, <1>2, <2>1 DEF Handlers, Working
<1>5. \A e \in Calls : call'[e] = IF e = c THEN d ELSE call[e]
  BY <1>2, <1>3 DEF Typed, Become
<1>6. /\ cur[r] = 0 /\ (\A k \in Orders : step[r][k] = "PENDING")
      /\ \A e \in log : e[1] # r
  BY <1>2 DEF Inv, Fresh
<1>7. Typed'
  <2>1. /\ opened' \in 0..MaxRequests
        /\ status' \in [Requests -> Live \cup Terminal \cup {"NONE"}]
        /\ policy' \in [Requests -> Policies]
        /\ by' \in [Requests -> Users \cup {System}]
        /\ deadline' \in [Requests -> {0, 1}]
    BY <1>2, <1>3 DEF Typed, TypeOK, Live, Open, Handlers, Requests
  <2>2. call' \in [Calls -> Handlers]
    BY <1>2, <1>3, <1>4 DEF Typed, Become
  <2>3. \A q \in Opened' : cur'[q] # 0 => cur'[q] \in StepsOf(q)' /\ status'[q] \in Live
    BY <1>2, <1>3, <1>6 DEF Typed, TypeOK, StepsOf
  <2>4. \A e \in Calls : call'[e].req \in 0..opened'
    <3>1. opened \in Nat /\ opened' = opened + 1 /\ \A e \in Calls : call[e].req \in 0..opened
      BY <1>1, <1>2 DEF Typed, TypeOK
    <3>2. r \in 0..opened'
      BY <1>2, <3>1
    <3> QED
      BY <1>4, <1>5, <3>1, <3>2
  <2>5. granted' \subseteq Opened'
    BY <1>2, <1>3 DEF Typed, TypeOK
  <2> QED
    BY <1>2, <1>3, <2>1, <2>2, <2>3, <2>4, <2>5 DEF Typed, TypeOK
<1>8. \A e \in Calls : ~Moves(call[e], r)
  BY <1>2 DEF Inv, HandlerOK, Moves, Working
<1>9. ASSUME NEW q \in Opened
      PROVE  /\ q # r /\ status'[q] = status[q] /\ StepsOf(q)' = StepsOf(q)
             /\ \A e \in Calls : Moves(call'[e], q) <=> Moves(call[e], q)
             /\ Movable(q)' <=> Movable(q)
             /\ \A k : Settled(q, k)' = Settled(q, k)
             /\ \A k : SelfAssigned(q, k)' = SelfAssigned(q, k)
             /\ \A k : Justified(q, k)' <=> Justified(q, k)
  <2>1. /\ q # r /\ q \in Requests /\ status'[q] = status[q] /\ policy'[q] = policy[q]
        /\ by'[q] = by[q]
    BY <1>2, <1>3 DEF Typed, TypeOK
  <2>2. \A e \in Calls : Moves(call'[e], q) <=> Moves(call[e], q)
    BY <1>2, <1>4, <1>5, <2>1 DEF Moves, Activating, Effects
  <2>3. Movable(q)' <=> Movable(q)
    BY <1>3, <2>2 DEF Movable
  <2> QED
    BY <1>3, <2>1, <2>2, <2>3 DEF Settled, SelfAssigned, Justified, AssigneeOf, EntitledTo, StepsOf
<1>10. \A q \in granted : q \in Opened /\ policy'[q] = policy[q]
  BY <1>2, <1>3 DEF Typed, TypeOK
<1>11. \A e \in Calls : HandlerOK(call[e])'
  <2>1. HandlerOK(d)'
    <3>1. d.then = "gate" => d.blocked = 1
      BY <1>2, <1>4 DEF HandlerOK
    <3> QED
      BY <1>2, <1>4, <3>1 DEF HandlerOK, Working, Activating, Effects, Settling
  <2>2. ASSUME NEW e \in Calls \ {c} PROVE HandlerOK(call[e])'
    <3>1. HandlerOK(call[e]) /\ call'[e] = call[e]
      BY <1>5 DEF Inv
    <3>2. call[e].at \in Working => call[e].req \in Opened
      BY <3>1 DEF HandlerOK
    <3> QED
      BY <1>2, <1>3, <1>9, <1>10, <3>1, <3>2 DEF HandlerOK, Working
  <2> QED
    BY <1>5, <2>1, <2>2
<1>12. ASSUME NEW q \in Opened PROVE RequestOK(q)' /\ LogOK(q)'
  <2>1. RequestOK(q) /\ LogOK(q)
    BY InvOfRequests DEF InvByRequest
  <2> QED
    BY <1>3, <1>9, <2>1 DEF RequestOK, LogOK
<1>13. RequestOK(r)' /\ LogOK(r)'
  <2>1. \A e \in Calls : Moves(call'[e], r) <=> e = c
    BY <1>4, <1>5, <1>8 DEF Moves
  <2>2. StepsOf(r)' \subseteq Orders
    BY <1>2, <1>3 DEF StepsOf, Handlers, Typed, TypeOK
  <2>3. Movable(r)' /\ r \notin granted /\ status'[r] = "PENDING"
    BY <1>2, <1>3, <2>1 DEF Movable, Typed, TypeOK
  <2>4. \A k \in StepsOf(r)' : ~Settled(r, k)' /\ step'[r][k] = "PENDING"
    BY <1>3, <1>6, <2>2 DEF Settled
  <2>5. RequestOK(r)'
    BY <1>3, <1>6, <2>1, <2>3, <2>4 DEF RequestOK
  <2>6. LogOK(r)'
    BY <1>3, <1>6 DEF LogOK
  <2> QED
    BY <2>5, <2>6
<1>14. Fresh'
  BY <1>2, <1>3 DEF Inv, Fresh
<1>15. \A q \in Opened' : RequestOK(q)' /\ LogOK(q)'
  BY <1>2, <1>12, <1>13
<1>16. InvByRequest'
  BY <1>7, <1>11, <1>14, <1>15 DEF InvByRequest
<1> QED
  BY <1>16, InvOfRequests, PTL

-----------------------------------------------------------------------------
LEMMA StepInv == Inv /\ [Next]_vars => Inv'
<1> SUFFICES ASSUME Inv, [Next]_vars PROVE Inv'
  OBVIOUS
<1>1. ASSUME NEW c \in Calls, Start(c) PROVE Inv'
  <2>1. CASE \E u \in Agents, to \in Asked : ChangeStatus(c, u, to)
    BY <2>1, ChangeStatusInv
  <2>2. CASE \E u \in Agents, p \in Direct : CreateRequest(c, u, p)
    BY <2>2, CreateRequestInv
  <2>3. CASE \E u \in Agents, r \in Requests : WithdrawRead(c, u, r)
    BY <2>3, WithdrawReadInv
  <2>4. CASE \E u \in Users, r \in Requests, v \in Verdicts : Decide(c, u, r, v)
    BY <2>4, DecideInv
  <2>5. CASE \E r \in Requests : SweepScan(c, r)
    BY <2>5, SweepScanInv
  <2> QED
    BY <1>1, <2>1, <2>2, <2>3, <2>4, <2>5 DEF Start
<1>2. ASSUME NEW c \in Calls, Step(c) PROVE Inv'
  <2>1. CASE \E p \in Policies : Gate(c, p)
    BY <2>1, GateInv
  <2>2. CASE GateDone(c) \/ WriteQuote(c) \/ Open(c)
    BY <2>2, GateDoneInv, WriteQuoteInv, OpenInv
  <2>3. CASE AdvanceRead(c) \/ Skip(c) \/ Activate(c) \/ Complete(c)
    BY <2>3, AdvanceReadInv, SkipInv, ActivateInv, CompleteInv
  <2>4. CASE EffectsRead(c) \/ Collect(c) \/ Flip(c)
    BY <2>4, EffectsInv
  <2>5. CASE Withdraw(c)
    <3>1. call[c].user \in Users \cup {System} /\ call[c].at \in Settling
      BY <2>5 DEF Withdraw, At, Settling, Inv, Typed, Handlers
    <3> QED
      BY <2>5, <3>1, CloseInv DEF Withdraw
  <2>6. CASE SweepRecheck(c)
    BY <2>6, SweepRecheckInv
  <2>7. CASE Expire(c)
    <3>1. System \in Users \cup {System} /\ call[c].at \in Settling
      BY <2>7 DEF Expire, At, Settling
    <3> QED
      BY <2>7, <3>1, CloseInv DEF Expire
  <2> QED
    BY <1>2, <2>1, <2>2, <2>3, <2>4, <2>5, <2>6, <2>7 DEF Step
<1>3. ASSUME NEW c \in Calls, Crash(c) PROVE Inv'
  BY <1>3, CrashInv
<1>4. CASE UNCHANGED vars
  <2>1. InvByRequest
    BY InvOfRequests
  <2>2. UNCHANGED <<opened, policy, by, deadline, status, cur, step, log, granted, quote, call,
                    crashes, dropped>>
    BY <1>4 DEF vars, request, chain
  <2>3. /\ Opened' = Opened
        /\ \A r : StepsOf(r)' = StepsOf(r) /\ (Movable(r)' <=> Movable(r))
        /\ \A r, k : /\ Settled(r, k)' = Settled(r, k)
                     /\ SelfAssigned(r, k)' = SelfAssigned(r, k)
                     /\ Justified(r, k)' <=> Justified(r, k)
    BY <2>2 DEF Movable, Settled, Justified, SelfAssigned, AssigneeOf, EntitledTo, StepsOf, Opened
  <2>4. Typed' /\ Fresh'
    BY <2>1, <2>2, <2>3 DEF InvByRequest, Typed, TypeOK, Fresh
  <2>5. \A c \in Calls : HandlerOK(call[c])'
    BY <2>1, <2>2, <2>3 DEF InvByRequest, HandlerOK
  <2>6. \A r \in Opened : RequestOK(r)' /\ LogOK(r)'
    BY <2>1, <2>2, <2>3 DEF InvByRequest, RequestOK, LogOK
  <2>7. InvByRequest'
    BY <2>2, <2>3, <2>4, <2>5, <2>6 DEF InvByRequest
  <2> QED
    BY <2>7, InvOfRequests, PTL
<1> QED
  BY <1>1, <1>2, <1>3, <1>4 DEF Next

\* Inv holds in every reachable state.
THEOREM Invariance == Spec => []Inv
<1>1. Init => Inv
  BY InitInv
<1>2. Inv /\ [Next]_vars => Inv'
  BY StepInv
<1> QED
  BY <1>1, <1>2, PTL DEF Spec

\* The variables keep their types, and only a live request has a current step.
THEOREM TypeCorrect == Spec => []TypeOK
<1>1. Inv => TypeOK
  BY DEF Inv, Typed
<1> QED
  BY <1>1, Invariance, PTL

\* Four eyes: a request that was ever APPROVED has the approval of someone else
\* for every step that is not the requester's own, whatever raced or died.
THEOREM FourEyes == Spec => []ApprovedByOthers
<1>1. Inv => ApprovedByOthers
  BY DEF Inv
<1> QED
  BY <1>1, Invariance, PTL

\* Of two approvers who decide a step at the same time one is recorded.
THEOREM OneVerdict == Spec => []OneVerdictPerStep
<1>1. Inv => OneVerdictPerStep
  BY DEF Inv
<1> QED
  BY <1>1, Invariance, PTL

\* No step is put before a human while an earlier one is still to come.
THEOREM InOrder == Spec => []StepsInOrder
<1>1. Inv => StepsInOrder
  BY DEF Inv
<1> QED
  BY <1>1, Invariance, PTL

\* A live request whose handler did not die is being taken further, or waits on an
\* ACTIVE step that someone else than the requester is assigned to.
THEOREM NoLimbo == Spec => []LiveRequestWaits
<1>1. Inv => LiveRequestWaits
  <2> SUFFICES ASSUME Inv, NEW r \in Opened \ dropped, status[r] \in Live,
                      ~\E c \in Calls : Advancing(c, r)
               PROVE  cur[r] # 0 /\ step[r][cur[r]] = "ACTIVE" /\ ~SelfAssigned(r, cur[r])
    BY DEF LiveRequestWaits
  <2>1. Typed /\ r \in Requests
    BY DEF Inv, Typed, TypeOK, Opened, Requests
  <2>2. cur[r] # 0
    BY <2>1, AdvancingMoves DEF Inv, LiveIsMovable, Movable
  <2> QED
    BY <2>2 DEF Inv, CurrentIsActive
<1> QED
  BY <1>1, Invariance, PTL

\* changeStatus writes SENT over DRAFT only when a request of every policy that the
\* quote meets has been granted.
THEOREM GateHolds == Spec => []GateNeedsEveryPolicy
<1>1. Inv => GateNeedsEveryPolicy
  BY DEF Inv, HandlerOK, GateNeedsEveryPolicy, At
<1> QED
  BY <1>1, Invariance, PTL
=============================================================================
