------------------------------ MODULE MCServices ------------------------------
(***************************************************************************)
(* Model checking of the services that keep their state in a few rows, a   *)
(* queue or one process each.  They share no state, so a behaviour is one  *)
(* of any of them: part says of which, and never changes.                  *)
(***************************************************************************)
EXTENDS CircuitBreaker, Sessions, Campaigns, Accounts, OfflineQueue, Billing, Reminders,
        WorkflowRuns, EmailSequences, WebhookSecrets, ProviderCallbacks, Imports, TLC

CONSTANTS x1, x2, x3, s1, s2, s3, t1, p1, p2, k1, u1, u2, u3, e1, e2,
          f1, f2, r1, r2, j1, j2, m1, m2, m3, a1, n1,
          v1, v2, v3, v4, v5, k2, k3, n2, q1, q2, q3

VARIABLE part

\* f1 waits for days before it acts, any other workflow after.
Waits == [w \in Workflows |-> IF w = f1 THEN {0} ELSE {1}]
Target == [e \in Enrollments |-> a1]
\* A call comes in; one that we dial is reported and recorded twice; and a
\* subscription changes, one that u1 bought.
KindOf == (v1 :> "voice") @@ (v2 :> "status") @@ (v3 :> "recording") @@ (v4 :> "recording")
          @@ (v5 :> "stripe")
BoughtBy == v5 :> u1
\* The phone of k2 is written with spaces, k3 has the name of k1 and no phone,
\* and one row has no name.
Names == (k1 :> n1) @@ (k2 :> n2) @@ (k3 :> n1)
PhonesOf == (k1 :> q1) @@ (k2 :> q2) @@ (k3 :> NoPhone)
WithoutSpaces == (q1 :> q1) @@ (q2 :> q3) @@ (q3 :> q3)
Sheet == <<k1, k2, NoKey, k3>>

vars == <<part, breakerVars, sessVars, billVars, campVars, accVars, offlineVars,
                remVars, wfVars, seqVars, secretVars, callbackVars, importVars>>

Init ==
    /\ part \in {"breaker", "sessions", "billing", "campaigns", "accounts", "offline",
                  "reminders", "workflows", "sequences", "secrets", "callbacks",
                  "checkouts", "imports"}
    /\ BreakerInit /\ SessInit /\ BillInit /\ CampInit /\ AccInit /\ OfflineInit
    /\ RemInit /\ WfInit /\ SeqInit /\ SecretInit /\ CallbackInit /\ ImportInit
    \* What was set up before matters to one part only.
    /\ part # "accounts" => role[u1] = "OWNER"
    /\ part # "billing" => invoice.total # 0 /\ ~past
    /\ part # "campaigns" => ~campaign.timed
    /\ part # "callbacks" => routed

\* Calls, or the checkouts of a tenant and the subscriptions they sell.
OnlyCalls == part = "callbacks" /\ UNCHANGED sales
OnlySales == part = "checkouts" /\ dialler' = "idle" /\ v1 \notin posted'

Next ==
    /\ part' = part
    /\ \/ /\ part = "breaker"
          /\ UNCHANGED <<sessVars, billVars, campVars, accVars, offlineVars, remVars,
                         wfVars, seqVars, secretVars, callbackVars, importVars>>
          /\ BreakerNext
       \/ /\ part = "sessions"
          /\ UNCHANGED <<breakerVars, billVars, campVars, accVars, offlineVars,
                         remVars, wfVars, seqVars, secretVars, callbackVars,
                         importVars>>
          /\ SessNext
       \/ /\ part = "billing"
          /\ UNCHANGED <<breakerVars, sessVars, campVars, accVars, offlineVars,
                         remVars, wfVars, seqVars, secretVars, callbackVars,
                         importVars>>
          /\ BillNext
       \/ /\ part = "campaigns"
          /\ UNCHANGED <<breakerVars, sessVars, billVars, accVars, offlineVars,
                         remVars, wfVars, seqVars, secretVars, callbackVars,
                         importVars>>
          /\ CampNext
       \/ /\ part = "accounts"
          /\ UNCHANGED <<breakerVars, sessVars, billVars, campVars, offlineVars,
                         remVars, wfVars, seqVars, secretVars, callbackVars,
                         importVars>>
          /\ AccNext
       \/ /\ part = "offline"
          /\ UNCHANGED <<breakerVars, sessVars, billVars, campVars, accVars, remVars,
                         wfVars, seqVars, secretVars, callbackVars, importVars>>
          /\ OfflineNext
       \/ /\ part = "reminders"
          /\ UNCHANGED <<breakerVars, sessVars, billVars, campVars, accVars,
                         offlineVars, wfVars, seqVars, secretVars, callbackVars,
                         importVars>>
          /\ RemNext
       \/ /\ part = "workflows"
          /\ UNCHANGED <<breakerVars, sessVars, billVars, campVars, accVars,
                         offlineVars, remVars, seqVars, secretVars, callbackVars,
                         importVars>>
          /\ WfNext
       \/ /\ part = "sequences"
          /\ UNCHANGED <<breakerVars, sessVars, billVars, campVars, accVars,
                         offlineVars, remVars, wfVars, secretVars, callbackVars,
                         importVars>>
          /\ SeqNext
       \/ /\ part = "secrets"
          /\ UNCHANGED <<breakerVars, sessVars, billVars, campVars, accVars,
                         offlineVars, remVars, wfVars, seqVars, callbackVars,
                         importVars>>
          /\ SecretNext
       \/ /\ part \in {"callbacks", "checkouts"}
          /\ UNCHANGED <<breakerVars, sessVars, billVars, campVars, accVars,
                         offlineVars, remVars, wfVars, seqVars, secretVars, importVars>>
          /\ CallbackNext
          /\ OnlyCalls \/ OnlySales
       \/ /\ part = "imports"
          /\ UNCHANGED <<breakerVars, sessVars, billVars, campVars, accVars,
                         offlineVars, remVars, wfVars, seqVars, secretVars,
                         callbackVars>>
          /\ ImportNext

Spec == Init /\ [][Next]_vars

\* The slots of all parts are the same values; no definition chooses among
\* them, among the payments or among the addresses.
Symmetry == Permutations(Requests) \cup Permutations(Payments)

(* The type invariant of the service that is running; the others stay as     *)
(* they begin.                                                              *)
TypeOK ==
    CASE part = "breaker" -> BreakerTypeOK
      [] part = "sessions" -> SessTypeOK
      [] part = "billing" -> BillTypeOK
      [] part = "campaigns" -> CampTypeOK
      [] part = "accounts" -> AccTypeOK
      [] part = "offline" -> OfflineTypeOK
      [] part = "reminders" -> RemTypeOK
      [] part = "workflows" -> WfTypeOK
      [] part = "sequences" -> SeqTypeOK
      [] part = "secrets" -> SecretTypeOK
      [] part \in {"callbacks", "checkouts"} -> CallbackTypeOK
      [] part = "imports" -> ImportTypeOK

(* What was closed stays closed - a dismissed or cancelled reminder, a      *)
(* cancelled run, an enrollment that was ended, a cancelled or deleted      *)
(* invoice - unless a request, a tick or a worker had read the row before.  *)
NothingReopened ==
    ClosedStaysClosed /\ CancelledStaysCancelled /\ LeaversStayOut /\ CancelledIsFinal
===============================================================================
