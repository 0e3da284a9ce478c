----------------------------- MODULE MCAutomation -----------------------------
(***************************************************************************)
(* Model checking of what runs behind the queues: the outbox poller, the   *)
(* e-mail worker, the reminders and the workflow runs.  They share no      *)
(* state, so a behaviour is one of any of them: part says of which, and    *)
(* never changes.  The poller is there twice: with two rows and one        *)
(* replica, and with one row and two replicas whose drains overlap.        *)
(***************************************************************************)
EXTENDS OutboxPoller, EmailDelivery, Reminders, WorkflowRuns, TLC

CONSTANTS e1, e2, p1, t1, t2, m1, a1, c1, c2, w1, w2, f1, r1, r2, j1, j2, x1, x3

VARIABLE part

\* Each row has a tenant of its own; only the first has an endpoint.
TwoTenants == (e1 :> t1) @@ (e2 :> t2) @@ (p1 :> t1)
\* A workflow waits for days and then acts.
Waits == [w \in Workflows |-> {0}]

OneReplica == part = "outbox" /\ drain'[w2] = drain[w2]
OneRow == part = "replicas" /\ status'[e2] = "NONE" /\ t2 \in live'

automationVars == <<part, vars, mailVars, remVars, wfVars>>

AutomationInit ==
    /\ part \in {"outbox", "replicas", "delivery", "reminders", "workflows"}
    /\ Init /\ MailInit /\ RemInit /\ WfInit
    \* What an administrator had switched on matters to the poller only.
    /\ part \notin {"outbox", "replicas"} => matching = {}

AutomationNext ==
    /\ part' = part
    /\ \/ /\ Next /\ (OneReplica \/ OneRow)
          /\ UNCHANGED <<mailVars, remVars, wfVars>>
       \/ /\ part = "delivery"
          /\ MailNext \/ \E s \in Senders : MailRequest(s)
          /\ UNCHANGED <<vars, remVars, wfVars>>
       \/ /\ part = "reminders" /\ RemNext
          /\ UNCHANGED <<vars, mailVars, wfVars>>
       \/ /\ part = "workflows" /\ WfNext
          /\ UNCHANGED <<vars, mailVars, remVars>>

\* The fairness of each module, asked of the behaviours of its own part: there
\* it says the same, and elsewhere nothing.
AutomationFairness ==
    /\ WF_vars(Tick /\ (OneReplica \/ OneRow))
    /\ \A w \in Workers : WF_vars(DrainStep(w) /\ (OneReplica \/ OneRow))
    /\ \A s \in Senders : WF_mailVars(part = "delivery" /\ SendStep(s))
    /\ \A w \in Mailers : WF_mailVars(part = "delivery" /\ MailerStep(w))
    /\ \A m \in Messages :
          WF_mailVars(part = "delivery" /\ Holders(m) = {} /\ LockExpires(m))
    /\ \A c \in Clients : WF_remVars(part = "reminders" /\ HandlerStep(c))
    /\ WF_remVars(part = "reminders" /\ ProcessorStep)
    /\ WF_remVars(part = "reminders" /\ TimePasses)
    /\ \A x \in Executors : WF_wfVars(part = "workflows" /\ ExecStep(x))
    /\ \A j \in ResumeJobs :
          WF_wfVars(part = "workflows" /\ WorkersOn(j) = {} /\ ResumeStalls(j))

AutomationSpec == AutomationInit /\ [][AutomationNext]_automationVars /\ AutomationFairness
===============================================================================
