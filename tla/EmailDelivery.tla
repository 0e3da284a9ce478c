---------------------------- MODULE EmailDelivery ----------------------------
(***************************************************************************)
(* Outgoing e-mail (apps/api/src/modules/email, email-suppression and the  *)
(* unsubscribe and bounce handlers of email-tracking).                     *)
(*                                                                         *)
(* A sender filters the recipients against the suppression list, creates a *)
(* QUEUED row and adds a job named after it; a worker loads the row, sends *)
(* it by SMTP and writes what became of it.  send() adds the job after its *)
(* transaction, sendTransactional() from inside it.  Jobs are added        *)
(* without options: one attempt; maxStalledCount allows one redelivery.    *)
(***************************************************************************)
EXTENDS Naturals, FiniteSets

CONSTANTS
    Messages,     \* ids of EmailMessage rows
    Addresses,
    Senders,      \* slots for calls of send and sendTransactional
    Mailers,      \* executions of the worker
    MaxTroubles,  \* bound on crashes, stalls and failing calls
    MaxEdits,     \* bound on what administrators and recipients do
    NoMessage

ASSUME MailAssumption == NoMessage \notin Messages

VARIABLES
    mail,       \* EmailMessage.status, NONE: no committed row
    rcpt,       \* the addresses of the row
    mailJob,    \* the BullMQ job of the message
    sender,     \* local state of each call in flight
    mailer,     \* local state of each execution
    entry,      \* the EmailSuppression row of each address
    account,    \* whether the tenant has a live e-mail account
    troubles,   \* number of crashes, stalls and failing calls
    edits,      \* number of edits made
    smtp,       \* history: how often SMTP accepted the message
    stalled,    \* history: jobs that were handed out a second time
    early,      \* history: those of them not yet marked SENDING
    excused     \* history: messages that may stay unsettled, see below

mailRows == <<mail, rcpt, mailJob, smtp, stalled, early, excused>>
list == <<entry, account, edits>>
mailVars == <<mailRows, list, sender, mailer, troubles>>

-----------------------------------------------------------------------------
Free == [at |-> "idle", msg |-> NoMessage, todo |-> {}, keep |-> {}, steady |-> {}]
MailerFree == [at |-> "idle", msg |-> NoMessage, own |-> FALSE]

SenderAt(s, pc) == sender[s].at = pc
MailerAt(w, pc) == mailer[w].at = pc
Become(s, d) == sender' = [sender EXCEPT ![s] = d]
MailerTo(w, d) == mailer' = [mailer EXCEPT ![w] = d]

\* isSuppressed: an entry counts until its expiresAt has passed.
Suppressed == {a \in Addresses : entry[a] \in {"kept", "dated"}}

\* Addresses suppressed since the call began.
StillSteady(A) == sender' = [s \in Senders |-> [sender[s] EXCEPT !.steady = @ \cap A]]

\* Ids without row, job or transaction.
Fresh == {m \in Messages : mail[m] = "NONE" /\ mailJob[m] = "none"
                           /\ \A s \in Senders : sender[s].msg # m}

\* Ids are random; which unused one is taken makes no difference.
NewId == CHOOSE m \in Fresh : TRUE

Trouble == troubles < MaxTroubles /\ troubles' = troubles + 1

MailInit ==
    /\ mail = [m \in Messages |-> "NONE"]
    /\ rcpt = [m \in Messages |-> {}]
    /\ mailJob = [m \in Messages |-> "none"]
    /\ sender = [s \in Senders |-> Free]
    /\ mailer = [w \in Mailers |-> MailerFree]
    /\ entry = [a \in Addresses |-> "none"]
    /\ account = TRUE
    /\ troubles = 0
    /\ edits = 0
    /\ smtp = [m \in Messages |-> 0]
    /\ stalled = {}
    /\ early = {}
    /\ excused = {}

-----------------------------------------------------------------------------
(* send: recipients R are looked up one by one, then the row, then the job. *)

Send(s, R) ==
    /\ SenderAt(s, "idle")
    /\ account
    /\ Become(s, [Free EXCEPT !.at = "filter", !.todo = R, !.steady = R \cap Suppressed])
    /\ UNCHANGED <<mailRows, list, mailer, troubles>>

\* Faulty: the check runs, but the row keeps the raw arrays.
FilterTheatre(s) ==
    /\ SenderAt(s, "filter")
    /\ \E a \in sender[s].todo :
          /\ Become(s, [sender[s] EXCEPT !.todo = @ \ {a}, !.keep = @ \cup {a}])
    /\ UNCHANGED <<mailRows, list, mailer, troubles>>

\* filterSuppressedRecipients.
Filter(s) ==
    /\ SenderAt(s, "filter")
    /\ \E a \in sender[s].todo :
          /\ Become(s, [sender[s] EXCEPT !.todo = @ \ {a}, !.keep = @ \cup ({a} \ Suppressed)])
    /\ UNCHANGED <<mailRows, list, mailer, troubles>>

\* The row is QUEUED, or FAILED when every recipient is suppressed.
InsertMessage(s) ==
    /\ SenderAt(s, "filter")
    /\ sender[s].todo = {}
    /\ Fresh # {}
    /\ LET m == NewId IN
          /\ mail' = [mail EXCEPT ![m] = IF sender[s].keep = {} THEN "FAILED" ELSE "QUEUED"]
          /\ rcpt' = [rcpt EXCEPT ![m] = sender[s].keep]
          /\ Become(s, IF sender[s].keep = {} THEN Free
                       ELSE [sender[s] EXCEPT !.at = "enqueue", !.msg = m])
    /\ UNCHANGED <<mailJob, smtp, stalled, early, excused, list, mailer, troubles>>

EnqueueMessage(s) ==
    /\ SenderAt(s, "enqueue")
    /\ mailJob' = [mailJob EXCEPT ![sender[s].msg] = "waiting"]
    /\ Become(s, Free)
    /\ UNCHANGED <<mail, rcpt, smtp, stalled, early, excused, list, mailer, troubles>>

\* The process dies, or Redis refuses: nothing will ever look at the row.
EnqueueFails(s) ==
    /\ SenderAt(s, "enqueue")
    /\ Trouble
    /\ excused' = excused \cup {sender[s].msg}
    /\ Become(s, Free)
    /\ UNCHANGED <<mail, rcpt, mailJob, smtp, stalled, early, list, mailer>>

-----------------------------------------------------------------------------
(* sendTransactional: the caller finds the outcome in sender[s].at.         *)

SendTransactional(s, a) ==
    /\ SenderAt(s, "idle")
    /\ Become(s, [Free EXCEPT !.at = "check", !.todo = {a}, !.steady = {a} \cap Suppressed])
    /\ UNCHANGED <<mailRows, list, mailer, troubles>>

CheckSuppression(s) ==
    /\ SenderAt(s, "check")
    /\ LET hit == sender[s].todo \subseteq Suppressed IN
          /\ Become(s, IF hit THEN [Free EXCEPT !.at = "null"]
                       ELSE [sender[s] EXCEPT !.at = "tx", !.keep = sender[s].todo])
    /\ UNCHANGED <<mailRows, list, mailer, troubles>>

\* The insert, not committed yet; null without an account.
InsertInTx(s) ==
    /\ SenderAt(s, "tx")
    /\ \/ ~account /\ Become(s, [Free EXCEPT !.at = "null"])
       \/ account /\ Fresh # {} /\ Become(s, [sender[s] EXCEPT !.at = "addJob", !.msg = NewId])
    /\ UNCHANGED <<mailRows, list, mailer, troubles>>

AddJobInTx(s) ==
    /\ SenderAt(s, "addJob")
    /\ mailJob' = [mailJob EXCEPT ![sender[s].msg] = "waiting"]
    /\ Become(s, [sender[s] EXCEPT !.at = "commit"])
    /\ UNCHANGED <<mail, rcpt, smtp, stalled, early, excused, list, mailer, troubles>>

\* If the worker has looked already, it found no row and dropped the job.
CommitTx(s) ==
    /\ SenderAt(s, "commit")
    /\ LET m == sender[s].msg IN
          /\ mail' = [mail EXCEPT ![m] = "QUEUED"]
          /\ rcpt' = [rcpt EXCEPT ![m] = sender[s].keep]
          /\ excused' = IF mailJob[m] = "done" THEN excused \cup {m} ELSE excused
    /\ Become(s, [sender[s] EXCEPT !.at = "sent", !.msg = NoMessage])
    /\ UNCHANGED <<mailJob, smtp, stalled, early, list, mailer, troubles>>

\* Redis refuses the job, or the commit fails: the row is rolled back.
TxThrows(s) ==
    /\ sender[s].at \in {"addJob", "commit"}
    /\ Trouble
    /\ Become(s, [Free EXCEPT !.at = "threw"])
    /\ UNCHANGED <<mailRows, list, mailer>>

-----------------------------------------------------------------------------
(* The worker (EmailProcessor).                                             *)

TakeMail(w, m) ==
    /\ MailerAt(w, "idle")
    /\ mailJob[m] = "waiting"
    /\ mailJob' = [mailJob EXCEPT ![m] = "active"]
    /\ MailerTo(w, [at |-> "load", msg |-> m, own |-> TRUE])
    /\ UNCHANGED <<mail, rcpt, smtp, stalled, early, excused, list, sender, troubles>>

\* An execution ends; the job with it, unless it lost its lock.
FinishJob(w) ==
    /\ MailerTo(w, MailerFree)
    /\ mailJob' = IF mailer[w].own THEN [mailJob EXCEPT ![mailer[w].msg] = "done"] ELSE mailJob

\* Faulty: the status of the row is not looked at.
LoadAnyStatus(w) ==
    /\ MailerAt(w, "load")
    /\ IF mail[mailer[w].msg] # "NONE"
       THEN MailerTo(w, [mailer[w] EXCEPT !.at = "account"]) /\ UNCHANGED mailJob
       ELSE FinishJob(w)
    /\ UNCHANGED <<mail, rcpt, smtp, stalled, early, excused, list, sender, troubles>>

\* A missing row is dropped, and any status but QUEUED is skipped.
LoadMail(w) ==
    /\ MailerAt(w, "load")
    /\ IF mail[mailer[w].msg] = "QUEUED"
       THEN MailerTo(w, [mailer[w] EXCEPT !.at = "account"]) /\ UNCHANGED mailJob
       ELSE FinishJob(w)
    /\ UNCHANGED <<mail, rcpt, smtp, stalled, early, excused, list, sender, troubles>>

\* Without an account the row FAILS.
LoadAccount(w) ==
    /\ MailerAt(w, "account")
    /\ IF account
       THEN MailerTo(w, [mailer[w] EXCEPT !.at = "mark"]) /\ UNCHANGED <<mail, mailJob>>
       ELSE FinishJob(w) /\ mail' = [mail EXCEPT ![mailer[w].msg] = "FAILED"]
    /\ UNCHANGED <<rcpt, smtp, stalled, early, excused, list, sender, troubles>>

MarkSending(w) ==
    /\ MailerAt(w, "mark")
    /\ mail' = [mail EXCEPT ![mailer[w].msg] = "SENDING"]
    /\ MailerTo(w, [mailer[w] EXCEPT !.at = "smtp"])
    /\ UNCHANGED <<rcpt, mailJob, smtp, stalled, early, excused, list, sender, troubles>>

SmtpAccepts(w) ==
    /\ MailerAt(w, "smtp")
    /\ smtp' = [smtp EXCEPT ![mailer[w].msg] = @ + 1]
    /\ MailerTo(w, [mailer[w] EXCEPT !.at = "record"])
    /\ UNCHANGED <<mail, rcpt, mailJob, stalled, early, excused, list, sender, troubles>>

SmtpRejects(w) ==
    /\ MailerAt(w, "smtp")
    /\ MailerTo(w, [mailer[w] EXCEPT !.at = "fail"])
    /\ UNCHANGED <<mailRows, list, sender, troubles>>

RecordSent(w) ==
    /\ MailerAt(w, "record")
    /\ mail' = [mail EXCEPT ![mailer[w].msg] = "SENT"]
    /\ FinishJob(w)
    /\ UNCHANGED <<rcpt, smtp, stalled, early, excused, list, sender, troubles>>

\* The update throws: it is handled like a refusal by SMTP.
RecordFails(w) ==
    /\ MailerAt(w, "record")
    /\ Trouble
    /\ MailerTo(w, [mailer[w] EXCEPT !.at = "fail"])
    /\ UNCHANGED <<mailRows, list, sender>>

\* Faulty: the error is only thrown again.
RethrowOnly(w) ==
    /\ MailerAt(w, "fail")
    /\ FinishJob(w)
    /\ UNCHANGED <<mail, rcpt, smtp, stalled, early, excused, list, sender, troubles>>

\* markFailed and rethrow; the job had one attempt.
FailMail(w) ==
    /\ MailerAt(w, "fail")
    /\ mail' = [mail EXCEPT ![mailer[w].msg] = "FAILED"]
    /\ FinishJob(w)
    /\ UNCHANGED <<rcpt, smtp, stalled, early, excused, list, sender, troubles>>

\* A query outside the try throws: the job is over and the row stays as it is.
QueryThrows(w) ==
    /\ mailer[w].at \in {"load", "account", "mark", "fail"}
    /\ Trouble
    /\ excused' = excused \cup {mailer[w].msg}
    /\ FinishJob(w)
    /\ UNCHANGED <<mail, rcpt, smtp, stalled, early, list, sender>>

\* The process dies.  A row left SENDING is skipped by every redelivery, and
\* a job that was redelivered once is not redelivered again.
MailerCrash(w) ==
    /\ ~MailerAt(w, "idle")
    /\ Trouble
    /\ LET m == mailer[w].msg IN
          excused' = IF mail[m] = "SENDING" \/ m \in stalled THEN excused \cup {m} ELSE excused
    /\ MailerTo(w, MailerFree)
    /\ UNCHANGED <<mail, rcpt, mailJob, smtp, stalled, early, list, sender>>

Holders(m) == {w \in Mailers : mailer[w].own /\ mailer[w].msg = m}

\* The lock of an active job expired: waiting again, or failed the second
\* time.  An execution that only paused goes on without the lock.
LockExpires(m) ==
    /\ mailJob[m] = "active"
    /\ IF Holders(m) = {} THEN UNCHANGED troubles ELSE Trouble
    /\ early' = IF Holders(m) # {} /\ mail[m] \in {"NONE", "QUEUED"} THEN early \cup {m}
                ELSE early
    /\ mailer' = [w \in Mailers |-> IF w \in Holders(m) THEN [mailer[w] EXCEPT !.own = FALSE]
                                    ELSE mailer[w]]
    /\ mailJob' = [mailJob EXCEPT ![m] = IF m \in stalled THEN "done" ELSE "waiting"]
    /\ stalled' = stalled \cup {m}
    /\ UNCHANGED <<mail, rcpt, smtp, excused, list, sender>>

-----------------------------------------------------------------------------
(* The suppression list and the account.                                    *)

Edit == edits < MaxEdits /\ edits' = edits + 1

\* The admin's upsert replaces the expiry; "dated" has one.
AdminSuppress(a, kind) ==
    /\ Edit
    /\ entry' = [entry EXCEPT ![a] = kind]
    /\ UNCHANGED <<mailRows, account, sender, mailer, troubles>>

AdminRemove(a) ==
    /\ Edit
    /\ entry[a] # "none"
    /\ entry' = [entry EXCEPT ![a] = "none"]
    /\ StillSteady(Addresses \ {a})
    /\ UNCHANGED <<mailRows, account, mailer, troubles>>

EntryLapses(a) ==
    /\ entry[a] = "dated"
    /\ entry' = [entry EXCEPT ![a] = "lapsed"]
    /\ StillSteady(Addresses \ {a})
    /\ UNCHANGED <<mailRows, account, edits, mailer, troubles>>

\* recordUnsubscribe and recordBounce: addSystem leaves the reason and the
\* expiry of an existing entry alone.
AddSystem(a) ==
    /\ Edit
    /\ entry' = [entry EXCEPT ![a] = IF @ = "none" THEN "kept" ELSE @]
    /\ UNCHANGED <<mailRows, account, sender, mailer, troubles>>

RemoveAccount ==
    /\ Edit
    /\ account
    /\ account' = FALSE
    /\ UNCHANGED <<mailRows, entry, sender, mailer, troubles>>

-----------------------------------------------------------------------------
SendStep(s) ==
    \/ Filter(s) \/ InsertMessage(s) \/ EnqueueMessage(s)
    \/ CheckSuppression(s) \/ InsertInTx(s) \/ AddJobInTx(s) \/ CommitTx(s)

MailerStep(w) ==
    \/ \E m \in Messages : TakeMail(w, m)
    \/ LoadMail(w) \/ LoadAccount(w) \/ MarkSending(w)
    \/ SmtpAccepts(w) \/ SmtpRejects(w) \/ RecordSent(w) \/ FailMail(w)

MailNext ==
    \/ \E s \in Senders : SendStep(s) \/ EnqueueFails(s) \/ TxThrows(s)
    \/ \E w \in Mailers : MailerStep(w) \/ RecordFails(w) \/ QueryThrows(w) \/ MailerCrash(w)
    \/ \E m \in Messages : LockExpires(m)
    \/ \E a \in Addresses :
          \/ \E kind \in {"kept", "dated"} : AdminSuppress(a, kind)
          \/ AdminRemove(a) \/ EntryLapses(a) \/ AddSystem(a)
    \/ RemoveAccount

\* The callers of send and sendTransactional, and what they do with the result.
MailRequest(s) ==
    \/ \E T \in SUBSET Addresses : T # {} /\ Send(s, T)
    \/ \E a \in Addresses : SendTransactional(s, a)
    \/ /\ sender[s].at \in {"null", "sent", "threw"}
       /\ Become(s, Free)
       /\ UNCHANGED <<mailRows, list, mailer, troubles>>

\* Running processes go on, and BullMQ finds the jobs of dead ones.
MailFairness ==
    /\ \A s \in Senders : WF_mailVars(SendStep(s))
    /\ \A w \in Mailers : WF_mailVars(MailerStep(w))
    /\ \A m \in Messages : WF_mailVars(Holders(m) = {} /\ LockExpires(m))

MailSpec ==
    /\ MailInit /\ [][MailNext \/ \E s \in Senders : MailRequest(s)]_mailVars
    /\ MailFairness

-----------------------------------------------------------------------------
MailTypeOK ==
    /\ mail \in [Messages -> {"NONE", "QUEUED", "SENDING", "SENT", "FAILED"}]
    /\ rcpt \in [Messages -> SUBSET Addresses]
    /\ mailJob \in [Messages -> {"none", "waiting", "active", "done"}]
    /\ entry \in [Addresses -> {"none", "kept", "dated", "lapsed"}]
    /\ smtp \in [Messages -> Nat]
    /\ \A s \in Senders : sender[s].msg \in Messages \cup {NoMessage}
    /\ \A w \in Mailers : MailerAt(w, "idle") <=> mailer[w].msg = NoMessage
    /\ early \subseteq stalled

Settled(m) == mail[m] \in {"SENT", "FAILED"}

(* The processor promises a row that ends SENT or FAILED.  It keeps the     *)
(* promise unless the process died or Redis failed after the row was        *)
(* committed, a worker died while the row was SENDING, a query failed that  *)
(* nobody catches, or the worker looked for the row before sendTransactional*)
(* committed it.                                                            *)
MessageSettles ==
    \A m \in Messages : mail[m] \in {"QUEUED", "SENDING"} ~> Settled(m) \/ m \in excused

(* A recipient gets a message twice only when the execution that holds it   *)
(* lost its lock before it marked the row SENDING: after a crash anywhere,  *)
(* or a stall later on, the status keeps the redelivery from sending again. *)
SentTwiceOnlyIfStalledEarly == \A m \in Messages : smtp[m] > 1 => m \in early

(* An address that is on the list from the beginning of a call to its end   *)
(* is not among the recipients the call stores.                             *)
SteadyEntryRespected ==
    [][\A s \in Senders, m \in Messages :
          mail[m] = "NONE" /\ mail'[m] = "QUEUED" /\ sender'[s] # sender[s]
             => rcpt'[m] \cap sender[s].steady = {}]_mailVars
==============================================================================
