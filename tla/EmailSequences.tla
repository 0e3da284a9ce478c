---------------------------- MODULE EmailSequences ---------------------------
(***************************************************************************)
(* E-mail cadences (apps/api/src/modules/email-sequences) over the mail    *)
(* queue.  Every minute each replica lists the enrollments that are due    *)
(* and advances them one after the other: read the cursor, call            *)
(* sendTransactional, write the cursor.  Nothing keeps two ticks apart and *)
(* the write is by id alone.                                               *)
(***************************************************************************)
EXTENDS EmailDelivery

CONSTANTS
    Enrollments,  \* ids of SequenceEnrollment rows of one sequence
    ToEmail,      \* the address of each
    Tickers,      \* ticks in flight; each is a sender of mail
    MaxSteps,     \* bound on the steps of the sequence
    NoEnrollment

ASSUME SequenceAssumption ==
    /\ Tickers \subseteq Senders
    /\ ToEmail \in [Enrollments -> Addresses]
    /\ MaxSteps \in Nat \ {0}
    /\ NoEnrollment \notin Enrollments

VARIABLES
    cadence,    \* EmailSequence.status
    steps,      \* number of its steps
    enrol,      \* status, currentStep and nextSendAt of each enrollment
    ticker,     \* local state of each tick
    given,      \* history: the steps whose message was queued
    skipped,    \* history: the steps for which sendTransactional answered null
    overlapped, \* history: enrollments two ticks had in hand at once
    unwritten,  \* history: enrollments whose cursor was not written
    twice,      \* history: enrollments that had a step queued again
    hasty,      \* history: enrollments that had a step before it was due
    overwritten \* history: enrollments unenrolled while a tick had them

cadenceVars == <<cadence, steps, enrol, ticker>>
history == <<given, skipped, overlapped, unwritten, twice, hasty, overwritten>>
seqVars == <<mailVars, cadenceVars, history>>

-----------------------------------------------------------------------------
Rest == [at |-> "idle", batch |-> {}, cur |-> NoEnrollment, step |-> 0, last |-> 0]
TickerAt(t, pc) == ticker[t].at = pc
Go(t, d) == ticker' = [ticker EXCEPT ![t] = d]
Drop(t) == Go(t, [ticker[t] EXCEPT !.at = "next", !.batch = @ \ {ticker[t].cur},
                                   !.cur = NoEnrollment, !.step = 0, !.last = 0])
InHand(t, e) == e \in ticker[t].batch \cup {ticker[t].cur}

CadenceInit ==
    /\ cadence = "ACTIVE"
    /\ steps = MaxSteps
    /\ enrol = [e \in Enrollments |-> [status |-> "NONE", step |-> 0, due |-> "null"]]
    /\ ticker = [t \in Tickers |-> Rest]
    /\ given = [e \in Enrollments |-> {}]
    /\ skipped = [e \in Enrollments |-> {}]
    /\ overlapped = {}
    /\ unwritten = {}
    /\ twice = {}
    /\ hasty = {}
    /\ overwritten = {}

SeqInit == MailInit /\ CadenceInit

-----------------------------------------------------------------------------
(* Users.                                                                   *)

Enroll(e) ==
    /\ cadence = "ACTIVE"
    /\ enrol[e].status = "NONE"
    /\ \E d \in {"now", "later"} :
          enrol' = [enrol EXCEPT ![e] = [status |-> "ACTIVE", step |-> 0, due |-> d]]
    /\ UNCHANGED <<mailVars, cadence, steps, ticker, history>>

Unenroll(e) ==
    /\ enrol[e].status \in {"ACTIVE", "COMPLETED"}
    /\ enrol' = [enrol EXCEPT ![e].status = "UNSUBSCRIBED"]
    /\ overwritten' = IF \E t \in Tickers : ticker[t].cur = e THEN overwritten \cup {e}
                      ELSE overwritten
    /\ UNCHANGED <<mailVars, cadence, steps, ticker,
                   given, skipped, overlapped, unwritten, twice, hasty>>

\* update replaces the steps; activate, pause and archive set the status, and
\* the ticks look at neither.
Configure ==
    /\ \/ \E n \in 1..MaxSteps : steps' = n /\ UNCHANGED cadence
       \/ cadence' \in {"ACTIVE", "PAUSED", "ARCHIVED"} /\ cadence # "ARCHIVED" /\ UNCHANGED steps
    /\ edits < MaxEdits
    /\ edits' = edits + 1
    /\ UNCHANGED <<mailRows, entry, account, sender, mailer, troubles,
                   enrol, ticker, history>>

DelayPasses(e) ==
    /\ enrol[e].due = "later"
    /\ enrol' = [enrol EXCEPT ![e].due = "now"]
    /\ UNCHANGED <<mailVars, cadence, steps, ticker, history>>

-----------------------------------------------------------------------------
(* One tick.                                                                *)

\* Faulty: nextSendAt is not compared.
DueAny == {e \in Enrollments : enrol[e].status = "ACTIVE" /\ enrol[e].due # "null"}

Due == {e \in Enrollments : enrol[e].status = "ACTIVE" /\ enrol[e].due = "now"}

Tick(t) ==
    /\ TickerAt(t, "idle")
    /\ Due # {}
    /\ Go(t, [Rest EXCEPT !.at = "next", !.batch = Due])
    /\ overlapped' = overlapped \cup
          {e \in Due : \E u \in Tickers : u # t /\ InHand(u, e)}
    /\ UNCHANGED <<mailVars, cadence, steps, enrol,
                   given, skipped, unwritten, twice, hasty, overwritten>>

\* advanceOne reads ACTIVE enrollments only, but not nextSendAt again.
NotActive(e) == enrol[e].status # "ACTIVE"

SkipEnrollment(t) ==
    /\ TickerAt(t, "next")
    /\ \E e \in ticker[t].batch :
          /\ NotActive(e)
          /\ Go(t, [ticker[t] EXCEPT !.batch = @ \ {e}])
    /\ UNCHANGED <<mailVars, cadence, steps, enrol, history>>

\* Out of steps: the same transaction completes the enrollment.
CompleteEnrollment(t) ==
    /\ TickerAt(t, "next")
    /\ \E e \in ticker[t].batch :
          /\ ~NotActive(e)
          /\ enrol[e].step >= steps
          /\ enrol' = [enrol EXCEPT ![e].status = "COMPLETED", ![e].due = "null"]
          /\ Go(t, [ticker[t] EXCEPT !.batch = @ \ {e}])
    /\ UNCHANGED <<mailVars, cadence, steps, history>>

AdvanceOne(t) ==
    /\ TickerAt(t, "next")
    /\ \E e \in ticker[t].batch :
          /\ ~NotActive(e)
          /\ enrol[e].step < steps
          /\ SendTransactional(t, ToEmail[e])
          /\ Go(t, [ticker[t] EXCEPT !.at = "send", !.cur = e,
                                     !.step = enrol[e].step, !.last = steps])
          /\ hasty' = IF enrol[e].due = "later" THEN hasty \cup {e} ELSE hasty
    /\ UNCHANGED <<cadence, steps, enrol, given, skipped, overlapped, unwritten, twice, overwritten>>

EndTick(t) ==
    /\ TickerAt(t, "next")
    /\ ticker[t].batch = {}
    /\ Go(t, Rest)
    /\ UNCHANGED <<mailVars, cadence, steps, enrol, history>>

\* sendTransactional returned; advanceOne does not look at what.
Returned(t) ==
    /\ TickerAt(t, "send")
    /\ sender[t].at \in {"sent", "null"}
    /\ LET e == ticker[t].cur
           i == ticker[t].step
           ok == sender[t].at = "sent" IN
          /\ twice' = IF ok /\ i \in given[e] THEN twice \cup {e} ELSE twice
          /\ given' = IF ok THEN [given EXCEPT ![e] = @ \cup {i}] ELSE given
          /\ skipped' = IF ok THEN skipped ELSE [skipped EXCEPT ![e] = @ \cup {i}]
    /\ Become(t, Free)
    /\ Go(t, [ticker[t] EXCEPT !.at = "cursor"])
    /\ UNCHANGED <<mailRows, list, mailer, troubles,
                   cadence, steps, enrol, overlapped, unwritten, hasty, overwritten>>

\* It threw: the transaction is rolled back and the enrollment stays due.
Threw(t) ==
    /\ TickerAt(t, "send")
    /\ sender[t].at = "threw"
    /\ Become(t, Free)
    /\ Drop(t)
    /\ UNCHANGED <<mailRows, list, mailer, troubles,
                   cadence, steps, enrol, history>>

\* Faulty: the cursor moves two steps at a time.
CursorPastTwo(e, t) ==
    [status |-> IF ticker[t].step + 1 >= ticker[t].last THEN "COMPLETED" ELSE "ACTIVE",
     step |-> ticker[t].step + 2,
     due |-> IF ticker[t].step + 1 >= ticker[t].last THEN "null" ELSE "later"]

\* What the last update of advanceOne writes.
Advanced(e, t) ==
    [status |-> IF ticker[t].step + 1 >= ticker[t].last THEN "COMPLETED" ELSE "ACTIVE",
     step |-> ticker[t].step + 1,
     due |-> IF ticker[t].step + 1 >= ticker[t].last THEN "null" ELSE "later"]

WriteCursor(t) ==
    /\ TickerAt(t, "cursor")
    /\ LET e == ticker[t].cur IN enrol' = [enrol EXCEPT ![e] = Advanced(e, t)]
    /\ Drop(t)
    /\ UNCHANGED <<mailVars, cadence, steps, history>>

\* The message is committed, the transaction around it is not.
CursorFails(t) ==
    /\ TickerAt(t, "cursor")
    /\ Trouble
    /\ unwritten' = unwritten \cup {ticker[t].cur}
    /\ Drop(t)
    /\ UNCHANGED <<mailRows, list, sender, mailer, cadence, steps, enrol,
                   given, skipped, overlapped, twice, hasty, overwritten>>

-----------------------------------------------------------------------------
MailMoves == MailNext /\ UNCHANGED <<cadenceVars, history>>

UserSends ==
    /\ \E s \in Senders \ Tickers, R \in SUBSET Addresses : R # {} /\ Send(s, R)
    /\ UNCHANGED <<cadenceVars, history>>

SeqNext ==
    \/ MailMoves
    \/ UserSends
    \/ Configure
    \/ \E e \in Enrollments : Enroll(e) \/ Unenroll(e) \/ DelayPasses(e)
    \/ \E t \in Tickers :
          \/ Tick(t) \/ SkipEnrollment(t) \/ CompleteEnrollment(t) \/ AdvanceOne(t)
          \/ EndTick(t) \/ Returned(t) \/ Threw(t) \/ WriteCursor(t) \/ CursorFails(t)

SeqSpec == SeqInit /\ [][SeqNext]_seqVars /\ MailFairness

-----------------------------------------------------------------------------
SeqTypeOK ==
    /\ MailTypeOK
    /\ cadence \in {"ACTIVE", "PAUSED", "ARCHIVED"}
    /\ steps \in 1..MaxSteps
    /\ enrol \in [Enrollments -> [status : {"NONE", "ACTIVE", "COMPLETED", "UNSUBSCRIBED"},
                                  step : 0..MaxSteps, due : {"null", "later", "now"}]]
    /\ \A t \in Tickers : TickerAt(t, "idle") => ticker[t] = Rest

(* The cursor passes a step only after its message was queued or            *)
(* sendTransactional answered null: an error leaves the enrollment due      *)
(* (email-sequences.scheduler.ts:89-92), and ticks that overlap or die      *)
(* before the cursor is written only repeat steps.  What null costs is said *)
(* by NullIsTriedAgain.                                                     *)
StepsAccounted ==
    \A e \in Enrollments : 0..(enrol[e].step - 1) \subseteq given[e] \cup skipped[e]

(* "Schedulers reading the result already treat null as 'skip and try again *)
(* later'" (email.service.ts:335-337): the cursor stays at a step that was  *)
(* answered null until its message is queued.                               *)
NullIsTriedAgain ==
    \A e \in Enrollments : \A i \in skipped[e] : enrol[e].step <= i \/ i \in given[e]

(* "A single enrollment advances at most one step per tick"                 *)
(* (email-sequences.scheduler.ts:19).  A step is queued twice, or before    *)
(* its delay has passed, only where two ticks had the enrollment at once or *)
(* the cursor could not be written after the message was.                   *)
RepeatedOrEarlyOnlyIfDisturbed ==
    /\ twice \subseteq overlapped \cup unwritten
    /\ hasty \subseteq overlapped

(* Who leaves a sequence does not come back into it, unless a tick had read *)
(* the enrollment before and writes it back afterwards.                     *)
LeaversStayOut ==
    [][\A e \in Enrollments :
          enrol[e].status = "UNSUBSCRIBED" /\ enrol'[e].status # "UNSUBSCRIBED"
             => e \in overwritten]_seqVars
=============================================================================
