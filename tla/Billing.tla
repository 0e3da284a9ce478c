------------------------------- MODULE Billing --------------------------------
(***************************************************************************)
(* One invoice, its payments and its PDF (apps/api/src/modules/invoices    *)
(* and payments).  Every handler reads in one transaction and writes in    *)
(* another, by id; a payment recomputes the status afterwards from what it *)
(* reads then.  The hourly sweep is a single UPDATE.                       *)
(***************************************************************************)
EXTENDS Integers, FiniteSets

CONSTANTS
    Payments,     \* ids of Payment rows; each pays an amount of 1
    Totals,       \* what lines may sum up to: a price may be 0 or negative
    Clerks,       \* slots for requests in flight
    MaxOutages,   \* bound on requests that die between two transactions
    NoPayment,
    NoPaper

ASSUME BillAssumption == Totals \subseteq Int /\ IsFiniteSet(Payments)

VARIABLES
    invoice,    \* status, total, deletedAt and pdfStorageKey of the row
    paper,      \* the total printed in the stored object, or NoPaper
    payment,    \* none, live or deleted
    past,       \* whether the due date has passed
    clerk,      \* local state of each request
    outages,
    overtaken,  \* history: since the last recompute nobody overtook, a write
                \* followed from a read that somebody had overtaken
    byHand,     \* history: the status was last set by a user, past ISSUED
    torn        \* history: since then, a recompute was lost with its request

billVars == <<invoice, paper, payment, past, clerk, outages, overtaken, byHand, torn>>

-----------------------------------------------------------------------------
InvoiceStatuses == {"DRAFT", "ISSUED", "PARTIALLY_PAID", "PAID", "OVERDUE", "CANCELLED"}
Seated == [at |-> "idle", next |-> "DRAFT", n |-> NoPaper, pay |-> NoPayment, late |-> FALSE]

ClerkAt(c, pc) == clerk[c].at = pc
Seat(c, d) == clerk' = [clerk EXCEPT ![c] = d]

\* c writes; what the others in flight have read is out of date.
Overtake(c, d) ==
    clerk' = [q \in Clerks |-> IF q = c THEN d
                               ELSE IF ClerkAt(q, "idle") THEN Seated
                               ELSE [clerk[q] EXCEPT !.late = TRUE]]

LateWrite(c) == overtaken' = (overtaken \/ clerk[c].late)

Unpaid == {p \in Payments : payment[p] = "none"}
Live == {p \in Payments : payment[p] = "live"}
Paid == Cardinality(Live)

TRANSITIONS ==
    {<<"DRAFT", "ISSUED">>, <<"DRAFT", "CANCELLED">>, <<"PAID", "CANCELLED">>}
    \cup {"ISSUED"} \X {"PARTIALLY_PAID", "PAID", "OVERDUE", "CANCELLED"}
    \cup {"PARTIALLY_PAID"} \X {"PAID", "OVERDUE", "CANCELLED"}
    \cup {"OVERDUE"} \X {"PARTIALLY_PAID", "PAID", "CANCELLED"}

\* assertTransition: writing the same status again is always allowed.
Transition(from, to) == from = to \/ <<from, to>> \in TRANSITIONS

BillInit ==
    /\ \E n \in Totals :
          invoice = [status |-> "DRAFT", total |-> n, deleted |-> FALSE, key |-> FALSE]
    /\ paper = NoPaper
    /\ payment = [p \in Payments |-> "none"]
    /\ past \in BOOLEAN
    /\ clerk = [c \in Clerks |-> Seated]
    /\ outages = 0
    /\ overtaken = FALSE
    /\ byHand = FALSE
    /\ torn = FALSE

-----------------------------------------------------------------------------
(* InvoicesService.                                                         *)

\* findOne, and the guard of each handler on what it returned.
Serve(c, pc) ==
    /\ ClerkAt(c, "idle")
    /\ ~invoice.deleted
    /\ Seat(c, [Seated EXCEPT !.at = pc])
    /\ UNCHANGED <<invoice, paper, payment, past, outages, overtaken, byHand, torn>>

BeginUpdate(c) == invoice.status = "DRAFT" /\ Serve(c, "lines")
BeginRemove(c) == invoice.status \in {"DRAFT", "CANCELLED"} /\ Serve(c, "delete")

\* getPdfUrl: renders on demand when there is no key.
BeginPdfUrl(c) == ~invoice.key /\ Serve(c, "render")

\* changeStatus: an issue renders the PDF unless a key exists already.
BeginStatus(c, s) ==
    /\ ClerkAt(c, "idle")
    /\ ~invoice.deleted
    /\ Transition(invoice.status, s)
    /\ Seat(c, [Seated EXCEPT !.at = IF invoice.status = "DRAFT" /\ s = "ISSUED" /\ ~invoice.key
                                     THEN "render" ELSE "status",
                              !.next = s])
    /\ UNCHANGED <<invoice, paper, payment, past, outages, overtaken, byHand, torn>>

\* update: replaces the lines and the totals, and may set another due date.
WriteLines(c) ==
    /\ ClerkAt(c, "lines")
    /\ \E n \in Totals : invoice' = [invoice EXCEPT !.total = n]
    /\ past' \in BOOLEAN
    /\ Overtake(c, Seated)
    /\ LateWrite(c)
    /\ UNCHANGED <<paper, payment, outages, byHand, torn>>

Issuing(c) == clerk[c].next = "ISSUED"

\* A failure of the PDF does not block the change of status.
AfterPdf(c) == Seat(c, IF Issuing(c) THEN [clerk[c] EXCEPT !.at = "status"] ELSE Seated)

\* generateAndStorePdf: load the invoice, put the object, write the key.
RenderPdf(c) ==
    /\ ClerkAt(c, "render")
    /\ IF invoice.deleted THEN AfterPdf(c)
       ELSE Seat(c, [clerk[c] EXCEPT !.at = "put", !.n = invoice.total])
    /\ UNCHANGED <<invoice, paper, payment, past, outages, overtaken, byHand, torn>>

PutObject(c) ==
    /\ ClerkAt(c, "put")
    /\ paper' = clerk[c].n
    /\ Seat(c, [clerk[c] EXCEPT !.at = "key"])
    /\ UNCHANGED <<invoice, payment, past, outages, overtaken, byHand, torn>>

WriteKey(c) ==
    /\ ClerkAt(c, "key")
    /\ invoice' = [invoice EXCEPT !.key = TRUE]
    /\ AfterPdf(c)
    /\ UNCHANGED <<paper, payment, past, outages, overtaken, byHand, torn>>

PdfFails(c) ==
    /\ clerk[c].at \in {"render", "put", "key"}
    /\ outages < MaxOutages
    /\ outages' = outages + 1
    /\ AfterPdf(c)
    /\ UNCHANGED <<invoice, paper, payment, past, overtaken, byHand, torn>>

SetStatus(c) ==
    /\ ClerkAt(c, "status")
    /\ invoice' = [invoice EXCEPT !.status = clerk[c].next]
    /\ byHand' = (clerk[c].next \notin {"DRAFT", "ISSUED"})
    /\ Overtake(c, Seated)
    /\ LateWrite(c)
    /\ UNCHANGED <<paper, payment, past, outages, torn>>

WriteDeleted(c) ==
    /\ ClerkAt(c, "delete")
    /\ invoice' = [invoice EXCEPT !.deleted = TRUE]
    /\ Overtake(c, Seated)
    /\ LateWrite(c)
    /\ UNCHANGED <<paper, payment, past, outages, byHand, torn>>

\* markOverdueForAllTenants.
MarkOverdue ==
    /\ invoice.status = "ISSUED"
    /\ past
    /\ ~invoice.deleted
    /\ invoice' = [invoice EXCEPT !.status = "OVERDUE"]
    /\ UNCHANGED <<paper, payment, past, clerk, outages, overtaken, byHand, torn>>

DuePasses ==
    /\ ~past
    /\ past' = TRUE
    /\ UNCHANGED <<invoice, paper, payment, clerk, outages, overtaken, byHand, torn>>

-----------------------------------------------------------------------------
(* PaymentsService.                                                         *)

BeginPay(c) ==
    /\ invoice.status \notin {"DRAFT", "CANCELLED"}
    /\ Unpaid # {}
    /\ Serve(c, "pay")

\* The payment is read, not its invoice.
BeginRefund(c, p) ==
    /\ ClerkAt(c, "idle")
    /\ payment[p] = "live"
    /\ Seat(c, [Seated EXCEPT !.at = "refund", !.pay = p])
    /\ UNCHANGED <<invoice, paper, payment, past, outages, overtaken, byHand, torn>>

InsertPayment(c) ==
    /\ ClerkAt(c, "pay")
    /\ \E p \in Unpaid : payment' = [payment EXCEPT ![p] = "live"]
    /\ Overtake(c, [Seated EXCEPT !.at = "sum"])
    /\ LateWrite(c)
    /\ UNCHANGED <<invoice, paper, past, outages, byHand, torn>>

DeletePayment(c) ==
    /\ ClerkAt(c, "refund")
    /\ payment' = [payment EXCEPT ![clerk[c].pay] = "deleted"]
    /\ Overtake(c, [Seated EXCEPT !.at = "sum"])
    /\ UNCHANGED <<invoice, paper, past, outages, overtaken, byHand, torn>>

\* Faulty: an invoice paid to the cent is not PAID.
StrictlyPaid ==
    IF Paid > invoice.total THEN "PAID"
    ELSE IF Paid > 0 THEN "PARTIALLY_PAID"
    ELSE IF invoice.status \notin {"PAID", "PARTIALLY_PAID"} THEN invoice.status
    ELSE IF past THEN "OVERDUE" ELSE "ISSUED"

\* The status the payments call for.
NextStatus ==
    IF Paid >= invoice.total THEN "PAID"
    ELSE IF Paid > 0 THEN "PARTIALLY_PAID"
    ELSE IF invoice.status \notin {"PAID", "PARTIALLY_PAID"} THEN invoice.status
    ELSE IF past THEN "OVERDUE" ELSE "ISSUED"

\* recomputeStatusFromPayments: one read of the invoice and its payments.
SumPayments(c) ==
    /\ ClerkAt(c, "sum")
    /\ LET closed == invoice.deleted \/ invoice.status \in {"DRAFT", "CANCELLED"}
           settled == ~closed /\ NextStatus = invoice.status IN
          /\ Seat(c, IF closed \/ settled THEN Seated
                     ELSE [Seated EXCEPT !.at = "flip", !.next = NextStatus])
          /\ byHand' = (byHand /\ closed)
          /\ overtaken' = (overtaken /\ ~settled)
          /\ torn' = (torn /\ ~settled)
    /\ UNCHANGED <<invoice, paper, payment, past, outages>>

FlipStatus(c) ==
    /\ ClerkAt(c, "flip")
    /\ invoice' = [invoice EXCEPT !.status = clerk[c].next]
    /\ Overtake(c, Seated)
    /\ overtaken' = clerk[c].late
    /\ byHand' = FALSE
    /\ torn' = (torn /\ clerk[c].late)
    /\ UNCHANGED <<paper, payment, past, outages>>

\* The process dies between two transactions.
ClerkDies(c) ==
    /\ ~ClerkAt(c, "idle")
    /\ outages < MaxOutages
    /\ outages' = outages + 1
    /\ torn' = (torn \/ clerk[c].at \in {"sum", "flip"})
    /\ Seat(c, Seated)
    /\ UNCHANGED <<invoice, paper, payment, past, overtaken, byHand>>

-----------------------------------------------------------------------------
BillNext ==
    \/ \E c \in Clerks :
          \/ BeginUpdate(c) \/ BeginRemove(c) \/ BeginPdfUrl(c) \/ BeginPay(c)
          \/ \E s \in InvoiceStatuses : BeginStatus(c, s)
          \/ \E p \in Payments : BeginRefund(c, p)
          \/ WriteLines(c) \/ RenderPdf(c) \/ PutObject(c) \/ WriteKey(c) \/ PdfFails(c)
          \/ SetStatus(c) \/ WriteDeleted(c)
          \/ InsertPayment(c) \/ DeletePayment(c) \/ SumPayments(c) \/ FlipStatus(c)
          \/ ClerkDies(c)
    \/ MarkOverdue
    \/ DuePasses

BillSpec == BillInit /\ [][BillNext]_billVars

-----------------------------------------------------------------------------
BillTypeOK ==
    /\ invoice \in [status : InvoiceStatuses, total : Totals, deleted : BOOLEAN, key : BOOLEAN]
    /\ paper \in Totals \cup {NoPaper}
    /\ payment \in [Payments -> {"none", "live", "deleted"}]
    /\ \A c \in Clerks : ClerkAt(c, "idle") <=> clerk[c] = Seated

(* When no request is in flight the status is the one the payments call     *)
(* for: what is due is covered if it says PAID, and if it is covered by a   *)
(* payment it says so (an invoice over nothing may also stay unpaid, until  *)
(* its first payment).  Three things break it, until a recompute that       *)
(* nobody overtakes repairs it: a write after a read that another request   *)
(* had overtaken, as when two payments are recorded at once, a recompute    *)
(* that never ran, and a status set by hand.                                *)
StatusMatchesPayments ==
    ~overtaken /\ ~torn /\ (\A c \in Clerks : ClerkAt(c, "idle")) =>
       /\ ~byHand /\ ~invoice.deleted /\ invoice.status \notin {"DRAFT", "CANCELLED"}
             => /\ invoice.status = "PAID" => Paid >= invoice.total
                /\ Live # {} /\ Paid >= invoice.total => invoice.status = "PAID"
                /\ invoice.status = "PARTIALLY_PAID" <=> Paid \in 1..(invoice.total - 1)
       /\ invoice.status = "DRAFT" => Live = {}

(* CANCELLED is final and a deleted invoice is a draft or cancelled, unless *)
(* a request had read an older status.                                      *)
CancelledIsFinal ==
    [][~overtaken' => /\ invoice.status = "CANCELLED" => invoice'.status = "CANCELLED"
                      /\ invoice'.deleted => invoice'.status \in {"DRAFT", "CANCELLED"}]_billVars

(* The PDF is the artifact the customer receives: it is generated once at   *)
(* issue time, so edits cannot change what the customer saw                 *)
(* (invoices.service.ts:245-248).                                           *)
PdfShowsIssued == invoice.status # "DRAFT" /\ invoice.key => paper = invoice.total
===============================================================================
