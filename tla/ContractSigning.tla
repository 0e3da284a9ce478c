--------------------------- MODULE ContractSigning ---------------------------
(***************************************************************************)
(* The e-sign ceremony of one contract (apps/api/src/modules/              *)
(* contract-signers and contracts/services/contract-sweeper.service.ts).   *)
(*                                                                         *)
(* A tenant user sends a DRAFT contract: the PDF is stored, then one       *)
(* transaction moves the contract to PENDING_SIGNATURE and creates a row   *)
(* per signer.  Signers view, sign or decline through public links; an     *)
(* hourly sweep expires overdue signers; the last signature makes the      *)
(* contract ACTIVE, a single refusal DECLINED.                             *)
(*                                                                         *)
(* Each slot runs one handler at a time.  sign and decline lock their row, *)
(* then take the advisory lock of the contract's audit chain (append),     *)
(* which they hold until they commit; what they write is visible only      *)
(* then.  The other transactions that write are one step each, taken when  *)
(* the locks they need are free.                                           *)
(***************************************************************************)
EXTENDS Naturals, FiniteSets

CONSTANTS
    Signers,      \* e-mail addresses, unique per contract
    Order,        \* ContractSignature.signingOrder
    Handlers,     \* slots for handlers in flight
    MaxSends,     \* bound on the calls of sendForSignature
    NoSigner

ASSUME SigningAssumption ==
    /\ IsFiniteSet(Signers)
    /\ Order \in [Signers -> Nat]
    /\ MaxSends \in Nat
    /\ NoSigner \notin Signers

VARIABLES
    contract,   \* Contract.status
    mode,       \* Contract.signingMode, the same in every send
    pdf,        \* the document stored under the contract's storage key
    pdfHash,    \* Contract.pdfHash, as the document it is the hash of
    sig,        \* ContractSignature.status; NONE: no row
    viewed,     \* signers whose firstViewedAt is set
    handler,    \* the local state of each handler in flight
    sends,      \* number of sends started
    round,      \* history: which send to commit created the row, 0: none
    everSigned, \* history: signers whose row was SIGNED at some time
    undone      \* history: those among them whose row was overwritten

document == <<contract, mode, pdf, pdfHash, sends>>
rows == <<sig, viewed, round, everSigned, undone>>
signingVars == <<document, rows, handler>>

-----------------------------------------------------------------------------
Outstanding == {"PENDING", "SENT", "VIEWED"}
Closed == {"DECLINED", "EXPIRED", "VOIDED"}
Issued == {s \in Signers : sig[s] # "NONE"}
Earlier(s) == {e \in Signers : Order[e] < Order[s]}

NoHandler == [at |-> "idle", signer |-> NoSigner, doc |-> 0, todo |-> {},
         read |-> "NONE", last |-> 0]

HandlerTo(c, d) == handler' = [handler EXCEPT ![c] = d]
HandlerAt(c, pc) == handler[c].at = pc

\* SELECT ... FOR UPDATE on the signer's row, until commit.
RowFree(s) == \A c \in Handlers : handler[c].signer = s =>
                 handler[c].at \notin {"signChain", "signCommit", "declineChain", "declineCommit"}

\* Faulty: the appends of one contract do not wait for each other.
ChainUnlocked == TRUE

\* pg_advisory_xact_lock of AuditChainService.append, until commit.
ChainFree == \A c \in Handlers : handler[c].at \notin {"signCommit", "declineCommit"}

\* Rows S get status v, whatever status they have.
Put(S, v) ==
    /\ sig' = [s \in Signers |-> IF s \in S THEN v ELSE sig[s]]
    /\ everSigned' = IF v = "SIGNED" THEN everSigned \cup S ELSE everSigned
    /\ undone' = IF v = "SIGNED" THEN undone
                 ELSE undone \cup {s \in S : sig[s] = "SIGNED"}

SigningInit ==
    /\ contract = "DRAFT"
    /\ mode \in {"PARALLEL", "SEQUENTIAL"}
    /\ pdf = 0
    /\ pdfHash = 0
    /\ sig = [s \in Signers |-> "NONE"]
    /\ viewed = {}
    /\ handler = [c \in Handlers |-> NoHandler]
    /\ sends = 0
    /\ round = [s \in Signers |-> 0]
    /\ everSigned = {}
    /\ undone = {}

-----------------------------------------------------------------------------
(* sendForSignature: the checks, the upload, the transaction, the invites. *)

\* The contract is read as DRAFT and the approval gate lets it pass.
SendCheck(c, S) ==
    /\ HandlerAt(c, "idle")
    /\ contract = "DRAFT"
    /\ sends < MaxSends
    /\ sends' = sends + 1
    /\ HandlerTo(c, [NoHandler EXCEPT !.at = "upload", !.doc = sends + 1, !.todo = S])
    /\ UNCHANGED <<contract, mode, pdf, pdfHash, rows>>

Upload(c) ==
    /\ HandlerAt(c, "upload")
    /\ pdf' = handler[c].doc
    /\ HandlerTo(c, [handler[c] EXCEPT !.at = "send"])
    /\ UNCHANGED <<contract, mode, pdfHash, sends, rows>>

\* In SEQUENTIAL mode only the signers of the lowest order are invited.
Invited(S) == IF mode = "PARALLEL" THEN S
              ELSE {s \in S : \A e \in S : Order[s] =< Order[e]}

\* A signer who has a row already violates the unique key: all rolls back.
Send(c) ==
    /\ HandlerAt(c, "send")
    /\ ChainFree
    /\ LET S == handler[c].todo IN
         \/ /\ S \cap Issued # {}
            /\ HandlerTo(c, NoHandler)
            /\ UNCHANGED <<document, rows>>
         \/ /\ S \cap Issued = {}
            /\ contract' = "PENDING_SIGNATURE"
            /\ pdfHash' = handler[c].doc
            /\ Put(S, "PENDING")
            /\ round' = [s \in Signers |-> IF s \in S THEN Cardinality(Issued) + 1 ELSE round[s]]
            /\ HandlerTo(c, [NoHandler EXCEPT !.at = "invite", !.todo = Invited(S)])
            /\ UNCHANGED <<mode, pdf, sends, viewed>>

\* notifyInitialSigners writes SENT over the row as the send created it.
Invite(c, s) ==
    /\ HandlerAt(c, "invite")
    /\ s \in handler[c].todo
    /\ RowFree(s)
    /\ Put({s}, "SENT")
    /\ HandlerTo(c, IF handler[c].todo = {s} THEN NoHandler
                    ELSE [handler[c] EXCEPT !.todo = @ \ {s}])
    /\ UNCHANGED <<document, viewed, round>>

-----------------------------------------------------------------------------
(* view: the status is read before the transaction that writes it back.    *)

\* A later view changes no status: it only adds events.
ViewLoad(c, s) ==
    /\ HandlerAt(c, "idle")
    /\ sig[s] \in Outstanding \cup {"SIGNED"}
    /\ s \notin viewed
    /\ HandlerTo(c, [NoHandler EXCEPT !.at = "view", !.signer = s, !.read = sig[s]])
    /\ UNCHANGED <<document, rows>>

View(c) ==
    /\ HandlerAt(c, "view")
    /\ LET s == handler[c].signer
           r == handler[c].read
       IN  /\ RowFree(s)
           /\ ChainFree
           /\ Put({s}, IF r = "PENDING" THEN "VIEWED" ELSE r)
           /\ viewed' = viewed \cup {s}
    /\ HandlerTo(c, NoHandler)
    /\ UNCHANGED <<document, round>>

-----------------------------------------------------------------------------
(* sign: checks on what is read outside, then the locked transaction.      *)

SignLoad(c, s) ==
    /\ HandlerAt(c, "idle")
    /\ sig[s] \in Outstanding
    /\ HandlerTo(c, [NoHandler EXCEPT !.at = "check", !.signer = s])
    /\ UNCHANGED <<document, rows>>

\* The stored PDF must still have the recorded hash.
SignCheck(c) ==
    /\ HandlerAt(c, "check")
    /\ HandlerTo(c, IF pdf = pdfHash THEN [handler[c] EXCEPT !.at = "gate"] ELSE NoHandler)
    /\ UNCHANGED <<document, rows>>

\* Faulty: a signer who opened the link counts as one who signed it.
MaySignViewed(s) == mode = "SEQUENTIAL" =>
    \A e \in Earlier(s) \cap Issued : sig[e] \in {"SIGNED", "VIEWED"}

MaySign(s) == mode = "SEQUENTIAL" => \A e \in Earlier(s) \cap Issued : sig[e] = "SIGNED"

SignGate(c) ==
    /\ HandlerAt(c, "gate")
    /\ HandlerTo(c, IF MaySign(handler[c].signer) THEN [handler[c] EXCEPT !.at = "signLock"]
                    ELSE NoHandler)
    /\ UNCHANGED <<document, rows>>

\* The row is locked and its status read again.
SignLock(c) ==
    /\ HandlerAt(c, "signLock")
    /\ RowFree(handler[c].signer)
    /\ HandlerTo(c, IF sig[handler[c].signer] \in Outstanding
                    THEN [handler[c] EXCEPT !.at = "signChain"]
                    ELSE NoHandler)
    /\ UNCHANGED <<document, rows>>

\* Faulty: nobody looks for a signer who declined or expired.
RefusedNever == FALSE

Refused == \E s \in Signers : sig[s] \in Closed

\* The append gets its lock; then the open signers are counted, and the
\* transaction rolls back if one declined or expired.
SignChain(c) ==
    /\ HandlerAt(c, "signChain")
    /\ ChainFree
    /\ LET others == {s \in Signers \ {handler[c].signer} : sig[s] \in Outstanding}
       IN  HandlerTo(c, IF Refused THEN NoHandler
                        ELSE [handler[c] EXCEPT !.at = "signCommit",
                                                !.last = IF others = {} THEN 1 ELSE 0])
    /\ UNCHANGED <<document, rows>>

SignCommit(c) ==
    /\ HandlerAt(c, "signCommit")
    /\ Put({handler[c].signer}, "SIGNED")
    /\ contract' = IF handler[c].last = 1 THEN "ACTIVE" ELSE contract
    /\ HandlerTo(c, NoHandler)
    /\ UNCHANGED <<mode, pdf, pdfHash, sends, viewed, round>>

-----------------------------------------------------------------------------
(* decline: the status is not read again under the lock.                   *)

DeclineLoad(c, s) ==
    /\ HandlerAt(c, "idle")
    /\ sig[s] \in Outstanding
    /\ HandlerTo(c, [NoHandler EXCEPT !.at = "declineLock", !.signer = s])
    /\ UNCHANGED <<document, rows>>

DeclineLock(c) ==
    /\ HandlerAt(c, "declineLock")
    /\ RowFree(handler[c].signer)
    /\ HandlerTo(c, [handler[c] EXCEPT !.at = "declineChain"])
    /\ UNCHANGED <<document, rows>>

DeclineChain(c) ==
    /\ HandlerAt(c, "declineChain")
    /\ ChainFree
    /\ HandlerTo(c, [handler[c] EXCEPT !.at = "declineCommit"])
    /\ UNCHANGED <<document, rows>>

\* The open rows of the others, which the cascade voids.
Cascade(c) == {s \in Signers \ {handler[c].signer} : sig[s] \in Outstanding}

DeclineCommit(c) ==
    /\ HandlerAt(c, "declineCommit")
    /\ \A s \in Cascade(c) : RowFree(s)
    /\ sig' = [s \in Signers |-> IF s = handler[c].signer THEN "DECLINED"
                                 ELSE IF s \in Cascade(c) THEN "VOIDED" ELSE sig[s]]
    /\ undone' = undone \cup {s \in {handler[c].signer} : sig[s] = "SIGNED"}
    /\ contract' = "DECLINED"
    /\ HandlerTo(c, NoHandler)
    /\ UNCHANGED <<mode, pdf, pdfHash, sends, viewed, round, everSigned>>

-----------------------------------------------------------------------------
(* The expiry sweep: overdue rows are read first, and written by id.       *)

\* Any row still open may be past its expiresAt.
ExpireScan(c, S) ==
    /\ HandlerAt(c, "idle")
    /\ \A s \in S : sig[s] \in Outstanding
    /\ HandlerTo(c, [NoHandler EXCEPT !.at = "expire", !.todo = S])
    /\ UNCHANGED <<document, rows>>

ExpireSigner(c, s) ==
    /\ HandlerAt(c, "expire")
    /\ s \in handler[c].todo
    /\ RowFree(s)
    /\ ChainFree
    /\ Put({s}, "EXPIRED")
    /\ HandlerTo(c, [handler[c] EXCEPT !.todo = @ \ {s},
                                 !.at = IF handler[c].todo = {s} THEN "count" ELSE "expire"])
    /\ UNCHANGED <<document, viewed, round>>

\* maybeCascadeContractToExpired reads the counts ...
ExpireCount(c) ==
    /\ HandlerAt(c, "count")
    /\ HandlerTo(c, IF \E s \in Signers : sig[s] \in Outstanding \cup {"SIGNED"} THEN NoHandler
                 ELSE [handler[c] EXCEPT !.at = "cascade"])
    /\ UNCHANGED <<document, rows>>

\* ... and closes a contract that still waits.
ExpireCascade(c) ==
    /\ HandlerAt(c, "cascade")
    /\ ChainFree
    /\ contract' = IF contract = "PENDING_SIGNATURE" THEN "DECLINED" ELSE contract
    /\ HandlerTo(c, NoHandler)
    /\ UNCHANGED <<mode, pdf, pdfHash, sends, rows>>

\* A handler dies or its transaction is rolled back: also the database's
\* way out of a deadlock between decline and sign.
Abort(c) ==
    /\ ~HandlerAt(c, "idle")
    /\ HandlerTo(c, NoHandler)
    /\ UNCHANGED <<document, rows>>

-----------------------------------------------------------------------------
StartHandler(c) ==
    \/ \E S \in (SUBSET Signers) \ {{}} : SendCheck(c, S) \/ ExpireScan(c, S)
    \/ \E s \in Signers : ViewLoad(c, s) \/ SignLoad(c, s) \/ DeclineLoad(c, s)

HandlerStep(c) ==
    \/ Upload(c) \/ Send(c) \/ View(c)
    \/ SignCheck(c) \/ SignGate(c) \/ SignLock(c) \/ SignChain(c) \/ SignCommit(c)
    \/ DeclineLock(c) \/ DeclineChain(c) \/ DeclineCommit(c)
    \/ ExpireCount(c) \/ ExpireCascade(c)
    \/ \E s \in Signers : Invite(c, s) \/ ExpireSigner(c, s)

SigningNext == \E c \in Handlers : StartHandler(c) \/ HandlerStep(c) \/ Abort(c)

SigningSpec == SigningInit /\ [][SigningNext]_signingVars

-----------------------------------------------------------------------------
Stages == {"idle", "upload", "send", "invite", "view", "check", "gate", "signLock",
           "signChain", "signCommit", "declineLock", "declineChain", "declineCommit",
           "expire", "count", "cascade"}

SigningTypeOK ==
    /\ contract \in {"DRAFT", "PENDING_SIGNATURE", "ACTIVE", "DECLINED"}
    /\ mode \in {"PARALLEL", "SEQUENTIAL"}
    /\ {pdf, pdfHash} \subseteq 0..sends
    /\ sends \in 0..MaxSends
    /\ sig \in [Signers -> Outstanding \cup Closed \cup {"NONE", "SIGNED"}]
    /\ round \in [Signers -> 0..Cardinality(Signers)]
    /\ \A s \in Signers : round[s] = 0 <=> sig[s] = "NONE"
    /\ viewed \subseteq Issued
    /\ undone \subseteq everSigned /\ everSigned \subseteq Issued
    /\ handler \in [Handlers -> [at : Stages, signer : Signers \cup {NoSigner}, doc : 0..MaxSends,
                           todo : SUBSET Signers, last : {0, 1},
                           read : Outstanding \cup Closed \cup {"NONE", "SIGNED"}]]

(* A contract that is ACTIVE was signed by every signer it has, also when  *)
(* it was sent twice or the last two sign at the same time                 *)
(* (signing.service.ts: remaining and declinedOrExpired, counted under the *)
(* lock of the audit chain).                                               *)
ActiveMeansAllSigned ==
    contract = "ACTIVE" => Issued \subseteq everSigned

(* No signature is the last one unnoticed: as long as no signature was     *)
(* overwritten, a contract whose signers all signed does not wait for      *)
(* signatures (two last signers commit at the same time; CRIT-5).          *)
LastSignatureCompletes ==
    (undone = {} /\ Issued # {} /\ \A s \in Issued : sig[s] = "SIGNED")
        => contract # "PENDING_SIGNATURE"

(* In SEQUENTIAL mode nobody signs before those who come earlier among the *)
(* signers known when he was added, although the gate is read outside the  *)
(* transaction (signing.service.ts, SEQUENTIAL gate; T-ESIGN-T-05).        *)
SequentialOrder ==
    mode = "SEQUENTIAL" =>
        \A s \in everSigned : \A e \in Earlier(s) \cap Issued :
            round[e] =< round[s] => e \in everSigned

(* Whoever signed is not turned into one who declined: both transitions of *)
(* a signer are terminal and leave PENDING, SENT or VIEWED only            *)
(* (signing.service.ts, "Two terminal transitions per signer").            *)
SignedNeverDeclined ==
    [][\A s \in Signers : sig[s] = "SIGNED" => sig'[s] # "DECLINED"]_signingVars
=============================================================================
