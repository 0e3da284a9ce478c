----------------------------- MODULE AuditChain -----------------------------
(***************************************************************************)
(* The hash-chained audit trail of one contract (apps/api/src/modules/     *)
(* contracts/services/audit-chain.service.ts).                             *)
(*                                                                         *)
(* Transactions of the e-sign ceremony append entries.  append takes the   *)
(* contract's advisory lock, which the transaction keeps until it ends,    *)
(* looks for the entry with the greatest createdAt and inserts a row that  *)
(* carries its hash.  A row is seen by others once its transaction commits.*)
(* The verifier walks the committed rows in the order of createdAt.        *)
(*                                                                         *)
(* Rows are numbered in the order of their inserts; a hash is the number   *)
(* of the row it is the hash of (0: null), so hashes do not collide.       *)
(***************************************************************************)
EXTENDS Integers

CONSTANTS
    Txns,      \* transactions open at the same time
    NoTxn,
    MaxRows,   \* bound on the inserts
    Gaps,      \* milliseconds from one reading of a clock to the next one
    Skew       \* milliseconds the clock of a transaction's replica is ahead

ASSUME AuditAssumption ==
    /\ NoTxn \notin Txns
    /\ MaxRows \in Nat
    /\ Gaps \subseteq Nat
    /\ Skew \in [Txns -> Int]

VARIABLES
    at,         \* createdAt of each row
    prev,       \* prevEntryHash of each row
    inserted,   \* number of rows inserted so far
    clock,      \* the time when an append last read its replica's clock
    committed,  \* rows everybody sees
    own,        \* rows of the open transactions
    lock,       \* holder of pg_advisory_xact_lock
    pc,         \* where each transaction is
    found       \* the entry findFirst returned to append (0: null)

chainVars == <<at, prev, inserted, clock, committed, own, lock, pc, found>>

-----------------------------------------------------------------------------
Rows == 1..MaxRows

Visible(t) == committed \cup own[t]

\* Faulty: the previous entry is read outside the transaction.
LatestCommitted(t) ==
    IF committed = {} THEN {0}
    ELSE {r \in committed : \A q \in committed : at[q] =< at[r]}

\* findFirst ordered by createdAt desc: any of the latest ones.
Latest(t) ==
    IF Visible(t) = {} THEN {0}
    ELSE {r \in Visible(t) : \A q \in Visible(t) : at[q] =< at[r]}

\* Faulty: append does not wait for the advisory lock.
NoLock(t) == TRUE

LockFree(t) == lock \in {NoTxn, t}

ChainInit ==
    /\ at = [r \in Rows |-> 0]
    /\ prev = [r \in Rows |-> 0]
    /\ inserted = 0
    /\ clock = 0
    /\ committed = {}
    /\ own = [t \in Txns |-> {}]
    /\ lock = NoTxn
    /\ pc = [t \in Txns |-> "idle"]
    /\ found = [t \in Txns |-> 0]

-----------------------------------------------------------------------------
\* A handler reaches a call of append: the first of its transaction or another.
StartAppend(t) ==
    /\ pc[t] \in {"idle", "appended"}
    /\ pc' = [pc EXCEPT ![t] = "lock"]
    /\ UNCHANGED <<at, prev, inserted, clock, committed, own, lock, found>>

TakeLock(t) ==
    /\ pc[t] = "lock"
    /\ LockFree(t)
    /\ lock' = t
    /\ pc' = [pc EXCEPT ![t] = "find"]
    /\ UNCHANGED <<at, prev, inserted, clock, committed, own, found>>

FindPrev(t) ==
    /\ pc[t] = "find"
    /\ \E r \in Latest(t) : found' = [found EXCEPT ![t] = r]
    /\ pc' = [pc EXCEPT ![t] = "insert"]
    /\ UNCHANGED <<at, prev, inserted, clock, committed, own, lock>>

Insert(t) ==
    /\ pc[t] = "insert"
    /\ inserted < MaxRows
    /\ \E g \in Gaps : clock' = clock + g
    /\ inserted' = inserted + 1
    /\ at' = [at EXCEPT ![inserted + 1] = clock' + Skew[t]]
    /\ prev' = [prev EXCEPT ![inserted + 1] = found[t]]
    /\ own' = [own EXCEPT ![t] = @ \cup {inserted + 1}]
    /\ found' = [found EXCEPT ![t] = 0]
    /\ pc' = [pc EXCEPT ![t] = "appended"]
    /\ UNCHANGED <<committed, lock>>

Commit(t) ==
    /\ pc[t] = "appended"
    /\ committed' = committed \cup own[t]
    /\ own' = [own EXCEPT ![t] = {}]
    /\ lock' = NoTxn
    /\ pc' = [pc EXCEPT ![t] = "idle"]
    /\ UNCHANGED <<at, prev, inserted, clock, found>>

\* The business write fails, the database aborts, the process dies.
Rollback(t) ==
    /\ pc[t] # "idle"
    /\ own' = [own EXCEPT ![t] = {}]
    /\ lock' = IF lock = t THEN NoTxn ELSE lock
    /\ found' = [found EXCEPT ![t] = 0]
    /\ pc' = [pc EXCEPT ![t] = "idle"]
    /\ UNCHANGED <<at, prev, inserted, clock, committed>>

ChainNext == \E t \in Txns :
    StartAppend(t) \/ TakeLock(t) \/ FindPrev(t) \/ Insert(t) \/ Commit(t) \/ Rollback(t)

ChainSpec == ChainInit /\ [][ChainNext]_chainVars

-----------------------------------------------------------------------------
ChainTypeOK ==
    /\ at \in [Rows -> Int]
    /\ prev \in [Rows -> 0..MaxRows]
    /\ inserted \in 0..MaxRows
    /\ clock \in Nat
    /\ committed \subseteq 1..inserted
    /\ own \in [Txns -> SUBSET (1..inserted)]
    /\ \A t \in Txns : own[t] \cap committed = {}
    /\ \A t, u \in Txns : t # u => own[t] \cap own[u] = {}
    /\ lock \in Txns \cup {NoTxn}
    /\ pc \in [Txns -> {"idle", "lock", "find", "insert", "appended"}]
    /\ found \in [Txns -> 0..MaxRows]

\* r is the first of the committed rows, or carries the one directly before it.
DirectlyBefore(r) ==
    IF prev[r] = 0
    THEN \A q \in committed \ {r} : at[r] < at[q]
    ELSE /\ prev[r] \in committed
         /\ at[prev[r]] < at[r]
         /\ \A q \in committed \ {r, prev[r]} : at[q] < at[prev[r]] \/ at[r] < at[q]

\* The committed rows are dated in the order of their inserts.
InOrder == \A q, r \in committed : q < r => at[q] < at[r]

(* verifyContractChain accepts the committed rows, in whichever order the  *)
(* database returns equal values of createdAt, unless clocks disagreed:    *)
(* each row carries the one that comes directly before it, and no two can  *)
(* change places.  A chain that forks, or that a concurrent append slipped *)
(* into, is a "tamper incident" although nobody tampered.  So is one with  *)
(* two rows of one millisecond, or rows of two replicas that their clocks  *)
(* put the other way around: nothing keeps createdAt in order.             *)
VerifierAccepts == InOrder => \A r \in committed : DirectlyBefore(r)
=============================================================================
