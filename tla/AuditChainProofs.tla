-------------------------- MODULE AuditChainProofs --------------------------
(***************************************************************************)
(* Theorems about AuditChain, for any number of transactions and inserts   *)
(* and whatever the clocks of the replicas show.                           *)
(***************************************************************************)
EXTENDS AuditTrail, TLAPS

USE AuditAssumption DEF AuditAssumption

LEMMA TypeInit == ChainInit => ChainTypeOK
  BY DEF ChainInit, ChainTypeOK, Rows

LEMMA VisibleType ==
    ASSUME ChainTypeOK, NEW t \in Txns
    PROVE  Visible(t) \subseteq 1..inserted
  BY DEF ChainTypeOK, Visible

LEMMA TypeStep == ChainTypeOK /\ [ChainNext]_chainVars => ChainTypeOK'
<1> SUFFICES ASSUME ChainTypeOK, [ChainNext]_chainVars PROVE ChainTypeOK'
  OBVIOUS
<1>1. CASE UNCHANGED chainVars
  BY <1>1 DEF chainVars, ChainTypeOK
<1>2. ASSUME NEW t \in Txns, StartAppend(t) PROVE ChainTypeOK'
  BY <1>2 DEF StartAppend, ChainTypeOK
<1>3. ASSUME NEW t \in Txns, TakeLock(t) PROVE ChainTypeOK'
  BY <1>3 DEF TakeLock, ChainTypeOK
<1>4. ASSUME NEW t \in Txns, FindPrev(t) PROVE ChainTypeOK'
  <2>1. \A r \in Latest(t) : r \in 0..MaxRows
    BY VisibleType DEF Latest, ChainTypeOK
  <2> QED
    BY <1>4, <2>1 DEF FindPrev, ChainTypeOK
<1>5. ASSUME NEW t \in Txns, Insert(t) PROVE ChainTypeOK'
  <2>1. inserted + 1 \in Rows /\ inserted' = inserted + 1
    BY <1>5 DEF Insert, ChainTypeOK, Rows
  <2>2. clock' \in Nat
    BY <1>5 DEF Insert, ChainTypeOK
  <2>3. at' \in [Rows -> Int] /\ prev' \in [Rows -> 0..MaxRows]
    BY <1>5, <2>1, <2>2 DEF Insert, ChainTypeOK
  <2>4. own' \in [Txns -> SUBSET (1..inserted')]
    BY <1>5, <2>1 DEF Insert, ChainTypeOK
  <2>5. /\ inserted' \in 0..MaxRows
        /\ committed' \subseteq 1..inserted'
    BY <1>5, <2>1 DEF Insert, ChainTypeOK, Rows
  <2>6. /\ \A u \in Txns : own'[u] \cap committed' = {}
        /\ \A u, v \in Txns : u # v => own'[u] \cap own'[v] = {}
    <3>1. inserted + 1 \notin committed /\ \A u \in Txns : inserted + 1 \notin own[u]
      BY DEF ChainTypeOK
    <3>2. committed' = committed
      BY <1>5 DEF Insert
    <3>3. \A u \in Txns : own'[u] = IF u = t THEN own[u] \cup {inserted + 1} ELSE own[u]
      BY <1>5 DEF Insert, ChainTypeOK
    <3>4. ASSUME NEW u \in Txns PROVE own'[u] \cap committed' = {}
      <4>1. own[u] \cap committed = {}
        BY DEF ChainTypeOK
      <4> QED
        BY <3>1, <3>2, <3>3, <4>1
    <3>5. ASSUME NEW u \in Txns, NEW v \in Txns, u # v
          PROVE  own'[u] \cap own'[v] = {}
      <4>1. own[u] \cap own[v] = {}
        BY <3>5 DEF ChainTypeOK
      <4> QED
        BY <3>1, <3>3, <3>5, <4>1
    <3> QED
      BY <3>4, <3>5
  <2>7. /\ lock' \in Txns \cup {NoTxn}
        /\ pc' \in [Txns -> {"idle", "lock", "find", "insert", "appended"}]
        /\ found' \in [Txns -> 0..MaxRows]
    BY <1>5 DEF Insert, ChainTypeOK
  <2> QED
    BY <2>2, <2>3, <2>4, <2>5, <2>6, <2>7 DEF ChainTypeOK
<1>6. ASSUME NEW t \in Txns, Commit(t) PROVE ChainTypeOK'
  BY <1>6 DEF Commit, ChainTypeOK
<1>7. ASSUME NEW t \in Txns, Rollback(t) PROVE ChainTypeOK'
  BY <1>7 DEF Rollback, ChainTypeOK
<1> QED
  BY <1>1, <1>2, <1>3, <1>4, <1>5, <1>6, <1>7 DEF ChainNext

(* Every value stays in its range, and no row is both committed and still  *)
(* in an open transaction.                                                 *)
THEOREM TypeCorrect == ChainSpec => []ChainTypeOK
  BY TypeInit, TypeStep, PTL DEF ChainSpec

-----------------------------------------------------------------------------
\* A transaction that has appended, or is between find and insert, has the
\* lock; its rows come after all the committed ones.
LockHeld ==
    \A t \in Txns :
        /\ own[t] # {} \/ pc[t] \in {"find", "insert", "appended"} => lock = t
        /\ pc[t] = "idle" => own[t] = {}
        /\ \A r \in own[t], q \in committed : q < r

\* e is one of the latest rows of S, or 0 if there is none.
LatestOf(e, S) == (e = 0 /\ S = {}) \/ (e \in S /\ \A q \in S : at[q] =< at[e])

\* Each row of S carries one of the latest of the rows of S inserted before it.
Linked(S) ==
    \A r \in S :
        \/ prev[r] = 0 /\ \A q \in S : r =< q
        \/ prev[r] \in S /\ prev[r] < r /\ \A q \in S : q < r => at[q] =< at[prev[r]]

(* The inductive invariant.  What is committed is linked because what each  *)
(* transaction sees is, its own rows included, and because nobody commits   *)
(* between its look for the latest row and its insert.                      *)
ChainInv ==
    /\ ChainTypeOK
    /\ LockHeld
    /\ Linked(committed)
    /\ \A t \in Txns : Linked(Visible(t))
    /\ \A t \in Txns : pc[t] = "insert" => LatestOf(found[t], Visible(t))

-----------------------------------------------------------------------------
LEMMA InvInit == ChainInit => ChainInv
<1> SUFFICES ASSUME ChainInit PROVE ChainInv
  OBVIOUS
<1>1. ChainTypeOK
  BY TypeInit
<1>3. committed = {} /\ \A t \in Txns : Visible(t) = {} /\ own[t] = {} /\ pc[t] = "idle"
  BY DEF ChainInit, Visible
<1> QED
  BY <1>1, <1>3 DEF ChainInv, LockHeld, Linked, ChainInit

LEMMA LockStep ==
    ASSUME ChainTypeOK, LockHeld, [ChainNext]_chainVars
    PROVE  LockHeld'
<1> USE DEF ChainTypeOK, LockHeld
<1>1. CASE UNCHANGED chainVars
  BY <1>1 DEF chainVars
<1>2. ASSUME NEW t \in Txns, StartAppend(t) PROVE LockHeld'
  BY <1>2 DEF StartAppend
<1>3. ASSUME NEW t \in Txns, TakeLock(t) PROVE LockHeld'
  BY <1>3 DEF TakeLock, LockFree
<1>4. ASSUME NEW t \in Txns, FindPrev(t) PROVE LockHeld'
  BY <1>4 DEF FindPrev
<1>5. ASSUME NEW t \in Txns, Insert(t) PROVE LockHeld'
  BY <1>5 DEF Insert
<1>6. ASSUME NEW t \in Txns, Commit(t) PROVE LockHeld'
  BY <1>6 DEF Commit
<1>7. ASSUME NEW t \in Txns, Rollback(t) PROVE LockHeld'
  BY <1>7 DEF Rollback
<1> QED
  BY <1>1, <1>2, <1>3, <1>4, <1>5, <1>6, <1>7 DEF ChainNext

LEMMA CommittedLinkedStep ==
    ASSUME ChainInv, [ChainNext]_chainVars
    PROVE  Linked(committed)'
<1> USE DEF ChainInv
<1>1. ASSUME NEW t \in Txns, Insert(t) PROVE Linked(committed)'
  <2>1. /\ committed' = committed
        /\ \A r \in committed : prev'[r] = prev[r] /\ at'[r] = at[r]
    BY <1>1 DEF Insert, ChainTypeOK, Rows
  <2> QED
    BY <2>1 DEF Linked
<1>2. ASSUME NEW t \in Txns, Commit(t) PROVE Linked(committed)'
  <2>1. committed' = Visible(t) /\ prev' = prev /\ at' = at
    BY <1>2 DEF Commit, Visible
  <2> QED
    BY <2>1 DEF Linked
<1>3. CASE UNCHANGED <<committed, prev, at>>
  BY <1>3 DEF Linked
<1> QED
  BY <1>1, <1>2, <1>3 DEF ChainNext, chainVars, StartAppend, TakeLock, FindPrev, Rollback

LEMMA VisibleLinkedStep ==
    ASSUME ChainInv, [ChainNext]_chainVars, NEW u \in Txns
    PROVE  Linked(Visible(u))'
<1> USE DEF ChainInv
<1>1. ASSUME NEW t \in Txns, Insert(t) PROVE Linked(Visible(u))'
  <2> DEFINE n == inserted + 1
  <2>1. /\ n \in Rows
        /\ inserted \in Nat
        /\ Visible(u) \subseteq 1..inserted
    <3>1. Visible(u) \subseteq 1..inserted
      BY VisibleType
    <3> QED
      BY <1>1, <3>1 DEF Insert, ChainTypeOK, Rows
  <2>2. \A r \in Visible(u) : prev'[r] = prev[r] /\ at'[r] = at[r]
    <3>1. /\ prev' = [prev EXCEPT ![n] = found[t]]
          /\ at' = [at EXCEPT ![n] = clock' + Skew[t]]
      BY <1>1 DEF Insert
    <3>2. \A r \in Visible(u) : r \in Rows /\ r # n
      BY <2>1 DEF Rows
    <3> QED
      BY <3>1, <3>2 DEF ChainTypeOK
  <2>3. CASE u # t
    <3>1. Visible(u)' = Visible(u)
      BY <1>1, <2>3 DEF Insert, Visible, ChainTypeOK
    <3> QED
      BY <2>2, <3>1 DEF Linked
  <2>4. CASE u = t
    <3>1. Visible(u)' = Visible(u) \cup {n}
      BY <1>1, <2>4 DEF Insert, Visible, ChainTypeOK
    <3>2. prev'[n] = found[u] /\ LatestOf(found[u], Visible(u))
      BY <1>1, <2>1, <2>4 DEF Insert, ChainTypeOK
    <3>3. ASSUME NEW r \in Visible(u)
          PROVE  \/ prev'[r] = 0 /\ \A q \in Visible(u)' : r =< q
                 \/ /\ prev'[r] \in Visible(u)' /\ prev'[r] < r
                    /\ \A q \in Visible(u)' : q < r => at'[q] =< at'[prev'[r]]
      BY <2>1, <2>2, <3>1, <3>3 DEF Linked
    <3>4. \/ prev'[n] = 0 /\ \A q \in Visible(u)' : n =< q
          \/ /\ prev'[n] \in Visible(u)' /\ prev'[n] < n
             /\ \A q \in Visible(u)' : q < n => at'[q] =< at'[prev'[n]]
      BY <2>1, <2>2, <3>1, <3>2 DEF LatestOf
    <3> QED
      BY <3>1, <3>3, <3>4 DEF Linked
  <2> QED
    BY <2>3, <2>4
<1>2. ASSUME NEW t \in Txns, Commit(t) PROVE Linked(Visible(u))'
  <2>1. u # t => own[u] = {}
    BY <1>2 DEF Commit, LockHeld
  <2>2. Visible(u)' = Visible(t) /\ prev' = prev /\ at' = at
    BY <1>2, <2>1 DEF Commit, Visible, ChainTypeOK
  <2> QED
    BY <2>2 DEF Linked
<1>3. ASSUME NEW t \in Txns, Rollback(t) PROVE Linked(Visible(u))'
  <2>1. Visible(u)' = (IF u = t THEN committed ELSE Visible(u)) /\ prev' = prev /\ at' = at
    BY <1>3 DEF Rollback, Visible, ChainTypeOK
  <2> QED
    BY <2>1 DEF Linked
<1>4. CASE UNCHANGED <<committed, own, prev, at>>
  BY <1>4 DEF Linked, Visible
<1> QED
  BY <1>1, <1>2, <1>3, <1>4 DEF ChainNext, chainVars, StartAppend, TakeLock, FindPrev

LEMMA FoundStep ==
    ASSUME ChainInv, [ChainNext]_chainVars, NEW u \in Txns, pc'[u] = "insert"
    PROVE  LatestOf(found[u], Visible(u))'
<1> USE DEF ChainInv
<1>1. ASSUME NEW t \in Txns, FindPrev(t) PROVE LatestOf(found[u], Visible(u))'
  <2>1. Visible(u)' = Visible(u) /\ at' = at
    BY <1>1 DEF FindPrev, Visible
  <2>2. CASE u = t
    <3>1. found'[u] \in Latest(u)
      BY <1>1, <2>2 DEF FindPrev, ChainTypeOK
    <3> QED
      BY <2>1, <3>1 DEF Latest, LatestOf
  <2>3. CASE u # t
    <3>1. pc[u] = "insert" /\ found'[u] = found[u]
      BY <1>1, <2>3 DEF FindPrev, ChainTypeOK
    <3> QED
      BY <2>1, <3>1 DEF LatestOf
  <2> QED
    BY <2>2, <2>3
<1>2. CASE ~ \E t \in Txns : FindPrev(t)
  <2>1. pc[u] = "insert" /\ found'[u] = found[u]
    BY <1>2 DEF ChainNext, chainVars, StartAppend, TakeLock, Insert, Commit, Rollback, ChainTypeOK
  <2>2. lock = u
    BY <2>1 DEF LockHeld
  <2>3. /\ Visible(u)' = Visible(u)
        /\ UNCHANGED at
    BY <1>2, <2>1, <2>2
    DEF ChainNext, chainVars, StartAppend, TakeLock, Insert, Commit, Rollback, LockHeld, ChainTypeOK, Visible
  <2> QED
    BY <2>1, <2>3 DEF LatestOf
<1> QED
  BY <1>1, <1>2

LEMMA InvStep == ChainInv /\ [ChainNext]_chainVars => ChainInv'
<1> SUFFICES ASSUME ChainInv, [ChainNext]_chainVars PROVE ChainInv'
  OBVIOUS
<1>1. ChainTypeOK' /\ LockHeld'
  BY TypeStep, LockStep DEF ChainInv
<1>2. Linked(committed)' /\ \A u \in Txns : Linked(Visible(u))'
  BY CommittedLinkedStep, VisibleLinkedStep
<1>3. \A u \in Txns : pc'[u] = "insert" => LatestOf(found[u], Visible(u))'
  BY FoundStep
<1> QED
  BY <1>1, <1>2, <1>3 DEF ChainInv

LEMMA InvAccepts == ChainInv => VerifierAccepts
<1> SUFFICES ASSUME ChainInv, InOrder, NEW r \in committed PROVE DirectlyBefore(r)
  BY DEF VerifierAccepts
<1>1. /\ committed \subseteq 1..inserted /\ inserted \in Nat
      /\ \A q \in committed : at[q] \in Int
  BY DEF ChainInv, ChainTypeOK, Rows
<1>2. \A p, q \in committed : p < q => at[p] < at[q]
  BY DEF InOrder
<1>3. CASE prev[r] = 0 /\ \A q \in committed : r =< q
  BY <1>1, <1>2, <1>3 DEF DirectlyBefore
<1>4. CASE /\ prev[r] \in committed /\ prev[r] < r
           /\ \A q \in committed : q < r => at[q] =< at[prev[r]]
  <2>1. prev[r] \in committed /\ prev[r] # 0
    BY <1>1, <1>4
  <2>2. at[prev[r]] < at[r]
    BY <1>2, <1>4
  <2>3. ASSUME NEW q \in committed \ {r, prev[r]}
        PROVE  at[q] < at[prev[r]] \/ at[r] < at[q]
    <3>1. q \in 1..inserted /\ r \in 1..inserted /\ prev[r] \in 1..inserted
      BY <1>1, <2>1
    <3>2. q < prev[r] \/ r < q \/ (prev[r] < q /\ q < r)
      BY <1>1, <3>1
    <3>3. ASSUME prev[r] < q, q < r PROVE FALSE
      <4>1. at[q] =< at[prev[r]] /\ at[prev[r]] < at[q]
        BY <1>2, <1>4, <2>1, <3>3
      <4>2. at[q] \in Int /\ at[prev[r]] \in Int
        BY <1>1, <2>1
      <4>3. \A x, y \in Int : ~(x =< y /\ y < x)
        OBVIOUS
      <4> QED
        BY <4>1, <4>2, <4>3
    <3> QED
      BY <1>2, <2>1, <3>2, <3>3
  <2> QED
    BY <2>1, <2>2, <2>3 DEF DirectlyBefore
<1> QED
  BY <1>3, <1>4 DEF ChainInv, Linked

(* The verifier accepts every chain that appends have written and that is  *)
(* dated in the order of the inserts, whatever the transactions that       *)
(* interleave or roll back: the advisory lock and the read inside the      *)
(* transaction are enough.  It holds by any clocks: what they get wrong is *)
(* in the dates.                                                           *)
THEOREM ChainAccepted == ChainSpec => []VerifierAccepts
<1>1. ChainInit => ChainInv
  BY InvInit
<1>2. ChainInv /\ [ChainNext]_chainVars => ChainInv'
  BY InvStep
<1>3. ChainInv => VerifierAccepts
  BY InvAccepts
<1> QED
  BY <1>1, <1>2, <1>3, PTL DEF ChainSpec

-----------------------------------------------------------------------------
(* The refinement.  Only a commit changes the trail; what it adds comes      *)
(* after all that was there, since the transaction has held the lock from    *)
(* its first insert on.                                                      *)

LEMMA TrailStart == ChainInit => Log!Init
  BY DEF ChainInit, Log!Init, Trail

TrailLinked == \A e \in Trail : Log!CarriesLatest(e, Trail)

LEMMA TrailCarriesLatest == ChainInv => TrailLinked
<1> SUFFICES ASSUME ChainInv, NEW r \in committed
             PROVE  Log!CarriesLatest(Entry(r), Trail)
  BY DEF Trail, TrailLinked
<1>1. committed \subseteq 1..inserted /\ inserted \in Nat
  BY DEF ChainInv, ChainTypeOK
<1>2. \A q : Entry(q).id = q /\ Entry(q).at = at[q] /\ Entry(q).prev = prev[q]
  BY DEF Entry
<1>3. \A f \in Log!Earlier(Entry(r), Trail) : \E q \in committed : f = Entry(q) /\ q < r
  BY <1>2 DEF Trail, Log!Earlier
<1>4. CASE prev[r] = 0 /\ \A q \in committed : r =< q
  <2>1. \A q \in committed : ~(q < r)
    BY <1>1, <1>4
  <2>2. Log!Earlier(Entry(r), Trail) = {}
    BY <1>3, <2>1
  <2> QED
    BY <1>2, <1>4, <2>2 DEF Log!CarriesLatest
<1>5. CASE /\ prev[r] \in committed /\ prev[r] < r
           /\ \A q \in committed : q < r => at[q] =< at[prev[r]]
  <2>1. PICK p : p = Entry(prev[r])
    OBVIOUS
  <2>2. p \in Log!Earlier(Entry(r), Trail) /\ p.id = Entry(r).prev
    BY <1>2, <1>5, <2>1 DEF Trail, Log!Earlier
  <2>3. \A f \in Log!Earlier(Entry(r), Trail) : f.at =< p.at
    BY <1>2, <1>3, <1>5, <2>1
  <2> QED
    BY <2>2, <2>3 DEF Log!CarriesLatest
<1> QED
  BY <1>4, <1>5 DEF ChainInv, Linked

LEMMA TrailStep ==
    ASSUME ChainInv, TrailLinked', [ChainNext]_chainVars
    PROVE  [Log!Extend]_Trail
<1>1. CASE \E t \in Txns : Commit(t)
  <2>1. PICK t \in Txns : Commit(t)
    BY <1>1
  <2>2. /\ committed' = committed \cup own[t] /\ at' = at /\ prev' = prev
        /\ \A r : Entry(r)' = Entry(r)
    BY <2>1 DEF Commit, Entry
  <2>3. \A r \in own[t], q \in committed : q < r
    BY DEF ChainInv, LockHeld
  <2>4. Trail \subseteq Trail'
    BY <2>2 DEF Trail
  <2>5. \A f \in Trail' \ Trail : \E r \in own[t] : f = Entry(r)
    BY <2>2 DEF Trail
  <2>6. \A e \in Trail, f \in Trail' \ Trail : e.id < f.id
    <3> SUFFICES ASSUME NEW e \in Trail, NEW f \in Trail' \ Trail PROVE e.id < f.id
      OBVIOUS
    <3>1. PICK r \in own[t] : f = Entry(r)
      BY <2>5
    <3>2. PICK q \in committed : e = Entry(q)
      BY DEF Trail
    <3> QED
      BY <2>3, <3>1, <3>2 DEF Entry
  <2> QED
    BY <2>4, <2>6 DEF Log!Extend, TrailLinked
<1>2. CASE ~ \E t \in Txns : Commit(t)
  <2>1. /\ committed' = committed
        /\ \A r \in committed : at'[r] = at[r] /\ prev'[r] = prev[r]
    <3>1. CASE \E t \in Txns : Insert(t)
      BY <3>1 DEF ChainInv, ChainTypeOK, Insert, Rows
    <3>2. CASE UNCHANGED <<committed, at, prev>>
      BY <3>2
    <3> QED
      BY <1>2, <3>1, <3>2 DEF ChainNext, chainVars, StartAppend, TakeLock, FindPrev, Rollback
  <2>2. \A r \in committed : Entry(r)' = Entry(r)
    BY <2>1 DEF Entry
  <2> QED
    BY <2>1, <2>2 DEF Trail
<1> QED
  BY <1>1, <1>2

(* The committed rows are a log that only grows at its end ("append-only   *)
(* hash-chained audit trail"): no commit slips an entry in before those    *)
(* that are there, and each entry carries one of the latest at its time,   *)
(* whatever the clocks show and whoever rolls back.                        *)
THEOREM TrailImplementsLog == ChainSpec => AppendOnlyLog
<1>1. ChainInit => ChainInv /\ Log!Init
  BY InvInit, TrailStart
<1>2. ChainInv /\ [ChainNext]_chainVars => ChainInv'
  BY InvStep
<1>3. ChainInv /\ TrailLinked' /\ [ChainNext]_chainVars => [Log!Extend]_Trail
  BY TrailStep
<1> QED
  BY <1>1, <1>2, <1>3, TrailCarriesLatest, PTL DEF ChainSpec, AppendOnlyLog, Log!Spec
=============================================================================
