------------------------ MODULE ContractSigningProofs ------------------------
(***************************************************************************)
(* Theorems about the ceremony, for any number of signers, sends and       *)
(* handlers in flight.                                                     *)
(***************************************************************************)
EXTENDS ContractSigning, FiniteSetTheorems, TLAPS

USE SigningAssumption DEF SigningAssumption

Statuses == Outstanding \cup Closed \cup {"NONE", "SIGNED"}

CallState == [at : Stages, signer : Signers \cup {NoSigner}, doc : 0..MaxSends,
              todo : SUBSET Signers, last : {0, 1}, read : Statuses]

\* The stages of a handler that acts for one signer.
ForSigner == {"view", "check", "gate", "signLock", "signChain", "signCommit",
              "declineLock", "declineChain", "declineCommit"}

HoldsChain == {"signCommit", "declineCommit"}

\* Those who come before s and were known when s was added, have signed.
EarlierSigned(s) ==
    mode = "SEQUENTIAL" =>
        \A e \in Earlier(s) \cap Issued : round[e] =< round[s] => e \in everSigned

(* What a handler has read stays true while it is in flight, or stays true  *)
(* as long as it holds the audit chain.                                     *)
CallOK(d) ==
    /\ d \in CallState
    /\ d.doc =< sends
    /\ d.at \in {"upload", "send"} => d.todo # {}
    /\ d.at \in {"invite", "expire"} => d.todo \subseteq Issued
    /\ d.at \in ForSigner => d.signer \in Issued
    /\ d.at = "view" => d.read \in Outstanding \cup {"SIGNED"}
    /\ d.at = "view" /\ d.read = "SIGNED" => d.signer \in everSigned
    /\ d.at \in {"signLock", "signChain", "signCommit"} => EarlierSigned(d.signer)
    /\ d.at = "signCommit" /\ d.last = 1 => Issued \ {d.signer} \subseteq everSigned
    /\ d.at = "signCommit" /\ d.last = 0 => \E e \in Issued \ {d.signer} : sig[e] # "SIGNED"

CallsOK ==
    /\ handler = [c \in Handlers |-> handler[c]]
    /\ \A c \in Handlers : CallOK(handler[c])

OneHolder == \A c, d \in Handlers : handler[c].at \in HoldsChain /\ handler[d].at \in HoldsChain => c = d

RowsOK ==
    /\ sig \in [Signers -> Statuses]
    /\ round \in [Signers -> Nat]
    /\ \A s \in Signers : round[s] =< Cardinality(Issued)
    /\ \A s \in Signers : round[s] = 0 <=> sig[s] = "NONE"
    /\ undone \subseteq Issued
    /\ everSigned = undone \cup {s \in Signers : sig[s] = "SIGNED"}
    /\ viewed \subseteq Issued

DocumentOK ==
    /\ contract \in {"DRAFT", "PENDING_SIGNATURE", "ACTIVE", "DECLINED"}
    /\ mode \in {"PARALLEL", "SEQUENTIAL"}
    /\ sends \in 0..MaxSends
    /\ pdf \in 0..sends /\ pdfHash \in 0..sends

Goals == ActiveMeansAllSigned /\ LastSignatureCompletes /\ SequentialOrder

SigningInv == CallsOK /\ OneHolder /\ RowsOK /\ DocumentOK /\ Goals

LEMMA IdleOK == sends \in Nat => CallOK(NoHandler)
  BY DEF CallOK, CallState, NoHandler, Stages, ForSigner, Statuses

LEMMA IssuedCount ==
    /\ IsFiniteSet(Issued)
    /\ Cardinality(Issued) \in Nat
    /\ Cardinality(Issued) =< Cardinality(Signers)
<1>1. Issued \subseteq Signers
  BY DEF Issued
<1> QED
  BY <1>1, FS_Subset, FS_CardinalityType

LEMMA SigningInvInit == SigningInit => SigningInv
<1> SUFFICES ASSUME SigningInit PROVE SigningInv
  OBVIOUS
<1>1. Issued = {} /\ sends = 0
  BY DEF SigningInit, Issued
<1>2. CallsOK
  BY <1>1, IdleOK DEF SigningInit, CallsOK
<1>3. OneHolder
  BY DEF SigningInit, OneHolder, HoldsChain, NoHandler
<1>4. RowsOK
  BY <1>1, IssuedCount DEF SigningInit, RowsOK, Statuses
<1>5. DocumentOK
  BY DEF SigningInit, DocumentOK
<1>6. Goals
  BY DEF SigningInit, Goals, ActiveMeansAllSigned, LastSignatureCompletes, SequentialOrder
<1> QED
  BY <1>2, <1>3, <1>4, <1>5, <1>6 DEF SigningInv

-----------------------------------------------------------------------------
\* Writing a status over rows that exist.
LEMMA PutRows ==
    ASSUME RowsOK, NEW S \in SUBSET Issued, NEW v \in Statuses \ {"NONE"}, Put(S, v),
           round' = round, viewed \subseteq viewed', viewed' \subseteq Issued
    PROVE  /\ RowsOK'
           /\ Issued' = Issued
           /\ everSigned' = IF v = "SIGNED" THEN everSigned \cup S ELSE everSigned
           /\ undone \subseteq undone'
           /\ \A s \in Signers : sig'[s] = IF s \in S THEN v ELSE sig[s]
<1>1. \A s \in Signers : sig'[s] = IF s \in S THEN v ELSE sig[s]
  BY DEF Put
<1>2. Issued' = Issued
  BY <1>1 DEF Issued
<1>3. sig' \in [Signers -> Statuses]
  BY DEF Put, RowsOK
<1>4. \A s \in Signers : round'[s] = 0 <=> sig'[s] = "NONE"
  BY <1>1 DEF RowsOK, Issued
<1>5. undone' \subseteq Issued /\ undone \subseteq undone'
      /\ everSigned' = IF v = "SIGNED" THEN everSigned \cup S ELSE everSigned
  BY DEF Put, RowsOK
<1>6. everSigned' = undone' \cup {s \in Signers : sig'[s] = "SIGNED"}
  BY <1>1 DEF Put, RowsOK, Issued
<1> QED
  BY <1>1, <1>2, <1>3, <1>4, <1>5, <1>6 DEF RowsOK

\* A handler moves while the set of rows, their rounds and the mode stay, and
\* nobody signs over the head of one who counted the open signers.
LEMMA CallMoves ==
    ASSUME SigningInv, NEW c \in Handlers, NEW d, HandlerTo(c, d), CallOK(d)',
           Issued' = Issued, round' = round, mode' = mode, everSigned \subseteq everSigned',
           sends' \in Nat, sends' >= sends,
           \/ \A s \in Issued : sig'[s] = "SIGNED" => sig[s] = "SIGNED"
           \/ \A e \in Handlers \ {c} : handler[e].at # "signCommit",
           d.at \in HoldsChain => \A e \in Handlers \ {c} : handler[e].at \notin HoldsChain
    PROVE  CallsOK' /\ OneHolder'
<1>1. \A e \in Handlers : handler'[e] = IF e = c THEN d ELSE handler[e]
  BY DEF HandlerTo, SigningInv, CallsOK
<1>2. handler' = [e \in Handlers |-> handler'[e]]
  BY DEF HandlerTo, SigningInv, CallsOK
<1>3. OneHolder'
  BY <1>1 DEF SigningInv, OneHolder
<1>4. ASSUME NEW e \in Handlers PROVE CallOK(handler[e])'
  <2>1. CASE e = c
    BY <1>1, <2>1 DEF CallOK, EarlierSigned
  <2>2. CASE e # c
    <3>1. handler'[e] = handler[e] /\ CallOK(handler[e])
      BY <1>1, <2>2 DEF SigningInv, CallsOK
    <3>2. handler[e].doc \in Nat /\ sends \in Nat
      BY <3>1 DEF CallOK, CallState, SigningInv, DocumentOK
    <3>3. handler[e].doc =< sends'
      BY <3>1, <3>2 DEF CallOK
    <3>4. handler[e].at \in {"signLock", "signChain", "signCommit"} => EarlierSigned(handler[e].signer)'
      BY <3>1 DEF CallOK, EarlierSigned, Earlier
    <3>5. handler[e].at = "signCommit" /\ handler[e].last = 0
             => \E s \in Issued \ {handler[e].signer} : sig'[s] # "SIGNED"
      BY <2>2, <3>1 DEF CallOK
    <3> QED
      BY <3>1, <3>3, <3>4, <3>5 DEF CallOK, EarlierSigned
  <2> QED
    BY <2>1, <2>2
<1> QED
  BY <1>2, <1>3, <1>4 DEF CallsOK

\* No signer is added and nobody signs; a row may lose its signature, or get
\* it back.
LEMMA GoalsKept ==
    ASSUME SigningInv, Issued' = Issued, round' = round, mode' = mode,
           everSigned' = everSigned, undone \subseteq undone',
           contract' \in {contract, "DECLINED"},
           \A s \in Issued : sig'[s] = "SIGNED" => sig[s] = "SIGNED" \/ undone # {}
    PROVE  Goals'
<1>0. Goals
  BY DEF SigningInv
<1>1. ActiveMeansAllSigned'
  BY <1>0 DEF Goals, ActiveMeansAllSigned
<1>2. LastSignatureCompletes'
  BY <1>0 DEF Goals, LastSignatureCompletes
<1>3. SequentialOrder'
  BY <1>0 DEF Goals, SequentialOrder, Earlier
<1> QED
  BY <1>1, <1>2, <1>3 DEF Goals

\* A handler moves and nothing else does.
LEMMA CallOnly ==
    ASSUME SigningInv, NEW c \in Handlers, NEW d, HandlerTo(c, d), CallOK(d),
           UNCHANGED <<document, rows>>,
           d.at \in HoldsChain => \A e \in Handlers \ {c} : handler[e].at \notin HoldsChain
    PROVE  SigningInv'
<1>1. /\ Issued' = Issued
      /\ UNCHANGED <<contract, mode, pdf, pdfHash, sends, sig, viewed, round, everSigned, undone>>
  BY DEF document, rows, Issued
<1>2. CallOK(d)'
  BY <1>1 DEF CallOK, EarlierSigned
<1>3. CallsOK' /\ OneHolder'
  BY <1>1, <1>2, CallMoves DEF SigningInv, DocumentOK
<1>4. RowsOK' /\ DocumentOK'
  BY <1>1 DEF SigningInv, RowsOK, DocumentOK
<1>5. Goals'
  BY <1>1, GoalsKept
<1> QED
  BY <1>3, <1>4, <1>5 DEF SigningInv

\* The same handler at another stage.
LEMMA StageOnly ==
    ASSUME NEW c \in Handlers, CallOK(handler[c]), NEW pc \in Stages,
           handler[c].at \in ForSigner /\ pc \in ForSigner \ {"view", "signLock", "signCommit"},
           pc = "signChain" => handler[c].at = "signLock"
    PROVE  CallOK([handler[c] EXCEPT !.at = pc])
<1>1. PICK d : d = [handler[c] EXCEPT !.at = pc]
  OBVIOUS
<1>2. /\ d \in CallState /\ d.at = pc
      /\ d.doc = handler[c].doc /\ d.todo = handler[c].todo /\ d.signer = handler[c].signer
      /\ d.last = handler[c].last /\ d.read = handler[c].read
  BY <1>1 DEF CallOK, CallState
<1>3. CallOK(d)
  BY <1>2 DEF CallOK, ForSigner
<1> QED
  BY <1>1, <1>3

-----------------------------------------------------------------------------
(* What the steps of a handler that only read leave in it.                  *)
LEMMA ReadSteps ==
    ASSUME SigningInv, NEW c \in Handlers, NEW s \in Signers,
           \/ ViewLoad(c, s) \/ SignLoad(c, s) \/ DeclineLoad(c, s)
           \/ SignCheck(c) \/ SignGate(c) \/ SignLock(c)
           \/ DeclineLock(c) \/ DeclineChain(c)
    PROVE  SigningInv'
<1>0. /\ CallOK(handler[c]) /\ sends \in Nat /\ handler[c] \in CallState
      /\ CallOK(NoHandler) /\ NoHandler \in CallState
  BY IdleOK DEF SigningInv, CallsOK, DocumentOK, CallOK
<1>1. CASE ViewLoad(c, s)
  <2>1. PICK d : d = [NoHandler EXCEPT !.at = "view", !.signer = s, !.read = sig[s]]
    OBVIOUS
  <2>2. /\ d \in CallState /\ d.at = "view" /\ d.signer = s /\ d.read = sig[s]
        /\ d.doc = NoHandler.doc
    BY <1>0, <2>1 DEF CallState, Stages, SigningInv, RowsOK
  <2>3. sig[s] \in Outstanding \cup {"SIGNED"} /\ s \in Issued
    BY <1>1 DEF ViewLoad, Issued, Outstanding
  <2>4. CallOK(d)
    BY <1>0, <2>2, <2>3 DEF CallOK, ForSigner, SigningInv, RowsOK
  <2> QED
    BY <1>1, <2>1, <2>2, <2>4, CallOnly DEF ViewLoad, HoldsChain
<1>2. CASE SignLoad(c, s) \/ DeclineLoad(c, s)
  <2>1. PICK pc \in {"check", "declineLock"} : HandlerTo(c, [NoHandler EXCEPT !.at = pc, !.signer = s])
    BY <1>2 DEF SignLoad, DeclineLoad
  <2>2. PICK d : d = [NoHandler EXCEPT !.at = pc, !.signer = s]
    OBVIOUS
  <2>3. d \in CallState /\ d.at = pc /\ d.signer = s /\ d.doc = NoHandler.doc
    BY <1>0, <2>2 DEF CallState, Stages
  <2>4. s \in Issued /\ UNCHANGED <<document, rows>>
    BY <1>2 DEF SignLoad, DeclineLoad, Issued, Outstanding
  <2>5. CallOK(d)
    BY <1>0, <2>3, <2>4 DEF CallOK, ForSigner
  <2> QED
    BY <2>1, <2>2, <2>3, <2>4, <2>5, CallOnly DEF HoldsChain
<1>3. CASE SignCheck(c)
  <2>1. CallOK([handler[c] EXCEPT !.at = "gate"])
    BY <1>0, <1>3, StageOnly DEF SignCheck, HandlerAt, ForSigner, Stages
  <2>2. [handler[c] EXCEPT !.at = "gate"].at = "gate" /\ NoHandler.at = "idle"
    BY <1>0 DEF CallState, NoHandler
  <2>3. PICK d : d = IF pdf = pdfHash THEN [handler[c] EXCEPT !.at = "gate"] ELSE NoHandler
    OBVIOUS
  <2> QED
    BY <1>0, <1>3, <2>1, <2>2, <2>3, CallOnly DEF SignCheck, HoldsChain
<1>4. CASE SignGate(c)
  <2>1. PICK d : d = [handler[c] EXCEPT !.at = "signLock"]
    OBVIOUS
  <2>2. /\ d \in CallState /\ d.at = "signLock"
        /\ d.doc = handler[c].doc /\ d.signer = handler[c].signer
    BY <1>0, <2>1 DEF CallState, Stages
  <2>3. ASSUME MaySign(handler[c].signer) PROVE EarlierSigned(d.signer)
    BY <2>2, <2>3 DEF MaySign, EarlierSigned, SigningInv, RowsOK, Earlier
  <2>4. ASSUME MaySign(handler[c].signer) PROVE CallOK(d)
    BY <1>0, <1>4, <2>2, <2>3, <2>4 DEF SignGate, HandlerAt, CallOK, ForSigner
  <2>5. PICK f : f = IF MaySign(handler[c].signer) THEN d ELSE NoHandler
    OBVIOUS
  <2>6. CallOK(f) /\ f.at \notin HoldsChain
    BY <1>0, <2>2, <2>4, <2>5 DEF HoldsChain, NoHandler
  <2> QED
    BY <1>4, <2>1, <2>5, <2>6, CallOnly DEF SignGate
<1>5. CASE SignLock(c)
  <2>1. CallOK([handler[c] EXCEPT !.at = "signChain"])
    BY <1>0, <1>5, StageOnly DEF SignLock, HandlerAt, ForSigner, Stages
  <2>2. [handler[c] EXCEPT !.at = "signChain"].at = "signChain" /\ NoHandler.at = "idle"
    BY <1>0 DEF CallState, NoHandler
  <2>3. PICK d : d = IF sig[handler[c].signer] \in Outstanding THEN [handler[c] EXCEPT !.at = "signChain"] ELSE NoHandler
    OBVIOUS
  <2> QED
    BY <1>0, <1>5, <2>1, <2>2, <2>3, CallOnly DEF SignLock, HoldsChain
<1>6. CASE DeclineLock(c)
  <2>1. CallOK([handler[c] EXCEPT !.at = "declineChain"])
    BY <1>0, <1>6, StageOnly DEF DeclineLock, HandlerAt, ForSigner, Stages
  <2>2. [handler[c] EXCEPT !.at = "declineChain"].at = "declineChain"
    BY <1>0 DEF CallState
  <2> QED
    BY <1>6, <2>1, <2>2, CallOnly DEF DeclineLock, HoldsChain
<1>7. CASE DeclineChain(c)
  <2>1. CallOK([handler[c] EXCEPT !.at = "declineCommit"])
    BY <1>0, <1>7, StageOnly DEF DeclineChain, HandlerAt, ForSigner, Stages
  <2>2. \A e \in Handlers : handler[e].at \notin HoldsChain
    BY <1>7 DEF DeclineChain, ChainFree, HoldsChain
  <2> QED
    BY <1>7, <2>1, <2>2, CallOnly DEF DeclineChain
<1> QED
  BY <1>1, <1>2, <1>3, <1>4, <1>5, <1>6, <1>7

\* The signers that were counted: none is closed, and one is open or all the
\* others have signed.
LEMMA SignChainStep ==
    ASSUME SigningInv, NEW c \in Handlers, SignChain(c)
    PROVE  SigningInv'
<1>0. /\ CallOK(handler[c]) /\ handler[c] \in CallState /\ CallOK(NoHandler) /\ handler[c].at = "signChain"
      /\ RowsOK
  BY IdleOK DEF SigningInv, CallsOK, DocumentOK, CallOK, SignChain, HandlerAt
<1> DEFINE others == {s \in Signers \ {handler[c].signer} : sig[s] \in Outstanding}
<1>1. PICK l \in {0, 1} : l = IF others = {} THEN 1 ELSE 0
  OBVIOUS
<1>2. PICK d : d = [handler[c] EXCEPT !.at = "signCommit", !.last = l]
  OBVIOUS
<1>3. /\ d \in CallState /\ d.at = "signCommit" /\ d.last = l
      /\ d.doc = handler[c].doc /\ d.signer = handler[c].signer
  BY <1>0, <1>2 DEF CallState, Stages
<1>4. ASSUME ~Refused PROVE CallOK(d)
  <2>1. \A s \in Issued \ {d.signer} : sig[s] \in Outstanding \/ s \in everSigned
    BY <1>0, <1>4 DEF Refused, RowsOK, Statuses, Issued
  <2>2. d.last = 1 => Issued \ {d.signer} \subseteq everSigned
    BY <1>1, <1>3, <2>1 DEF Issued
  <2>3. d.last = 0 => \E e \in Issued \ {d.signer} : sig[e] # "SIGNED"
    BY <1>1, <1>3 DEF Issued, Outstanding
  <2> QED
    BY <1>0, <1>3, <2>2, <2>3 DEF CallOK, ForSigner
<1>5. PICK f : f = IF Refused THEN NoHandler ELSE d
  OBVIOUS
<1>6. CallOK(f)
  BY <1>0, <1>4, <1>5
<1>7. \A e \in Handlers : handler[e].at \notin HoldsChain
  BY DEF SignChain, ChainFree, HoldsChain
<1> QED
  BY <1>1, <1>2, <1>5, <1>6, <1>7, CallOnly DEF SignChain

LEMMA SignCommitStep ==
    ASSUME SigningInv, NEW c \in Handlers, SignCommit(c)
    PROVE  SigningInv'
<1> PICK s : s = handler[c].signer
  OBVIOUS
<1>0. /\ CallOK(handler[c]) /\ CallOK(NoHandler) /\ RowsOK /\ DocumentOK /\ Goals
      /\ handler[c].at = "signCommit" /\ s \in Issued /\ handler[c].last \in {0, 1}
  BY IdleOK DEF SigningInv, CallsOK, DocumentOK, CallOK, CallState, SignCommit, HandlerAt, ForSigner
<1>1. /\ Put({s}, "SIGNED") /\ HandlerTo(c, NoHandler)
      /\ contract' = IF handler[c].last = 1 THEN "ACTIVE" ELSE contract
      /\ UNCHANGED <<mode, pdf, pdfHash, sends, viewed, round>>
  BY DEF SignCommit
<1>2. /\ RowsOK' /\ Issued' = Issued /\ everSigned' = everSigned \cup {s}
      /\ undone \subseteq undone'
      /\ \A e \in Signers : sig'[e] = IF e = s THEN "SIGNED" ELSE sig[e]
  <2>1. {s} \in SUBSET Issued /\ "SIGNED" \in Statuses \ {"NONE"}
    BY <1>0 DEF Statuses
  <2>2. viewed \subseteq viewed' /\ viewed' \subseteq Issued /\ round' = round
    BY <1>0, <1>1 DEF RowsOK
  <2>3. /\ RowsOK' /\ Issued' = Issued /\ undone \subseteq undone'
        /\ \A e \in Signers : sig'[e] = IF e \in {s} THEN "SIGNED" ELSE sig[e]
        /\ everSigned' = IF "SIGNED" = "SIGNED" THEN everSigned \cup {s} ELSE everSigned
    BY <1>0, <1>1, <2>1, <2>2, PutRows
  <2> QED
    BY <2>3
<1>3. \A e \in Handlers \ {c} : handler[e].at # "signCommit"
  BY <1>0 DEF SigningInv, OneHolder, HoldsChain
<1>4. CallOK(NoHandler)' /\ NoHandler.at \notin HoldsChain
  BY <1>0, <1>1, IdleOK DEF DocumentOK, CallOK, CallState, NoHandler, Stages, ForSigner, Statuses, HoldsChain
<1>5. PICK d : d = NoHandler
  OBVIOUS
<1>6. CallOK(d)'
  BY <1>0, <1>1, <1>5 DEF DocumentOK, CallOK, CallState, NoHandler, Stages, ForSigner, Statuses
<1>7. CallsOK' /\ OneHolder'
  BY <1>0, <1>1, <1>2, <1>3, <1>4, <1>5, <1>6, CallMoves DEF DocumentOK
<1>8. DocumentOK'
  BY <1>0, <1>1 DEF DocumentOK
<1>9. ActiveMeansAllSigned'
  <2>1. CASE handler[c].last = 1
    BY <1>0, <1>2, <2>1 DEF CallOK, ActiveMeansAllSigned
  <2>2. CASE handler[c].last = 0
    BY <1>0, <1>1, <1>2, <2>2 DEF Goals, ActiveMeansAllSigned
  <2> QED
    BY <1>0, <2>1, <2>2
<1>10. LastSignatureCompletes'
  <2>1. CASE handler[c].last = 1
    BY <1>1, <2>1 DEF LastSignatureCompletes
  <2>2. CASE handler[c].last = 0
    BY <1>0, <1>2, <2>2 DEF CallOK, LastSignatureCompletes, Issued
  <2> QED
    BY <1>0, <2>1, <2>2
<1>11. SequentialOrder'
  BY <1>0, <1>1, <1>2 DEF Goals, SequentialOrder, CallOK, EarlierSigned, Earlier
<1> QED
  BY <1>2, <1>7, <1>8, <1>9, <1>10, <1>11 DEF SigningInv, Goals

\* A write over rows there are, other than a signature.
LEMMA Overwrites ==
    ASSUME SigningInv, NEW c \in Handlers, NEW d, HandlerTo(c, d), CallOK(d), d.at \notin HoldsChain,
           NEW S \in SUBSET Issued, NEW v \in Statuses \ {"NONE"}, Put(S, v),
           v = "SIGNED" => S \subseteq everSigned /\ ChainFree,
           viewed \subseteq viewed', viewed' \subseteq Issued,
           UNCHANGED <<document, round>>
    PROVE  SigningInv'
<1>0. /\ RowsOK /\ DocumentOK
      /\ UNCHANGED <<contract, mode, pdf, pdfHash, sends>>
  BY DEF SigningInv, document
<1>1. /\ RowsOK' /\ Issued' = Issued /\ undone \subseteq undone'
      /\ everSigned' = everSigned
      /\ \A e \in Signers : sig'[e] = IF e \in S THEN v ELSE sig[e]
  <2>1. /\ RowsOK' /\ Issued' = Issued /\ undone \subseteq undone'
        /\ everSigned' = IF v = "SIGNED" THEN everSigned \cup S ELSE everSigned
        /\ \A e \in Signers : sig'[e] = IF e \in S THEN v ELSE sig[e]
    BY <1>0, PutRows
  <2> QED
    BY <2>1
<1>2. CallOK(d)'
  BY <1>0, <1>1 DEF CallOK, EarlierSigned, HoldsChain
<1>3. \A s \in Issued : sig'[s] = "SIGNED" => sig[s] = "SIGNED" \/ undone # {}
  BY <1>0, <1>1 DEF RowsOK, Issued
<1>4. \/ \A s \in Issued : sig'[s] = "SIGNED" => sig[s] = "SIGNED"
      \/ \A e \in Handlers \ {c} : handler[e].at # "signCommit"
  BY <1>1 DEF ChainFree, Issued
<1>5. CallsOK' /\ OneHolder'
  BY <1>0, <1>1, <1>2, <1>4, CallMoves DEF DocumentOK
<1>6. Goals'
  BY <1>0, <1>1, <1>3, GoalsKept
<1> QED
  BY <1>0, <1>1, <1>5, <1>6 DEF SigningInv, DocumentOK

LEMMA OverwriteSteps ==
    ASSUME SigningInv, NEW c \in Handlers, NEW s \in Signers,
           Invite(c, s) \/ View(c) \/ ExpireSigner(c, s)
    PROVE  SigningInv'
<1>0. /\ CallOK(handler[c]) /\ handler[c] \in CallState /\ CallOK(NoHandler) /\ NoHandler.at = "idle"
      /\ RowsOK /\ UNCHANGED <<document, round>>
  BY IdleOK DEF SigningInv, CallsOK, DocumentOK, CallOK, NoHandler, Invite, View, ExpireSigner, document
<1>1. CASE Invite(c, s)
  <2>1. s \in Issued /\ handler[c].at = "invite" /\ Put({s}, "SENT") /\ viewed' = viewed
    BY <1>0, <1>1 DEF Invite, HandlerAt, CallOK
  <2>2. PICK d : d = [handler[c] EXCEPT !.todo = @ \ {s}]
    OBVIOUS
  <2>3. /\ d \in CallState /\ d.at = handler[c].at /\ d.todo = handler[c].todo \ {s}
        /\ d.doc = handler[c].doc
    BY <1>0, <2>2 DEF CallState
  <2>4. CallOK(d)
    BY <1>0, <2>1, <2>3 DEF CallOK, ForSigner
  <2>5. PICK f : f = IF handler[c].todo = {s} THEN NoHandler ELSE d
    OBVIOUS
  <2>6. CallOK(f) /\ f.at \notin HoldsChain /\ HandlerTo(c, f)
    BY <1>0, <1>1, <2>1, <2>2, <2>3, <2>4, <2>5 DEF Invite, HoldsChain
  <2>7. "SENT" \in Statuses \ {"NONE"} /\ {s} \in SUBSET Issued /\ viewed \subseteq Issued
    BY <1>0, <2>1 DEF Statuses, Outstanding, RowsOK
  <2> QED
    BY <1>0, <2>1, <2>6, <2>7, Overwrites
<1>2. CASE View(c)
  <2>1. PICK u : u = handler[c].signer
    OBVIOUS
  <2>2. PICK v : v = IF handler[c].read = "PENDING" THEN "VIEWED" ELSE handler[c].read
    OBVIOUS
  <2>3. /\ u \in Issued /\ Put({u}, v) /\ viewed' = viewed \cup {u} /\ ChainFree
        /\ HandlerTo(c, NoHandler) /\ handler[c].at = "view"
    BY <1>0, <1>2, <2>1, <2>2 DEF View, HandlerAt, CallOK, ForSigner
  <2>4. v \in Statuses \ {"NONE"} /\ (v = "SIGNED" => u \in everSigned)
    BY <1>0, <2>1, <2>2, <2>3 DEF CallOK, Statuses, Outstanding
  <2>5. {u} \in SUBSET Issued /\ viewed \subseteq Issued
    BY <1>0, <2>3 DEF RowsOK
  <2>6. PICK d : d = NoHandler
    OBVIOUS
  <2>7. HandlerTo(c, d) /\ CallOK(d) /\ d.at \notin HoldsChain
    BY <1>0, <2>3, <2>6 DEF HoldsChain
  <2> QED
    BY <1>0, <2>3, <2>4, <2>5, <2>7, Overwrites
<1>3. CASE ExpireSigner(c, s)
  <2>1. s \in Issued /\ handler[c].at = "expire" /\ Put({s}, "EXPIRED") /\ viewed' = viewed
    BY <1>0, <1>3 DEF ExpireSigner, HandlerAt, CallOK, rows
  <2>2. PICK d : d = [handler[c] EXCEPT !.todo = @ \ {s},
                                     !.at = IF handler[c].todo = {s} THEN "count" ELSE "expire"]
    OBVIOUS
  <2>3. /\ d \in CallState /\ d.at \in {"count", "expire"} /\ d.todo = handler[c].todo \ {s}
        /\ d.doc = handler[c].doc
    BY <1>0, <2>2 DEF CallState, Stages
  <2>4. CallOK(d)
    BY <1>0, <2>1, <2>3 DEF CallOK, ForSigner
  <2>5. "EXPIRED" \in Statuses \ {"NONE"} /\ {s} \in SUBSET Issued /\ viewed \subseteq Issued
    BY <1>0, <2>1 DEF Statuses, Closed, RowsOK
  <2>6. HandlerTo(c, d) /\ d.at \notin HoldsChain
    BY <1>3, <2>2, <2>3 DEF ExpireSigner, HoldsChain
  <2> QED
    BY <1>0, <2>1, <2>4, <2>5, <2>6, Overwrites
<1> QED
  BY <1>1, <1>2, <1>3

LEMMA DeclineCommitStep ==
    ASSUME SigningInv, NEW c \in Handlers, DeclineCommit(c)
    PROVE  SigningInv'
<1> PICK s : s = handler[c].signer
  OBVIOUS
<1>0. /\ CallOK(handler[c]) /\ RowsOK /\ DocumentOK /\ s \in Issued
      /\ handler[c].at = "declineCommit"
  BY DEF SigningInv, CallsOK, CallOK, DeclineCommit, HandlerAt, ForSigner
<1>1. /\ sig' = [e \in Signers |-> IF e = s THEN "DECLINED"
                                  ELSE IF e \in Cascade(c) THEN "VOIDED" ELSE sig[e]]
      /\ undone' = undone \cup {e \in {s} : sig[e] = "SIGNED"}
      /\ contract' = "DECLINED" /\ HandlerTo(c, NoHandler)
      /\ UNCHANGED <<mode, pdf, pdfHash, sends, viewed, round, everSigned>>
  BY DEF DeclineCommit
<1>2. \A e \in Cascade(c) : e \in Signers \ {s} /\ sig[e] \in Outstanding
  BY DEF Cascade
<1>3. Issued' = Issued
  BY <1>0, <1>1, <1>2 DEF Issued, Outstanding
<1>4. \A e \in Issued : sig'[e] = "SIGNED" => sig[e] = "SIGNED"
  BY <1>1 DEF Issued
<1>5. RowsOK'
  <2>1. sig' \in [Signers -> Statuses]
    BY <1>0, <1>1 DEF RowsOK, Statuses, Closed
  <2>2. \A e \in Signers : round'[e] = 0 <=> sig'[e] = "NONE"
    BY <1>0, <1>1, <1>2 DEF RowsOK, Issued, Outstanding
  <2>3. everSigned' = undone' \cup {e \in Signers : sig'[e] = "SIGNED"}
    BY <1>0, <1>1, <1>2 DEF RowsOK, Issued, Outstanding
  <2>4. undone' \subseteq Issued /\ viewed' \subseteq Issued
    BY <1>0, <1>1 DEF RowsOK
  <2> QED
    BY <1>0, <1>1, <1>3, <2>1, <2>2, <2>3, <2>4 DEF RowsOK
<1>6. PICK d : d = NoHandler
  OBVIOUS
<1>7. CallOK(d)' /\ d.at \notin HoldsChain
  BY <1>0, <1>1, <1>6 DEF DocumentOK, CallOK, CallState, NoHandler, Stages, ForSigner, Statuses, HoldsChain
<1>8. CallsOK' /\ OneHolder'
  BY <1>0, <1>1, <1>3, <1>4, <1>6, <1>7, CallMoves DEF DocumentOK
<1>9. Goals'
  BY <1>1, <1>3, <1>4, GoalsKept
<1>10. DocumentOK'
  BY <1>0, <1>1 DEF DocumentOK
<1> QED
  BY <1>5, <1>8, <1>9, <1>10 DEF SigningInv

-----------------------------------------------------------------------------
(* sendForSignature.                                                        *)
LEMMA SendStarts ==
    ASSUME SigningInv, NEW c \in Handlers, NEW S \in SUBSET Signers, S # {},
           SendCheck(c, S) \/ Upload(c)
    PROVE  SigningInv'
<1>0. /\ CallOK(handler[c]) /\ handler[c] \in CallState /\ RowsOK /\ DocumentOK
      /\ CallOK(NoHandler) /\ NoHandler \in CallState
      /\ UNCHANGED <<contract, mode, pdfHash, sig, viewed, round, everSigned, undone>>
      /\ Issued' = Issued
  BY IdleOK DEF SigningInv, CallsOK, DocumentOK, CallOK, SendCheck, Upload, rows, Issued
<1>1. PICK d : /\ HandlerTo(c, d) /\ d \in CallState /\ d.at \in {"upload", "send"}
               /\ d.todo # {} /\ d.doc =< sends' /\ pdf' \in 0..sends'
               /\ sends' \in 0..MaxSends /\ sends' >= sends
  <2>1. CASE SendCheck(c, S)
    <3>1. sends' = sends + 1 /\ sends' \in 0..MaxSends /\ pdf' = pdf
      BY <1>0, <2>1 DEF SendCheck, DocumentOK
    <3>2. PICK d : d = [NoHandler EXCEPT !.at = "upload", !.doc = sends + 1, !.todo = S]
      OBVIOUS
    <3>3. d \in CallState /\ d.at = "upload" /\ d.todo = S /\ d.doc = sends'
      BY <1>0, <3>1, <3>2 DEF CallState, Stages
    <3>4. HandlerTo(c, d)
      BY <2>1, <3>2 DEF SendCheck
    <3>5. /\ sends' >= sends /\ d.doc =< sends' /\ pdf' \in 0..sends'
      BY <1>0, <3>1, <3>3 DEF DocumentOK
    <3> QED
      BY <3>1, <3>3, <3>4, <3>5
  <2>2. CASE Upload(c)
    <3>1. sends' = sends /\ pdf' = handler[c].doc /\ handler[c].at = "upload"
      BY <2>2 DEF Upload, HandlerAt
    <3>2. PICK d : d = [handler[c] EXCEPT !.at = "send"]
      OBVIOUS
    <3>3. d \in CallState /\ d.at = "send" /\ d.todo = handler[c].todo /\ d.doc = handler[c].doc
      BY <1>0, <3>2 DEF CallState, Stages
    <3>4. handler[c].doc \in 0..sends
      BY <1>0 DEF CallOK, CallState, DocumentOK
    <3>5. HandlerTo(c, d)
      BY <2>2, <3>2 DEF Upload
    <3>6. /\ sends' >= sends /\ d.doc =< sends' /\ pdf' \in 0..sends' /\ sends' \in 0..MaxSends
      BY <1>0, <3>1, <3>3, <3>4 DEF DocumentOK
    <3>7. d.todo # {}
      BY <1>0, <3>1, <3>3 DEF CallOK
    <3> QED
      BY <3>3, <3>5, <3>6, <3>7
  <2> QED
    BY <2>1, <2>2
<1>2. CallOK(d)'
  BY <1>0, <1>1 DEF CallOK, ForSigner
<1>3. CallsOK' /\ OneHolder'
  BY <1>0, <1>1, <1>2, CallMoves DEF HoldsChain, DocumentOK
<1>4. RowsOK' /\ DocumentOK'
  BY <1>0, <1>1 DEF RowsOK, DocumentOK
<1>5. Goals'
  BY <1>0, GoalsKept
<1> QED
  BY <1>3, <1>4, <1>5 DEF SigningInv

\* The transaction: rows that did not exist, in a round of their own.
LEMMA SendStep ==
    ASSUME SigningInv, NEW c \in Handlers, Send(c)
    PROVE  SigningInv'
<1> PICK S : S = handler[c].todo
  OBVIOUS
<1>0. /\ CallOK(handler[c]) /\ handler[c] \in CallState /\ RowsOK /\ DocumentOK /\ Goals
      /\ CallOK(NoHandler) /\ NoHandler \in CallState /\ NoHandler.at = "idle"
      /\ S \in SUBSET Signers /\ S # {}
      /\ \A e \in Handlers : handler[e].at \notin HoldsChain
  BY IdleOK DEF SigningInv, CallsOK, DocumentOK, CallOK, CallState, Send, HandlerAt, ChainFree,
                HoldsChain, NoHandler
<1>1. CASE S \cap Issued # {}
  <2>1. PICK d : d = NoHandler
    OBVIOUS
  <2> QED
    BY <1>0, <1>1, <2>1, CallOnly DEF Send, HoldsChain
<1>2. CASE S \cap Issued = {}
  <2>1. /\ contract' = "PENDING_SIGNATURE" /\ pdfHash' = handler[c].doc /\ Put(S, "PENDING")
        /\ round' = [s \in Signers |-> IF s \in S THEN Cardinality(Issued) + 1 ELSE round[s]]
        /\ HandlerTo(c, [NoHandler EXCEPT !.at = "invite", !.todo = Invited(S)])
        /\ UNCHANGED <<mode, pdf, sends, viewed>>
    BY <1>2 DEF Send
  <2>2. \A s \in Signers : sig'[s] = IF s \in S THEN "PENDING" ELSE sig[s]
    BY <2>1 DEF Put
  <2>3. Issued' = Issued \cup S /\ everSigned' = everSigned /\ undone' = undone
    BY <1>0, <1>2, <2>1, <2>2 DEF Issued, Put
  <2>4. /\ Cardinality(Issued) \in Nat /\ Cardinality(Issued') \in Nat
        /\ Cardinality(Issued') > Cardinality(Issued)
    <3>1. IsFiniteSet(Signers) /\ Issued' \subseteq Signers /\ Issued \subseteq Issued'
          /\ Issued # Issued'
      BY <1>0, <1>2, <2>3 DEF Issued
    <3>2. IsFiniteSet(Issued') /\ IsFiniteSet(Issued)
      BY <3>1, FS_Subset
    <3> QED
      BY <3>1, <3>2, FS_Subset, FS_CardinalityType
  <2>5. RowsOK'
    <3>1. sig' \in [Signers -> Statuses]
      BY <1>0, <2>1 DEF Put, RowsOK, Statuses, Outstanding
    <3>2. /\ round' \in [Signers -> Nat]
          /\ \A s \in Signers : round'[s] =< Cardinality(Issued')
      BY <1>0, <2>1, <2>4 DEF RowsOK
    <3>3. \A s \in Signers : round'[s] = 0 <=> sig'[s] = "NONE"
      BY <1>0, <2>1, <2>2, <2>4 DEF RowsOK
    <3>4. undone' \subseteq Issued' /\ viewed' \subseteq Issued'
      BY <1>0, <2>1, <2>3 DEF RowsOK
    <3>5. everSigned' = undone' \cup {s \in Signers : sig'[s] = "SIGNED"}
      BY <1>0, <1>2, <2>2, <2>3 DEF RowsOK, Issued
    <3> QED
      BY <3>1, <3>2, <3>3, <3>4, <3>5 DEF RowsOK
  <2>6. PICK d : d = [NoHandler EXCEPT !.at = "invite", !.todo = Invited(S)]
    OBVIOUS
  <2>7. Invited(S) \subseteq S
    BY DEF Invited
  <2>8. d \in CallState /\ d.at = "invite" /\ d.todo = Invited(S) /\ d.doc = NoHandler.doc
    BY <1>0, <2>6, <2>7 DEF CallState, Stages
  <2>9. CallsOK' /\ OneHolder'
    <3>1. \A e \in Handlers : handler'[e] = IF e = c THEN d ELSE handler[e]
      BY <2>1, <2>6 DEF HandlerTo, SigningInv, CallsOK
    <3>2. handler' = [e \in Handlers |-> handler'[e]]
      BY <2>1 DEF HandlerTo, SigningInv, CallsOK
    <3>3. OneHolder'
      BY <1>0, <2>8, <3>1 DEF OneHolder, HoldsChain
    <3>4. ASSUME NEW e \in Handlers PROVE CallOK(handler[e])'
      <4>1. CASE e = c
        <5>1. handler'[e] = d
          BY <3>1, <4>1
        <5>2. d.doc =< sends'
          BY <1>0, <2>1, <2>8 DEF CallOK
        <5> QED
          BY <2>3, <2>7, <2>8, <5>1, <5>2 DEF CallOK, ForSigner
      <4>2. CASE e # c
        <5>1. handler'[e] = handler[e] /\ CallOK(handler[e]) /\ handler[e].at # "signCommit"
          BY <1>0, <3>1, <4>2 DEF SigningInv, CallsOK, HoldsChain
        <5>2. ASSUME handler[e].at \in {"signLock", "signChain"}
              PROVE  EarlierSigned(handler[e].signer)'
          <6>1. EarlierSigned(handler[e].signer) /\ handler[e].signer \in Issued
            BY <5>1, <5>2 DEF CallOK, ForSigner
          <6>2. PICK u : u = handler[e].signer
            OBVIOUS
          <6>3. /\ u \in Signers /\ u \notin S /\ round'[u] = round[u]
                /\ round[u] =< Cardinality(Issued) /\ round[u] \in Nat
            BY <1>0, <1>2, <2>1, <6>1, <6>2 DEF RowsOK, Issued
          <6>4. ASSUME mode = "SEQUENTIAL", NEW x \in Earlier(u) \cap Issued',
                       round'[x] =< round'[u]
                PROVE  x \in everSigned
            <7>1. x \notin S
              BY <2>1, <2>4, <6>3, <6>4 DEF Earlier
            <7>2. x \in Earlier(u) \cap Issued /\ round[x] =< round[u]
              BY <2>1, <2>3, <6>3, <6>4, <7>1 DEF Earlier
            <7> QED
              BY <6>1, <6>2, <6>4, <7>2 DEF EarlierSigned
          <6>5. EarlierSigned(u)'
            BY <2>1, <2>3, <6>4 DEF EarlierSigned, Earlier
          <6> QED
            BY <5>1, <6>2, <6>5
        <5> QED
          BY <2>1, <2>3, <5>1, <5>2 DEF CallOK
      <4> QED
        BY <4>1, <4>2
    <3> QED
      BY <3>2, <3>3, <3>4 DEF CallsOK
  <2>10. DocumentOK'
    BY <1>0, <2>1 DEF DocumentOK, CallOK, CallState
  <2>11. Goals'
    <3>1. ActiveMeansAllSigned'
      BY <2>1 DEF ActiveMeansAllSigned
    <3>2. LastSignatureCompletes'
      BY <1>0, <2>2, <2>3 DEF LastSignatureCompletes
    <3>3. SequentialOrder'
      <4> SUFFICES ASSUME mode = "SEQUENTIAL", NEW s \in everSigned, NEW e \in Earlier(s) \cap Issued',
                          round'[e] =< round'[s]
                   PROVE  e \in everSigned
        BY <2>1, <2>3 DEF SequentialOrder, Earlier
      <4>1. s \in Issued /\ s \in Signers
        BY <1>0 DEF RowsOK, Issued
      <4>2. s \notin S /\ round'[s] = round[s] /\ round[s] =< Cardinality(Issued) /\ round[s] \in Nat
        BY <1>0, <1>2, <2>1, <4>1 DEF RowsOK
      <4>3. e \notin S
        BY <2>1, <2>4, <4>2 DEF Earlier
      <4>4. e \in Earlier(s) \cap Issued /\ round[e] =< round[s]
        BY <2>1, <2>3, <4>2, <4>3 DEF Earlier
      <4> QED
        BY <1>0, <4>4 DEF Goals, SequentialOrder
    <3> QED
      BY <3>1, <3>2, <3>3 DEF Goals
  <2> QED
    BY <2>5, <2>9, <2>10, <2>11 DEF SigningInv
<1> QED
  BY <1>1, <1>2
-----------------------------------------------------------------------------
(* The expiry sweep's other steps, and a handler that dies.                 *)
LEMMA SweepSteps ==
    ASSUME SigningInv, NEW c \in Handlers, NEW S \in SUBSET Signers,
           ExpireScan(c, S) \/ ExpireCount(c) \/ Abort(c)
    PROVE  SigningInv'
<1>0. /\ CallOK(handler[c]) /\ handler[c] \in CallState
      /\ CallOK(NoHandler) /\ NoHandler \in CallState /\ NoHandler.at = "idle"
  BY IdleOK DEF SigningInv, CallsOK, DocumentOK, CallOK, NoHandler
<1>1. CASE ExpireScan(c, S)
  <2>1. PICK d : d = [NoHandler EXCEPT !.at = "expire", !.todo = S]
    OBVIOUS
  <2>2. d \in CallState /\ d.at = "expire" /\ d.todo = S /\ d.doc = NoHandler.doc
    BY <1>0, <2>1 DEF CallState, Stages
  <2>3. S \subseteq Issued
    BY <1>1 DEF ExpireScan, Issued, Outstanding
  <2>4. CallOK(d)
    BY <1>0, <2>2, <2>3 DEF CallOK, ForSigner
  <2> QED
    BY <1>1, <2>1, <2>2, <2>4, CallOnly DEF ExpireScan, HoldsChain
<1>2. CASE ExpireCount(c)
  <2>1. PICK d : d = [handler[c] EXCEPT !.at = "cascade"]
    OBVIOUS
  <2>2. d \in CallState /\ d.at = "cascade" /\ d.doc = handler[c].doc
    BY <1>0, <2>1 DEF CallState, Stages
  <2>3. CallOK(d)
    BY <1>0, <2>2 DEF CallOK, ForSigner
  <2>4. PICK f : f = IF \E s \in Signers : sig[s] \in Outstanding \cup {"SIGNED"} THEN NoHandler ELSE d
    OBVIOUS
  <2>5. CallOK(f) /\ f.at \notin HoldsChain
    BY <1>0, <2>2, <2>3, <2>4 DEF HoldsChain
  <2> QED
    BY <1>2, <2>1, <2>4, <2>5, CallOnly DEF ExpireCount
<1>3. CASE Abort(c)
  <2>1. PICK d : d = NoHandler
    OBVIOUS
  <2> QED
    BY <1>0, <1>3, <2>1, CallOnly DEF Abort, HoldsChain
<1> QED
  BY <1>1, <1>2, <1>3

\* Closing the contract: no property asks anything of one that is DECLINED.
LEMMA ExpireCascadeStep ==
    ASSUME SigningInv, NEW c \in Handlers, ExpireCascade(c)
    PROVE  SigningInv'
<1>0. /\ UNCHANGED <<mode, pdf, pdfHash, sends, sig, viewed, round, everSigned, undone>>
      /\ contract' \in {contract, "DECLINED"} /\ Issued' = Issued /\ HandlerTo(c, NoHandler)
  BY DEF ExpireCascade, rows, Issued
<1>1. PICK d : d = NoHandler
  OBVIOUS
<1>2. CallOK(d)' /\ d.at \notin HoldsChain
  BY <1>0, <1>1 DEF SigningInv, DocumentOK, CallOK, CallState, NoHandler, Stages, ForSigner,
                    Statuses, HoldsChain
<1>3. CallsOK' /\ OneHolder'
  BY <1>0, <1>1, <1>2, CallMoves DEF SigningInv, DocumentOK
<1>4. RowsOK' /\ DocumentOK'
  BY <1>0 DEF SigningInv, RowsOK, DocumentOK
<1>5. Goals'
  BY <1>0, GoalsKept
<1> QED
  BY <1>3, <1>4, <1>5 DEF SigningInv

\* SigningInv is inductive: one lemma for each action, or kind of action.
LEMMA SigningStep == SigningInv /\ [SigningNext]_signingVars => SigningInv'
<1> SUFFICES ASSUME SigningInv, [SigningNext]_signingVars PROVE SigningInv'
  OBVIOUS
<1>1. CASE UNCHANGED signingVars
  BY <1>1 DEF signingVars, document, rows, SigningInv, CallsOK, CallOK, EarlierSigned, Issued,
              OneHolder, RowsOK, DocumentOK, Goals, ActiveMeansAllSigned,
              LastSignatureCompletes, SequentialOrder, Earlier
<1>2. CASE SigningNext
  <2>1. PICK c \in Handlers : StartHandler(c) \/ HandlerStep(c) \/ Abort(c)
    BY <1>2 DEF SigningNext
  <2>2. CallOK(handler[c])
    BY DEF SigningInv, CallsOK
  <2>3. CASE StartHandler(c)
    <3>1. CASE \E S \in (SUBSET Signers) \ {{}} : SendCheck(c, S) \/ ExpireScan(c, S)
      <4>1. PICK S \in SUBSET Signers : S # {} /\ (SendCheck(c, S) \/ ExpireScan(c, S))
        BY <3>1
      <4> QED
        BY <4>1, SendStarts, SweepSteps
    <3>2. CASE \E s \in Signers : ViewLoad(c, s) \/ SignLoad(c, s) \/ DeclineLoad(c, s)
      BY <3>2, ReadSteps
    <3> QED
      BY <2>3, <3>1, <3>2 DEF StartHandler
  <2>4. CASE HandlerStep(c)
    <3>1. CASE Upload(c)
      <4>1. handler[c].todo \in SUBSET Signers /\ handler[c].todo # {}
        BY <2>2, <3>1 DEF Upload, HandlerAt, CallOK, CallState
      <4> QED
        BY <3>1, <4>1, SendStarts
    <3>2. CASE View(c) \/ SignCheck(c) \/ SignGate(c) \/ SignLock(c) \/ DeclineLock(c)
               \/ DeclineChain(c)
      <4>1. handler[c].signer \in Signers
        BY <2>2, <3>2 DEF View, SignCheck, SignGate, SignLock, DeclineLock, DeclineChain, HandlerAt,
                          CallOK, ForSigner, Issued
      <4> QED
        BY <3>2, <4>1, OverwriteSteps, ReadSteps
    <3>3. CASE Send(c) \/ SignChain(c) \/ SignCommit(c) \/ DeclineCommit(c)
      BY <3>3, SendStep, SignChainStep, SignCommitStep, DeclineCommitStep
    <3>4. CASE ExpireCount(c) \/ ExpireCascade(c)
      BY <3>4, SweepSteps, ExpireCascadeStep
    <3>5. CASE \E s \in Signers : Invite(c, s) \/ ExpireSigner(c, s)
      BY <3>5, OverwriteSteps
    <3> QED
      BY <2>4, <3>1, <3>2, <3>3, <3>4, <3>5 DEF HandlerStep
  <2>5. CASE Abort(c)
    BY <2>5, SweepSteps
  <2> QED
    BY <2>1, <2>3, <2>4, <2>5
<1> QED
  BY <1>1, <1>2

-----------------------------------------------------------------------------
(* Every variable keeps its type, history and locals included; a row has a *)
(* round exactly when it exists.                                           *)
THEOREM TypeCorrect == SigningSpec => []SigningTypeOK
<1>1. SigningInv => SigningTypeOK
  <2> SUFFICES ASSUME SigningInv PROVE SigningTypeOK
    OBVIOUS
  <2>1. handler \in [Handlers -> CallState]
    BY DEF SigningInv, CallsOK, CallOK
  <2>2. round \in [Signers -> 0..Cardinality(Signers)]
    <3>1. Cardinality(Signers) \in Nat
      BY FS_CardinalityType
    <3> QED
      BY <3>1, IssuedCount DEF SigningInv, RowsOK
  <2>3. everSigned \subseteq Issued /\ undone \subseteq everSigned
    BY DEF SigningInv, RowsOK, Issued
  <2> QED
    BY <2>1, <2>2, <2>3 DEF SigningInv, RowsOK, DocumentOK, SigningTypeOK, CallState, Statuses
<1> QED
  BY <1>1, SigningInvInit, SigningStep, PTL DEF SigningSpec

(* A contract is ACTIVE only when each signer it has signed, whatever was  *)
(* sent twice, expired or declined in between: the count under the chain's *)
(* lock leaves the last signature to one signer (signing.service.ts).      *)
THEOREM ActiveIsSignedByAll == SigningSpec => []ActiveMeansAllSigned
  BY SigningInvInit, SigningStep, PTL DEF SigningSpec, SigningInv, Goals

(* Two last signers cannot both see the other as open: a contract whose    *)
(* signers all signed does not stay PENDING_SIGNATURE (CRIT-5).            *)
THEOREM LastOneIsNoticed == SigningSpec => []LastSignatureCompletes
  BY SigningInvInit, SigningStep, PTL DEF SigningSpec, SigningInv, Goals

(* In SEQUENTIAL mode an earlier signer of the same send or of one before  *)
(* has signed first, although the gate reads outside the transaction.      *)
THEOREM OrderIsKept == SigningSpec => []SequentialOrder
  BY SigningInvInit, SigningStep, PTL DEF SigningSpec, SigningInv, Goals
===============================================================================
