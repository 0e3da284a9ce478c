--------------------------- MODULE ServicesProofs ---------------------------
(*****************************************************************************)
(* What services that keep their state in a few rows, a queue or one process *)
(* promise, for any number of calls, edits, tabs, handlers and mishaps.      *)
(*****************************************************************************)
EXTENDS CircuitBreaker, OfflineQueue, Campaigns, Billing, EmailSequences,
        Sessions, Accounts, WebhookSecrets, FiniteSetTheorems, TLAPS

-----------------------------------------------------------------------------
(* CircuitBreaker: overlapping calls, any threshold.                         *)

USE BreakerAssumption DEF BreakerAssumption

\* BreakerTypeOK but for the flag.
CountsOK ==
    /\ breaker \in {"closed", "open", "halfOpen"}
    /\ failures \in 0..MaxFailures
    /\ caller \in [Callers -> {"idle", "calling", "refused"}]
    /\ streak \in Nat

LEMMA TypeParts == BreakerTypeOK <=> CountsOK /\ cooled \in BOOLEAN
  BY DEF BreakerTypeOK, CountsOK

LEMMA BreakerTypeInit == BreakerInit => BreakerTypeOK
<1> SUFFICES ASSUME BreakerInit PROVE CountsOK /\ cooled \in BOOLEAN
  BY TypeParts
<1>1. CountsOK
  BY DEF BreakerInit, CountsOK
<1>2. cooled \in BOOLEAN
  BY DEF BreakerInit
<1> QED
  BY <1>1, <1>2

LEMMA BreakerTypeStep == BreakerTypeOK /\ [BreakerNext]_breakerVars => BreakerTypeOK'
<1> SUFFICES ASSUME BreakerTypeOK, [BreakerNext]_breakerVars PROVE BreakerTypeOK'
  OBVIOUS
<1>0. CountsOK /\ cooled \in BOOLEAN
  BY TypeParts
<1>1. CountsOK' /\ cooled' \in BOOLEAN
  <2>1. CASE UNCHANGED breakerVars
    BY <1>0, <2>1 DEF breakerVars, CountsOK
  <2>2. CASE Cool
    BY <1>0, <2>2 DEF Cool, CountsOK
  <2>3. ASSUME NEW c \in Callers, Refuse(c) \/ Admit(c)
        PROVE  CountsOK' /\ cooled' \in BOOLEAN
    BY <1>0, <2>3 DEF Refuse, Admit, CountsOK
  <2>4. ASSUME NEW c \in Callers, Succeed(c)
        PROVE  CountsOK' /\ cooled' \in BOOLEAN
    <3>1. CountsOK'
      BY <1>0, <2>4 DEF Succeed, Reset, CountsOK
    <3> QED
      BY <2>4, <3>1 DEF Succeed
  <2>5. ASSUME NEW c \in Callers, Fail(c)
        PROVE  CountsOK' /\ cooled' \in BOOLEAN
    <3>1. CountsOK'
      BY <1>0, <2>5 DEF Fail, CountsOK
    <3>2. cooled' \in BOOLEAN
      BY <1>0, <2>5, Zenon DEF Fail
    <3> QED
      BY <3>1, <3>2
  <2> QED
    BY <2>1, <2>2, <2>3, <2>4, <2>5 DEF BreakerNext
<1> QED
  BY <1>1 DEF BreakerTypeOK, CountsOK

(* Every value keeps its range.                                             *)
THEOREM BreakerTypeCorrect == BreakerSpec => []BreakerTypeOK
  BY BreakerTypeInit, BreakerTypeStep, PTL DEF BreakerSpec

(* OpenForCause is not inductive: a call that fails in halfOpen opens the   *)
(* breaker without a look at the count.  That is right because the count    *)
(* is kept while the breaker is open: it is the length of the run of        *)
(* failures in every state.                                                 *)
CountIsStreak == failures = streak

CauseInv == BreakerTypeOK /\ CountIsStreak /\ OpenForCause

LEMMA CauseStep == CauseInv /\ [BreakerNext]_breakerVars => CauseInv'
<1> SUFFICES ASSUME CauseInv, [BreakerNext]_breakerVars PROVE CauseInv'
  OBVIOUS
<1>1. BreakerTypeOK'
  BY BreakerTypeStep DEF CauseInv
<1>2. CountIsStreak' /\ OpenForCause'
  <2> USE DEF CauseInv, BreakerTypeOK, CountIsStreak, OpenForCause
  <2>1. CASE UNCHANGED breakerVars
    BY <2>1 DEF breakerVars
  <2>2. CASE Cool
    BY <2>2 DEF Cool
  <2>3. ASSUME NEW c \in Callers, Refuse(c) \/ Admit(c)
        PROVE  CountIsStreak' /\ OpenForCause'
    BY <2>3 DEF Refuse, Admit
  <2>4. ASSUME NEW c \in Callers, Succeed(c)
        PROVE  CountIsStreak' /\ OpenForCause'
    BY <2>4 DEF Succeed, Reset
  <2>5. ASSUME NEW c \in Callers, Fail(c)
        PROVE  CountIsStreak' /\ OpenForCause'
    BY <2>5 DEF Fail
  <2> QED
    BY <2>1, <2>2, <2>3, <2>4, <2>5 DEF BreakerNext
<1> QED
  BY <1>1, <1>2 DEF CauseInv

(* The breaker turns calls away, or tries the provider, exactly when the    *)
(* last failureThreshold calls or more failed (circuit-breaker.ts:21),      *)
(* however many calls overlap and in whatever order they settle.            *)
THEOREM OpensForCause == BreakerSpec => []OpenForCause
<1>1. BreakerInit => CauseInv
  BY BreakerTypeInit DEF BreakerInit, CauseInv, CountIsStreak, OpenForCause
<1>2. CauseInv => OpenForCause
  BY DEF CauseInv
<1> QED
  BY <1>1, <1>2, CauseStep, PTL DEF BreakerSpec

HIDE BreakerAssumption DEF BreakerAssumption

-----------------------------------------------------------------------------
(* OfflineQueue: any number of edits and tabs.                               *)

TabStates == [at : {"rest", "next", "answered", "tell"}, rows : SUBSET made,
              held : SUBSET made, answer : Answers \cup {"none"}]

\* Rows have keys of their own.
Numbered ==
    /\ \A e \in Edits : key[e] > 0 => e \in made
    /\ \A e, f \in Edits : key[e] > 0 /\ key[e] = key[f] => e = f
    /\ \A t \in Tabs, e \in Edits : e \in tab[t].rows => key[e] > 0

(* NoEditLost is not inductive: a tab about to delete a row must have been  *)
(* told the truth about it.  Neither the row nor the tab's snapshot need be *)
(* in the store any more, for another tab may have replayed the same rows.  *)
AnswersAreTrue ==
    \A t \in Tabs, e \in Edits :
       TabAt(t, "answered") /\ tab[t].answer = "ok" /\ IsNext(e, t) => e \in served

\* The edit a tab is about to call refused, by what it has in hand.
Owes(d, e) == d.at = "tell" /\ e \in d.rows /\ \A f \in d.rows : key[e] <= key[f]

\* A refused edit is deleted before its tab says so.
RefusedIsGone ==
    \A t \in Tabs, e \in Edits : TabAt(t, "tell") /\ IsNext(e, t) => e \notin stored

\* What no later edit has to wait for.
Dealt(e) == e \in stored => e \in tried \cup served

(* What a tab has in hand was true when it looked, and is not undone: a     *)
(* row it may pass over was tried, and so was, or settled, every edit that  *)
(* was stored before a row of its snapshot and is not in what is left of it. *)
HeldWasTried == \A t \in Tabs, e \in Edits : e \in tab[t].held => Dealt(e)
InTurn ==
    \A t \in Tabs, e, f \in Edits :
       f \in tab[t].rows /\ e \notin tab[t].rows /\ Before(e, f) => Dealt(e)

OfflineInv ==
    /\ OfflineTypeOK /\ Numbered /\ AnswersAreTrue /\ NoEditLost
    /\ HeldWasTried /\ InTurn /\ RefusedIsGone

LEMMA OfflineInvInit == OfflineInit => OfflineInv
<1> SUFFICES ASSUME OfflineInit PROVE OfflineInv
  OBVIOUS
<1>1. OfflineTypeOK
  BY DEF OfflineInit, OfflineTypeOK, Resting
<1>2. Numbered
  BY DEF OfflineInit, Numbered, Resting
<1>3. AnswersAreTrue /\ NoEditLost /\ HeldWasTried /\ InTurn /\ RefusedIsGone
  BY DEF OfflineInit, AnswersAreTrue, NoEditLost, HeldWasTried, InTurn, RefusedIsGone, TabAt, Resting
<1> QED
  BY <1>1, <1>2, <1>3 DEF OfflineInv

\* A step of one tab that leaves nothing behind which was not dealt with.
LEMMA ReplayKeeps ==
    ASSUME OfflineInv, NEW t \in Tabs, NEW d \in TabStates, TurnTab(t, d),
           UNCHANGED <<made, lastKey, key>>,
           served \subseteq served', served' \subseteq made,
           reported \subseteq reported', reported' \subseteq made,
           untold \subseteq untold', untold' \subseteq made,
           stored' \subseteq stored, tried' \subseteq stored',
           \A e \in made : e \in stored \/ Owes(tab[t], e) =>
               e \in stored' \cup served' \cup reported' \cup untold' \/ Owes(d, e),
           \A e \in tried : Dealt(e)',
           \A e \in d.rows : e \in stored \cup tab[t].rows,
           \A e \in d.held : Dealt(e)',
           \A e \in Edits : Owes(d, e) => e \notin stored',
           d.at = "answered" /\ d.answer = "ok" =>
              \A e \in d.rows : (\A f \in d.rows : key[e] <= key[f]) => e \in served',
           \A e \in Edits, f \in d.rows : e \notin d.rows /\ Before(e, f) => Dealt(e)'
    PROVE  OfflineInv'
<1> USE DEF OfflineInv
<1>1. /\ tab' \in [Tabs -> TabStates]
      /\ \A u \in Tabs : tab'[u] = IF u = t THEN d ELSE tab[u]
  BY DEF TurnTab, OfflineTypeOK, TabStates
<1>2. OfflineTypeOK'
  BY <1>1 DEF OfflineTypeOK, TabStates
<1>3. Numbered'
  BY <1>1 DEF Numbered, OfflineTypeOK
<1>4. AnswersAreTrue'
  BY <1>1 DEF AnswersAreTrue, TabAt, IsNext
<1>5. NoEditLost'
  <2> SUFFICES ASSUME NEW e \in made
               PROVE  \/ e \in stored' \cup served' \cup reported' \cup untold'
                      \/ \E u \in Tabs : Owes(tab'[u], e)
    BY DEF NoEditLost, Owes, TabAt, IsNext
  <2>1. \/ e \in stored \cup served \cup reported \cup untold
        \/ \E u \in Tabs : Owes(tab[u], e)
    BY DEF NoEditLost, Owes, TabAt, IsNext
  <2>2. ASSUME NEW u \in Tabs, u # t, Owes(tab[u], e) PROVE Owes(tab'[u], e)
    BY <1>1, <2>2
  <2>3. Owes(d, e) => Owes(tab'[t], e)
    BY <1>1
  <2> QED
    BY <2>1, <2>2, <2>3
<1>6. \A e : Dealt(e) => Dealt(e)'
  BY DEF Dealt
<1>7. HeldWasTried' /\ InTurn'
  BY <1>1, <1>6 DEF HeldWasTried, InTurn, Before
<1>8. RefusedIsGone'
  BY <1>1 DEF RefusedIsGone, TabAt, IsNext, Owes
<1> QED
  BY <1>2, <1>3, <1>4, <1>5, <1>7, <1>8

\* The page makes an edit: online, or stored under a key above all others.
LEMMA MakingKeeps ==
    ASSUME OfflineInv, NEW e \in Edits, NEW answer \in Answers,
           Mutate(e, answer) \/ Enqueue(e, answer)
    PROVE  OfflineInv'
<1> USE DEF OfflineInv
<1>1. /\ e \notin made /\ made' = made \cup {e} /\ tab' = tab /\ tried' = tried
      /\ served' \in {served, served \cup {e}} /\ reported' \in {reported, reported \cup {e}}
      /\ untold' = untold
  BY DEF Mutate, Enqueue, Carried
<1>2. key[e] = 0 /\ e \notin stored
  BY <1>1 DEF OfflineTypeOK, Numbered
<1>3. \/ lastKey' = lastKey /\ key' = key /\ stored' = stored
      \/ /\ lastKey' = lastKey + 1 /\ stored' = stored \cup {e}
         /\ key' = [key EXCEPT ![e] = lastKey + 1]
  BY DEF Mutate, Enqueue
<1>4. /\ lastKey' \in Nat /\ key' \in [Edits -> 0..lastKey']
      /\ \A f \in Edits : f # e => key'[f] = key[f]
      /\ \/ key'[e] = 0 /\ stored' = stored
         \/ key'[e] = lastKey + 1 /\ stored' = stored \cup {e}
  BY <1>2, <1>3 DEF OfflineTypeOK
<1>5. OfflineTypeOK'
  <2>1. \A S : S \subseteq made => S \subseteq made'
    BY <1>1
  <2>2. tab' \in [Tabs -> TabStates']
    BY <1>1, <2>1 DEF OfflineTypeOK, TabStates
  <2>3. stored' \subseteq {f \in made' : key'[f] > 0}
    BY <1>1, <1>4 DEF OfflineTypeOK
  <2> QED
    BY <1>1, <1>4, <2>2, <2>3 DEF OfflineTypeOK, TabStates
<1>6. \A t \in Tabs : e \notin tab[t].rows
  BY <1>1 DEF OfflineTypeOK
<1>7. Numbered'
  BY <1>1, <1>4, <1>6 DEF Numbered, OfflineTypeOK
<1>8. AnswersAreTrue'
  <2> SUFFICES ASSUME NEW t \in Tabs, NEW f \in Edits,
                      TabAt(t, "answered"), tab[t].answer = "ok", IsNext(f, t)'
               PROVE  f \in served
    BY <1>1 DEF AnswersAreTrue, TabAt
  <2>1. tab[t].rows \subseteq Edits \ {e}
    BY <1>1, <1>6 DEF OfflineTypeOK
  <2>2. IsNext(f, t)
    BY <1>1, <1>4, <2>1 DEF IsNext
  <2> QED
    BY <2>2 DEF AnswersAreTrue
<1>9. NoEditLost'
  <2>1. e \in stored' \cup served' \cup reported'
    BY DEF Mutate, Enqueue, Carried, Answers
  <2>2. ASSUME NEW f \in made, NEW t \in Tabs, TabAt(t, "tell"), IsNext(f, t)
        PROVE  TabAt(t, "tell")' /\ IsNext(f, t)'
    <3>1. tab[t].rows \subseteq Edits \ {e}
      BY <1>6 DEF OfflineTypeOK
    <3>2. \A g \in tab[t].rows : key'[g] = key[g]
      BY <1>4, <3>1
    <3> QED
      BY <1>1, <2>2, <3>2 DEF TabAt, IsNext
  <2>3. stored \subseteq stored' /\ served \subseteq served' /\ reported \subseteq reported'
    BY <1>1, <1>4
  <2> QED
    BY <1>1, <2>1, <2>2, <2>3 DEF NoEditLost
<1>10. HeldWasTried'
  <2>1. \A t \in Tabs : e \notin tab[t].held
    BY <1>1 DEF OfflineTypeOK
  <2> QED
    BY <1>1, <1>4, <2>1 DEF HeldWasTried, Dealt
<1>11. InTurn'
  <2> SUFFICES ASSUME NEW t \in Tabs, NEW f \in Edits, NEW g \in Edits,
                      g \in tab[t].rows, f \notin tab[t].rows, Before(f, g)'
               PROVE  Dealt(f)'
    BY <1>1 DEF InTurn
  <2>1. g # e /\ key'[g] = key[g] /\ key[g] <= lastKey /\ lastKey \in Nat
    BY <1>4, <1>6 DEF OfflineTypeOK
  <2>2. f # e
    BY <1>4, <2>1 DEF Before
  <2>3. Before(f, g)
    BY <1>4, <2>1, <2>2 DEF Before
  <2> QED
    BY <1>1, <1>4, <2>2, <2>3 DEF InTurn, Dealt
<1>12. RefusedIsGone'
  <2> SUFFICES ASSUME NEW t \in Tabs, NEW f \in Edits, TabAt(t, "tell"), IsNext(f, t)'
               PROVE  f \notin stored'
    BY <1>1 DEF RefusedIsGone, TabAt
  <2>1. tab[t].rows \subseteq Edits \ {e}
    BY <1>1, <1>6 DEF OfflineTypeOK
  <2>2. IsNext(f, t) /\ f # e
    BY <1>1, <1>4, <2>1 DEF IsNext
  <2> QED
    BY <1>4, <2>2 DEF RefusedIsGone
<1> QED
  BY <1>5, <1>7, <1>8, <1>9, <1>10, <1>11, <1>12

LEMMA OfflineInvStep == OfflineInv /\ [OfflineNext]_offlineVars => OfflineInv'
<1> SUFFICES ASSUME OfflineInv, [OfflineNext]_offlineVars PROVE OfflineInv'
  OBVIOUS
<1>0. OfflineTypeOK /\ Numbered /\ AnswersAreTrue /\ NoEditLost /\ HeldWasTried /\ InTurn /\ RefusedIsGone
  BY DEF OfflineInv
<1>1. CASE UNCHANGED offlineVars
  BY <1>0, <1>1 DEF OfflineInv, offlineVars, OfflineTypeOK, Numbered, AnswersAreTrue, TabAt,
     IsNext, NoEditLost, HeldWasTried, InTurn, RefusedIsGone, Dealt, Before
<1>2. ASSUME NEW t \in Tabs, Peek(t) PROVE OfflineInv'
  <2> DEFINE d == [at |-> "next", rows |-> stored, held |-> tried, answer |-> "none"]
  <2>1. d \in TabStates
    BY <1>0 DEF OfflineTypeOK, TabStates
  <2>2. \A e, f \in Edits : e \notin stored /\ Before(e, f) => Dealt(e)
    BY DEF Dealt
  <2>3. \A e : Dealt(e)' <=> Dealt(e)
    BY <1>2 DEF Peek, Dealt
  <2>4. \A e \in tried : Dealt(e)
    BY DEF Dealt
  <2>5. stored \subseteq Edits
    BY <1>0 DEF OfflineTypeOK
  <2>6. TurnTab(t, d) /\ UNCHANGED <<made, lastKey, key, stored, tried, served, reported, untold>>
    BY <1>2 DEF Peek
  <2>7. /\ d.rows = stored /\ d.held = tried /\ d.at = "next"
        /\ served \subseteq made /\ reported \subseteq made /\ untold \subseteq made
        /\ tried \subseteq stored
    BY <1>0 DEF OfflineTypeOK
  <2> HIDE DEF d
  <2>8. \A e : ~Owes(tab[t], e) /\ ~Owes(d, e)
    BY <1>2, <2>7 DEF Peek, TabAt, Owes
  <2> QED
    BY <2>1, <2>2, <2>3, <2>4, <2>5, <2>6, <2>7, <2>8, ReplayKeeps
<1>3. ASSUME NEW t \in Tabs, Finish(t) \/ Close(t) PROVE OfflineInv'
  <2>1. Resting \in TabStates /\ Resting.rows = {} /\ Resting.held = {} /\ Resting.at = "rest"
    BY DEF Resting, TabStates
  <2>2. /\ TurnTab(t, Resting) /\ UNCHANGED <<made, lastKey, key, stored, tried, served, reported>>
        /\ untold \subseteq untold'
        /\ \A e \in made : Owes(tab[t], e) => e \in untold'
        /\ untold' \subseteq made
    <3>1. /\ tab[t].rows \subseteq made /\ made \subseteq Edits /\ untold \subseteq made
      BY <1>0 DEF OfflineTypeOK
    <3>2. CASE Finish(t)
      BY <3>1, <3>2 DEF Finish, TabAt, Owes
    <3>3. CASE Close(t)
      BY <3>1, <3>3 DEF Close, TabAt, Owes, IsNext
    <3> QED
      BY <1>3, <3>2, <3>3
  <2>3. \A e \in tried : Dealt(e)'
    BY <2>2 DEF Dealt
  <2>4. served \subseteq made /\ reported \subseteq made /\ untold \subseteq made
        /\ tried \subseteq stored
    BY <1>0 DEF OfflineTypeOK
  <2>5. \A e : ~Owes(Resting, e)
    BY <2>1 DEF Owes
  <2>6. stored' = stored /\ tried' = tried /\ served' = served /\ reported' = reported
    BY <2>2
  <2> QED
    BY <2>1, <2>2, <2>3, <2>4, <2>5, <2>6, ReplayKeeps
<1>4. ASSUME NEW t \in Tabs, NEW e \in Edits, PassOver(t, e) PROVE OfflineInv'
  <2>0. PICK d : d = [tab[t] EXCEPT !.rows = @ \ {e}]
    OBVIOUS
  <2>1. /\ d \in TabStates /\ d.rows = tab[t].rows \ {e} /\ d.held = tab[t].held
        /\ d.at = "next" /\ tab[t].rows \subseteq Edits
    BY <1>0, <1>4, <2>0 DEF OfflineTypeOK, TabStates, PassOver, TabAt
  <2>2. TurnTab(t, d) /\ UNCHANGED <<made, lastKey, key, stored, tried, served, reported, untold>>
    BY <1>4, <2>0 DEF PassOver
  <2>3. \A f \in tried : Dealt(f)'
    BY <2>2 DEF Dealt
  <2>4. \A f : Dealt(f)' <=> Dealt(f)
    BY <2>2 DEF Dealt
  <2>5. \A f \in d.held : Dealt(f)'
    BY <1>0, <2>1, <2>4 DEF HeldWasTried, OfflineTypeOK, TabStates
  <2>6. \A f \in Edits, g \in d.rows : f \notin d.rows /\ Before(f, g) => Dealt(f)'
    BY <1>0, <1>4, <2>1, <2>4 DEF InTurn, HeldWasTried, PassOver
  <2>7. served \subseteq made /\ reported \subseteq made /\ untold \subseteq made
        /\ tried \subseteq stored
    BY <1>0 DEF OfflineTypeOK
  <2>8. \A f : ~Owes(tab[t], f) /\ ~Owes(d, f)
    BY <1>4, <2>1 DEF PassOver, TabAt, Owes
  <2> QED
    BY <2>1, <2>2, <2>3, <2>5, <2>6, <2>7, <2>8, ReplayKeeps
<1>5. ASSUME NEW t \in Tabs, NEW e \in Edits, NEW answer \in Answers, ExecuteReplay(t, e, answer)
      PROVE  OfflineInv'
  <2>0. PICK d : d = [tab[t] EXCEPT !.at = "answered", !.answer = answer]
    OBVIOUS
  <2>1. /\ d \in TabStates /\ d.rows = tab[t].rows /\ d.held = tab[t].held
        /\ d.at = "answered" /\ d.answer = answer /\ tab[t].rows \subseteq Edits
        /\ tab[t].held \subseteq Edits
    BY <1>0, <2>0 DEF OfflineTypeOK, TabStates
  <2>2. /\ TurnTab(t, d) /\ UNCHANGED <<made, lastKey, key, stored, tried, reported, untold>>
        /\ served' \in {served, served \cup {e}} /\ (answer = "ok" => e \in served')
    BY <1>5, <2>0 DEF ExecuteReplay, Carried
  <2>3. e \in made /\ IsNext(e, t) /\ e \in tab[t].rows
    BY <1>0, <1>5 DEF ExecuteReplay, IsNext, OfflineTypeOK
  <2>4. \A f : Dealt(f) => Dealt(f)'
    BY <2>2 DEF Dealt
  <2>5. \A f \in tried : Dealt(f)'
    BY <2>2 DEF Dealt
  <2>6. \A f \in d.held : Dealt(f)'
    BY <1>0, <2>1, <2>4 DEF HeldWasTried
  <2>7. \A f \in Edits, g \in d.rows : f \notin d.rows /\ Before(f, g) => Dealt(f)'
    BY <1>0, <2>1, <2>4 DEF InTurn
  <2>8. ASSUME d.answer = "ok", NEW f \in d.rows, \A g \in d.rows : key[f] <= key[g]
        PROVE  f \in served'
    <3>1. key[f] <= key[e] /\ key[e] <= key[f] /\ key[f] \in Nat /\ key[e] \in Nat /\ key[e] > 0
      BY <1>0, <2>1, <2>3, <2>8 DEF IsNext, OfflineTypeOK, Numbered
    <3>2. f = e
      BY <1>0, <2>1, <3>1 DEF Numbered
    <3> QED
      BY <2>1, <2>2, <2>8, <3>2
  <2>9. served \subseteq made /\ reported \subseteq made /\ untold \subseteq made
        /\ tried \subseteq stored
    BY <1>0 DEF OfflineTypeOK
  <2>10. \A f : ~Owes(tab[t], f) /\ ~Owes(d, f)
    BY <1>5, <2>1 DEF ExecuteReplay, TabAt, Owes
  <2> QED
    BY <2>1, <2>2, <2>3, <2>5, <2>6, <2>7, <2>8, <2>9, <2>10, ReplayKeeps
<1>6. ASSUME NEW t \in Tabs, NEW e \in Edits, Dequeue(t, e) PROVE OfflineInv'
  <2>1. /\ TabAt(t, "answered") /\ IsNext(e, t) /\ UNCHANGED <<made, lastKey, key, served, reported, untold>>
        /\ stored' = stored \ {e} /\ tried' = tried \ {e}
        /\ e \in made /\ e \in tab[t].rows /\ tab[t] \in TabStates
        /\ tab[t].rows \subseteq Edits /\ tab[t].held \subseteq Edits
    BY <1>0, <1>6 DEF Dequeue, IsNext, OfflineTypeOK, TabStates
  <2>2. \A f : Dealt(f) => Dealt(f)'
    BY <2>1 DEF Dealt
  <2>3. Dealt(e)' /\ \A f \in tried : Dealt(f)'
    BY <2>1 DEF Dealt
  <2>4. served \subseteq made /\ reported \subseteq made /\ untold \subseteq made /\ tried \subseteq stored
    BY <1>0 DEF OfflineTypeOK
  <2>5. \A f : ~Owes(tab[t], f)
    BY <2>1 DEF TabAt, Owes
  <2>6. CASE tab[t].answer = "refused"
    <3>0. PICK d : d = [tab[t] EXCEPT !.at = "tell"]
      OBVIOUS
    <3>1. /\ d \in TabStates /\ d.rows = tab[t].rows /\ d.held = tab[t].held /\ d.at = "tell"
          /\ TurnTab(t, d)
      BY <1>6, <2>1, <2>6, <3>0 DEF Dequeue, TabStates
    <3>2. Owes(d, e)
      BY <2>1, <3>1 DEF Owes, IsNext
    <3>3. \A f \in d.held : Dealt(f)'
      BY <1>0, <2>1, <2>2, <3>1 DEF HeldWasTried
    <3>4. \A f \in Edits, g \in d.rows : f \notin d.rows /\ Before(f, g) => Dealt(f)'
      BY <1>0, <2>1, <2>2, <3>1 DEF InTurn
    <3>5. \A f \in Edits : Owes(d, f) => f \notin stored'
      <4>1. \A f \in Edits : Owes(d, f) => f = e
        BY <1>0, <2>1, <3>1 DEF Owes, IsNext, Numbered, OfflineTypeOK
      <4> QED
        BY <2>1, <4>1
    <3>6. tried' \subseteq stored' /\ stored' \subseteq stored
      BY <2>1, <2>4
    <3>7. \A x \in made : x \in stored \/ Owes(tab[t], x) =>
               x \in stored' \cup served' \cup reported' \cup untold' \/ Owes(d, x)
      BY <2>1, <2>5, <3>2
    <3> QED
      BY <2>1, <2>3, <2>4, <3>1, <3>3, <3>4, <3>5, <3>6, <3>7, ReplayKeeps
  <2>7. CASE tab[t].answer = "ok"
    <3>0. PICK d : d = [tab[t] EXCEPT !.at = "next", !.rows = @ \ {e}, !.answer = "none"]
      OBVIOUS
    <3>1. /\ d \in TabStates /\ d.rows = tab[t].rows \ {e} /\ d.held = tab[t].held /\ d.at = "next"
          /\ TurnTab(t, d)
      BY <1>6, <2>1, <2>7, <3>0 DEF Dequeue, TabStates
    <3>2. e \in served
      BY <1>0, <2>1, <2>7 DEF AnswersAreTrue
    <3>3. \A f \in d.held : Dealt(f)'
      BY <1>0, <2>1, <2>2, <3>1 DEF HeldWasTried
    <3>4. \A f \in Edits, g \in d.rows : f \notin d.rows /\ Before(f, g) => Dealt(f)'
      BY <1>0, <2>1, <2>2, <2>3, <3>1 DEF InTurn
    <3>5. \A f : ~Owes(d, f)
      BY <3>1 DEF Owes
    <3>6. tried' \subseteq stored' /\ stored' \subseteq stored
      BY <2>1, <2>4
    <3>7. \A x \in made : x \in stored \/ Owes(tab[t], x) =>
               x \in stored' \cup served' \cup reported' \cup untold' \/ Owes(d, x)
      BY <2>1, <2>5, <3>2
    <3> QED
      BY <2>1, <2>3, <2>4, <3>1, <3>3, <3>4, <3>5, <3>6, <3>7, ReplayKeeps
  <2> QED
    BY <1>6, <2>6, <2>7 DEF Dequeue
<1>8. ASSUME NEW t \in Tabs, NEW e \in Edits, Tell(t, e) PROVE OfflineInv'
  <2>0. PICK d : d = [tab[t] EXCEPT !.at = "next", !.rows = @ \ {e}, !.answer = "none"]
    OBVIOUS
  <2>1. /\ TabAt(t, "tell") /\ IsNext(e, t) /\ UNCHANGED <<made, lastKey, key, stored, tried, served, untold>>
        /\ reported' = reported \cup {e} /\ TurnTab(t, d)
        /\ e \in made /\ e \in tab[t].rows /\ tab[t] \in TabStates
        /\ tab[t].rows \subseteq Edits /\ tab[t].held \subseteq Edits
    BY <1>0, <1>8, <2>0 DEF Tell, IsNext, OfflineTypeOK, TabStates
  <2>2. d \in TabStates /\ d.rows = tab[t].rows \ {e} /\ d.held = tab[t].held /\ d.at = "next"
    BY <2>0, <2>1 DEF TabStates
  <2>3. \A f : Dealt(f)' <=> Dealt(f)
    BY <2>1 DEF Dealt
  <2>4. Dealt(e) /\ \A f \in tried : Dealt(f)
    BY <1>0, <2>1 DEF RefusedIsGone, Dealt
  <2>5. /\ served \subseteq made /\ reported' \subseteq made /\ untold \subseteq made
        /\ tried \subseteq stored
    BY <1>0, <2>1 DEF OfflineTypeOK
  <2>6. \A f \in made : Owes(tab[t], f) => f = e
    <3>1. \A f, g \in Edits : key[f] \in Nat /\ (key[f] > 0 /\ key[f] = key[g] => f = g)
      BY <1>0 DEF OfflineTypeOK, Numbered
    <3>2. key[e] > 0
      BY <1>0, <2>1 DEF Numbered
    <3> QED
      BY <2>1, <3>1, <3>2 DEF Owes, IsNext
  <2>7. \A f \in d.held : Dealt(f)'
    BY <1>0, <2>1, <2>2, <2>3 DEF HeldWasTried
  <2>8. \A f \in Edits, g \in d.rows : f \notin d.rows /\ Before(f, g) => Dealt(f)'
    BY <1>0, <2>1, <2>2, <2>3, <2>4 DEF InTurn
  <2>9. \A f : ~Owes(d, f)
    BY <2>2 DEF Owes
  <2>10. \A x \in made : x \in stored \/ Owes(tab[t], x) =>
             x \in stored' \cup served' \cup reported' \cup untold' \/ Owes(d, x)
    BY <2>1, <2>6
  <2>11. \A f \in tried : Dealt(f)'
    BY <2>3, <2>4
  <2> QED
    BY <2>1, <2>2, <2>5, <2>7, <2>8, <2>9, <2>10, <2>11, ReplayKeeps
<1>7. ASSUME NEW t \in Tabs, NEW e \in Edits, Postpone(t, e) PROVE OfflineInv'
  <2>1. Resting \in TabStates /\ Resting.rows = {} /\ Resting.held = {} /\ Resting.at = "rest"
    BY DEF Resting, TabStates
  <2>2. /\ TurnTab(t, Resting) /\ UNCHANGED <<made, lastKey, key, stored, served, reported, untold>>
        /\ tried' = tried \cup ({e} \cap stored)
    BY <1>7 DEF Postpone, BackOff
  <2>3. \A f \in tried : Dealt(f)'
    BY <2>2 DEF Dealt
  <2>4. served \subseteq made /\ reported \subseteq made /\ untold \subseteq made
        /\ tried' \subseteq stored
    BY <1>0, <2>2 DEF OfflineTypeOK
  <2>5. \A f : ~Owes(tab[t], f) /\ ~Owes(Resting, f)
    BY <1>7, <2>1 DEF Postpone, TabAt, Owes
  <2> QED
    BY <2>1, <2>2, <2>3, <2>4, <2>5, ReplayKeeps
<1> QED
  BY <1>1, <1>2, <1>3, <1>4, <1>5, <1>6, <1>7, <1>8, MakingKeeps DEF OfflineNext

(* Every value keeps its type.                                              *)
THEOREM OfflineTypeCorrect == OfflineSpec => []OfflineTypeOK
<1>1. OfflineInv => OfflineTypeOK
  BY DEF OfflineInv
<1> QED
  BY <1>1, OfflineInvInit, OfflineInvStep, PTL DEF OfflineSpec

(* An edit is never lost, whatever tabs replay it at once, close half-way   *)
(* or count attempts for a row that is gone, except by a tab that closes    *)
(* between the delete of a refused edit and its report                      *)
(* (useOfflineQueue.ts:20, 131-132).                                        *)
THEOREM EditsAreKept == OfflineSpec => []NoEditLost
<1>1. OfflineInv => NoEditLost
  BY DEF OfflineInv
<1> QED
  BY <1>1, OfflineInvInit, OfflineInvStep, PTL DEF OfflineSpec

(* An edit stored earlier is overtaken only after it was tried, though each *)
(* tab goes by a snapshot that others may have worked through already       *)
(* (useOfflineQueue.ts:110).                                                *)
THEOREM DrainsInOrder == OfflineSpec => OvertakenOnlyAfterTry
<1> DEFINE A == \A e, f \in Edits :
                   Before(e, f) /\ f \in served' \ served /\ e \in stored => e \in served \cup tried
<1>1. OfflineInv /\ [OfflineNext]_offlineVars => [A]_offlineVars
  <2> SUFFICES ASSUME OfflineInv, OfflineNext, NEW e \in Edits, NEW f \in Edits,
                      Before(e, f), f \in served' \ served, e \in stored
               PROVE  e \in served \cup tried
    BY Zenon
  <2>1. CASE \E t \in Tabs, g \in Edits, answer \in Answers : ExecuteReplay(t, g, answer)
    <3>1. PICK t \in Tabs : IsNext(f, t)
      BY <2>1 DEF ExecuteReplay, Carried
    <3>2. /\ key[f] \in Nat /\ key[e] \in Nat
          /\ \A g \in Edits : key[g] \in Nat
      BY DEF OfflineInv, OfflineTypeOK
    <3>3. f \in tab[t].rows /\ e \notin tab[t].rows
      BY <3>1, <3>2 DEF IsNext, Before
    <3> QED
      BY <3>3 DEF OfflineInv, InTurn, Dealt
  <2>2. ASSUME NEW g \in Edits, NEW answer \in Answers, Mutate(g, answer) \/ Enqueue(g, answer)
        PROVE  FALSE
    <3>1. f = g /\ f \notin made
      BY <2>2 DEF Mutate, Enqueue, Carried
    <3>2. key[f] > 0
      BY DEF Before, OfflineInv, OfflineTypeOK
    <3> QED
      BY <3>1, <3>2 DEF OfflineInv, Numbered
  <2> QED
    BY <2>1, <2>2 DEF OfflineNext, Peek, PassOver, Dequeue, Tell, Postpone, Finish, Close
<1>2. OvertakenOnlyAfterTry <=> [][A]_offlineVars
  BY DEF OvertakenOnlyAfterTry
<1> QED
  BY <1>1, <1>2, OfflineInvInit, OfflineInvStep, PTL DEF OfflineSpec

-----------------------------------------------------------------------------
(* Campaigns: a campaign's row and its job, with any number of handlers,     *)
(* contacts and mishaps.                                                     *)

Ops == {"none", "launch", "schedule", "cancel", "pause", "resume"}
Stages == {"idle", "enqueue", "unqueue", "queue", "write"}
HandlerStates == [at : Stages, op : Ops, next : Statuses \cup {"none"}]

OperatorsTyped == operator \in [Operators -> HandlerStates]

CampaignTyped == campaign \in [status : Statuses \cup {"none"}, timed : BOOLEAN, deleted : BOOLEAN]

\* A handler that met no other is the only one.
Alone == \A o, q \in Operators :
            ~OpAt(o, "idle") /\ ~OpAt(q, "idle") /\ o \notin crowded => o = q

\* The stage a handler is at, and what it is about to write.
Shape(d) ==
    /\ d.at = "idle" <=> d.op = "none"
    /\ d.at = "enqueue" => d.op = "schedule"
    /\ d.at = "unqueue" => d.op \in {"schedule", "cancel", "pause"}
    /\ d.at = "queue" => d.op \in {"schedule", "resume"}
    /\ d.op = "launch" => d.next = "ACTIVE"
    /\ d.op = "cancel" => d.next = "CANCELLED"
    /\ d.op = "pause" => d.next = "PAUSED"
    /\ d.op = "schedule" => d.next = "SCHEDULED"
    /\ d.op = "resume" => d.next \in {"ACTIVE", "SCHEDULED"}
    /\ d.op = "schedule" /\ d.at # "enqueue" => audience # {}

\* What a handler that met no other finds in the queue when it writes.
Promise(d) ==
    /\ d.at = "write" /\ d.op \in {"schedule", "resume"} => dispatch
    /\ d.at = "write" /\ d.op \in {"cancel", "pause"} => ~dispatch

\* A handler that has not touched the queue yet, and one that never will.
Early(d) ==
    \/ d.at \in {"idle", "enqueue", "unqueue"}
    \/ d.op = "launch"
    \/ d.op = "resume" /\ d.at = "queue"

AllEarly == \A o \in Operators : Early(operator[o])

\* What the row and the queue say of each other.
Agreed ==
    /\ campaign.status = "SCHEDULED" => dispatch
    /\ campaign.status \in {"DRAFT", "PAUSED", "CANCELLED"} => ~dispatch
    /\ campaign.status \in {"SCHEDULED", "ACTIVE"} => announced # {} \/ primed

Listed == "schedule" \in announced => audience # {}

(* QueueMatchesStatus speaks of the moments between handlers; that it is    *)
(* inductive needs what each handler promises on its way.                   *)
ClearInv ==
    /\ OperatorsTyped /\ CampaignTyped /\ Alone /\ Listed
    /\ \A o \in Operators : Shape(operator[o])
    /\ \A o \in Operators : o \notin crowded => Promise(operator[o])
    /\ ~muddled /\ AllEarly => Agreed

LEMMA WaitingFits == Waiting \in HandlerStates /\ Shape(Waiting) /\ Promise(Waiting) /\ Early(Waiting)
  BY DEF Waiting, HandlerStates, Stages, Ops, Shape, Promise, Early

LEMMA ClearInit == CampInit => ClearInv
<1> SUFFICES ASSUME CampInit PROVE ClearInv
  OBVIOUS
<1>1. \A o \in Operators : operator[o] = Waiting
  BY DEF CampInit
<1>2. OperatorsTyped
  BY WaitingFits DEF CampInit, OperatorsTyped
<1>3. Alone
  BY <1>1 DEF Alone, OpAt, Waiting
<1>4. CampaignTyped
  BY DEF CampInit, CampaignTyped, Statuses
<1>5. Listed /\ Agreed
  BY DEF CampInit, Listed, Agreed
<1> QED
  BY <1>1, <1>2, <1>3, <1>4, <1>5, WaitingFits DEF ClearInv

-----------------------------------------------------------------------------
LEMMA PutTyped ==
    ASSUME OperatorsTyped, NEW o \in Operators, NEW d \in HandlerStates, Put(o, d)
    PROVE  /\ OperatorsTyped'
           /\ \A q \in Operators : operator'[q] = IF q = o THEN d ELSE operator[q]
  BY DEF OperatorsTyped, Put

\* A handler enters.
LEMMA EnterStep ==
    ASSUME ClearInv, NEW o \in Operators, NEW op \in Ops \ {"none"},
           NEW pc \in Stages \ {"idle"}, NEW s \in Statuses, Enter(o, op, pc, s),
           Shape([at |-> pc, op |-> op, next |-> s]),
           Promise([at |-> pc, op |-> op, next |-> s])
    PROVE  ClearInv'
<1>0. PICK d : d = [at |-> pc, op |-> op, next |-> s]
  OBVIOUS
<1>1. d \in HandlerStates /\ Shape(d) /\ Promise(d) /\ Put(o, d) /\ d.at # "idle"
  BY <1>0 DEF HandlerStates, Enter
<1>2. OperatorsTyped' /\ \A q \in Operators : operator'[q] = IF q = o THEN d ELSE operator[q]
  BY <1>1, PutTyped DEF ClearInv
<1>3. /\ UNCHANGED <<campaign, audience, dispatch, announced, muddled, primed>>
      /\ crowded' = IF UnderWay = {} THEN crowded ELSE UnderWay \cup {o}
      /\ OpAt(o, "idle")
  BY DEF Enter
<1>4. \A q \in Operators \ crowded' :
         /\ Promise(operator'[q])
         /\ q # o => operator'[q].at = "idle"
         /\ q = o => UnderWay = {}
  BY <1>1, <1>2, <1>3 DEF ClearInv, UnderWay, OpAt, Promise
<1>5. Alone'
  <2> SUFFICES ASSUME NEW p \in Operators, NEW q \in Operators, operator'[p].at # "idle",
                      operator'[q].at # "idle", p \notin crowded'
               PROVE  p = q
    BY DEF Alone, OpAt
  <2>1. p = o /\ UnderWay = {}
    BY <1>4
  <2> QED
    BY <1>2, <2>1 DEF UnderWay, OpAt
<1>6. \A q \in Operators : Shape(operator[q])'
  BY <1>1, <1>2, <1>3 DEF ClearInv, Shape
<1>7. \A q \in Operators : q \notin crowded' => Promise(operator[q])'
  BY <1>3, <1>4 DEF Promise
<1>8. AllEarly' => AllEarly
  <2>1. Early(operator[o])
    BY <1>3 DEF OpAt, Early
  <2> QED
    BY <1>2, <2>1 DEF AllEarly, Early
<1>9. CampaignTyped' /\ Listed' /\ (Agreed => Agreed')
  BY <1>3 DEF ClearInv, CampaignTyped, Listed, Agreed
<1> QED
  BY <1>2, <1>3, <1>5, <1>6, <1>7, <1>8, <1>9 DEF ClearInv

\* A handler goes on, or leaves.
LEMMA EffectStep ==
    ASSUME ClearInv, NEW o \in Operators, ~OpAt(o, "idle"), NEW d \in HandlerStates, Put(o, d),
           CampaignTyped', Listed', Shape(d)', audience \subseteq audience',
           crowded' = (IF d.at = "idle" THEN crowded \ {o} ELSE crowded),
           o \notin crowded => Promise(d)',
           ~muddled' /\ AllEarly' => Agreed'
    PROVE  ClearInv'
<1>1. OperatorsTyped' /\ \A q \in Operators : operator'[q] = IF q = o THEN d ELSE operator[q]
  BY PutTyped DEF ClearInv
<1>2. Alone'
  BY <1>1 DEF ClearInv, Alone, OpAt
<1>3. \A q \in Operators : Shape(operator[q])'
  BY <1>1 DEF ClearInv, Shape
<1>4. ASSUME NEW q \in Operators, q \notin crowded' PROVE Promise(operator[q])'
  <2>1. CASE q = o
    <3>1. CASE d.at = "idle"
      BY <1>1, <2>1, <3>1 DEF Promise
    <3>2. CASE d.at # "idle"
      BY <1>1, <1>4, <2>1, <3>2 DEF Promise
    <3> QED
      BY <3>1, <3>2
  <2>2. CASE q # o
    <3>1. q \notin crowded
      BY <1>4, <2>2
    <3>2. OpAt(q, "idle")
      BY <2>2, <3>1 DEF ClearInv, Alone
    <3>3. operator'[q].at = "idle"
      BY <1>1, <2>2, <3>2 DEF OpAt
    <3> QED
      BY <3>3 DEF Promise
  <2> QED
    BY <2>1, <2>2
<1> QED
  BY <1>1, <1>2, <1>3, <1>4 DEF ClearInv

LEMMA ClearStep == ClearInv /\ [CampNext]_campVars => ClearInv'
<1> SUFFICES ASSUME ClearInv, [CampNext]_campVars PROVE ClearInv'
  OBVIOUS
<1>0. /\ OperatorsTyped /\ CampaignTyped /\ Listed
      /\ \A o \in Operators : Shape(operator[o]) /\ operator[o] \in HandlerStates
  BY DEF ClearInv, OperatorsTyped
<1>1. CASE UNCHANGED campVars
  BY <1>1 DEF campVars, ClearInv, OperatorsTyped, CampaignTyped, Alone, OpAt, Listed, Shape,
              Promise, AllEarly, Early, Agreed
<1>2. ASSUME NEW o \in Operators, Launch(o) PROVE ClearInv'
  BY <1>2, EnterStep DEF Launch, Shape, Promise, Ops, Stages, Statuses
<1>3. ASSUME NEW o \in Operators, Schedule(o) PROVE ClearInv'
  BY <1>3, EnterStep DEF Schedule, Shape, Promise, Ops, Stages, Statuses
<1>4. ASSUME NEW o \in Operators, Cancel(o) PROVE ClearInv'
  BY <1>4, EnterStep DEF Cancel, Shape, Promise, Ops, Stages, Statuses
<1>5. ASSUME NEW o \in Operators, Pause(o) PROVE ClearInv'
  BY <1>5, EnterStep DEF Pause, Shape, Promise, Ops, Stages, Statuses
<1>6. ASSUME NEW o \in Operators, Resume(o) PROVE ClearInv'
  <2>1. PICK s : s = IF campaign.timed THEN "SCHEDULED" ELSE "ACTIVE"
    OBVIOUS
  <2>2. s \in {"ACTIVE", "SCHEDULED"} /\ s \in Statuses /\ Enter(o, "resume", "queue", s)
    BY <1>6, <2>1 DEF Resume, Statuses
  <2>3. /\ Shape([at |-> "queue", op |-> "resume", next |-> s])
        /\ Promise([at |-> "queue", op |-> "resume", next |-> s])
    BY <2>2 DEF Shape, Promise
  <2> QED
    BY <2>2, <2>3, EnterStep DEF Ops, Stages
<1>7. ASSUME NEW o \in Operators, EnqueueRecipients(o) PROVE ClearInv'
  <2>0. PICK d : d = [operator[o] EXCEPT !.at = "unqueue"]
    OBVIOUS
  <2>1. ~OpAt(o, "idle") /\ Put(o, d) /\ UNCHANGED <<campaign, dispatch, crowded, announced, muddled, primed>>
    BY <1>7, <2>0 DEF EnqueueRecipients, OpAt
  <2>2. /\ d \in HandlerStates /\ d.at = "unqueue" /\ d.op = operator[o].op
        /\ d.next = operator[o].next
    BY <1>0, <2>0 DEF HandlerStates, Stages
  <2>3. audience \subseteq audience' /\ audience' # {} /\ operator[o].at = "enqueue"
    BY <1>7 DEF EnqueueRecipients, OpAt
  <2>4. Shape(d)' /\ Promise(d)' /\ CampaignTyped' /\ Listed'
    BY <1>0, <2>1, <2>2, <2>3 DEF Shape, Promise, CampaignTyped, Listed
  <2>5. \A q \in Operators : operator'[q] = IF q = o THEN d ELSE operator[q]
    BY <1>0, <2>1, <2>2, PutTyped
  <2>6. ~muddled' /\ AllEarly' => Agreed'
    BY <2>1, <2>3, <2>5 DEF ClearInv, AllEarly, Early, Agreed
  <2> QED
    BY <2>1, <2>2, <2>3, <2>4, <2>6, EffectStep
<1>8. ASSUME NEW o \in Operators, NoAudience(o) PROVE ClearInv'
  <2>1. /\ ~OpAt(o, "idle") /\ Put(o, Waiting) /\ operator[o].at = "enqueue"
        /\ crowded' = crowded \ {o}
        /\ UNCHANGED <<campaign, audience, dispatch, announced, primed>> /\ muddled' = muddled
    BY <1>8 DEF NoAudience, Leave, OpAt
  <2>2. Waiting.at = "idle" /\ Shape(Waiting)' /\ Promise(Waiting)' /\ CampaignTyped' /\ Listed'
    BY <1>0, <2>1 DEF Waiting, Shape, Promise, CampaignTyped, Listed
  <2>3. \A q \in Operators : operator'[q] = IF q = o THEN Waiting ELSE operator[q]
    BY <1>0, <2>1, WaitingFits, PutTyped
  <2>4. ~muddled' /\ AllEarly' => Agreed'
    BY <2>1, <2>3 DEF ClearInv, AllEarly, Early, Agreed
  <2> QED
    BY <2>1, <2>2, <2>4, WaitingFits, EffectStep
<1>9. ASSUME NEW o \in Operators, RemoveJob(o) PROVE ClearInv'
  <2>0. PICK d : d = [operator[o] EXCEPT !.at = IF operator[o].op = "schedule" THEN "queue" ELSE "write"]
    OBVIOUS
  <2>1. /\ ~OpAt(o, "idle") /\ Put(o, d) /\ operator[o].at = "unqueue"
        /\ UNCHANGED <<campaign, audience, crowded, announced, muddled, primed>> /\ ~dispatch'
    BY <1>9, <2>0 DEF RemoveJob, OpAt
  <2>2. /\ d \in HandlerStates /\ d.op = operator[o].op /\ d.next = operator[o].next
        /\ d.at = IF operator[o].op = "schedule" THEN "queue" ELSE "write"
    BY <1>0, <2>0 DEF HandlerStates, Stages
  <2>3. Shape(d)' /\ Promise(d)' /\ d.at # "idle" /\ ~Early(d)
    BY <1>0, <2>1, <2>2 DEF Shape, Promise, Early
  <2>4. \A q \in Operators : operator'[q] = IF q = o THEN d ELSE operator[q]
    BY <1>0, <2>1, <2>2, PutTyped
  <2>5. ~AllEarly'
    BY <2>3, <2>4 DEF AllEarly, Early
  <2>6. CampaignTyped' /\ Listed'
    BY <1>0, <2>1 DEF CampaignTyped, Listed
  <2> QED
    BY <2>1, <2>2, <2>3, <2>5, <2>6, EffectStep
<1>10. ASSUME NEW o \in Operators, AddJob(o) PROVE ClearInv'
  <2>0. PICK d : d = [operator[o] EXCEPT !.at = "write"]
    OBVIOUS
  <2>1. /\ ~OpAt(o, "idle") /\ Put(o, d) /\ operator[o].at = "queue"
        /\ UNCHANGED <<campaign, audience, crowded, announced, muddled, primed>> /\ dispatch'
    BY <1>10, <2>0 DEF AddJob, OpAt
  <2>2. d \in HandlerStates /\ d.at = "write" /\ d.op = operator[o].op /\ d.next = operator[o].next
    BY <1>0, <2>0 DEF HandlerStates, Stages
  <2>3. Shape(d)' /\ Promise(d)' /\ ~Early(d)
    BY <1>0, <2>1, <2>2 DEF Shape, Promise, Early
  <2>4. \A q \in Operators : operator'[q] = IF q = o THEN d ELSE operator[q]
    BY <1>0, <2>1, <2>2, PutTyped
  <2>5. ~AllEarly'
    BY <2>3, <2>4 DEF AllEarly, Early
  <2>6. CampaignTyped' /\ Listed'
    BY <1>0, <2>1 DEF CampaignTyped, Listed
  <2> QED
    BY <2>1, <2>2, <2>3, <2>5, <2>6, EffectStep
<1>11. ASSUME NEW o \in Operators, WriteStatus(o) PROVE ClearInv'
  <2>1. /\ ~OpAt(o, "idle") /\ Put(o, Waiting) /\ operator[o].at = "write"
        /\ crowded' = crowded \ {o} /\ muddled' = (o \in crowded)
        /\ audience' = audience /\ dispatch' = dispatch
        /\ campaign' = [campaign EXCEPT !.status = operator[o].next,
                                        !.timed = @ \/ operator[o].op = "schedule"]
        /\ announced' = announced \cup ({operator[o].op} \cap {"launch", "schedule"})
        /\ primed' = (primed \/ (operator[o].op = "resume" /\ announced = {}))
    BY <1>11, Zenon DEF WriteStatus, Leave, OpAt
  <2>2. campaign'.status = operator[o].next
    BY <1>0, <2>1 DEF CampaignTyped
  <2>3. CampaignTyped'
    <3>1. PICK t \in BOOLEAN : t <=> (campaign.timed \/ operator[o].op = "schedule")
      OBVIOUS
    <3>2. campaign' = [status |-> operator[o].next, timed |-> t, deleted |-> campaign.deleted]
      BY <1>0, <2>1, <3>1 DEF CampaignTyped
    <3> QED
      BY <1>0, <3>1, <3>2 DEF CampaignTyped, HandlerStates
  <2>4. Waiting.at = "idle" /\ Shape(Waiting)' /\ Promise(Waiting)'
    BY DEF Waiting, Shape, Promise
  <2>5. Shape(operator[o]) /\ operator[o].op \in Ops \ {"none"}
    BY <1>0, <2>1 DEF Shape, HandlerStates
  <2>6. Listed'
    BY <1>0, <2>1, <2>5 DEF Listed, Shape
  <2>7. ~muddled' => Agreed'
    <3>1. ~muddled' => Promise(operator[o])
      BY <2>1 DEF ClearInv
    <3> QED
      BY <2>1, <2>2, <2>5, <3>1 DEF Agreed, Promise, Shape, Ops
  <2> QED
    BY <2>1, <2>3, <2>4, <2>6, <2>7, WaitingFits, EffectStep
<1>12. ASSUME NEW o \in Operators, SetSchedule(o) \/ Update(o) \/ RemoveCampaign(o)
       PROVE  ClearInv'
  <2>1. /\ UNCHANGED <<audience, dispatch, operator, announced, primed>>
        /\ \/ /\ UNCHANGED <<crowded, muddled>>
              /\ \/ campaign' = [campaign EXCEPT !.timed = TRUE]
                 \/ campaign' = [campaign EXCEPT !.deleted = TRUE]
           \/ /\ crowded' = UnderWay /\ muddled'
              /\ \E s \in Statuses : campaign' = [campaign EXCEPT !.status = s]
    BY <1>12 DEF SetSchedule, Update, RemoveCampaign
  <2>2. CampaignTyped' /\ OperatorsTyped' /\ Listed'
    BY <1>0, <2>1 DEF CampaignTyped, OperatorsTyped, Listed
  <2>3. (\A q \in Operators : Shape(operator[q])') /\ (AllEarly' => AllEarly)
    BY <1>0, <2>1 DEF Shape, AllEarly, Early
  <2>4. CASE UNCHANGED <<crowded, muddled>> /\ campaign'.status = campaign.status
    BY <2>1, <2>2, <2>3, <2>4 DEF ClearInv, Alone, OpAt, Promise, AllEarly, Early, Agreed
  <2>5. CASE crowded' = UnderWay /\ muddled'
    <3>1. \A q \in Operators : q \notin crowded' => operator'[q].at = "idle"
      BY <2>1, <2>5 DEF UnderWay, OpAt
    <3>2. Alone' /\ \A q \in Operators : q \notin crowded' => Promise(operator[q])'
      BY <3>1 DEF Alone, OpAt, Promise
    <3> QED
      BY <2>2, <2>3, <2>5, <3>2 DEF ClearInv
  <2>6. \/ UNCHANGED <<crowded, muddled>> /\ campaign'.status = campaign.status
        \/ crowded' = UnderWay /\ muddled'
    BY <1>0, <2>1 DEF CampaignTyped
  <2> QED
    BY <2>4, <2>5, <2>6
<1>13. ASSUME NEW o \in Operators, HandlerFails(o) PROVE ClearInv'
  <2>1. /\ ~OpAt(o, "idle") /\ Put(o, Waiting) /\ crowded' = crowded \ {o} /\ muddled'
        /\ UNCHANGED <<campaign, audience, dispatch, announced, primed>>
    BY <1>13 DEF HandlerFails
  <2>2. Waiting.at = "idle" /\ Shape(Waiting)' /\ Promise(Waiting)'
    BY DEF Waiting, Shape, Promise
  <2>3. CampaignTyped' /\ Listed'
    BY <1>0, <2>1 DEF CampaignTyped, Listed
  <2> QED
    BY <2>1, <2>2, <2>3, WaitingFits, EffectStep
<1> QED
  BY <1>1, <1>2, <1>3, <1>4, <1>5, <1>6, <1>7, <1>8, <1>9, <1>10, <1>11, <1>12, <1>13 DEF CampNext

(* A handler that has the campaign to itself, whatever overlapped, died or   *)
(* was set by hand before it, leaves the queue and the row in agreement     *)
(* (campaigns.service.ts: schedule, cancel, pause, resume, launch).         *)
THEOREM QueueAgrees == CampSpec => []QueueMatchesStatus
<1>1. ASSUME ClearInv, UnderWay = {} PROVE AllEarly
  BY <1>1 DEF UnderWay, OpAt, AllEarly, Early
<1>2. ClearInv => QueueMatchesStatus
  BY <1>1 DEF ClearInv, Agreed, Listed, QueueMatchesStatus
<1> QED
  BY <1>2, ClearInit, ClearStep, PTL DEF CampSpec

\* A handler that is under way has a status to write in the end.
Underway == [at : Stages \ {"idle"}, op : Ops, next : Statuses]

CampRest == CampTypeOK /\ \A o \in Operators : operator[o] = Waiting \/ operator[o] \in Underway

LEMMA CampMoves ==
    ASSUME CampRest, OperatorsTyped, NEW o \in Operators, NEW d, d = Waiting \/ d \in Underway,
           Put(o, d), crowded' \subseteq (IF d = Waiting THEN crowded \ {o} ELSE UnderWay \cup {o}),
           campaign' \in [status : Statuses, timed : BOOLEAN, deleted : BOOLEAN],
           audience' \subseteq Contacts, dispatch' \in BOOLEAN
    PROVE  CampRest'
<1>1. \A q \in Operators : operator'[q] = IF q = o THEN d ELSE operator[q]
  BY DEF OperatorsTyped, Put
<1>2. \A q \in Operators : operator'[q] = Waiting \/ operator'[q] \in Underway
  BY <1>1 DEF CampRest
<1>3. \A q \in Operators : operator'[q].at = "idle" <=> operator'[q] = Waiting
  BY <1>2 DEF Waiting, Underway
<1>4. crowded' \subseteq UnderWay'
  <2>1. crowded \subseteq UnderWay /\ UnderWay \subseteq Operators
    BY DEF CampRest, CampTypeOK, UnderWay
  <2>2. ASSUME NEW q \in crowded' PROVE q \in UnderWay'
    <3>1. CASE q = o
      <4>1. d # Waiting
        BY <2>2, <3>1
      <4>2. operator'[o] \in Underway
        BY <1>1, <4>1
      <4> QED
        BY <3>1, <4>2 DEF UnderWay, OpAt, Underway
    <3>2. CASE q # o
      <4>1. q \in UnderWay
        BY <2>1, <2>2, <3>2
      <4> QED
        BY <1>1, <2>1, <3>2, <4>1 DEF UnderWay, OpAt
    <3> QED
      BY <3>1, <3>2
  <2> QED
    BY <2>2
<1> QED
  BY <1>2, <1>3, <1>4 DEF CampRest, CampTypeOK, OpAt, Waiting

LEMMA CampRestStep == ClearInv /\ CampRest /\ [CampNext]_campVars => CampRest'
<1> SUFFICES ASSUME ClearInv, CampRest, [CampNext]_campVars PROVE CampRest'
  OBVIOUS
<1>0. /\ OperatorsTyped
      /\ campaign \in [status : Statuses, timed : BOOLEAN, deleted : BOOLEAN]
      /\ audience \subseteq Contacts /\ dispatch \in BOOLEAN
      /\ crowded \subseteq UnderWay /\ UnderWay \subseteq Operators
  BY DEF ClearInv, CampRest, CampTypeOK, UnderWay
<1>1. CASE UNCHANGED campVars
  BY <1>1 DEF campVars, CampRest, CampTypeOK, UnderWay, OpAt, Waiting, Underway
<1>2. ASSUME NEW o \in Operators, NEW op \in Ops, NEW pc \in Stages \ {"idle"}, NEW s \in Statuses,
             Enter(o, op, pc, s)
      PROVE  CampRest'
  <2>1. PICK d : d = [at |-> pc, op |-> op, next |-> s]
    OBVIOUS
  <2>2. d \in Underway /\ d # Waiting
    BY <2>1 DEF Underway, Waiting
  <2>3. crowded' \subseteq UnderWay \cup {o}
    BY <1>0, <1>2 DEF Enter
  <2> QED
    BY <1>0, <1>2, <2>1, <2>2, <2>3, CampMoves DEF Enter
<1>3. ASSUME NEW o \in Operators, Launch(o) \/ Schedule(o) \/ Cancel(o) \/ Pause(o) \/ Resume(o)
      PROVE  CampRest'
  BY <1>2, <1>3 DEF Launch, Schedule, Cancel, Pause, Resume, Ops, Stages, Statuses
<1>4. ASSUME NEW o \in Operators, ~OpAt(o, "idle") PROVE operator[o] \in Underway
  BY <1>4 DEF CampRest, OpAt, Waiting
<1>5. ASSUME NEW o \in Operators, NEW pc \in Stages \ {"idle"}, operator[o] \in Underway
      PROVE  [operator[o] EXCEPT !.at = pc] \in Underway
  BY <1>5 DEF Underway
<1>6. ASSUME NEW o \in Operators, EnqueueRecipients(o) \/ NoAudience(o) PROVE CampRest'
  <2>1. CASE EnqueueRecipients(o)
    <3>1. [operator[o] EXCEPT !.at = "unqueue"] \in Underway
      BY <1>4, <1>5, <2>1 DEF EnqueueRecipients, OpAt, Stages
    <3>2. [operator[o] EXCEPT !.at = "unqueue"] # Waiting
      BY <3>1 DEF Underway, Waiting
    <3> QED
      BY <1>0, <2>1, <3>1, <3>2, CampMoves DEF EnqueueRecipients
  <2>2. CASE NoAudience(o)
    BY <1>0, <2>2, CampMoves DEF NoAudience, Leave
  <2> QED
    BY <1>6, <2>1, <2>2
<1>7. ASSUME NEW o \in Operators, RemoveJob(o) \/ AddJob(o) PROVE CampRest'
  <2>1. /\ [operator[o] EXCEPT !.at = "queue"] \in Underway
        /\ [operator[o] EXCEPT !.at = "write"] \in Underway
    BY <1>4, <1>5, <1>7 DEF RemoveJob, AddJob, OpAt, Stages
  <2>2. Waiting \notin Underway
    BY DEF Waiting, Underway
  <2> QED
    BY <1>0, <1>7, <2>1, <2>2, CampMoves DEF RemoveJob, AddJob
<1>8. ASSUME NEW o \in Operators, WriteStatus(o) PROVE CampRest'
  <2>1. operator[o].next \in Statuses
    BY <1>4, <1>8 DEF WriteStatus, OpAt, Underway
  <2>2. campaign' \in [status : Statuses, timed : BOOLEAN, deleted : BOOLEAN]
    <3>1. PICK t \in BOOLEAN : t <=> (campaign.timed \/ operator[o].op = "schedule")
      OBVIOUS
    <3>2. campaign' = [status |-> operator[o].next, timed |-> t, deleted |-> campaign.deleted]
      BY <1>0, <1>8, <3>1 DEF WriteStatus
    <3> QED
      BY <1>0, <2>1, <3>2
  <2> QED
    BY <1>0, <1>8, <2>2, CampMoves DEF WriteStatus, Leave
<1>9. ASSUME NEW o \in Operators, SetSchedule(o) \/ Update(o) \/ RemoveCampaign(o) PROVE CampRest'
  <2>1. campaign' \in [status : Statuses, timed : BOOLEAN, deleted : BOOLEAN]
    <3>1. CASE Update(o)
      BY <1>0, <3>1 DEF Update
    <3>2. CASE RemoveCampaign(o) \/ SetSchedule(o)
      BY <1>0, <3>2 DEF RemoveCampaign, SetSchedule
    <3> QED
      BY <1>9, <3>1, <3>2
  <2>2. UNCHANGED <<audience, dispatch, operator>> /\ crowded' \subseteq UnderWay
    BY <1>0, <1>9 DEF SetSchedule, Update, RemoveCampaign
  <2> QED
    BY <2>1, <2>2 DEF CampRest, CampTypeOK, UnderWay, OpAt, Waiting, Underway
<1>10. ASSUME NEW o \in Operators, HandlerFails(o) PROVE CampRest'
  BY <1>0, <1>10, CampMoves DEF HandlerFails
<1> QED
  BY <1>1, <1>3, <1>6, <1>7, <1>8, <1>9, <1>10 DEF CampNext

(* The row, the queue and the handlers of a campaign stay what their columns *)
(* and stages allow; a handler that is done holds nothing.                   *)
THEOREM CampaignTypeCorrect == CampSpec => []CampTypeOK
<1>1. ASSUME CampInit PROVE CampRest
  <2>1. "DRAFT" \in Statuses /\ FALSE \in BOOLEAN
    BY DEF Statuses
  <2>2. campaign \in [status : Statuses, timed : BOOLEAN, deleted : BOOLEAN]
    <3>1. PICK b \in BOOLEAN : campaign = [status |-> "DRAFT", timed |-> b, deleted |-> FALSE]
      BY <1>1 DEF CampInit
    <3> QED
      BY <2>1, <3>1
  <2>3. audience \subseteq Contacts /\ dispatch \in BOOLEAN
    BY <1>1, <2>1 DEF CampInit
  <2>4. crowded \subseteq UnderWay
    BY <1>1 DEF CampInit
  <2>5. \A o \in Operators : operator[o] = Waiting /\ operator[o].at = "idle"
    BY <1>1 DEF CampInit, Waiting
  <2> QED
    BY <2>2, <2>3, <2>4, <2>5, Zenon DEF CampRest, CampTypeOK, OpAt
<1> QED
  BY <1>1, ClearInit, ClearStep, CampRestStep, PTL DEF CampRest, CampSpec

-----------------------------------------------------------------------------
(* Billing: the status, the payments, and what a request has read of both.   *)

ClerkStages == {"idle", "lines", "delete", "render", "put", "key", "status", "pay", "refund", "sum", "flip"}
ClerkStates == [at : ClerkStages, next : InvoiceStatuses, n : Totals \cup {NoPaper},
                pay : Payments \cup {NoPayment}, late : BOOLEAN]

BillTyped ==
    /\ BillTypeOK
    /\ clerk \in [Clerks -> ClerkStates]
    /\ \A c \in Clerks :
          /\ clerk[c].at \in {"render", "put", "key"} => clerk[c].next \in {"DRAFT", "ISSUED"}
          /\ ClerkAt(c, "put") => clerk[c].n \in Totals

\* The status that the payments call for, up to ISSUED and OVERDUE.
Fits(s) ==
    /\ s = "PAID" => Paid >= invoice.total
    /\ Live # {} /\ Paid >= invoice.total => s = "PAID"
    /\ s = "PARTIALLY_PAID" <=> Paid \in 1..(invoice.total - 1)

\* What a request nobody has overtaken relies on.  The hourly sweep overtakes
\* nobody: only ISSUED may have become OVERDUE.
Upheld(d) ==
    ~d.late =>
       /\ d.at \in {"lines", "delete", "render", "put", "key", "status", "pay", "flip"} => ~invoice.deleted
       /\ d.at = "lines" => invoice.status = "DRAFT"
       /\ d.at = "delete" => invoice.status \in {"DRAFT", "CANCELLED"}
       /\ d.at = "pay" => invoice.status \notin {"DRAFT", "CANCELLED"}
       /\ d.at \in {"render", "put", "key", "status"} /\ d.next = "ISSUED"
             => invoice.status \in {"DRAFT", "ISSUED", "OVERDUE"} /\ ~byHand
       /\ d.at = "status" => /\ d.next = "DRAFT" => invoice.status = "DRAFT"
                             /\ invoice.status = "CANCELLED" => d.next = "CANCELLED"
       /\ d.at = "flip" => /\ ~byHand
                           /\ invoice.status \notin {"DRAFT", "CANCELLED"}
                           /\ d.next \notin {"DRAFT", "CANCELLED"}
                           /\ Fits(d.next)

Handed == byHand => invoice.status \notin {"DRAFT", "ISSUED"}

Drafts ==
    /\ invoice.status = "DRAFT" => Live = {}
    /\ invoice.deleted => invoice.status \in {"DRAFT", "CANCELLED"}

Accounted == ~byHand /\ ~invoice.deleted /\ invoice.status \notin {"DRAFT", "CANCELLED"} => Fits(invoice.status)
Summing == \E c \in Clerks : clerk[c].at \in {"sum", "flip"}

BillInv ==
    /\ BillTyped
    /\ Handed
    /\ \A c \in Clerks : Upheld(clerk[c])
    /\ ~overtaken => Drafts
    /\ ~overtaken /\ ~torn => Accounted \/ Summing

LEMMA PaidIsNat ==
    /\ Paid \in Nat
    /\ Live = {} <=> Paid = 0
<1>1. IsFiniteSet(Live)
  BY BillAssumption, FS_Subset DEF BillAssumption, Live
<1> QED
  BY <1>1, FS_CardinalityType, FS_EmptySet DEF Paid

LEMMA SeatedTyped == Seated \in ClerkStates /\ Seated.at = "idle" /\ Seated.next = "DRAFT" /\ ~Seated.late
  BY BillAssumption DEF BillAssumption, Seated, ClerkStates, ClerkStages, InvoiceStatuses

LEMMA BillInvInit == BillInit => BillInv
<1> SUFFICES ASSUME BillInit PROVE BillInv
  OBVIOUS
<1>1. BillTyped
  BY BillAssumption, SeatedTyped DEF BillAssumption, BillInit, BillTyped, BillTypeOK, ClerkAt, InvoiceStatuses
<1>2. Drafts /\ Accounted /\ Handed
  BY DEF BillInit, Drafts, Accounted, Live, Handed
<1>3. \A c \in Clerks : Upheld(clerk[c])
  BY SeatedTyped DEF BillInit, Upheld
<1> QED
  BY <1>1, <1>2, <1>3 DEF BillInv

\* A request goes on and has written nothing that others rely on.
LEMMA ClerkReads ==
    ASSUME BillInv, NEW c \in Clerks, NEW d \in ClerkStates, Seat(c, d),
           d.at = "idle" <=> d = Seated,
           d.at \in {"render", "put", "key"} => d.next \in {"DRAFT", "ISSUED"},
           d.at = "put" => d.n \in Totals,
           UNCHANGED payment,
           paper' \in Totals \cup {NoPaper},
           invoice' \in [status : InvoiceStatuses, total : Totals, deleted : BOOLEAN, key : BOOLEAN],
           invoice'.status = invoice.status, invoice'.total = invoice.total,
           invoice'.deleted = invoice.deleted,
           byHand' => byHand,
           Upheld(d)',
           \/ Accounted' /\ Drafts'
           \/ /\ (overtaken' <=> overtaken) /\ (torn => torn')
              /\ \/ byHand' = byHand /\ (clerk[c].at \notin {"sum", "flip"} \/ torn')
                 \/ d.at = "flip"
                 \/ Accounted'
    PROVE  BillInv'
<1>1. /\ clerk' \in [Clerks -> ClerkStates]
      /\ \A q \in Clerks : clerk'[q] = IF q = c THEN d ELSE clerk[q]
  BY DEF BillInv, BillTyped, Seat
<1>2. BillTyped'
  BY <1>1 DEF BillInv, BillTyped, BillTypeOK, ClerkAt
<1>3. Paid' = Paid /\ Live' = Live
  BY DEF Paid, Live
<1>4. \A s : Fits(s)' <=> Fits(s)
  BY <1>3 DEF Fits
<1>5. Handed' /\ \A q \in Clerks : Upheld(clerk[q])'
  <2>1. Handed'
    BY DEF BillInv, Handed
  <2>2. \A q \in Clerks : q # c => Upheld(clerk[q])'
    BY <1>1, <1>4 DEF BillInv, Upheld
  <2>3. Upheld(clerk[c])'
    BY <1>1 DEF Upheld
  <2> QED
    BY <2>1, <2>2, <2>3
<1>6. CASE Accounted' /\ Drafts'
  BY <1>2, <1>5, <1>6 DEF BillInv
<1>7. CASE /\ (overtaken' <=> overtaken) /\ (torn => torn')
           /\ \/ byHand' = byHand /\ (clerk[c].at \notin {"sum", "flip"} \/ torn')
              \/ d.at = "flip"
              \/ Accounted'
  <2>1. ~overtaken' => Drafts'
    BY <1>3, <1>7 DEF BillInv, Drafts
  <2>2. ASSUME ~overtaken', ~torn' PROVE Accounted' \/ Summing'
    <3>1. Accounted \/ Summing
      BY <1>7, <2>2 DEF BillInv
    <3>2. Accounted /\ byHand' = byHand => Accounted'
      BY <1>4 DEF Accounted
    <3> QED
      BY <1>1, <1>7, <2>2, <3>1, <3>2 DEF Summing
  <2> QED
    BY <1>2, <1>5, <2>1, <2>2 DEF BillInv
<1> QED
  BY <1>6, <1>7

\* A request writes and overtakes all others.
LEMMA ClerkWrites ==
    ASSUME BillInv, NEW c \in Clerks, NEW d \in ClerkStates, Overtake(c, d),
           d = Seated \/ (d.at = "sum" /\ ~d.late),
           paper' = paper,
           payment' \in [Payments -> {"none", "live", "deleted"}],
           invoice' \in [status : InvoiceStatuses, total : Totals, deleted : BOOLEAN, key : BOOLEAN],
           Handed',
           ~overtaken' => Drafts',
           ~overtaken' /\ ~torn' => \/ d.at = "sum"
                                    \/ Accounted'
                                    \/ clerk[c].at \notin {"sum", "flip"} /\ Summing
    PROVE  BillInv'
<1>1. /\ \A q \in Clerks : clerk[q] \in ClerkStates
      /\ \A q \in Clerks : clerk[q].at = "idle" <=> clerk[q] = Seated
  BY DEF BillInv, BillTyped, BillTypeOK, ClerkAt
<1>2. /\ clerk' \in [Clerks -> ClerkStates]
      /\ clerk'[c] = d
      /\ \A q \in Clerks : q # c => /\ clerk'[q].at = clerk[q].at /\ clerk'[q].next = clerk[q].next
                                    /\ clerk'[q].n = clerk[q].n
                                    /\ clerk'[q] = Seated \/ clerk'[q].late
                                    /\ clerk'[q] = Seated <=> clerk[q] = Seated
  <2>1. \A q \in Clerks : LET e == [clerk[q] EXCEPT !.late = TRUE] IN
           /\ e \in ClerkStates /\ e.late
           /\ e.at = clerk[q].at /\ e.next = clerk[q].next /\ e.n = clerk[q].n
    BY <1>1 DEF ClerkStates
  <2>2. clerk' = [q \in Clerks |-> IF q = c THEN d
                                   ELSE IF clerk[q].at = "idle" THEN Seated
                                   ELSE [clerk[q] EXCEPT !.late = TRUE]]
    BY DEF Overtake, ClerkAt
  <2>3. clerk' \in [Clerks -> ClerkStates] /\ clerk'[c] = d
    BY <2>1, <2>2, SeatedTyped
  <2>4. \A q \in Clerks : q # c => clerk'[q] = IF clerk[q].at = "idle" THEN Seated
                                              ELSE [clerk[q] EXCEPT !.late = TRUE]
    BY <2>2
  <2>5. ASSUME NEW q \in Clerks, q # c
        PROVE  /\ clerk'[q].at = clerk[q].at /\ clerk'[q].next = clerk[q].next
               /\ clerk'[q].n = clerk[q].n
               /\ clerk'[q] = Seated \/ clerk'[q].late
               /\ clerk'[q] = Seated <=> clerk[q] = Seated
    <3>1. CASE clerk[q].at = "idle"
      BY <1>1, <2>4, <2>5, <3>1
    <3>2. CASE clerk[q].at # "idle"
      <4>1. PICK e : e = [clerk[q] EXCEPT !.late = TRUE]
        OBVIOUS
      <4>2. clerk'[q] = e
        BY <2>4, <2>5, <3>2, <4>1
      <4>3. e.late /\ e.at = clerk[q].at /\ e.next = clerk[q].next /\ e.n = clerk[q].n
        BY <2>1, <4>1
      <4> QED
        BY <1>1, <3>2, <4>2, <4>3, SeatedTyped
    <3> QED
      BY <3>1, <3>2
  <2> QED
    BY <2>3, <2>5
<1>3. BillTyped'
  <2>1. \A q \in Clerks : clerk'[q].at = "idle" <=> clerk'[q] = Seated
    BY <1>1, <1>2, SeatedTyped
  <2> QED
    BY <1>2, <2>1, SeatedTyped DEF BillInv, BillTyped, BillTypeOK, ClerkAt
<1>4. \A q \in Clerks : Upheld(clerk[q])'
  BY <1>2, SeatedTyped DEF Upheld
<1>5. ASSUME ~overtaken', ~torn' PROVE Accounted' \/ Summing'
  BY <1>2, <1>5 DEF Summing
<1> QED
  BY <1>3, <1>4, <1>5 DEF BillInv

LEMMA ReadsKeep ==
    ASSUME BillInv, NEW c \in Clerks,
           \/ BeginUpdate(c) \/ BeginRemove(c) \/ BeginPdfUrl(c) \/ BeginPay(c)
           \/ \E s \in InvoiceStatuses : BeginStatus(c, s)
           \/ \E p \in Payments : BeginRefund(c, p)
           \/ RenderPdf(c) \/ PutObject(c) \/ WriteKey(c) \/ PdfFails(c) \/ ClerkDies(c)
    PROVE  BillInv'
<1>0. /\ BillTyped /\ clerk[c] \in ClerkStates
      /\ invoice \in [status : InvoiceStatuses, total : Totals, deleted : BOOLEAN, key : BOOLEAN]
      /\ invoice.total \in Totals /\ paper \in Totals \cup {NoPaper}
  BY DEF BillInv, BillTyped, BillTypeOK
<1>1. Handed /\ Upheld(clerk[c])
  BY DEF BillInv
<1> USE DEF ClerkAt
<1>2. Seated \in ClerkStates /\ Seated.at = "idle" /\ Upheld(Seated)'
  BY SeatedTyped DEF Upheld
\* A request that begins, or moves on, without a write to the row.
<1>3. ASSUME NEW d \in ClerkStates, Seat(c, d),
             d.at = "idle" <=> d = Seated,
             d.at \in {"render", "put", "key"} => d.next \in {"DRAFT", "ISSUED"},
             d.at = "put" => d.n \in Totals,
             clerk[c].at \notin {"sum", "flip"},
             UNCHANGED <<payment, overtaken, byHand>>, ~torn' => ~torn,
             paper' \in Totals \cup {NoPaper},
             invoice' = invoice \/ invoice' = [invoice EXCEPT !.key = TRUE],
             Upheld(d)
      PROVE  BillInv'
  <2>1. /\ invoice' \in [status : InvoiceStatuses, total : Totals, deleted : BOOLEAN, key : BOOLEAN]
        /\ invoice'.status = invoice.status /\ invoice'.total = invoice.total
        /\ invoice'.deleted = invoice.deleted
    BY <1>0, <1>3
  <2>2. Upheld(d) => Upheld(d)'
    BY <1>3, <2>1 DEF Upheld, Fits, Paid, Live
  <2> QED
    BY <1>3, <2>1, <2>2, ClerkReads
<1>4. ASSUME NEW pc \in {"lines", "delete", "render", "pay"}, Serve(c, pc),
             pc = "lines" => invoice.status = "DRAFT",
             pc = "delete" => invoice.status \in {"DRAFT", "CANCELLED"},
             pc = "pay" => invoice.status \notin {"DRAFT", "CANCELLED"}
      PROVE  BillInv'
  <2>1. PICK d : d = [Seated EXCEPT !.at = pc]
    OBVIOUS
  <2>2. d \in ClerkStates /\ d.at = pc /\ d.next = "DRAFT"
    BY <2>1, SeatedTyped DEF ClerkStates, ClerkStages
  <2>3. Upheld(d)
    BY <1>4, <2>2 DEF Serve, Upheld
  <2> QED
    BY <1>0, <1>2, <1>3, <1>4, <2>1, <2>2, <2>3 DEF Serve
<1>5. CASE BeginUpdate(c) \/ BeginRemove(c) \/ BeginPdfUrl(c) \/ BeginPay(c)
  BY <1>4, <1>5 DEF BeginUpdate, BeginRemove, BeginPdfUrl, BeginPay
<1>6. ASSUME NEW s \in InvoiceStatuses, BeginStatus(c, s) PROVE BillInv'
  <2>1. PICK at \in {"render", "status"} :
           /\ Seat(c, [Seated EXCEPT !.at = at, !.next = s])
           /\ at = "render" => s = "ISSUED"
    BY <1>6 DEF BeginStatus
  <2>2. PICK d : d = [Seated EXCEPT !.at = at, !.next = s]
    OBVIOUS
  <2>3. d \in ClerkStates /\ d.at = at /\ d.next = s
    BY <2>2, SeatedTyped DEF ClerkStates, ClerkStages
  <2>4. /\ s = "ISSUED" => invoice.status \in {"DRAFT", "ISSUED"}
        /\ s = "DRAFT" => invoice.status = "DRAFT"
        /\ invoice.status = "CANCELLED" => s = "CANCELLED"
    BY <1>6 DEF BeginStatus, Transition, TRANSITIONS
  <2>5. Upheld(d)
    BY <1>1, <1>6, <2>3, <2>4 DEF BeginStatus, Upheld, Handed
  <2> QED
    BY <1>0, <1>2, <1>3, <1>6, <2>1, <2>2, <2>3, <2>5 DEF BeginStatus
<1>7. ASSUME NEW p \in Payments, BeginRefund(c, p) PROVE BillInv'
  <2>1. PICK d : d = [Seated EXCEPT !.at = "refund", !.pay = p]
    OBVIOUS
  <2>2. d \in ClerkStates /\ d.at = "refund"
    BY <2>1, SeatedTyped DEF ClerkStates, ClerkStages
  <2>3. Upheld(d)
    BY <2>2 DEF Upheld
  <2> QED
    BY <1>0, <1>2, <1>3, <1>7, <2>1, <2>2, <2>3 DEF BeginRefund
\* What comes after the PDF.
<1>8. ASSUME AfterPdf(c), clerk[c].at \in {"render", "put", "key"}
      PROVE  \E d \in ClerkStates : /\ Seat(c, d)
                                    /\ d = Seated \/ d.at = "status"
                                    /\ Upheld(d)
  <2>1. CASE Issuing(c)
    <3>1. PICK d : d = [clerk[c] EXCEPT !.at = "status"]
      OBVIOUS
    <3>2. d \in ClerkStates /\ d.at = "status" /\ d.next = "ISSUED" /\ d.late = clerk[c].late
      BY <1>0, <2>1, <3>1 DEF ClerkStates, ClerkStages, Issuing
    <3>3. Upheld(d)
      BY <1>1, <1>8, <2>1, <3>2 DEF Upheld, Issuing
    <3>4. Seat(c, d)
      BY <1>8, <2>1, <3>1 DEF AfterPdf
    <3> QED
      BY <3>2, <3>3, <3>4
  <2>2. CASE ~Issuing(c)
    <3>1. Seat(c, Seated) /\ Upheld(Seated)
      BY <1>8, <2>2, SeatedTyped DEF AfterPdf, Upheld
    <3> QED
      BY <1>2, <3>1
  <2> QED
    BY <2>1, <2>2
<1>9. CASE RenderPdf(c)
  <2>1. CASE invoice.deleted
    <3>1. PICK d \in ClerkStates : Seat(c, d) /\ (d = Seated \/ d.at = "status") /\ Upheld(d)
      BY <1>8, <1>9, <2>1 DEF RenderPdf
    <3> QED
      BY <1>0, <1>2, <1>3, <1>9, <3>1 DEF RenderPdf
  <2>2. CASE ~invoice.deleted
    <3>1. PICK d : d = [clerk[c] EXCEPT !.at = "put", !.n = invoice.total]
      OBVIOUS
    <3>2. /\ d \in ClerkStates /\ d.at = "put" /\ d.next = clerk[c].next /\ d.late = clerk[c].late
          /\ d.n = invoice.total
      BY <1>0, <3>1 DEF ClerkStates, ClerkStages
    <3>3. Upheld(d)
      BY <1>1, <1>9, <3>2 DEF RenderPdf, Upheld
    <3>4. clerk[c].next \in {"DRAFT", "ISSUED"}
      BY <1>0, <1>9 DEF RenderPdf, BillTyped
    <3> QED
      BY <1>0, <1>2, <1>3, <1>9, <2>2, <3>1, <3>2, <3>3, <3>4 DEF RenderPdf
  <2> QED
    BY <2>1, <2>2
<1>10. CASE PutObject(c)
  <2>1. PICK d : d = [clerk[c] EXCEPT !.at = "key"]
    OBVIOUS
  <2>2. d \in ClerkStates /\ d.at = "key" /\ d.next = clerk[c].next /\ d.late = clerk[c].late
    BY <1>0, <2>1 DEF ClerkStates, ClerkStages
  <2>3. Upheld(d)
    BY <1>1, <1>10, <2>2 DEF PutObject, Upheld
  <2>4. clerk[c].next \in {"DRAFT", "ISSUED"} /\ clerk[c].n \in Totals \cup {NoPaper}
    BY <1>0, <1>10 DEF PutObject, BillTyped, ClerkStates
  <2> QED
    BY <1>0, <1>2, <1>3, <1>10, <2>1, <2>2, <2>3, <2>4 DEF PutObject
<1>11. CASE WriteKey(c) \/ PdfFails(c)
  <2>1. PICK d \in ClerkStates : Seat(c, d) /\ (d = Seated \/ d.at = "status") /\ Upheld(d)
    BY <1>8, <1>11 DEF WriteKey, PdfFails
  <2> QED
    BY <1>0, <1>2, <1>3, <1>11, <2>1 DEF WriteKey, PdfFails
<1>12. CASE ClerkDies(c)
  <2>1. /\ ~torn' => ~torn /\ clerk[c].at \notin {"sum", "flip"}
        /\ UNCHANGED <<invoice, paper, payment, overtaken, byHand>> /\ Seat(c, Seated)
    BY <1>12, Zenon DEF ClerkDies
  <2> QED
    BY <1>0, <1>2, <2>1, ClerkReads, Zenon
<1> QED
  BY <1>5, <1>6, <1>7, <1>9, <1>10, <1>11, <1>12

LEMMA WritesKeep ==
    ASSUME BillInv, NEW c \in Clerks,
           \/ WriteLines(c) \/ SetStatus(c) \/ WriteDeleted(c)
           \/ InsertPayment(c) \/ DeletePayment(c) \/ FlipStatus(c)
    PROVE  BillInv'
<1>0. /\ BillTyped /\ clerk[c] \in ClerkStates
      /\ invoice \in [status : InvoiceStatuses, total : Totals, deleted : BOOLEAN, key : BOOLEAN]
      /\ payment \in [Payments -> {"none", "live", "deleted"}]
      /\ clerk[c].next \in InvoiceStatuses
  BY DEF BillInv, BillTyped, BillTypeOK, ClerkStates
<1>1. Upheld(clerk[c]) /\ Handed /\ (~overtaken => Drafts)
  BY DEF BillInv
<1>2. LateWrite(c) => (~overtaken' => ~overtaken /\ ~clerk[c].late)
  BY Zenon DEF LateWrite
<1> USE DEF ClerkAt
<1>3. \E d \in ClerkStates : d = [Seated EXCEPT !.at = "sum"] /\ d.at = "sum" /\ ~d.late
  <2>1. PICK d : d = [Seated EXCEPT !.at = "sum"]
    OBVIOUS
  <2>2. d \in ClerkStates /\ d.at = "sum" /\ ~d.late
    BY <2>1, SeatedTyped DEF ClerkStates, ClerkStages
  <2> QED
    BY <2>1, <2>2
<1>4. ~overtaken /\ ~torn => Accounted \/ Summing
  BY DEF BillInv
<1>5. CASE WriteLines(c)
  <2>1. PICK n \in Totals : invoice' = [invoice EXCEPT !.total = n]
    BY <1>5 DEF WriteLines
  <2>2. /\ invoice' \in [status : InvoiceStatuses, total : Totals, deleted : BOOLEAN, key : BOOLEAN]
        /\ invoice'.status = invoice.status /\ invoice'.deleted = invoice.deleted
    BY <1>0, <2>1
  <2>3. Handed' /\ (~overtaken' => Drafts' /\ Accounted')
    BY <1>1, <1>2, <1>5, <2>2 DEF WriteLines, Drafts, Live, Accounted, Upheld, Handed
  <2> QED
    BY <1>0, <1>2, <1>5, <2>2, <2>3, SeatedTyped, ClerkWrites DEF WriteLines, BillTypeOK
<1>6. CASE SetStatus(c)
  <2>1. PICK s \in InvoiceStatuses : s = clerk[c].next
    BY <1>0
  <2>2. invoice' = [invoice EXCEPT !.status = s]
    BY <1>6, <2>1 DEF SetStatus
  <2>3. /\ invoice' \in [status : InvoiceStatuses, total : Totals, deleted : BOOLEAN, key : BOOLEAN]
        /\ invoice'.status = s /\ invoice'.deleted = invoice.deleted /\ invoice'.total = invoice.total
    BY <1>0, <2>2
  <2>4. (byHand' <=> s \notin {"DRAFT", "ISSUED"}) /\ ClerkAt(c, "status")
    BY <1>6, <2>1 DEF SetStatus
  <2>5. Paid' = Paid /\ Live' = Live
    BY <1>6 DEF SetStatus, Paid, Live
  <2>6. Handed' /\ (~overtaken' => Drafts')
    BY <1>1, <1>2, <1>6, <2>1, <2>3, <2>4, <2>5 DEF SetStatus, Drafts, Upheld, Handed
  <2>7. ASSUME ~overtaken', ~torn, ~Summing PROVE Accounted'
    <3>1. CASE s # "ISSUED"
      BY <2>3, <2>4, <3>1 DEF Accounted
    <3>2. CASE s = "ISSUED"
      <4>1. /\ ~byHand /\ ~invoice.deleted /\ invoice.status \in {"DRAFT", "ISSUED", "OVERDUE"}
            /\ Drafts /\ Accounted
        BY <1>1, <1>2, <1>4, <1>6, <2>1, <2>4, <2>7, <3>2 DEF SetStatus, Upheld
      <4>2. Fits("ISSUED")
        <5>1. CASE invoice.status = "DRAFT"
          BY <4>1, <5>1, PaidIsNat DEF Drafts, Fits
        <5>2. CASE invoice.status # "DRAFT"
          BY <4>1, <5>2 DEF Accounted, Fits
        <5> QED
          BY <5>1, <5>2
      <4> QED
        BY <2>3, <2>5, <3>2, <4>2 DEF Accounted, Fits
    <3> QED
      BY <3>1, <3>2
  <2> QED
    BY <1>0, <1>2, <1>6, <2>3, <2>4, <2>6, <2>7, SeatedTyped, ClerkWrites DEF SetStatus
<1>7. CASE WriteDeleted(c)
  <2>1. /\ invoice' \in [status : InvoiceStatuses, total : Totals, deleted : BOOLEAN, key : BOOLEAN]
        /\ invoice'.status = invoice.status /\ invoice'.deleted
    BY <1>0, <1>7 DEF WriteDeleted
  <2>2. Handed' /\ (~overtaken' => Drafts' /\ Accounted')
    BY <1>1, <1>2, <1>7, <2>1 DEF WriteDeleted, Drafts, Live, Accounted, Upheld, Handed
  <2> QED
    BY <1>0, <1>2, <1>7, <2>1, <2>2, SeatedTyped, ClerkWrites DEF WriteDeleted
<1>8. CASE InsertPayment(c)
  <2>1. payment' \in [Payments -> {"none", "live", "deleted"}]
    BY <1>0, <1>8 DEF InsertPayment
  <2>2. Handed' /\ (~overtaken' => Drafts')
    BY <1>1, <1>2, <1>8 DEF InsertPayment, Drafts, Upheld, Handed
  <2>3. PICK d \in ClerkStates : d = [Seated EXCEPT !.at = "sum"] /\ d.at = "sum" /\ ~d.late
    BY <1>3
  <2> QED
    BY <1>0, <1>2, <1>8, <2>1, <2>2, <2>3, ClerkWrites DEF InsertPayment
<1>9. CASE DeletePayment(c)
  <2>1. payment' \in [Payments -> {"none", "live", "deleted"}] /\ Live' \subseteq Live
    BY <1>0, <1>9 DEF DeletePayment, Live
  <2>2. Handed' /\ (~overtaken' => Drafts')
    BY <1>1, <1>9, <2>1 DEF DeletePayment, Drafts, Handed
  <2>3. PICK d \in ClerkStates : d = [Seated EXCEPT !.at = "sum"] /\ d.at = "sum" /\ ~d.late
    BY <1>3
  <2> QED
    BY <1>0, <1>9, <2>1, <2>2, <2>3, ClerkWrites DEF DeletePayment
<1>10. CASE FlipStatus(c)
  <2>1. PICK s \in InvoiceStatuses : s = clerk[c].next
    BY <1>0
  <2>2. invoice' = [invoice EXCEPT !.status = s]
    BY <1>10, <2>1 DEF FlipStatus
  <2>3. /\ invoice' \in [status : InvoiceStatuses, total : Totals, deleted : BOOLEAN, key : BOOLEAN]
        /\ invoice'.status = s /\ invoice'.deleted = invoice.deleted /\ invoice'.total = invoice.total
    BY <1>0, <2>2
  <2>4. Paid' = Paid /\ Live' = Live /\ ~byHand' /\ ClerkAt(c, "flip")
    BY <1>10 DEF FlipStatus, Paid, Live
  <2>5. ASSUME ~overtaken' PROVE Drafts' /\ Accounted'
    <3>1. ~invoice.deleted /\ s \notin {"DRAFT", "CANCELLED"} /\ Fits(s)
      BY <1>1, <1>10, <2>1, <2>4, <2>5 DEF FlipStatus, Upheld
    <3> QED
      BY <2>3, <2>4, <3>1 DEF Drafts, Accounted, Fits
  <2>6. Handed'
    BY <2>4 DEF Handed
  <2> QED
    BY <1>0, <1>10, <2>3, <2>5, <2>6, SeatedTyped, ClerkWrites DEF FlipStatus
<1> QED
  BY <1>5, <1>6, <1>7, <1>8, <1>9, <1>10

\* What recomputeStatusFromPayments finds, it writes, or it is there already.
LEMMA SumKeeps ==
    ASSUME BillInv, NEW c \in Clerks, SumPayments(c)
    PROVE  BillInv'
<1>0. /\ BillTyped /\ clerk[c] \in ClerkStates
      /\ invoice \in [status : InvoiceStatuses, total : Totals, deleted : BOOLEAN, key : BOOLEAN]
      /\ paper \in Totals \cup {NoPaper} /\ Paid \in Nat /\ invoice.total \in Int
      /\ Live = {} <=> Paid = 0
  BY BillAssumption, PaidIsNat DEF BillInv, BillTyped, BillTypeOK, BillAssumption
<1> USE DEF ClerkAt
<1> DEFINE closed == invoice.deleted \/ invoice.status \in {"DRAFT", "CANCELLED"}
           settled == ~closed /\ NextStatus = invoice.status
<1>1. /\ Seat(c, IF closed \/ settled THEN Seated
                 ELSE [Seated EXCEPT !.at = "flip", !.next = NextStatus])
      /\ byHand' = (byHand /\ closed)
      /\ overtaken' = (overtaken /\ ~settled)
      /\ torn' = (torn /\ ~settled)
      /\ UNCHANGED <<invoice, paper, payment, past, outages>>
  BY DEF SumPayments
<1>2. /\ Fits(NextStatus)
      /\ NextStatus \in InvoiceStatuses
      /\ invoice.status \notin {"DRAFT", "CANCELLED"} => NextStatus \notin {"DRAFT", "CANCELLED"}
  BY <1>0 DEF NextStatus, Fits, InvoiceStatuses
<1>3. UNCHANGED <<Paid, Live>>
  BY <1>1 DEF Paid, Live
<1>4. Upheld(Seated)'
  BY SeatedTyped DEF Upheld
<1>5. closed <=> invoice.deleted \/ invoice.status \in {"DRAFT", "CANCELLED"}
  OBVIOUS
<1>6. settled <=> ~closed /\ NextStatus = invoice.status
  OBVIOUS
<1> HIDE DEF closed, settled
<1>7. CASE closed
  <2>1. Accounted'
    BY <1>1, <1>5, <1>7 DEF Accounted
  <2>2. byHand' => byHand
    BY <1>1, Zenon
  <2>3. (overtaken' <=> overtaken) /\ (torn' <=> torn)
    BY <1>1, <1>6, <1>7, Zenon
  <2> QED
    BY <1>0, <1>1, <1>4, <1>7, <2>1, <2>2, <2>3, SeatedTyped, ClerkReads
<1>8. CASE settled
  <2>1. ~byHand'
    BY <1>1, <1>6, <1>8, Zenon
  <2>2. Accounted'
    BY <1>1, <1>2, <1>3, <1>6, <1>8 DEF Accounted, Fits
  <2>3. Drafts'
    BY <1>1, <1>5, <1>6, <1>8 DEF Drafts
  <2> QED
    BY <1>0, <1>1, <1>4, <1>8, <2>1, <2>2, <2>3, SeatedTyped, ClerkReads
<1>9. CASE ~closed /\ ~settled
  <2>1. PICK s \in InvoiceStatuses : s = NextStatus
    BY <1>2
  <2>2. PICK d : d = [Seated EXCEPT !.at = "flip", !.next = s]
    OBVIOUS
  <2>3. d \in ClerkStates /\ d.at = "flip" /\ d.next = s
    BY <2>2, SeatedTyped DEF ClerkStates, ClerkStages
  <2>4. Seat(c, d)
    BY <1>1, <1>9, <2>1, <2>2
  <2>5. ~byHand' /\ (overtaken' <=> overtaken) /\ (torn' <=> torn)
    BY <1>1, <1>9, Zenon
  <2>6. Upheld(d)'
    BY <1>1, <1>2, <1>3, <1>5, <1>9, <2>1, <2>3, <2>5 DEF Upheld, Fits
  <2> QED
    BY <1>0, <1>1, <2>3, <2>4, <2>5, <2>6, SeatedTyped, ClerkReads
<1> QED
  BY <1>7, <1>8, <1>9

LEMMA BillInvStep == BillInv /\ [BillNext]_billVars => BillInv'
<1> SUFFICES ASSUME BillInv, [BillNext]_billVars PROVE BillInv'
  OBVIOUS
<1>0. /\ BillTyped
      /\ invoice \in [status : InvoiceStatuses, total : Totals, deleted : BOOLEAN, key : BOOLEAN]
  BY DEF BillInv, BillTyped, BillTypeOK
<1>1. CASE UNCHANGED billVars
  <2>1. /\ BillTyped' <=> BillTyped
        /\ Drafts' <=> Drafts
        /\ Handed' <=> Handed
        /\ Accounted' <=> Accounted
        /\ Summing' <=> Summing
    BY <1>1 DEF billVars, BillTyped, BillTypeOK, ClerkAt, Drafts, Handed, Live, Accounted, Fits, Paid, Summing
  <2>2. \A c \in Clerks : Upheld(clerk[c])' <=> Upheld(clerk[c])
    BY <1>1 DEF billVars, Upheld, Fits, Paid, Live
  <2> QED
    BY <1>1, <2>1, <2>2 DEF billVars, BillInv
<1>2. ASSUME NEW c \in Clerks,
             \/ BeginUpdate(c) \/ BeginRemove(c) \/ BeginPdfUrl(c) \/ BeginPay(c)
             \/ \E s \in InvoiceStatuses : BeginStatus(c, s)
             \/ \E p \in Payments : BeginRefund(c, p)
             \/ WriteLines(c) \/ RenderPdf(c) \/ PutObject(c) \/ WriteKey(c) \/ PdfFails(c)
             \/ SetStatus(c) \/ WriteDeleted(c)
             \/ InsertPayment(c) \/ DeletePayment(c) \/ SumPayments(c) \/ FlipStatus(c)
             \/ ClerkDies(c)
      PROVE  BillInv'
  BY <1>2, ReadsKeep, WritesKeep, SumKeeps
<1>3. CASE MarkOverdue
  <2>1. /\ invoice' \in [status : InvoiceStatuses, total : Totals, deleted : BOOLEAN, key : BOOLEAN]
        /\ invoice'.status = "OVERDUE" /\ invoice.status = "ISSUED" /\ ~invoice.deleted
        /\ invoice'.total = invoice.total /\ invoice'.deleted = invoice.deleted
        /\ UNCHANGED <<paper, payment, clerk, overtaken, byHand, torn>>
    BY <1>0, <1>3 DEF MarkOverdue, InvoiceStatuses
  <2>2. BillTyped'
    BY <1>0, <2>1 DEF BillTyped, BillTypeOK, ClerkAt
  <2>3. UNCHANGED <<Paid, Live>>
    BY <2>1 DEF Paid, Live
  <2>4. \A s : Fits(s)' <=> Fits(s)
    BY <2>1, <2>3 DEF Fits
  <2>5. /\ Handed' /\ (~overtaken' => Drafts')
        /\ \A c \in Clerks : Upheld(clerk[c])'
    BY <2>1, <2>4 DEF BillInv, Handed, Drafts, Upheld
  <2>6. ASSUME ~overtaken', ~torn' PROVE Accounted' \/ Summing'
    <3>1. Accounted \/ Summing
      BY <2>1, <2>6 DEF BillInv
    <3>2. Accounted => Accounted'
      BY <2>1, <2>3 DEF Accounted, Fits
    <3> QED
      BY <2>1, <3>1, <3>2 DEF Summing
  <2> QED
    BY <2>2, <2>5, <2>6 DEF BillInv
<1>4. CASE DuePasses
  <2>1. UNCHANGED <<invoice, paper, payment, clerk, overtaken, byHand, torn>>
    BY <1>4 DEF DuePasses
  <2>2. /\ BillTyped' <=> BillTyped
        /\ Drafts' <=> Drafts
        /\ Handed' <=> Handed
        /\ Accounted' <=> Accounted
        /\ Summing' <=> Summing
    BY <2>1 DEF BillTyped, BillTypeOK, ClerkAt, Drafts, Handed, Live, Accounted, Fits, Paid, Summing
  <2>3. \A c \in Clerks : Upheld(clerk[c])' <=> Upheld(clerk[c])
    BY <2>1 DEF Upheld, Fits, Paid, Live
  <2> QED
    BY <2>1, <2>2, <2>3 DEF BillInv
<1> QED
  BY <1>1, <1>2, <1>3, <1>4 DEF BillNext

(* The row, the payments and the requests keep their ranges.                 *)
THEOREM BillTypeCorrect == BillSpec => []BillTypeOK
<1>1. BillInv => BillTypeOK
  BY DEF BillInv, BillTyped
<1> QED
  BY <1>1, BillInvInit, BillInvStep, PTL DEF BillSpec

(* With no request in flight the status of an invoice is the one its         *)
(* payments call for, whatever its total: a write that followed a read       *)
(* somebody had overtaken, a lost recompute or a status set by hand last     *)
(* until the next recompute that nobody overtakes                            *)
(* (recomputeStatusFromPayments).                                            *)
THEOREM PaymentsDecide == BillSpec => []StatusMatchesPayments
<1>1. BillInv => StatusMatchesPayments
  <2> SUFFICES ASSUME BillInv, ~overtaken, ~torn, \A c \in Clerks : ClerkAt(c, "idle")
               PROVE  /\ Accounted
                      /\ invoice.status = "DRAFT" => Live = {}
    BY DEF StatusMatchesPayments, Accounted, Fits
  <2> QED
    BY DEF BillInv, Summing, ClerkAt, Drafts
<1> QED
  BY <1>1, BillInvInit, BillInvStep, PTL DEF BillSpec

(* CANCELLED is final, and only a draft or a cancelled invoice is deleted,   *)
(* unless a request wrote after a read that another had overtaken            *)
(* (assertTransition checks the status of the read).                         *)
THEOREM CancelledInvoice == BillSpec => CancelledIsFinal
<1>1. BillInv /\ BillInv' /\ [BillNext]_billVars =>
         (~overtaken' => /\ invoice.status = "CANCELLED" => invoice'.status = "CANCELLED"
                         /\ invoice'.deleted => invoice'.status \in {"DRAFT", "CANCELLED"})
  <2> SUFFICES ASSUME BillInv, BillInv', [BillNext]_billVars, ~overtaken'
               PROVE  /\ invoice.status = "CANCELLED" => invoice'.status = "CANCELLED"
                      /\ invoice'.deleted => invoice'.status \in {"DRAFT", "CANCELLED"}
    BY Zenon
  <2>1. invoice'.deleted => invoice'.status \in {"DRAFT", "CANCELLED"}
    BY DEF BillInv, Drafts
  <2>2. ASSUME invoice.status = "CANCELLED" PROVE invoice'.status = "CANCELLED"
    <3>0. invoice \in [status : InvoiceStatuses, total : Totals, deleted : BOOLEAN, key : BOOLEAN]
      BY DEF BillInv, BillTyped, BillTypeOK
    <3>1. CASE invoice' = invoice
      BY <2>2, <3>1
    <3>2. ASSUME NEW c \in Clerks, WriteLines(c) \/ WriteKey(c) \/ WriteDeleted(c)
          PROVE  invoice'.status = "CANCELLED"
      BY <2>2, <3>0, <3>2 DEF WriteLines, WriteKey, WriteDeleted
    <3>3. ASSUME NEW c \in Clerks, SetStatus(c) \/ FlipStatus(c)
          PROVE  invoice'.status = "CANCELLED"
      <4>1. ~clerk[c].late
        <5>1. LateWrite(c) \/ overtaken' = clerk[c].late
          BY <3>3 DEF SetStatus, FlipStatus
        <5> QED
          BY <5>1, Zenon DEF LateWrite
      <4>2. Upheld(clerk[c])
        BY <4>1 DEF BillInv
      <4> QED
        BY <2>2, <3>0, <3>3, <4>1, <4>2 DEF SetStatus, FlipStatus, ClerkAt, Upheld
    <3>4. ~MarkOverdue
      BY <2>2 DEF MarkOverdue
    <3> QED
      BY <3>1, <3>2, <3>3, <3>4 DEF BillNext, billVars, BeginUpdate, BeginRemove, BeginPdfUrl, BeginPay,
         Serve, BeginStatus, BeginRefund, RenderPdf, PutObject, PdfFails, InsertPayment, DeletePayment,
         SumPayments, ClerkDies, DuePasses
  <2> QED
    BY <2>1, <2>2
<1> QED
  BY <1>1, BillInvInit, BillInvStep, PTL DEF BillSpec, CancelledIsFinal

-----------------------------------------------------------------------------
(* E-mail delivery: a message is sent once, and to nobody on the list.       *)

SenderStates == [at : {"idle", "filter", "enqueue", "check", "null", "tx", "addJob", "commit",
                       "sent", "threw"},
                 msg : Messages \cup {NoMessage}, todo : SUBSET Addresses,
                 keep : SUBSET Addresses, steady : SUBSET Addresses]
MailerStates == [at : {"idle", "load", "account", "mark", "smtp", "record", "fail"},
                 msg : Messages \cup {NoMessage}, own : BOOLEAN]
HasRow(d) == d.at \in {"enqueue", "addJob", "commit"}

MailTyped ==
    /\ mail \in [Messages -> {"NONE", "QUEUED", "SENDING", "SENT", "FAILED"}]
    /\ rcpt \in [Messages -> SUBSET Addresses]
    /\ mailJob \in [Messages -> {"none", "waiting", "active", "done"}]
    /\ entry \in [Addresses -> {"none", "kept", "dated", "lapsed"}]
    /\ smtp \in [Messages -> Nat]
    /\ early \subseteq stalled
    /\ sender \in [Senders -> SenderStates]
    /\ mailer \in [Mailers -> MailerStates]
    /\ \A s \in Senders : HasRow(sender[s]) <=> sender[s].msg \in Messages
    /\ \A w \in Mailers : mailer[w].at # "idle" <=> mailer[w].msg \in Messages

\* Whoever has the lock of a job is alone with it.
OneLock ==
    /\ \A v, w \in Mailers : mailer[v].own /\ mailer[w].own /\ mailer[v].msg = mailer[w].msg => v = w
    /\ \A w \in Mailers : mailer[w].at # "idle" =>
          /\ mailJob[mailer[w].msg] # "none"
          /\ mailer[w].own => mailJob[mailer[w].msg] = "active"
    /\ \A w \in Mailers : mailer[w].own => mailer[w].at # "idle"

\* A message that waits for its row or its job belongs to one call.
OneCall ==
    /\ \A s \in Senders :
          /\ sender[s].at \in {"enqueue", "addJob"} => mailJob[sender[s].msg] = "none"
          /\ sender[s].at \in {"addJob", "commit"} => mail[sender[s].msg] = "NONE"
    /\ \A r, s \in Senders : sender[r].msg = sender[s].msg /\ sender[r].msg \in Messages => r = s

\* Nobody has tried to send the message, and who works on it has its lock.
Unread(m) ==
    /\ smtp[m] = 0
    /\ \A w \in Mailers : mailer[w].msg = m => mailer[w].own

\* One execution may still be about to send it, if nobody has.
Attempted(m) ==
    /\ smtp[m] <= 1
    /\ \A w \in Mailers : mailer[w].msg = m =>
          /\ mailer[w].at \notin {"account", "mark"}
          /\ mailer[w].at = "smtp" => smtp[m] = 0
    /\ \A v, w \in Mailers : /\ mailer[v].msg = m /\ mailer[w].msg = m
                             /\ mailer[v].at = "smtp" /\ mailer[w].at = "smtp"
                             => v = w

\* The status of the row tells whether it was tried, unless a lock was lost early.
Once ==
    \A m \in Messages :
       /\ mail[m] = "NONE" => \A w \in Mailers : mailer[w].msg = m => mailer[w].at = "load"
       /\ mail[m] = "QUEUED" /\ m \notin early =>
             \A w \in Mailers : mailer[w].msg = m => mailer[w].at \in {"load", "account", "mark"}
       /\ m \notin early => IF mail[m] \in {"NONE", "QUEUED"} THEN Unread(m) ELSE Attempted(m)

\* What a call keeps was not suppressed all the time.
Respectful(d) ==
    /\ d.steady \subseteq Suppressed
    /\ d.keep \cap d.steady = {}
    /\ d.at = "check" => \E a \in Addresses : d.todo = {a}

MailInv == MailTyped /\ OneLock /\ OneCall /\ Once /\ \A s \in Senders : Respectful(sender[s])

LEMMA FreeTyped ==
    /\ Free \in SenderStates /\ ~HasRow(Free) /\ Free.at = "idle" /\ Free.msg = NoMessage
    /\ Free.todo = {} /\ Free.keep = {} /\ Free.steady = {} /\ Respectful(Free)
  BY DEF Free, SenderStates, HasRow, Respectful

LEMMA MailerFreeTyped ==
    MailerFree \in MailerStates /\ MailerFree.at = "idle" /\ MailerFree.msg = NoMessage /\ ~MailerFree.own
  BY DEF MailerFree, MailerStates

LEMMA MailInvInit == MailInit => MailInv
<1> SUFFICES ASSUME MailInit PROVE MailInv
  OBVIOUS
<1>1. \A s \in Senders : sender[s] = Free
  BY DEF MailInit
<1>2. \A w \in Mailers : mailer[w] = MailerFree
  BY DEF MailInit
<1>3. NoMessage \notin Messages
  BY MailAssumption DEF MailAssumption
<1>4. MailTyped
  BY <1>1, <1>2, <1>3, FreeTyped, MailerFreeTyped DEF MailInit, MailTyped
<1>5. OneLock /\ OneCall
  BY <1>1, <1>2, <1>3, FreeTyped, MailerFreeTyped DEF OneLock, OneCall
<1>6. Once
  BY <1>2, <1>3, MailerFreeTyped DEF MailInit, Once, Unread
<1>7. \A s \in Senders : Respectful(sender[s])
  BY <1>1, FreeTyped
<1> QED
  BY <1>4, <1>5, <1>6, <1>7 DEF MailInv

LEMMA CallMoves ==
    ASSUME MailTyped, NEW s \in Senders, NEW d \in SenderStates, Become(s, d)
    PROVE  /\ sender' \in [Senders -> SenderStates]
           /\ \A r \in Senders : sender'[r] = IF r = s THEN d ELSE sender[r]
  BY DEF MailTyped, Become

LEMMA MailerMoves ==
    ASSUME MailTyped, NEW w \in Mailers, NEW d \in MailerStates, MailerTo(w, d)
    PROVE  /\ mailer' \in [Mailers -> MailerStates]
           /\ \A v \in Mailers : mailer'[v] = IF v = w THEN d ELSE mailer[v]
  BY DEF MailTyped, MailerTo

LEMMA IdsAreFresh ==
    ASSUME Fresh # {}
    PROVE  /\ NewId \in Messages /\ mail[NewId] = "NONE" /\ mailJob[NewId] = "none"
           /\ \A s \in Senders : sender[s].msg # NewId
  BY DEF Fresh, NewId

\* A call that moves on with the row and the job it has, or with a fresh id.
LEMMA CallKeeps ==
    ASSUME MailInv, NEW s \in Senders, NEW d \in SenderStates, Become(s, d), Respectful(d),
           UNCHANGED <<mail, rcpt, mailJob, smtp, stalled, early, entry, mailer>>,
           \/ ~HasRow(d) /\ d.msg = NoMessage
           \/ d.at = "addJob" /\ Fresh # {} /\ d.msg = NewId
    PROVE  MailInv'
<1>0. MailTyped /\ NoMessage \notin Messages
  BY MailAssumption DEF MailAssumption, MailInv
<1>1. /\ sender' \in [Senders -> SenderStates]
      /\ \A r \in Senders : sender'[r] = IF r = s THEN d ELSE sender[r]
  BY <1>0, CallMoves
<1>2. CASE ~HasRow(d) /\ d.msg = NoMessage
  <2>1. MailTyped'
    BY <1>0, <1>1, <1>2 DEF MailTyped
  <2>2. OneCall'
    BY <1>0, <1>1, <1>2 DEF MailInv, OneCall, HasRow
  <2>3. OneLock' /\ Once' /\ \A r \in Senders : Respectful(sender[r])'
    BY <1>1 DEF MailInv, OneLock, Once, Unread, Attempted, Respectful, Suppressed
  <2> QED
    BY <2>1, <2>2, <2>3 DEF MailInv
<1>3. CASE d.at = "addJob" /\ Fresh # {} /\ d.msg = NewId
  <2>0. PICK m \in Messages : d.msg = m /\ mail[m] = "NONE" /\ mailJob[m] = "none"
                              /\ \A r \in Senders : sender[r].msg # m
    BY <1>3, IdsAreFresh
  <2>1. MailTyped'
    BY <1>0, <1>1, <1>3, <2>0 DEF MailTyped, HasRow
  <2>2. OneCall'
    BY <1>0, <1>1, <1>3, <2>0 DEF MailInv, OneCall
  <2>3. OneLock' /\ Once' /\ \A r \in Senders : Respectful(sender[r])'
    BY <1>1 DEF MailInv, OneLock, Once, Unread, Attempted, Respectful, Suppressed
  <2> QED
    BY <2>1, <2>2, <2>3 DEF MailInv
<1> QED
  BY <1>2, <1>3

\* The job of a message is added.
LEMMA JobAdded ==
    ASSUME MailInv, NEW s \in Senders, EnqueueMessage(s) \/ AddJobInTx(s)
    PROVE  MailInv'
<1>0. MailTyped /\ NoMessage \notin Messages
  BY MailAssumption DEF MailAssumption, MailInv
<1>1. PICK m \in Messages : m = sender[s].msg
  BY <1>0 DEF MailTyped, HasRow, EnqueueMessage, AddJobInTx, SenderAt
<1>2. /\ UNCHANGED <<mail, rcpt, smtp, stalled, early, entry, mailer>>
      /\ mailJob[m] = "none"
      /\ mailJob' \in [Messages -> {"none", "waiting", "active", "done"}]
      /\ \A n \in Messages : mailJob'[n] = IF n = m THEN "waiting" ELSE mailJob[n]
  BY <1>0, <1>1 DEF MailInv, MailTyped, OneCall, EnqueueMessage, AddJobInTx, SenderAt, list
<1>3. PICK d \in SenderStates :
         /\ Become(s, d) /\ Respectful(d)
         /\ \/ d.at = "idle" /\ d.msg = NoMessage
            \/ d.at = "commit" /\ d.msg = m /\ mail[m] = "NONE"
  <2>1. CASE EnqueueMessage(s)
    BY <2>1, FreeTyped DEF EnqueueMessage
  <2>2. CASE AddJobInTx(s)
    <3>1. PICK d : d = [sender[s] EXCEPT !.at = "commit"]
      OBVIOUS
    <3>2. /\ d \in SenderStates /\ d.at = "commit" /\ d.msg = m
          /\ d.steady = sender[s].steady /\ d.keep = sender[s].keep
      BY <1>0, <1>1, <3>1 DEF MailTyped, SenderStates
    <3>3. Respectful(d)
      BY <3>2 DEF MailInv, Respectful
    <3>4. mail[m] = "NONE"
      BY <1>1, <2>2 DEF MailInv, OneCall, AddJobInTx, SenderAt
    <3> QED
      BY <2>2, <3>1, <3>2, <3>3, <3>4 DEF AddJobInTx
  <2> QED
    BY <2>1, <2>2
<1>4. /\ sender' \in [Senders -> SenderStates]
      /\ \A r \in Senders : sender'[r] = IF r = s THEN d ELSE sender[r]
  BY <1>0, <1>3, CallMoves
<1>5. MailTyped'
  BY <1>0, <1>2, <1>3, <1>4 DEF MailTyped, HasRow
<1>6. OneCall'
  <2>1. \A r \in Senders \ {s} : sender[r].msg # m
    BY <1>0, <1>1 DEF MailInv, OneCall
  <2> QED
    BY <1>0, <1>2, <1>3, <1>4, <2>1 DEF MailInv, OneCall, MailTyped, HasRow
<1>7. OneLock'
  <2>1. \A w \in Mailers : mailer[w].at # "idle" => mailer[w].msg \in Messages /\ mailer[w].msg # m
    BY <1>0, <1>2 DEF MailInv, OneLock, MailTyped
  <2> QED
    BY <1>2, <2>1 DEF MailInv, OneLock
<1>8. Once' /\ \A r \in Senders : Respectful(sender[r])'
  BY <1>2, <1>3, <1>4 DEF MailInv, Once, Unread, Attempted, Respectful, Suppressed
<1> QED
  BY <1>5, <1>6, <1>7, <1>8 DEF MailInv

\* The row of a message appears.
LEMMA RowAdded ==
    ASSUME MailInv, NEW s \in Senders, NEW m \in Messages, NEW q \in {"QUEUED", "FAILED"},
           NEW A \in SUBSET Addresses,
           mail[m] = "NONE", mail' = [mail EXCEPT ![m] = q], rcpt' = [rcpt EXCEPT ![m] = A],
           q = "FAILED" => mailJob[m] = "none",
           \A r \in Senders \ {s} : sender[r].msg # m,
           UNCHANGED <<mailJob, smtp, stalled, early, entry, mailer>>,
           NEW d \in SenderStates, Become(s, d), Respectful(d),
           \/ ~HasRow(d) /\ d.msg = NoMessage
           \/ d.at = "enqueue" /\ d.msg = m /\ mailJob[m] = "none"
    PROVE  MailInv'
<1>0. MailTyped /\ NoMessage \notin Messages
  BY MailAssumption DEF MailAssumption, MailInv
<1>1. /\ sender' \in [Senders -> SenderStates]
      /\ \A r \in Senders : sender'[r] = IF r = s THEN d ELSE sender[r]
  BY <1>0, CallMoves
<1>2. /\ mail' \in [Messages -> {"NONE", "QUEUED", "SENDING", "SENT", "FAILED"}]
      /\ rcpt' \in [Messages -> SUBSET Addresses]
      /\ \A n \in Messages : mail'[n] = IF n = m THEN q ELSE mail[n]
  BY <1>0 DEF MailTyped
<1>3. MailTyped'
  BY <1>0, <1>1, <1>2 DEF MailTyped, HasRow
<1>4. OneCall'
  BY <1>0, <1>1, <1>2 DEF MailInv, OneCall, MailTyped, HasRow
<1>5. OneLock' /\ \A r \in Senders : Respectful(sender[r])'
  BY <1>1 DEF MailInv, OneLock, Respectful, Suppressed
<1>6. Once'
  <2>1. \A w \in Mailers : mailer[w].msg = m => mailer[w].at = "load"
    BY DEF MailInv, Once
  <2>2. m \notin early => Unread(m)
    BY DEF MailInv, Once
  <2>3. CASE q = "QUEUED"
    BY <1>2, <2>1, <2>2, <2>3 DEF MailInv, Once, Unread, Attempted
  <2>4. CASE q = "FAILED"
    <3>1. \A w \in Mailers : mailer[w].msg # m
      BY <1>0, <2>1, <2>4 DEF MailInv, OneLock, MailTyped
    <3> QED
      BY <1>2, <2>2, <2>4, <3>1 DEF MailInv, Once, Unread, Attempted
  <2> QED
    BY <2>3, <2>4
<1> QED
  BY <1>3, <1>4, <1>5, <1>6 DEF MailInv

\* An execution stays with its message or ends; the row may take a new status
\* that is neither NONE nor QUEUED.
LEMMA WorkKeeps ==
    ASSUME MailInv, NEW w \in Mailers, mailer[w].at # "idle",
           NEW d \in MailerStates, MailerTo(w, d), mailer'[w] = d,
           \/ d = MailerFree
           \/ d.at # "idle" /\ d.msg = mailer[w].msg /\ (d.own <=> mailer[w].own),
           \/ mailJob' = mailJob
           \/ d = MailerFree /\ mailer[w].own /\ mailJob' = [mailJob EXCEPT ![mailer[w].msg] = "done"],
           \/ mail' = mail
           \/ /\ mailer[w].at # "load"
              /\ \E q \in {"SENDING", "SENT", "FAILED"} : mail' = [mail EXCEPT ![mailer[w].msg] = q],
           smtp' \in [Messages -> Nat],
           UNCHANGED <<rcpt, stalled, early, entry, sender>>,
           Once'
    PROVE  MailInv'
<1>0. MailTyped /\ NoMessage \notin Messages
  BY MailAssumption DEF MailAssumption, MailInv
<1>1. /\ mailer' \in [Mailers -> MailerStates]
      /\ \A v \in Mailers : mailer'[v] = IF v = w THEN d ELSE mailer[v]
  BY <1>0, MailerMoves
<1>2. PICK m \in Messages : m = mailer[w].msg
  BY <1>0 DEF MailTyped
<1>3. /\ mail' \in [Messages -> {"NONE", "QUEUED", "SENDING", "SENT", "FAILED"}]
      /\ \A n \in Messages : mail[n] = "NONE" => mail'[n] = "NONE"
  <2>1. mailer[w].at # "load" => mail[m] # "NONE"
    BY <1>2 DEF MailInv, Once
  <2> QED
    BY <1>0, <1>2, <2>1 DEF MailTyped
<1>4. /\ mailJob' \in [Messages -> {"none", "waiting", "active", "done"}]
      /\ mailJob[m] # "none"
      /\ \A n \in Messages : n # m => mailJob'[n] = mailJob[n]
      /\ mailJob'[m] = mailJob[m] \/ (d = MailerFree /\ mailer[w].own /\ mailJob'[m] = "done")
  BY <1>0, <1>2 DEF MailInv, MailTyped, OneLock
<1>5. MailTyped'
  BY <1>0, <1>1, <1>2, <1>3, <1>4, MailerFreeTyped DEF MailTyped
<1>6. OneLock'
  <2>1. \A v \in Mailers : mailer[v].at # "idle" => mailer[v].msg \in Messages
    BY <1>0 DEF MailTyped
  <2>2. \A v \in Mailers \ {w} : mailer[v].own /\ mailer[w].own => mailer[v].msg # m
    BY <1>2 DEF MailInv, OneLock
  <2> QED
    BY <1>1, <1>2, <1>4, <2>1, <2>2, MailerFreeTyped DEF MailInv, OneLock
<1>7. OneCall'
  BY <1>0, <1>2, <1>3, <1>4 DEF MailInv, OneCall, MailTyped, HasRow
<1>8. \A r \in Senders : Respectful(sender[r])'
  BY DEF MailInv, Respectful, Suppressed
<1> QED
  BY <1>5, <1>6, <1>7, <1>8 DEF MailInv

LEMMA TakeKeeps ==
    ASSUME MailInv, NEW w \in Mailers, NEW m \in Messages, TakeMail(w, m)
    PROVE  MailInv'
<1>0. MailTyped /\ NoMessage \notin Messages
  BY MailAssumption DEF MailAssumption, MailInv
<1>1. PICK d \in MailerStates : MailerTo(w, d) /\ d.at = "load" /\ d.msg = m /\ d.own
  <2>1. PICK d : d = [at |-> "load", msg |-> m, own |-> TRUE]
    OBVIOUS
  <2>2. d \in MailerStates /\ d.at = "load" /\ d.msg = m /\ d.own
    BY <2>1 DEF MailerStates
  <2> QED
    BY <2>1, <2>2 DEF TakeMail
<1>2. /\ mailer' \in [Mailers -> MailerStates]
      /\ \A v \in Mailers : mailer'[v] = IF v = w THEN d ELSE mailer[v]
  BY <1>0, <1>1, MailerMoves
<1>3. /\ UNCHANGED <<mail, rcpt, smtp, stalled, early, entry, sender>>
      /\ mailJob[m] = "waiting"
      /\ mailJob' \in [Messages -> {"none", "waiting", "active", "done"}]
      /\ \A n \in Messages : mailJob'[n] = IF n = m THEN "active" ELSE mailJob[n]
  BY <1>0 DEF MailTyped, TakeMail, list
<1>4. \A v \in Mailers : mailer[v].own => mailer[v].msg \in Messages \ {m}
  BY <1>0, <1>3 DEF MailInv, MailTyped, OneLock
<1>5. MailTyped'
  BY <1>0, <1>1, <1>2, <1>3 DEF MailTyped
<1>6. OneLock'
  BY <1>0, <1>1, <1>2, <1>3, <1>4 DEF MailInv, MailTyped, OneLock
<1>7. OneCall'
  BY <1>0, <1>3 DEF MailInv, MailTyped, OneCall, HasRow
<1>8. Once'
  <2>1. mailer[w].msg \notin Messages
    BY <1>0 DEF TakeMail, MailerAt, MailTyped
  <2>2. \A n \in Messages : Unread(n) => Unread(n)'
    BY <1>1, <1>2, <1>3, <1>4 DEF Unread
  <2>3. \A n \in Messages : Attempted(n) => Attempted(n)'
    BY <1>1, <1>2, <1>3 DEF Attempted
  <2> QED
    BY <1>1, <1>2, <1>3, <2>2, <2>3 DEF MailInv, Once
<1>9. \A r \in Senders : Respectful(sender[r])'
  BY <1>3 DEF MailInv, Respectful, Suppressed
<1> QED
  BY <1>5, <1>6, <1>7, <1>8, <1>9 DEF MailInv

\* What the other executions have of the message of one that is past its reads.
LEMMA AtWork ==
    ASSUME MailInv, NEW w \in Mailers, NEW m \in Messages, m = mailer[w].msg
    PROVE  /\ mailer[w].at # "idle"
           /\ mailer[w].at # "load" => mail[m] # "NONE"
           /\ mailer[w].at \in {"account", "mark"} /\ m \notin early =>
                 mail[m] = "QUEUED" /\ smtp[m] = 0 /\ \A v \in Mailers \ {w} : mailer[v].msg # m
           /\ mailer[w].at \in {"smtp", "record", "fail"} /\ m \notin early =>
                 mail[m] \notin {"NONE", "QUEUED"} /\ Attempted(m)
<1>0. MailTyped
  BY DEF MailInv
<1>1. mailer[w].at # "idle"
  BY <1>0 DEF MailTyped
<1>2. mailer[w].at # "load" => mail[m] # "NONE"
  BY DEF MailInv, Once
<1>3. ASSUME mailer[w].at \in {"account", "mark"}, m \notin early
      PROVE  mail[m] = "QUEUED" /\ smtp[m] = 0 /\ \A v \in Mailers \ {w} : mailer[v].msg # m
  <2>1. ~Attempted(m)
    BY <1>3 DEF Attempted
  <2>2. mail[m] = "QUEUED" /\ Unread(m)
    BY <1>2, <1>3, <2>1 DEF MailInv, Once
  <2> QED
    BY <1>3, <2>2 DEF Unread, MailInv, OneLock
<1>4. ASSUME mailer[w].at \in {"smtp", "record", "fail"}, m \notin early
      PROVE  mail[m] \notin {"NONE", "QUEUED"} /\ Attempted(m)
  BY <1>2, <1>4 DEF MailInv, Once
<1> QED
  BY <1>1, <1>2, <1>3, <1>4

\* An execution ends, and the row, if it was past its reads, with it.
LEMMA WorkEnds ==
    ASSUME MailInv, NEW w \in Mailers, mailer[w].at # "idle", MailerTo(w, MailerFree),
           \/ mailJob' = mailJob
           \/ mailer[w].own /\ mailJob' = [mailJob EXCEPT ![mailer[w].msg] = "done"],
           \/ mail' = mail
           \/ /\ mailer[w].at # "load"
              /\ \E q \in {"SENT", "FAILED"} : mail' = [mail EXCEPT ![mailer[w].msg] = q],
           UNCHANGED <<rcpt, smtp, stalled, early, entry, sender>>
    PROVE  MailInv'
<1>0. MailTyped /\ NoMessage \notin Messages
  BY MailAssumption DEF MailAssumption, MailInv
<1>1. \A v \in Mailers : mailer'[v] = IF v = w THEN MailerFree ELSE mailer[v]
  BY <1>0, MailerMoves, MailerFreeTyped
<1>2. PICK m \in Messages : m = mailer[w].msg
  BY <1>0 DEF MailTyped
<1>3. \A n \in Messages : Unread(n) => Unread(n)'
  BY <1>0, <1>1, MailerFreeTyped DEF Unread
<1>4. \A n \in Messages : Attempted(n) => Attempted(n)'
  BY <1>0, <1>1, MailerFreeTyped DEF Attempted
<1>5. \A n \in Messages, v \in Mailers : mailer'[v].msg = n => v # w /\ mailer'[v] = mailer[v]
  BY <1>0, <1>1, MailerFreeTyped
<1>6. Once'
  <2>1. CASE mail' = mail
    BY <1>3, <1>4, <1>5, <2>1 DEF MailInv, Once
  <2>2. CASE \E q \in {"SENT", "FAILED"} : mailer[w].at # "load" /\ mail' = [mail EXCEPT ![m] = q]
    <3>1. PICK q \in {"SENT", "FAILED"} : mail' = [mail EXCEPT ![m] = q]
      BY <2>2
    <3>2. \A n \in Messages : mail'[n] = IF n = m THEN q ELSE mail[n]
      BY <1>0, <3>1 DEF MailTyped
    <3>3. m \notin early => Attempted(m)'
      <4>1. CASE mailer[w].at \in {"account", "mark"}
        BY <1>2, <1>5, <4>1, AtWork DEF Attempted
      <4>2. CASE mailer[w].at \in {"smtp", "record", "fail"}
        BY <1>2, <1>4, <4>2, AtWork
      <4> QED
        BY <1>0, <2>2, <4>1, <4>2 DEF MailTyped, MailerStates
    <3> QED
      BY <1>3, <1>4, <1>5, <3>1, <3>2, <3>3 DEF MailInv, Once
  <2> QED
    BY <1>2, <2>1, <2>2
<1>7. smtp' \in [Messages -> Nat] /\ mailer'[w] = MailerFree
  BY <1>0, <1>1 DEF MailTyped
<1> QED
  BY <1>2, <1>6, <1>7, MailerFreeTyped, WorkKeeps

\* An execution goes on.
LEMMA WorkGoesOn ==
    ASSUME MailInv, NEW w \in Mailers, NEW pc \in {"account", "mark", "smtp", "record", "fail"},
           MailerTo(w, [mailer[w] EXCEPT !.at = pc]),
           UNCHANGED <<rcpt, mailJob, stalled, early, entry, sender>>,
           \/ /\ mailer[w].at = "load" /\ pc = "account" /\ mail[mailer[w].msg] = "QUEUED"
              /\ UNCHANGED <<mail, smtp>>
           \/ mailer[w].at = "account" /\ pc = "mark" /\ UNCHANGED <<mail, smtp>>
           \/ /\ mailer[w].at = "mark" /\ pc = "smtp" /\ UNCHANGED smtp
              /\ mail' = [mail EXCEPT ![mailer[w].msg] = "SENDING"]
           \/ /\ mailer[w].at = "smtp" /\ pc = "record" /\ UNCHANGED mail
              /\ smtp' = [smtp EXCEPT ![mailer[w].msg] = @ + 1]
           \/ mailer[w].at \in {"smtp", "record"} /\ pc = "fail" /\ UNCHANGED <<mail, smtp>>
    PROVE  MailInv'
<1>0. MailTyped /\ NoMessage \notin Messages
  BY MailAssumption DEF MailAssumption, MailInv
<1>1. PICK m \in Messages : m = mailer[w].msg
  BY <1>0 DEF MailTyped
<1>2. PICK d : d = [mailer[w] EXCEPT !.at = pc]
  OBVIOUS
<1>3. d \in MailerStates /\ d.at = pc /\ d.msg = m /\ d.own = mailer[w].own
  <2>1. mailer[w] \in MailerStates
    BY <1>0 DEF MailTyped
  <2>2. d \in MailerStates /\ d.at = pc /\ d.msg = m
    BY <1>1, <1>2, <2>1 DEF MailerStates
  <2>3. d.own = mailer[w].own
    BY <1>2, <2>1, Zenon DEF MailerStates
  <2> QED
    BY <2>2, <2>3
<1>4. \A v \in Mailers : mailer'[v] = IF v = w THEN d ELSE mailer[v]
  BY <1>0, <1>2, <1>3, MailerMoves
<1>5. /\ smtp' \in [Messages -> Nat]
      /\ \A n \in Messages : n # m => smtp'[n] = smtp[n] /\ mail'[n] = mail[n]
  BY <1>0, <1>1 DEF MailTyped
<1>6. \A n \in Messages : n # m => /\ Unread(n) => Unread(n)'
                                   /\ Attempted(n) => Attempted(n)'
  BY <1>1, <1>3, <1>4, <1>5 DEF Unread, Attempted
<1>7. \A v \in Mailers : mailer'[v].msg = mailer[v].msg /\ (mailer'[v].own <=> mailer[v].own)
  BY <1>1, <1>3, <1>4, Zenon
<1>8. /\ mail'[m] = "NONE" => \A v \in Mailers : mailer'[v].msg = m => mailer'[v].at = "load"
      /\ mail'[m] = "QUEUED" /\ m \notin early =>
            \A v \in Mailers : mailer'[v].msg = m => mailer'[v].at \in {"load", "account", "mark"}
      /\ m \notin early => IF mail'[m] \in {"NONE", "QUEUED"} THEN Unread(m)' ELSE Attempted(m)'
  <2>1. CASE mailer[w].at = "load"
    <3>1. mail[m] = "QUEUED" /\ UNCHANGED <<mail, smtp>> /\ pc = "account"
      BY <1>1, <2>1
    <3>2. m \notin early => Unread(m)
      BY <3>1 DEF MailInv, Once
    <3>3. m \notin early => Unread(m)'
      BY <1>7, <3>1, <3>2 DEF Unread
    <3>4. \A v \in Mailers : mailer'[v].msg = m => mailer[v].msg = m /\ (v # w => mailer'[v] = mailer[v])
      BY <1>4, <1>7
    <3> QED
      BY <1>3, <1>4, <3>1, <3>3, <3>4 DEF MailInv, Once
  <2>2. CASE mailer[w].at = "account"
    <3>1. UNCHANGED <<mail, smtp>> /\ pc = "mark" /\ mail[m] # "NONE"
      BY <1>1, <2>2, AtWork
    <3>2. m \notin early => Unread(m) /\ mail[m] = "QUEUED"
      BY <1>1, <2>2, AtWork DEF MailInv, Once
    <3>3. m \notin early => Unread(m)'
      BY <1>7, <3>1, <3>2 DEF Unread
    <3>4. \A v \in Mailers : mailer'[v].msg = m => mailer[v].msg = m /\ (v # w => mailer'[v] = mailer[v])
      BY <1>4, <1>7
    <3> QED
      BY <1>3, <1>4, <3>1, <3>2, <3>3, <3>4 DEF MailInv, Once
  <2>3. CASE mailer[w].at = "mark"
    <3>1. smtp' = smtp /\ mail'[m] = "SENDING" /\ pc = "smtp"
      BY <1>0, <1>1, <2>3 DEF MailTyped
    <3>2. m \notin early => smtp[m] = 0 /\ \A v \in Mailers \ {w} : mailer[v].msg # m
      BY <1>1, <2>3, AtWork
    <3> QED
      BY <1>3, <1>4, <3>1, <3>2 DEF Attempted
  <2>4. CASE mailer[w].at \in {"smtp", "record"}
    <3>1. mail' = mail /\ mail[m] # "NONE" /\ pc \in {"record", "fail"}
      BY <1>1, <2>4, AtWork
    <3>2. m \notin early => mail[m] \notin {"NONE", "QUEUED"} /\ Attempted(m)
      BY <1>1, <2>4, AtWork
    <3>3. m \notin early => Attempted(m)'
      <4> SUFFICES ASSUME m \notin early PROVE Attempted(m)'
        OBVIOUS
      <4>1. smtp'[m] <= 1 /\ (smtp'[m] = smtp[m] \/ mailer[w].at = "smtp")
        BY <1>0, <1>1, <2>4, <3>2 DEF Attempted, MailTyped
      <4>2. ASSUME NEW v \in Mailers, mailer'[v].msg = m
            PROVE  /\ mailer'[v].at \notin {"account", "mark"}
                   /\ mailer'[v].at = "smtp" => smtp'[m] = 0
        BY <1>1, <1>3, <1>4, <2>4, <3>1, <3>2, <4>1, <4>2 DEF Attempted
      <4>3. \A u, v \in Mailers : /\ mailer'[u].msg = m /\ mailer'[v].msg = m
                                  /\ mailer'[u].at = "smtp" /\ mailer'[v].at = "smtp"
                                  => u = v
        BY <1>3, <1>4, <3>1, <3>2 DEF Attempted
      <4> QED
        BY <4>1, <4>2, <4>3 DEF Attempted
    <3> QED
      BY <3>1, <3>2, <3>3
  <2> QED
    BY <1>1, <2>1, <2>2, <2>3, <2>4
<1>9. Once'
  <2> SUFFICES ASSUME NEW n \in Messages
      PROVE  /\ mail'[n] = "NONE" => \A v \in Mailers : mailer'[v].msg = n => mailer'[v].at = "load"
             /\ mail'[n] = "QUEUED" /\ n \notin early =>
                   \A v \in Mailers : mailer'[v].msg = n => mailer'[v].at \in {"load", "account", "mark"}
             /\ n \notin early => IF mail'[n] \in {"NONE", "QUEUED"} THEN Unread(n)' ELSE Attempted(n)'
    BY DEF Once
  <2>1. CASE n = m
    BY <1>8, <2>1
  <2>2. CASE n # m
    BY <1>1, <1>3, <1>4, <1>5, <1>6, <2>2 DEF MailInv, Once
  <2> QED
    BY <2>1, <2>2
<1>10. /\ mailer[w].at # "idle" /\ d \in MailerStates
       /\ MailerTo(w, d) /\ mailer'[w] = d /\ mailJob' = mailJob /\ smtp' \in [Messages -> Nat]
       /\ UNCHANGED <<rcpt, stalled, early, entry, sender>>
  BY <1>1, <1>2, <1>3, <1>4, <1>5
<1>11. d.at # "idle" /\ d.msg = mailer[w].msg /\ (d.own <=> mailer[w].own)
  BY <1>1, <1>3
<1>12. \/ mail' = mail
       \/ /\ mailer[w].at # "load"
          /\ \E q \in {"SENDING", "SENT", "FAILED"} : mail' = [mail EXCEPT ![mailer[w].msg] = q]
  BY <1>1
<1> QED
  BY <1>9, <1>10, <1>11, <1>12, WorkKeeps

\* The lock of a job expires: who had it goes on without.
LEMMA LockKeeps ==
    ASSUME MailInv, NEW m \in Messages, LockExpires(m)
    PROVE  MailInv'
<1>0. MailTyped /\ NoMessage \notin Messages
  BY MailAssumption DEF MailAssumption, MailInv
<1>1. \A w \in Mailers \ Holders(m) : mailer'[w] = mailer[w]
  BY DEF LockExpires
<1>2. \A w \in Holders(m) : /\ mailer'[w] \in MailerStates /\ ~mailer'[w].own
                            /\ mailer'[w].at = mailer[w].at /\ mailer'[w].msg = mailer[w].msg
  <2> SUFFICES ASSUME NEW w \in Holders(m)
               PROVE  /\ mailer'[w] \in MailerStates /\ ~mailer'[w].own
                      /\ mailer'[w].at = mailer[w].at /\ mailer'[w].msg = mailer[w].msg
    OBVIOUS
  <2>1. mailer[w] \in MailerStates /\ w \in Mailers
    BY <1>0 DEF MailTyped, Holders
  <2>2. mailer'[w] = [mailer[w] EXCEPT !.own = FALSE]
    BY <2>1 DEF LockExpires
  <2> QED
    BY <2>1, <2>2 DEF MailerStates
<1>3. \A w \in Mailers : /\ mailer'[w] \in MailerStates
                         /\ mailer'[w].at = mailer[w].at /\ mailer'[w].msg = mailer[w].msg
                         /\ mailer'[w].own => mailer[w].own /\ mailer[w].msg # m
  BY <1>0, <1>1, <1>2 DEF MailTyped, Holders
<1>4. /\ UNCHANGED <<mail, rcpt, smtp, entry, sender>>
      /\ mailJob[m] = "active"
      /\ mailJob' \in [Messages -> {"none", "waiting", "active", "done"}]
      /\ \A n \in Messages : n # m => mailJob'[n] = mailJob[n]
      /\ mailJob'[m] # "none"
  BY <1>0 DEF MailTyped, LockExpires, list
<1>5. early \subseteq early' /\ early' \subseteq stalled' /\ early' \subseteq early \cup {m}
  BY <1>0 DEF MailTyped, LockExpires
<1>6. MailTyped'
  <2>1. mailer' \in [Mailers -> MailerStates]
    BY <1>3 DEF LockExpires
  <2> QED
    BY <1>0, <1>3, <1>4, <1>5, <2>1 DEF MailTyped
<1>7. OneLock'
  BY <1>0, <1>3, <1>4 DEF MailInv, MailTyped, OneLock
<1>8. OneCall'
  BY <1>0, <1>4 DEF MailInv, MailTyped, OneCall, HasRow
<1>9. Once'
  <2>1. \A n \in Messages : Attempted(n) => Attempted(n)'
    BY <1>3, <1>4 DEF Attempted
  <2>2. \A n \in Messages \ {m} : Unread(n) => Unread(n)'
    BY <1>1, <1>2, <1>3, <1>4 DEF Unread, Holders
  <2>3. m \notin early' /\ mail[m] \in {"NONE", "QUEUED"} => mailer' = mailer
    <3> SUFFICES ASSUME m \notin early', mail[m] \in {"NONE", "QUEUED"} PROVE mailer' = mailer
      OBVIOUS
    <3>1. Holders(m) = {}
      BY DEF LockExpires
    <3> QED
      BY <1>0, <3>1 DEF LockExpires, MailTyped
  <2>4. m \notin early' /\ mail[m] \in {"NONE", "QUEUED"} /\ Unread(m) => Unread(m)'
    BY <1>4, <2>3 DEF Unread
  <2> QED
    BY <1>3, <1>4, <1>5, <2>1, <2>2, <2>4 DEF MailInv, Once
<1>10. \A s \in Senders : Respectful(sender[s])'
  BY <1>4 DEF MailInv, Respectful, Suppressed
<1> QED
  BY <1>6, <1>7, <1>8, <1>9, <1>10 DEF MailInv

\* The list grows.
LEMMA ListGrows ==
    ASSUME MailInv, entry' \in [Addresses -> {"none", "kept", "dated", "lapsed"}],
           Suppressed \subseteq Suppressed', UNCHANGED <<mailRows, sender, mailer>>
    PROVE  MailInv'
<1>1. MailTyped'
  BY DEF MailInv, MailTyped, mailRows
<1>2. OneLock' /\ OneCall' /\ Once'
  BY DEF MailInv, OneLock, OneCall, Once, Unread, Attempted, mailRows
<1>3. \A s \in Senders : Respectful(sender[s])'
  BY DEF MailInv, Respectful
<1> QED
  BY <1>1, <1>2, <1>3 DEF MailInv

\* An address leaves the list, and with it what the calls have of it.
LEMMA ListShrinks ==
    ASSUME MailInv, NEW a \in Addresses, NEW v \in {"none", "lapsed"},
           entry' = [entry EXCEPT ![a] = v], StillSteady(Addresses \ {a}),
           UNCHANGED <<mailRows, mailer>>
    PROVE  MailInv'
<1>0. MailTyped
  BY DEF MailInv
<1>1. \A s \in Senders : /\ sender'[s] \in SenderStates
                         /\ sender'[s].at = sender[s].at /\ sender'[s].msg = sender[s].msg
                         /\ sender'[s].todo = sender[s].todo /\ sender'[s].keep = sender[s].keep
                         /\ sender'[s].steady = sender[s].steady \ {a}
  <2> SUFFICES ASSUME NEW s \in Senders
               PROVE  /\ sender'[s] \in SenderStates
                      /\ sender'[s].at = sender[s].at /\ sender'[s].msg = sender[s].msg
                      /\ sender'[s].todo = sender[s].todo /\ sender'[s].keep = sender[s].keep
                      /\ sender'[s].steady = sender[s].steady \ {a}
    OBVIOUS
  <2>1. sender[s] \in SenderStates
    BY <1>0 DEF MailTyped
  <2>2. sender'[s] = [sender[s] EXCEPT !.steady = sender[s].steady \cap (Addresses \ {a})]
    BY DEF StillSteady
  <2> QED
    BY <2>1, <2>2 DEF SenderStates
<1>2. Suppressed \ {a} \subseteq Suppressed'
  BY <1>0 DEF Suppressed, MailTyped
<1>3. MailTyped'
  <2>1. sender' \in [Senders -> SenderStates]
    BY <1>1 DEF StillSteady
  <2>2. entry' \in [Addresses -> {"none", "kept", "dated", "lapsed"}]
    BY <1>0 DEF MailTyped
  <2> QED
    BY <1>0, <1>1, <2>1, <2>2 DEF MailTyped, HasRow, mailRows
<1>4. OneLock' /\ Once'
  BY DEF MailInv, OneLock, Once, Unread, Attempted, mailRows
<1>5. OneCall'
  BY <1>1 DEF MailInv, OneCall, mailRows
<1>6. \A s \in Senders : Respectful(sender[s])'
  BY <1>1, <1>2 DEF MailInv, Respectful
<1> QED
  BY <1>3, <1>4, <1>5, <1>6 DEF MailInv

\* The calls of send and sendTransactional, their callers included.
LEMMA CallStepKeeps ==
    ASSUME MailInv, NEW s \in Senders,
           SendStep(s) \/ EnqueueFails(s) \/ TxThrows(s) \/ MailRequest(s)
    PROVE  MailInv'
<1>0. MailTyped /\ NoMessage \notin Messages /\ sender[s] \in SenderStates /\ Respectful(sender[s])
  BY MailAssumption DEF MailAssumption, MailInv, MailTyped
<1> USE DEF mailRows, list, SenderAt
<1>1. CASE EnqueueFails(s) \/ (sender[s].at \in {"null", "sent", "threw"} /\ Become(s, Free)
                                 /\ UNCHANGED <<mailRows, list, mailer, troubles>>)
  BY <1>1, FreeTyped, CallKeeps DEF EnqueueFails
<1>2. ASSUME NEW R \in SUBSET Addresses, Send(s, R)
      PROVE  MailInv'
  <2>1. PICK d : d = [Free EXCEPT !.at = "filter", !.todo = R, !.steady = R \cap Suppressed]
    OBVIOUS
  <2>2. d \in SenderStates /\ ~HasRow(d) /\ d.msg = NoMessage /\ Respectful(d)
    BY <2>1, FreeTyped DEF Free, SenderStates, HasRow, Respectful
  <2>3. Become(s, d)
    BY <1>2, <2>1 DEF Send
  <2> QED
    BY <1>2, <2>2, <2>3, CallKeeps DEF Send
<1>3. ASSUME NEW a \in Addresses, SendTransactional(s, a)
      PROVE  MailInv'
  <2>1. PICK d : d = [Free EXCEPT !.at = "check", !.todo = {a}, !.steady = {a} \cap Suppressed]
    OBVIOUS
  <2>2. d \in SenderStates /\ ~HasRow(d) /\ d.msg = NoMessage /\ Respectful(d)
    BY <2>1, FreeTyped DEF Free, SenderStates, HasRow, Respectful
  <2>3. Become(s, d)
    BY <1>3, <2>1 DEF SendTransactional
  <2> QED
    BY <1>3, <2>2, <2>3, CallKeeps DEF SendTransactional
<1>4. CASE Filter(s)
  <2>1. PICK a \in sender[s].todo :
           Become(s, [sender[s] EXCEPT !.todo = @ \ {a}, !.keep = @ \cup ({a} \ Suppressed)])
    BY <1>4 DEF Filter
  <2>2. PICK d : d = [sender[s] EXCEPT !.todo = @ \ {a}, !.keep = @ \cup ({a} \ Suppressed)]
    OBVIOUS
  <2>3. /\ d \in SenderStates /\ d.at = "filter" /\ d.msg = sender[s].msg
        /\ d.steady = sender[s].steady /\ d.keep = sender[s].keep \cup ({a} \ Suppressed)
    BY <1>0, <1>4, <2>1, <2>2 DEF SenderStates, Filter
  <2>4. Respectful(d)
    BY <1>0, <2>3 DEF Respectful
  <2>5. ~HasRow(d) /\ d.msg = NoMessage
    BY <1>0, <1>4, <2>3 DEF Filter, MailTyped, SenderStates, HasRow
  <2> QED
    BY <1>4, <2>1, <2>2, <2>3, <2>4, <2>5, CallKeeps DEF Filter
<1>5. CASE InsertMessage(s)
  <2>1. PICK m \in Messages : m = NewId /\ mail[m] = "NONE" /\ mailJob[m] = "none"
                              /\ \A r \in Senders : sender[r].msg # m
    BY <1>5, IdsAreFresh DEF InsertMessage
  <2>2. PICK A \in SUBSET Addresses : A = sender[s].keep
    BY <1>0 DEF SenderStates
  <2>3. CASE A = {}
    <3>1. mail' = [mail EXCEPT ![m] = "FAILED"] /\ rcpt' = [rcpt EXCEPT ![m] = A] /\ Become(s, Free)
      BY <1>5, <2>1, <2>2, <2>3 DEF InsertMessage
    <3> QED
      BY <1>5, <2>1, <3>1, FreeTyped, RowAdded DEF InsertMessage
  <2>4. CASE A # {}
    <3>1. PICK d : d = [sender[s] EXCEPT !.at = "enqueue", !.msg = m]
      OBVIOUS
    <3>2. /\ d \in SenderStates /\ d.at = "enqueue" /\ d.msg = m
          /\ d.steady = sender[s].steady /\ d.keep = sender[s].keep
      BY <1>0, <3>1 DEF SenderStates
    <3>3. Respectful(d)
      BY <1>0, <3>2 DEF Respectful
    <3>4. mail' = [mail EXCEPT ![m] = "QUEUED"] /\ rcpt' = [rcpt EXCEPT ![m] = A] /\ Become(s, d)
      BY <1>5, <2>1, <2>2, <2>4, <3>1 DEF InsertMessage
    <3> QED
      BY <1>5, <2>1, <3>2, <3>3, <3>4, RowAdded DEF InsertMessage
  <2> QED
    BY <2>3, <2>4
<1>6. CASE EnqueueMessage(s) \/ AddJobInTx(s)
  BY <1>6, JobAdded
<1>7. CASE CheckSuppression(s)
  <2>1. PICK a \in Addresses : sender[s].todo = {a}
    BY <1>0, <1>7 DEF CheckSuppression, Respectful
  <2>2. CASE sender[s].todo \subseteq Suppressed
    <3>1. PICK d : d = [Free EXCEPT !.at = "null"]
      OBVIOUS
    <3>2. d \in SenderStates /\ ~HasRow(d) /\ d.msg = NoMessage /\ Respectful(d)
      BY <3>1, FreeTyped DEF Free, SenderStates, HasRow, Respectful
    <3>3. Become(s, d)
      BY <1>7, <2>2, <3>1 DEF CheckSuppression
    <3> QED
      BY <1>7, <3>2, <3>3, CallKeeps DEF CheckSuppression
  <2>3. CASE ~(sender[s].todo \subseteq Suppressed)
    <3>1. PICK d : d = [sender[s] EXCEPT !.at = "tx", !.keep = sender[s].todo]
      OBVIOUS
    <3>2. /\ d \in SenderStates /\ d.at = "tx" /\ d.msg = sender[s].msg
          /\ d.steady = sender[s].steady /\ d.keep = sender[s].todo
      BY <1>0, <3>1 DEF SenderStates
    <3>3. Respectful(d)
      BY <1>0, <2>1, <2>3, <3>2 DEF Respectful
    <3>4. ~HasRow(d) /\ d.msg = NoMessage
      BY <1>0, <1>7, <3>2 DEF CheckSuppression, MailTyped, SenderStates, HasRow
    <3>5. Become(s, d)
      BY <1>7, <2>3, <3>1 DEF CheckSuppression
    <3> QED
      BY <1>7, <3>2, <3>3, <3>4, <3>5, CallKeeps DEF CheckSuppression
  <2> QED
    BY <2>2, <2>3
<1>8. CASE InsertInTx(s)
  <2>1. CASE ~account /\ Become(s, [Free EXCEPT !.at = "null"])
    <3>1. PICK d : d = [Free EXCEPT !.at = "null"]
      OBVIOUS
    <3>2. d \in SenderStates /\ ~HasRow(d) /\ d.msg = NoMessage /\ Respectful(d)
      BY <3>1, FreeTyped DEF Free, SenderStates, HasRow, Respectful
    <3> QED
      BY <1>8, <2>1, <3>1, <3>2, CallKeeps DEF InsertInTx
  <2>2. CASE Fresh # {} /\ Become(s, [sender[s] EXCEPT !.at = "addJob", !.msg = NewId])
    <3>0. NewId \in Messages
      BY <2>2, IdsAreFresh
    <3>1. PICK d : d = [sender[s] EXCEPT !.at = "addJob", !.msg = NewId]
      OBVIOUS
    <3>2. /\ d \in SenderStates /\ d.at = "addJob" /\ d.msg = NewId
          /\ d.steady = sender[s].steady /\ d.keep = sender[s].keep
      BY <1>0, <3>0, <3>1 DEF SenderStates
    <3>3. Respectful(d)
      BY <1>0, <3>2 DEF Respectful
    <3> QED
      BY <1>8, <2>2, <3>1, <3>2, <3>3, CallKeeps DEF InsertInTx
  <2> QED
    BY <1>8, <2>1, <2>2 DEF InsertInTx
<1>9. CASE CommitTx(s)
  <2>1. PICK m \in Messages : m = sender[s].msg
    BY <1>0, <1>9 DEF MailTyped, HasRow, CommitTx
  <2>2. PICK A \in SUBSET Addresses : A = sender[s].keep
    BY <1>0 DEF SenderStates
  <2>3. mail[m] = "NONE" /\ \A r \in Senders \ {s} : sender[r].msg # m
    BY <1>9, <2>1 DEF MailInv, OneCall, CommitTx
  <2>4. PICK d : d = [sender[s] EXCEPT !.at = "sent", !.msg = NoMessage]
    OBVIOUS
  <2>5. /\ d \in SenderStates /\ d.at = "sent" /\ d.msg = NoMessage
        /\ d.steady = sender[s].steady /\ d.keep = sender[s].keep
    BY <1>0, <2>4 DEF SenderStates
  <2>6. Respectful(d) /\ ~HasRow(d)
    BY <1>0, <2>5 DEF Respectful, HasRow
  <2>7. mail' = [mail EXCEPT ![m] = "QUEUED"] /\ rcpt' = [rcpt EXCEPT ![m] = A] /\ Become(s, d)
    BY <1>9, <2>1, <2>2, <2>4 DEF CommitTx
  <2> QED
    BY <1>9, <2>3, <2>5, <2>6, <2>7, RowAdded DEF CommitTx
<1>10. CASE TxThrows(s)
  <2>1. PICK d : d = [Free EXCEPT !.at = "threw"]
    OBVIOUS
  <2>2. d \in SenderStates /\ ~HasRow(d) /\ d.msg = NoMessage /\ Respectful(d)
    BY <2>1, FreeTyped DEF Free, SenderStates, HasRow, Respectful
  <2> QED
    BY <1>10, <2>1, <2>2, CallKeeps DEF TxThrows
<1> QED
  BY <1>1, <1>2, <1>3, <1>4, <1>5, <1>6, <1>7, <1>8, <1>9, <1>10 DEF SendStep, MailRequest

\* The executions of the worker.
LEMMA WorkStepKeeps ==
    ASSUME MailInv, NEW w \in Mailers,
           MailerStep(w) \/ RecordFails(w) \/ QueryThrows(w) \/ MailerCrash(w)
    PROVE  MailInv'
<1>0. MailTyped
  BY DEF MailInv
<1> USE DEF mailRows, list, MailerAt
<1>1. ASSUME NEW m \in Messages, TakeMail(w, m)
      PROVE  MailInv'
  BY <1>1, TakeKeeps
<1>2. CASE MailerCrash(w)
  BY <1>2, WorkEnds DEF MailerCrash
<1>3. CASE QueryThrows(w)
  BY <1>3, WorkEnds DEF QueryThrows, FinishJob
<1>4. CASE LoadMail(w)
  <2>1. CASE mail[mailer[w].msg] = "QUEUED"
    BY <1>4, <2>1, WorkGoesOn DEF LoadMail
  <2>2. CASE mail[mailer[w].msg] # "QUEUED"
    BY <1>4, <2>2, WorkEnds DEF LoadMail, FinishJob
  <2> QED
    BY <2>1, <2>2
<1>5. CASE LoadAccount(w)
  <2>1. CASE account
    BY <1>5, <2>1, WorkGoesOn DEF LoadAccount
  <2>2. CASE ~account
    BY <1>5, <2>2, WorkEnds DEF LoadAccount, FinishJob
  <2> QED
    BY <2>1, <2>2
<1>6. CASE MarkSending(w)
  BY <1>6, WorkGoesOn DEF MarkSending
<1>7. CASE SmtpAccepts(w)
  BY <1>7, WorkGoesOn DEF SmtpAccepts
<1>8. CASE SmtpRejects(w) \/ RecordFails(w)
  BY <1>8, WorkGoesOn DEF SmtpRejects, RecordFails
<1>9. CASE RecordSent(w) \/ FailMail(w)
  BY <1>9, WorkEnds DEF RecordSent, FailMail, FinishJob
<1> QED
  BY <1>1, <1>2, <1>3, <1>4, <1>5, <1>6, <1>7, <1>8, <1>9 DEF MailerStep

\* What administrators, recipients and time do to the list.
LEMMA ListStepKeeps ==
    ASSUME MailInv, NEW a \in Addresses,
           (\E kind \in {"kept", "dated"} : AdminSuppress(a, kind)) \/ AdminRemove(a) \/ EntryLapses(a)
              \/ AddSystem(a)
    PROVE  MailInv'
<1>0. MailTyped
  BY DEF MailInv
<1>1. CASE (\E kind \in {"kept", "dated"} : AdminSuppress(a, kind)) \/ AddSystem(a)
  <2>1. /\ entry' \in [Addresses -> {"none", "kept", "dated", "lapsed"}]
        /\ Suppressed \subseteq Suppressed'
        /\ UNCHANGED <<mailRows, sender, mailer>>
    BY <1>0, <1>1 DEF MailTyped, AdminSuppress, AddSystem, Suppressed
  <2> QED
    BY <2>1, ListGrows
<1>2. CASE AdminRemove(a) \/ EntryLapses(a)
  BY <1>2, ListShrinks DEF AdminRemove, EntryLapses
<1> QED
  BY <1>1, <1>2

LEMMA MailNextKeeps == MailInv /\ MailNext => MailInv'
<1> SUFFICES ASSUME MailInv, MailNext PROVE MailInv'
  OBVIOUS
<1>1. CASE RemoveAccount
  BY <1>1, ListGrows DEF RemoveAccount, MailInv, MailTyped, Suppressed
<1> QED
  BY <1>1, CallStepKeeps, WorkStepKeeps, LockKeeps, ListStepKeeps DEF MailNext

LEMMA MailInvStep ==
    MailInv /\ [MailNext \/ \E s \in Senders : MailRequest(s)]_mailVars => MailInv'
<1>1. MailInv /\ UNCHANGED mailVars => MailInv'
  BY ListGrows DEF mailVars, list, MailInv, MailTyped, Suppressed
<1> QED
  BY <1>1, MailNextKeeps, CallStepKeeps

LEMMA MailTypes == MailInv => MailTypeOK
<1> SUFFICES ASSUME MailInv PROVE MailTypeOK
  OBVIOUS
<1>1. MailTyped /\ NoMessage \notin Messages
  BY MailAssumption DEF MailAssumption, MailInv
<1>2. \A s \in Senders : sender[s].msg \in Messages \cup {NoMessage}
  BY <1>1 DEF MailTyped, SenderStates
<1>3. \A w \in Mailers : MailerAt(w, "idle") <=> mailer[w].msg = NoMessage
  BY <1>1 DEF MailTyped, MailerStates, MailerAt
<1> QED
  BY <1>1, <1>2, <1>3 DEF MailTypeOK, MailTyped

(* The rows, the jobs, the list and the processes keep their ranges.         *)
THEOREM MailTypeCorrect == MailSpec => []MailTypeOK
  BY MailInvInit, MailInvStep, MailTypes, PTL DEF MailSpec

(* No message is sent twice, however many workers there are and whatever     *)
(* crashes: only an execution that lost its lock before it marked the row    *)
(* SENDING can repeat what another did (EmailProcessor.process).             *)
THEOREM SentOnce == MailSpec => []SentTwiceOnlyIfStalledEarly
<1>1. MailInv => SentTwiceOnlyIfStalledEarly
  BY DEF MailInv, MailTyped, Once, Unread, Attempted, SentTwiceOnlyIfStalledEarly
<1> QED
  BY <1>1, MailInvInit, MailInvStep, PTL DEF MailSpec

(* An address that stays on the suppression list during a call is not among  *)
(* the recipients it stores (filterSuppressedRecipients, sendTransactional). *)
THEOREM ListRespected == MailSpec => SteadyEntryRespected
<1>1. MailInv /\ [MailNext \/ \E s \in Senders : MailRequest(s)]_mailVars =>
         \A s \in Senders, m \in Messages :
            mail[m] = "NONE" /\ mail'[m] = "QUEUED" /\ sender'[s] # sender[s]
               => rcpt'[m] \cap sender[s].steady = {}
  <2> SUFFICES ASSUME MailInv, [MailNext \/ \E s \in Senders : MailRequest(s)]_mailVars,
                      NEW s \in Senders, NEW m \in Messages,
                      mail[m] = "NONE", mail'[m] = "QUEUED", sender'[s] # sender[s]
               PROVE  rcpt'[m] \cap sender[s].steady = {}
    OBVIOUS
  <2>0. MailTyped
    BY DEF MailInv
  <2>1. PICK r \in Senders : InsertMessage(r) \/ CommitTx(r)
    <3>1. mail' # mail
      OBVIOUS
    <3>2. ASSUME NEW w \in Mailers, LoadAccount(w) \/ MarkSending(w) \/ RecordSent(w) \/ FailMail(w)
          PROVE  FALSE
      BY <2>0, <3>2 DEF LoadAccount, MarkSending, RecordSent, FailMail, MailTyped
    <3> QED
      BY <3>1, <3>2 DEF MailNext, SendStep, MailerStep, MailRequest, mailVars, mailRows, Send, Filter,
         EnqueueMessage, EnqueueFails, SendTransactional, CheckSuppression, InsertInTx, AddJobInTx,
         TxThrows, TakeMail, LoadMail, SmtpAccepts, SmtpRejects, RecordFails, QueryThrows, MailerCrash,
         LockExpires, AdminSuppress, AdminRemove, EntryLapses, AddSystem, RemoveAccount
  <2>2. r = s
    BY <2>0, <2>1 DEF MailTyped, InsertMessage, CommitTx, Become
  <2>3. \E n \in Messages : mail' = [mail EXCEPT ![n] = mail'[n]] /\ rcpt' = [rcpt EXCEPT ![n] = sender[s].keep]
    <3>1. CASE InsertMessage(s)
      BY <3>1, IdsAreFresh DEF InsertMessage
    <3>2. CASE CommitTx(s)
      BY <2>0, <3>2 DEF CommitTx, MailTyped, HasRow, SenderAt
    <3> QED
      BY <2>1, <2>2, <3>1, <3>2
  <2>4. rcpt'[m] = sender[s].keep
    BY <2>0, <2>3 DEF MailTyped
  <2> QED
    BY <2>4 DEF MailInv, Respectful
<1> QED
  BY <1>1, MailInvInit, MailInvStep, PTL DEF MailSpec, SteadyEntryRespected

-----------------------------------------------------------------------------
(* E-mail sequences: no step is passed over, and none is repeated unless two *)
(* ticks overlap or a cursor is lost.                                        *)

EnrolStates == [status : {"NONE", "ACTIVE", "COMPLETED", "UNSUBSCRIBED"},
                step : 0..MaxSteps, due : {"null", "later", "now"}]
TickerStates == [at : {"idle", "next", "send", "cursor"}, batch : SUBSET Enrollments,
                 cur : Enrollments \cup {NoEnrollment}, step : 0..MaxSteps, last : 0..MaxSteps]

\* An enrollment a tick advances is one of its batch, and short of the last step.
Sound(d) ==
    /\ d.at = "idle" => d = Rest
    /\ d.at \in {"send", "cursor"} <=> d.cur \in Enrollments
    /\ d.cur \in Enrollments => d.cur \in d.batch /\ d.step < d.last

SeqTyped ==
    /\ cadence \in {"ACTIVE", "PAUSED", "ARCHIVED"}
    /\ steps \in 1..MaxSteps
    /\ enrol \in [Enrollments -> EnrolStates]
    /\ ticker \in [Tickers -> TickerStates]
    /\ \A t \in Tickers : Sound(ticker[t])
    /\ given \in [Enrollments -> SUBSET Nat]
    /\ skipped \in [Enrollments -> SUBSET Nat]

\* A tick that moves the cursor has seen to its step.
TicksAccounted ==
    \A t \in Tickers : ticker[t].cur \in Enrollments =>
       /\ 0..(ticker[t].step - 1) \subseteq given[ticker[t].cur] \cup skipped[ticker[t].cur]
       /\ ticker[t].at = "cursor" => ticker[t].step \in given[ticker[t].cur] \cup skipped[ticker[t].cur]

\* An enrollment one tick has in hand is as that tick read it.
OneTick ==
    \A e \in Enrollments \ overlapped :
       /\ \A t, u \in Tickers : e \in ticker[t].batch /\ e \in ticker[u].batch => t = u
       /\ \A t \in Tickers : e \in ticker[t].batch => enrol[e].due = "now"
       /\ \A t \in Tickers : ticker[t].cur = e => ticker[t].step = enrol[e].step

\* Nobody has an enrollment in hand before it exists.
NotYet ==
    \A e \in Enrollments : enrol[e].status = "NONE" =>
       enrol[e].step = 0 /\ enrol[e].due = "null" /\ \A t \in Tickers : e \notin ticker[t].batch

\* The cursor of an undisturbed enrollment is past what was queued, or a tick
\* is about to move it there.
NotAhead ==
    \A e \in Enrollments \ (overlapped \cup unwritten) : \A i \in given[e] :
       \/ i < enrol[e].step
       \/ i = enrol[e].step /\ \E t \in Tickers : ticker[t].at = "cursor" /\ ticker[t].cur = e

\* Who left while a tick had the enrollment in hand.
LeaversKnown ==
    \A e \in Enrollments, t \in Tickers :
       enrol[e].status = "UNSUBSCRIBED" /\ ticker[t].cur = e => e \in overwritten

SeqInv ==
    /\ SeqTyped
    /\ TicksAccounted
    /\ StepsAccounted
    /\ OneTick
    /\ NotYet
    /\ NotAhead
    /\ RepeatedOrEarlyOnlyIfDisturbed
    /\ LeaversKnown

LEMMA RestTyped == Rest \in TickerStates /\ Sound(Rest) /\ Rest.batch = {} /\ Rest.cur = NoEnrollment
                   /\ Rest.at = "idle"
  BY SequenceAssumption DEF SequenceAssumption, Rest, TickerStates, Sound

LEMMA SeqInvInit == SeqInit => MailInv /\ SeqInv
<1> SUFFICES ASSUME SeqInit PROVE SeqInv
  BY MailInvInit DEF SeqInit
<1>0. MaxSteps \in Nat \ {0} /\ NoEnrollment \notin Enrollments /\ CadenceInit
  BY SequenceAssumption DEF SequenceAssumption, SeqInit
<1>1. /\ \A e \in Enrollments : /\ enrol[e].status = "NONE" /\ enrol[e].step = 0 /\ enrol[e].due = "null"
                                /\ given[e] = {} /\ skipped[e] = {}
      /\ \A t \in Tickers : ticker[t] = Rest
      /\ overlapped = {} /\ unwritten = {} /\ twice = {} /\ hasty = {} /\ overwritten = {}
  BY <1>0 DEF CadenceInit
<1>2. SeqTyped
  <2>1. enrol \in [Enrollments -> EnrolStates]
    BY <1>0 DEF CadenceInit, EnrolStates
  <2>2. ticker \in [Tickers -> TickerStates]
    BY <1>0, RestTyped DEF CadenceInit
  <2> QED
    BY <1>0, <1>1, <2>1, <2>2, RestTyped DEF CadenceInit, SeqTyped
<1>3. TicksAccounted /\ OneTick /\ NotYet /\ LeaversKnown
  BY <1>0, <1>1, RestTyped DEF TicksAccounted, OneTick, NotYet, LeaversKnown
<1>4. StepsAccounted /\ NotAhead /\ RepeatedOrEarlyOnlyIfDisturbed
  BY <1>1 DEF StepsAccounted, NotAhead, RepeatedOrEarlyOnlyIfDisturbed
<1> QED
  BY <1>2, <1>3, <1>4 DEF SeqInv

LEMMA TickerMoves ==
    ASSUME SeqTyped, NEW t \in Tickers, NEW d \in TickerStates, Go(t, d), Sound(d)
    PROVE  /\ ticker' \in [Tickers -> TickerStates]
           /\ \A u \in Tickers : ticker'[u] = IF u = t THEN d ELSE ticker[u]
           /\ \A u \in Tickers : Sound(ticker[u])'
<1>1. /\ ticker' \in [Tickers -> TickerStates]
      /\ \A u \in Tickers : ticker'[u] = IF u = t THEN d ELSE ticker[u]
  BY DEF SeqTyped, Go
<1> QED
  BY <1>1 DEF SeqTyped, Sound

\* Users and the clock change an enrollment no tick has read, or only what the
\* ticks do not count on.
LEMMA UserKeeps ==
    ASSUME SeqInv, NEW e \in Enrollments, Enroll(e) \/ Unenroll(e) \/ DelayPasses(e)
    PROVE  SeqInv'
<1>0. SeqTyped /\ enrol[e] \in EnrolStates /\ MaxSteps \in Nat
  BY SequenceAssumption DEF SequenceAssumption, SeqInv, SeqTyped
<1>1. UNCHANGED <<cadence, steps, ticker, given, skipped, overlapped, unwritten, twice, hasty>>
  BY DEF Enroll, Unenroll, DelayPasses, history
<1>2. PICK r \in EnrolStates :
         /\ enrol' = [enrol EXCEPT ![e] = r]
         /\ r.step = enrol[e].step
         /\ \/ enrol[e].status = "NONE" /\ r.status = "ACTIVE" /\ overwritten' = overwritten
            \/ /\ r.status = "UNSUBSCRIBED" /\ r.due = enrol[e].due /\ enrol[e].status # "NONE"
               /\ overwritten \subseteq overwritten'
               /\ (\E t \in Tickers : ticker[t].cur = e) => e \in overwritten'
            \/ r.status = enrol[e].status /\ enrol[e].due = "later" /\ overwritten' = overwritten
  <2>1. CASE Enroll(e)
    <3>1. PICK d \in {"now", "later"} :
             enrol' = [enrol EXCEPT ![e] = [status |-> "ACTIVE", step |-> 0, due |-> d]]
      BY <2>1 DEF Enroll
    <3>2. PICK r : r = [status |-> "ACTIVE", step |-> 0, due |-> d]
      OBVIOUS
    <3>3. r \in EnrolStates /\ r.step = 0 /\ r.status = "ACTIVE"
      BY <1>0, <3>2 DEF EnrolStates
    <3>4. enrol[e].status = "NONE" /\ enrol[e].step = 0 /\ overwritten' = overwritten
      BY <2>1 DEF Enroll, SeqInv, NotYet, history
    <3> QED
      BY <3>1, <3>2, <3>3, <3>4
  <2>2. CASE Unenroll(e)
    <3>1. PICK r : r = [enrol[e] EXCEPT !.status = "UNSUBSCRIBED"]
      OBVIOUS
    <3>2. r \in EnrolStates /\ r.step = enrol[e].step /\ r.status = "UNSUBSCRIBED" /\ r.due = enrol[e].due
      BY <1>0, <3>1 DEF EnrolStates
    <3>3. enrol' = [enrol EXCEPT ![e] = r]
      BY <2>2, <3>1 DEF Unenroll
    <3> QED
      BY <2>2, <3>2, <3>3 DEF Unenroll
  <2>3. CASE DelayPasses(e)
    <3>1. PICK r : r = [enrol[e] EXCEPT !.due = "now"]
      OBVIOUS
    <3>2. r \in EnrolStates /\ r.step = enrol[e].step /\ r.status = enrol[e].status
      BY <1>0, <3>1 DEF EnrolStates
    <3>3. enrol' = [enrol EXCEPT ![e] = r]
      BY <2>3, <3>1 DEF DelayPasses
    <3> QED
      BY <2>3, <3>2, <3>3 DEF DelayPasses, history
  <2> QED
    BY <2>1, <2>2, <2>3
<1>3. /\ enrol' \in [Enrollments -> EnrolStates]
      /\ \A f \in Enrollments : enrol'[f] = IF f = e THEN r ELSE enrol[f]
  BY <1>0, <1>2 DEF SeqTyped
<1>4. \A f \in Enrollments : enrol'[f].step = enrol[f].step
  BY <1>2, <1>3
<1>5. SeqTyped'
  BY <1>0, <1>1, <1>3 DEF SeqTyped, Sound
<1>6. TicksAccounted' /\ StepsAccounted' /\ NotAhead' /\ RepeatedOrEarlyOnlyIfDisturbed'
  BY <1>1, <1>4 DEF SeqInv, TicksAccounted, StepsAccounted, NotAhead, RepeatedOrEarlyOnlyIfDisturbed
<1>7. OneTick'
  <2>1. e \notin overlapped => \A t \in Tickers : e \in ticker[t].batch =>
           enrol[e].status # "NONE" /\ enrol[e].due = "now"
    BY DEF SeqInv, OneTick, NotYet
  <2> QED
    BY <1>1, <1>2, <1>3, <1>4, <2>1 DEF SeqInv, OneTick
<1>8. NotYet'
  BY <1>1, <1>2, <1>3, <1>4 DEF SeqInv, NotYet
<1>9. LeaversKnown'
  BY <1>1, <1>2, <1>3 DEF SeqInv, LeaversKnown
<1> QED
  BY <1>5, <1>6, <1>7, <1>8, <1>9 DEF SeqInv

\* A tick leaves an enrollment, or all of them, without touching it.
LEMMA LetsGo ==
    ASSUME SeqInv, NEW t \in Tickers, NEW d \in TickerStates, Go(t, d), Sound(d),
           d.batch \subseteq ticker[t].batch, d.cur = NoEnrollment,
           UNCHANGED <<cadence, steps, enrol, given, skipped, overlapped, twice, hasty, overwritten>>,
           unwritten \subseteq unwritten',
           ticker[t].at = "cursor" => ticker[t].cur \in unwritten'
    PROVE  SeqInv'
<1>0. SeqTyped /\ NoEnrollment \notin Enrollments
  BY SequenceAssumption DEF SequenceAssumption, SeqInv
<1>1. /\ ticker' \in [Tickers -> TickerStates]
      /\ \A u \in Tickers : ticker'[u] = IF u = t THEN d ELSE ticker[u]
      /\ \A u \in Tickers : Sound(ticker[u])'
  BY <1>0, TickerMoves
<1>2. SeqTyped'
  BY <1>0, <1>1 DEF SeqTyped
<1>3. TicksAccounted' /\ StepsAccounted' /\ RepeatedOrEarlyOnlyIfDisturbed' /\ LeaversKnown'
  BY <1>0, <1>1 DEF SeqInv, TicksAccounted, StepsAccounted, RepeatedOrEarlyOnlyIfDisturbed, LeaversKnown
<1>4. OneTick' /\ NotYet'
  BY <1>0, <1>1 DEF SeqInv, OneTick, NotYet
<1>5. NotAhead'
  BY <1>0, <1>1 DEF SeqInv, NotAhead
<1> QED
  BY <1>2, <1>3, <1>4, <1>5 DEF SeqInv

LEMMA TickKeeps ==
    ASSUME SeqInv, NEW t \in Tickers, Tick(t)
    PROVE  SeqInv'
<1>0. SeqTyped /\ NoEnrollment \notin Enrollments /\ ticker[t] = Rest
  BY SequenceAssumption DEF SequenceAssumption, SeqInv, SeqTyped, Sound, Tick, TickerAt
<1>1. PICK d : d = [Rest EXCEPT !.at = "next", !.batch = Due]
  OBVIOUS
<1>2. /\ d \in TickerStates /\ d.at = "next" /\ d.batch = Due /\ d.cur = NoEnrollment /\ Sound(d)
  BY <1>0, <1>1, RestTyped DEF TickerStates, Due, Sound
<1>3. /\ ticker' \in [Tickers -> TickerStates]
      /\ \A u \in Tickers : ticker'[u] = IF u = t THEN d ELSE ticker[u]
      /\ \A u \in Tickers : Sound(ticker[u])'
  BY <1>0, <1>1, <1>2, TickerMoves DEF Tick
<1>4. UNCHANGED <<cadence, steps, enrol, given, skipped, unwritten, twice, hasty, overwritten>>
  BY DEF Tick
<1>5. overlapped' = overlapped \cup {e \in Due : \E u \in Tickers : u # t /\ InHand(u, e)}
  BY DEF Tick
<1>6. SeqTyped'
  BY <1>0, <1>3, <1>4 DEF SeqTyped
<1>7. TicksAccounted' /\ StepsAccounted' /\ RepeatedOrEarlyOnlyIfDisturbed' /\ LeaversKnown'
  BY <1>0, <1>2, <1>3, <1>4, <1>5
     DEF SeqInv, TicksAccounted, StepsAccounted, RepeatedOrEarlyOnlyIfDisturbed, LeaversKnown
<1>8. OneTick'
  <2>1. ASSUME NEW e \in Due \ overlapped', NEW u \in Tickers, u # t PROVE e \notin ticker[u].batch
    BY <1>5, <2>1 DEF InHand
  <2>2. \A e \in Due : e \in Enrollments /\ enrol[e].due = "now"
    BY DEF Due
  <2> QED
    BY <1>0, <1>2, <1>3, <1>4, <1>5, <2>1, <2>2 DEF SeqInv, OneTick
<1>9. NotYet'
  BY <1>2, <1>3, <1>4 DEF SeqInv, NotYet, Due
<1>10. NotAhead'
  <2>1. overlapped \subseteq overlapped' /\ ticker[t].at # "cursor"
    BY <1>0, <1>5, RestTyped
  <2> QED
    BY <1>3, <1>4, <2>1 DEF SeqInv, NotAhead
<1> QED
  BY <1>6, <1>7, <1>8, <1>9, <1>10 DEF SeqInv

LEMMA CompleteKeeps ==
    ASSUME SeqInv, NEW t \in Tickers, CompleteEnrollment(t)
    PROVE  SeqInv'
<1>0. SeqTyped /\ NoEnrollment \notin Enrollments
  BY SequenceAssumption DEF SequenceAssumption, SeqInv
<1>1. PICK e \in ticker[t].batch :
         /\ enrol[e].status = "ACTIVE"
         /\ enrol' = [enrol EXCEPT ![e].status = "COMPLETED", ![e].due = "null"]
         /\ Go(t, [ticker[t] EXCEPT !.batch = @ \ {e}])
  BY DEF CompleteEnrollment, NotActive
<1>2. ticker[t] \in TickerStates /\ ticker[t].at = "next" /\ e \in Enrollments
  BY <1>0 DEF SeqTyped, TickerStates, CompleteEnrollment, TickerAt
<1>3. PICK d : d = [ticker[t] EXCEPT !.batch = @ \ {e}]
  OBVIOUS
<1>4. /\ d \in TickerStates /\ d.at = "next" /\ d.batch = ticker[t].batch \ {e}
      /\ d.cur = NoEnrollment /\ Sound(d)
  BY <1>0, <1>2, <1>3 DEF SeqTyped, TickerStates, Sound
<1>5. /\ ticker' \in [Tickers -> TickerStates]
      /\ \A u \in Tickers : ticker'[u] = IF u = t THEN d ELSE ticker[u]
      /\ \A u \in Tickers : Sound(ticker[u])'
  BY <1>0, <1>1, <1>3, <1>4, TickerMoves
<1>6. UNCHANGED <<cadence, steps, given, skipped, overlapped, unwritten, twice, hasty, overwritten>>
  BY DEF CompleteEnrollment, history
<1>7. PICK r : r = [[enrol[e] EXCEPT !.status = "COMPLETED"] EXCEPT !.due = "null"]
  OBVIOUS
<1>8. r \in EnrolStates /\ r.status = "COMPLETED" /\ r.due = "null" /\ r.step = enrol[e].step
  BY <1>0, <1>2, <1>7 DEF SeqTyped, EnrolStates
<1>9. /\ enrol' \in [Enrollments -> EnrolStates]
      /\ \A f \in Enrollments : enrol'[f] = IF f = e THEN r ELSE enrol[f]
  BY <1>0, <1>1, <1>2, <1>7, <1>8 DEF SeqTyped
<1>10. SeqTyped'
  BY <1>0, <1>5, <1>6, <1>9 DEF SeqTyped
<1>11. TicksAccounted' /\ StepsAccounted' /\ RepeatedOrEarlyOnlyIfDisturbed' /\ LeaversKnown'
  BY <1>0, <1>4, <1>5, <1>6, <1>8, <1>9
     DEF SeqInv, TicksAccounted, StepsAccounted, RepeatedOrEarlyOnlyIfDisturbed, LeaversKnown
<1>12. OneTick'
  BY <1>0, <1>4, <1>5, <1>6, <1>8, <1>9 DEF SeqInv, OneTick
<1>13. NotYet'
  BY <1>4, <1>5, <1>6, <1>8, <1>9 DEF SeqInv, NotYet
<1>14. NotAhead'
  BY <1>2, <1>5, <1>6, <1>8, <1>9 DEF SeqInv, NotAhead
<1> QED
  BY <1>10, <1>11, <1>12, <1>13, <1>14 DEF SeqInv

LEMMA AdvanceKeeps ==
    ASSUME SeqInv, NEW t \in Tickers, AdvanceOne(t)
    PROVE  SeqInv'
<1>0. SeqTyped /\ NoEnrollment \notin Enrollments
  BY SequenceAssumption DEF SequenceAssumption, SeqInv
<1>1. PICK e \in ticker[t].batch :
         /\ enrol[e].status = "ACTIVE" /\ enrol[e].step < steps
         /\ Go(t, [ticker[t] EXCEPT !.at = "send", !.cur = e, !.step = enrol[e].step, !.last = steps])
         /\ hasty' = IF enrol[e].due = "later" THEN hasty \cup {e} ELSE hasty
  BY DEF AdvanceOne, NotActive
<1>2. ticker[t] \in TickerStates /\ ticker[t].at = "next" /\ e \in Enrollments /\ enrol[e] \in EnrolStates
  BY <1>0 DEF SeqTyped, TickerStates, AdvanceOne, TickerAt
<1>3. PICK d : d = [ticker[t] EXCEPT !.at = "send", !.cur = e, !.step = enrol[e].step, !.last = steps]
  OBVIOUS
<1>4. /\ d \in TickerStates /\ d.at = "send" /\ d.batch = ticker[t].batch
      /\ d.cur = e /\ d.step = enrol[e].step /\ Sound(d)
  <2>1. steps \in 0..MaxSteps /\ enrol[e].step \in 0..MaxSteps
    BY <1>0, <1>2, SequenceAssumption DEF SeqTyped, EnrolStates, SequenceAssumption
  <2>2. d \in TickerStates /\ d.at = "send" /\ d.batch = ticker[t].batch
        /\ d.cur = e /\ d.step = enrol[e].step /\ d.last = steps
    BY <1>2, <1>3, <2>1 DEF TickerStates
  <2> QED
    BY <1>1, <1>2, <2>2 DEF Sound
<1>5. /\ ticker' \in [Tickers -> TickerStates]
      /\ \A u \in Tickers : ticker'[u] = IF u = t THEN d ELSE ticker[u]
      /\ \A u \in Tickers : Sound(ticker[u])'
  BY <1>0, <1>1, <1>3, <1>4, TickerMoves
<1>6. UNCHANGED <<cadence, steps, enrol, given, skipped, overlapped, unwritten, twice, overwritten>>
  BY DEF AdvanceOne
<1>7. SeqTyped'
  BY <1>0, <1>5, <1>6 DEF SeqTyped
<1>8. TicksAccounted'
  BY <1>2, <1>4, <1>5, <1>6 DEF SeqInv, TicksAccounted, StepsAccounted
<1>9. StepsAccounted' /\ LeaversKnown'
  BY <1>1, <1>2, <1>4, <1>5, <1>6 DEF SeqInv, StepsAccounted, LeaversKnown
<1>10. OneTick' /\ NotYet'
  BY <1>2, <1>4, <1>5, <1>6 DEF SeqInv, OneTick, NotYet
<1>11. NotAhead'
  BY <1>2, <1>5, <1>6 DEF SeqInv, NotAhead
<1>12. RepeatedOrEarlyOnlyIfDisturbed'
  <2>1. enrol[e].due = "later" => e \in overlapped
    BY <1>2 DEF SeqInv, OneTick
  <2> QED
    BY <1>1, <1>6, <2>1 DEF SeqInv, RepeatedOrEarlyOnlyIfDisturbed
<1> QED
  BY <1>7, <1>8, <1>9, <1>10, <1>11, <1>12 DEF SeqInv

LEMMA ReturnedKeeps ==
    ASSUME SeqInv, NEW t \in Tickers, Returned(t)
    PROVE  SeqInv'
<1>0. SeqTyped /\ NoEnrollment \notin Enrollments
  BY SequenceAssumption DEF SequenceAssumption, SeqInv
<1>1. ticker[t] \in TickerStates /\ ticker[t].at = "send" /\ Sound(ticker[t])
  BY <1>0 DEF SeqTyped, Returned, TickerAt
<1>2. PICK e \in Enrollments : e = ticker[t].cur
  BY <1>1 DEF Sound
<1>3. PICK i \in Nat : i = ticker[t].step
  BY <1>1, SequenceAssumption DEF TickerStates, SequenceAssumption
<1>4. PICK d : d = [ticker[t] EXCEPT !.at = "cursor"]
  OBVIOUS
<1>5. /\ d \in TickerStates /\ d.at = "cursor" /\ d.batch = ticker[t].batch
      /\ d.cur = e /\ d.step = i /\ Sound(d)
  BY <1>1, <1>2, <1>3, <1>4 DEF TickerStates, Sound
<1>6. /\ ticker' \in [Tickers -> TickerStates]
      /\ \A u \in Tickers : ticker'[u] = IF u = t THEN d ELSE ticker[u]
      /\ \A u \in Tickers : Sound(ticker[u])'
  BY <1>0, <1>4, <1>5, TickerMoves DEF Returned
<1>7. UNCHANGED <<cadence, steps, enrol, overlapped, unwritten, hasty, overwritten>>
  BY DEF Returned
<1>8. /\ twice' = twice \/ (i \in given[e] /\ twice' = twice \cup {e})
      /\ \/ given' = [given EXCEPT ![e] = @ \cup {i}] /\ skipped' = skipped
         \/ given' = given /\ skipped' = [skipped EXCEPT ![e] = @ \cup {i}]
  BY <1>2, <1>3 DEF Returned
<1>9. /\ given' \in [Enrollments -> SUBSET Nat] /\ skipped' \in [Enrollments -> SUBSET Nat]
      /\ \A f \in Enrollments : /\ given[f] \subseteq given'[f] /\ skipped[f] \subseteq skipped'[f]
                                /\ given'[f] \subseteq given[f] \cup {i}
                                /\ f # e => given'[f] = given[f]
      /\ i \in given'[e] \cup skipped'[e]
  BY <1>0, <1>8 DEF SeqTyped
<1>10. SeqTyped'
  BY <1>0, <1>6, <1>7, <1>9 DEF SeqTyped
<1>11. TicksAccounted'
  <2>1. \A u \in Tickers : ticker'[u].cur = ticker[u].cur /\ ticker'[u].step = ticker[u].step
    BY <1>2, <1>3, <1>5, <1>6
  <2>2. \A u \in Tickers : ticker'[u].at = "cursor" => u = t \/ ticker[u].at = "cursor"
    BY <1>6
  <2> QED
    BY <1>2, <1>3, <1>9, <2>1, <2>2 DEF SeqInv, TicksAccounted
<1>12. StepsAccounted' /\ LeaversKnown'
  BY <1>2, <1>5, <1>6, <1>7, <1>9 DEF SeqInv, StepsAccounted, LeaversKnown
<1>13. OneTick' /\ NotYet'
  BY <1>2, <1>3, <1>5, <1>6, <1>7 DEF SeqInv, OneTick, NotYet
<1>14. NotAhead'
  <2> SUFFICES ASSUME NEW f \in Enrollments \ (overlapped \cup unwritten), NEW j \in given'[f]
               PROVE  \/ j < enrol[f].step
                      \/ /\ j = enrol[f].step
                         /\ \E u \in Tickers : ticker'[u].at = "cursor" /\ ticker'[u].cur = f
    BY <1>7 DEF NotAhead
  <2>1. CASE j \in given[f]
    BY <1>1, <1>6, <2>1 DEF SeqInv, NotAhead
  <2>2. CASE f = e /\ j = i
    BY <1>2, <1>3, <1>5, <1>6, <2>2 DEF SeqInv, OneTick
  <2> QED
    BY <1>9, <2>1, <2>2
<1>15. RepeatedOrEarlyOnlyIfDisturbed'
  <2>1. ASSUME i \in given[e], e \notin overlapped \cup unwritten PROVE FALSE
    <3>1. i = enrol[e].step
      BY <1>2, <1>3, <2>1 DEF SeqInv, OneTick
    <3>2. PICK u \in Tickers : ticker[u].at = "cursor" /\ ticker[u].cur = e
      BY <1>0, <1>3, <2>1, <3>1 DEF SeqInv, NotAhead
    <3>3. e \in ticker[u].batch /\ e \in ticker[t].batch
      BY <1>0, <1>1, <1>2, <3>2 DEF SeqTyped, Sound
    <3> QED
      BY <1>1, <2>1, <3>2, <3>3 DEF SeqInv, OneTick
  <2> QED
    BY <1>7, <1>8, <2>1 DEF SeqInv, RepeatedOrEarlyOnlyIfDisturbed
<1> QED
  BY <1>10, <1>11, <1>12, <1>13, <1>14, <1>15 DEF SeqInv

LEMMA DropTyped ==
    ASSUME SeqTyped, NEW t \in Tickers, Drop(t), ticker[t].at # "idle"
    PROVE  \E d \in TickerStates : /\ Go(t, d) /\ Sound(d) /\ d.at = "next" /\ d.cur = NoEnrollment
                                   /\ d.batch = ticker[t].batch \ {ticker[t].cur}
<1>1. PICK d : d = [ticker[t] EXCEPT !.at = "next", !.batch = @ \ {ticker[t].cur},
                                     !.cur = NoEnrollment, !.step = 0, !.last = 0]
  OBVIOUS
<1>2. ticker[t] \in TickerStates /\ MaxSteps \in Nat /\ NoEnrollment \notin Enrollments
  BY SequenceAssumption DEF SequenceAssumption, SeqTyped
<1>3. /\ d \in TickerStates /\ d.at = "next" /\ d.cur = NoEnrollment
      /\ d.batch = ticker[t].batch \ {ticker[t].cur}
  <2>1. 0 \in 0..MaxSteps
    BY <1>2
  <2>2. d = [at |-> "next", batch |-> ticker[t].batch \ {ticker[t].cur}, cur |-> NoEnrollment,
             step |-> 0, last |-> 0]
    BY <1>1, <1>2 DEF TickerStates
  <2> QED
    BY <1>2, <2>1, <2>2 DEF TickerStates
<1>4. Sound(d)
  BY <1>2, <1>3 DEF Sound
<1> QED
  BY <1>1, <1>3, <1>4 DEF Drop

LEMMA WriteKeeps ==
    ASSUME SeqInv, NEW t \in Tickers, WriteCursor(t)
    PROVE  SeqInv'
<1>0. SeqTyped /\ NoEnrollment \notin Enrollments /\ MaxSteps \in Nat
  BY SequenceAssumption DEF SequenceAssumption, SeqInv
<1>1. ticker[t] \in TickerStates /\ ticker[t].at = "cursor" /\ Sound(ticker[t])
  BY <1>0 DEF SeqTyped, WriteCursor, TickerAt
<1>2. PICK e \in Enrollments : e = ticker[t].cur
  BY <1>1 DEF Sound
<1>3. PICK i \in 0..MaxSteps : i = ticker[t].step
  BY <1>1 DEF TickerStates
<1>4. PICK d \in TickerStates : /\ Go(t, d) /\ Sound(d) /\ d.at = "next" /\ d.cur = NoEnrollment
                                /\ d.batch = ticker[t].batch \ {e}
  BY <1>0, <1>1, <1>2, DropTyped DEF WriteCursor
<1>5. /\ ticker' \in [Tickers -> TickerStates]
      /\ \A u \in Tickers : ticker'[u] = IF u = t THEN d ELSE ticker[u]
      /\ \A u \in Tickers : Sound(ticker[u])'
  BY <1>0, <1>4, TickerMoves
<1>6. PICK r : r = Advanced(e, t)
  OBVIOUS
<1>7. r \in EnrolStates /\ r.step = i + 1 /\ r.status \in {"ACTIVE", "COMPLETED"} /\ r.due # "now"
  <2>1. i < ticker[t].last /\ ticker[t].last \in 0..MaxSteps
    BY <1>1, <1>2, <1>3 DEF Sound, TickerStates
  <2>2. i + 1 \in 0..MaxSteps
    BY <1>0, <2>1
  <2> QED
    BY <1>3, <1>6, <2>2 DEF Advanced, EnrolStates
<1>8. /\ enrol' \in [Enrollments -> EnrolStates]
      /\ \A f \in Enrollments : enrol'[f] = IF f = e THEN r ELSE enrol[f]
  BY <1>0, <1>2, <1>6, <1>7 DEF SeqTyped, WriteCursor
<1>9. UNCHANGED <<cadence, steps, given, skipped, overlapped, unwritten, twice, hasty, overwritten>>
  BY DEF WriteCursor, history
<1>10. SeqTyped'
  BY <1>0, <1>5, <1>8, <1>9 DEF SeqTyped
<1>11. TicksAccounted' /\ RepeatedOrEarlyOnlyIfDisturbed'
  BY <1>0, <1>4, <1>5, <1>9 DEF SeqInv, TicksAccounted, RepeatedOrEarlyOnlyIfDisturbed
<1>12. StepsAccounted'
  <2>1. 0..(i - 1) \subseteq given[e] \cup skipped[e] /\ i \in given[e] \cup skipped[e]
    BY <1>1, <1>2, <1>3 DEF SeqInv, TicksAccounted
  <2>2. \A j \in 0..(i + 1 - 1) : j = i \/ j \in 0..(i - 1)
    OBVIOUS
  <2>3. 0..(r.step - 1) \subseteq given[e] \cup skipped[e]
    BY <1>7, <2>1, <2>2
  <2> QED
    BY <1>8, <1>9, <2>3 DEF SeqInv, StepsAccounted
<1>13. OneTick'
  <2>1. \A u \in Tickers : e \notin overlapped /\ u # t => e \notin ticker[u].batch
    BY <1>1, <1>2 DEF SeqInv, OneTick, Sound
  <2>2. \A u \in Tickers, f \in Enrollments : ticker'[u].cur = f => f \in ticker'[u].batch
    BY <1>5 DEF Sound
  <2>3. \A u \in Tickers : e \notin overlapped => e \notin ticker'[u].batch
    BY <1>4, <1>5, <2>1
  <2>4. \A u \in Tickers, f \in Enrollments : /\ f \in ticker'[u].batch => f \in ticker[u].batch
                                              /\ ticker'[u].cur = f => ticker'[u] = ticker[u]
    BY <1>0, <1>4, <1>5
  <2> QED
    BY <1>8, <1>9, <2>2, <2>3, <2>4 DEF SeqInv, OneTick
<1>14. NotYet'
  BY <1>4, <1>5, <1>7, <1>8 DEF SeqInv, NotYet
<1>15. NotAhead'
  <2> SUFFICES ASSUME NEW f \in Enrollments \ (overlapped \cup unwritten), NEW j \in given[f]
               PROVE  \/ j < enrol'[f].step
                      \/ /\ j = enrol'[f].step
                         /\ \E u \in Tickers : ticker'[u].at = "cursor" /\ ticker'[u].cur = f
    BY <1>9 DEF NotAhead
  <2>1. CASE f = e
    <3>1. enrol[e].step = i
      BY <1>2, <1>3, <2>1 DEF SeqInv, OneTick
    <3>2. j \in Nat /\ j <= i
      BY <1>0, <2>1, <3>1 DEF SeqInv, NotAhead, SeqTyped
    <3> QED
      BY <1>7, <1>8, <2>1, <3>2
  <2>2. CASE f # e
    BY <1>2, <1>5, <1>8, <2>2 DEF SeqInv, NotAhead
  <2> QED
    BY <2>1, <2>2
<1>16. LeaversKnown'
  BY <1>0, <1>4, <1>5, <1>7, <1>8, <1>9 DEF SeqInv, LeaversKnown
<1> QED
  BY <1>10, <1>11, <1>12, <1>13, <1>14, <1>15, <1>16 DEF SeqInv

LEMMA SeqInvStep == MailInv /\ SeqInv /\ [SeqNext]_seqVars => SeqInv'
<1> SUFFICES ASSUME MailInv, SeqInv, [SeqNext]_seqVars PROVE SeqInv'
  OBVIOUS
<1>0. SeqTyped
  BY DEF SeqInv
<1>1. CASE UNCHANGED <<cadenceVars, history>>
  <2>1. SeqTyped' <=> SeqTyped
    BY <1>1 DEF cadenceVars, history, SeqTyped, Sound
  <2>2. /\ TicksAccounted' <=> TicksAccounted
        /\ StepsAccounted' <=> StepsAccounted
        /\ OneTick' <=> OneTick
        /\ NotYet' <=> NotYet
        /\ NotAhead' <=> NotAhead
        /\ RepeatedOrEarlyOnlyIfDisturbed' <=> RepeatedOrEarlyOnlyIfDisturbed
        /\ LeaversKnown' <=> LeaversKnown
    BY <1>1 DEF cadenceVars, history, TicksAccounted, StepsAccounted, OneTick, NotYet, NotAhead,
       RepeatedOrEarlyOnlyIfDisturbed, LeaversKnown
  <2> QED
    BY <2>1, <2>2 DEF SeqInv
<1>2. CASE Configure
  <2>1. UNCHANGED <<enrol, ticker, history>> /\ SeqTyped'
    BY <1>0, <1>2 DEF Configure, SeqTyped, Sound, history
  <2>2. /\ TicksAccounted' <=> TicksAccounted
        /\ StepsAccounted' <=> StepsAccounted
        /\ OneTick' <=> OneTick
        /\ NotYet' <=> NotYet
        /\ NotAhead' <=> NotAhead
        /\ RepeatedOrEarlyOnlyIfDisturbed' <=> RepeatedOrEarlyOnlyIfDisturbed
        /\ LeaversKnown' <=> LeaversKnown
    BY <2>1 DEF history, TicksAccounted, StepsAccounted, OneTick, NotYet, NotAhead,
       RepeatedOrEarlyOnlyIfDisturbed, LeaversKnown
  <2> QED
    BY <2>1, <2>2 DEF SeqInv
<1>3. ASSUME NEW e \in Enrollments, Enroll(e) \/ Unenroll(e) \/ DelayPasses(e)
      PROVE  SeqInv'
  BY <1>3, UserKeeps
<1>4. ASSUME NEW t \in Tickers, Tick(t) \/ CompleteEnrollment(t) \/ AdvanceOne(t) \/ Returned(t) \/ WriteCursor(t)
      PROVE  SeqInv'
  BY <1>4, TickKeeps, CompleteKeeps, AdvanceKeeps, ReturnedKeeps, WriteKeeps
<1>5. ASSUME NEW t \in Tickers, SkipEnrollment(t)
      PROVE  SeqInv'
  <2>1. PICK e \in ticker[t].batch : Go(t, [ticker[t] EXCEPT !.batch = @ \ {e}])
    BY <1>5 DEF SkipEnrollment
  <2>2. PICK d : d = [ticker[t] EXCEPT !.batch = @ \ {e}]
    OBVIOUS
  <2>3. ticker[t] \in TickerStates /\ ticker[t].at = "next" /\ Sound(ticker[t])
    BY <1>0, <1>5 DEF SeqTyped, SkipEnrollment, TickerAt
  <2>4. /\ d \in TickerStates /\ d.at = "next" /\ d.batch \subseteq ticker[t].batch
        /\ d.cur = NoEnrollment /\ Sound(d)
    BY <2>2, <2>3 DEF TickerStates, Sound
  <2> QED
    BY <1>5, <2>1, <2>2, <2>3, <2>4, LetsGo DEF SkipEnrollment, history
<1>6. ASSUME NEW t \in Tickers, EndTick(t)
      PROVE  SeqInv'
  BY <1>6, RestTyped, LetsGo DEF EndTick, TickerAt, history
<1>7. ASSUME NEW t \in Tickers, Threw(t) \/ CursorFails(t)
      PROVE  SeqInv'
  <2>1. ticker[t].at # "idle" /\ Drop(t)
    BY <1>7 DEF Threw, CursorFails, TickerAt
  <2>2. PICK d \in TickerStates : /\ Go(t, d) /\ Sound(d) /\ d.at = "next" /\ d.cur = NoEnrollment
                                  /\ d.batch = ticker[t].batch \ {ticker[t].cur}
    BY <1>0, <2>1, DropTyped
  <2> QED
    BY <1>7, <2>2, LetsGo DEF Threw, CursorFails, TickerAt, history
<1> QED
  BY <1>1, <1>2, <1>3, <1>4, <1>5, <1>6, <1>7 DEF SeqNext, seqVars, MailMoves, UserSends

\* What the sequences do is mail traffic like any other.
LEMMA MailUnderSequences == MailInv /\ SeqInv /\ [SeqNext]_seqVars => MailInv'
<1> SUFFICES ASSUME MailInv, SeqInv, [SeqNext]_seqVars PROVE MailInv'
  OBVIOUS
<1>0. MailTyped /\ SeqTyped /\ Tickers \subseteq Senders /\ ToEmail \in [Enrollments -> Addresses]
  BY SequenceAssumption DEF SequenceAssumption, MailInv, SeqInv
<1>1. CASE UNCHANGED <<mailRows, entry, sender, mailer>>
  BY <1>0, <1>1, ListGrows DEF MailTyped, Suppressed
<1>2. CASE MailNext
  BY <1>2, MailNextKeeps
<1>3. ASSUME NEW s \in Senders, MailRequest(s)
      PROVE  MailInv'
  BY <1>3, CallStepKeeps
<1>4. UserSends => \E s \in Senders : MailRequest(s)
  BY DEF UserSends, MailRequest
<1>5. ASSUME NEW t \in Tickers, AdvanceOne(t)
      PROVE  MailRequest(t)
  <2>1. PICK e \in Enrollments : SendTransactional(t, ToEmail[e])
    BY <1>0, <1>5 DEF AdvanceOne, SeqTyped, TickerStates
  <2> QED
    BY <1>0, <2>1 DEF MailRequest
<1>6. ASSUME NEW t \in Tickers, Returned(t) \/ Threw(t)
      PROVE  MailRequest(t)
  BY <1>6 DEF Returned, Threw, MailRequest
<1>7. ASSUME NEW t \in Tickers,
             Tick(t) \/ SkipEnrollment(t) \/ CompleteEnrollment(t) \/ EndTick(t) \/ WriteCursor(t) \/ CursorFails(t)
      PROVE  UNCHANGED <<mailRows, entry, sender, mailer>>
  BY <1>7 DEF Tick, SkipEnrollment, CompleteEnrollment, EndTick, WriteCursor, CursorFails, mailVars, list
<1>8. ASSUME NEW e \in Enrollments, Enroll(e) \/ Unenroll(e) \/ DelayPasses(e)
      PROVE  UNCHANGED <<mailRows, entry, sender, mailer>>
  BY <1>8 DEF Enroll, Unenroll, DelayPasses, mailVars, list
<1>9. UNCHANGED seqVars \/ Configure => UNCHANGED <<mailRows, entry, sender, mailer>>
  BY DEF Configure, seqVars, mailVars, list
<1> QED
  BY <1>0, <1>1, <1>2, <1>3, <1>4, <1>5, <1>6, <1>7, <1>8, <1>9 DEF SeqNext, MailMoves

LEMMA SeqInvariance == SeqInit /\ [][SeqNext]_seqVars => [](MailInv /\ SeqInv)
  BY SeqInvInit, SeqInvStep, MailUnderSequences, PTL

(* The enrollments, the ticks and the mail below them keep their ranges.     *)
THEOREM SequenceTypeCorrect == SeqSpec => []SeqTypeOK
<1>1. MailInv /\ SeqInv => SeqTypeOK
  BY MailTypes DEF SeqInv, SeqTyped, SeqTypeOK, EnrolStates, Sound, TickerAt
<1> QED
  BY <1>1, SeqInvariance, PTL DEF SeqSpec

(* The cursor of an enrollment never passes a step for which no message was  *)
(* queued and none was refused, however ticks overlap (advanceOne).          *)
THEOREM NoStepPassedOver == SeqSpec => []StepsAccounted
<1>1. SeqInv => StepsAccounted
  BY DEF SeqInv
<1> QED
  BY <1>1, SeqInvariance, PTL DEF SeqSpec

(* A step is queued again, or before it is due, only for an enrollment two   *)
(* ticks had in hand at once or whose cursor was not written (advanceOne).   *)
THEOREM OneStepPerTick == SeqSpec => []RepeatedOrEarlyOnlyIfDisturbed
<1>1. SeqInv => RepeatedOrEarlyOnlyIfDisturbed
  BY DEF SeqInv
<1> QED
  BY <1>1, SeqInvariance, PTL DEF SeqSpec

LEMMA LeaversStay == SeqInit /\ [][SeqNext]_seqVars => LeaversStayOut
<1>1. SeqInv /\ [SeqNext]_seqVars =>
         \A e \in Enrollments :
            enrol[e].status = "UNSUBSCRIBED" /\ enrol'[e].status # "UNSUBSCRIBED" => e \in overwritten
  <2> SUFFICES ASSUME SeqInv, [SeqNext]_seqVars, NEW e \in Enrollments,
                      enrol[e].status = "UNSUBSCRIBED", enrol'[e].status # "UNSUBSCRIBED"
               PROVE  e \in overwritten
    OBVIOUS
  <2>0. SeqTyped
    BY DEF SeqInv
  <2>1. ASSUME NEW f \in Enrollments, Enroll(f) \/ Unenroll(f) \/ DelayPasses(f) PROVE FALSE
    BY <2>0, <2>1 DEF Enroll, Unenroll, DelayPasses, SeqTyped, EnrolStates
  <2>2. ASSUME NEW t \in Tickers, CompleteEnrollment(t) PROVE FALSE
    BY <2>0, <2>2 DEF CompleteEnrollment, NotActive, SeqTyped, EnrolStates
  <2>3. ASSUME NEW t \in Tickers, WriteCursor(t) PROVE e \in overwritten
    <3>1. ticker[t].cur = e
      BY <2>0, <2>3 DEF WriteCursor, SeqTyped
    <3> QED
      BY <3>1 DEF SeqInv, LeaversKnown
  <2>4. enrol' # enrol
    OBVIOUS
  <2> QED
    BY <2>1, <2>2, <2>3, <2>4 DEF SeqNext, seqVars, cadenceVars, MailMoves, UserSends, Configure, Tick,
       SkipEnrollment, AdvanceOne, EndTick, Returned, Threw, CursorFails
<1> QED
  BY <1>1, SeqInvariance, PTL DEF LeaversStayOut

(* Who leaves a sequence stays out, unless a tick had the enrollment in hand *)
(* (unenroll writes without looking at the ticks).                           *)
THEOREM LeftForGood == SeqSpec => LeaversStayOut
  BY LeaversStay DEF SeqSpec

-----------------------------------------------------------------------------
(* Sessions: refresh tokens and reset tokens.                                *)

USE SessionAssumption DEF SessionAssumption

Rows == [state : {"none", "live", "revoked", "expired"}, from : SessionIds \cup {NoSession}]

RequestStages == {"idle", "issue", "user", "revoke", "consume", "reset"}

RequestState == [at : RequestStages, s : SessionIds \cup {NoSession},
                 t : ResetTokens \cup {NoToken}, began : Nat]

\* A request in flight, as the code can have left it.
RequestOK(d) ==
    /\ d \in RequestState
    /\ d.at \in {"user", "consume"} => d.s \in SessionIds
    /\ d.at = "reset" => d.t \in ResetTokens
    /\ d.began =< epoch

SessTyped ==
    /\ session \in [SessionIds -> Rows]
    /\ token \in [ResetTokens -> {"none", "usable", "used", "expired"}]
    /\ DOMAIN request = Requests
    /\ request = [q \in Requests |-> request[q]]
    /\ \A q \in Requests : RequestOK(request[q])
    /\ epoch \in Nat
    /\ born \in [SessionIds -> Nat]
    /\ late \subseteq SessionIds
    /\ resets \in [ResetTokens -> {0, 1}]

LEMMA UnsentOK == epoch \in Nat => RequestOK(Unsent)
  BY DEF RequestOK, RequestState, RequestStages, Unsent

LEMMA UnsentInState == Unsent \in RequestState /\ Unsent.s = NoSession
  BY DEF Unsent, RequestState, RequestStages

LEMMA AskTyped ==
    ASSUME SessTyped, NEW q \in Requests, NEW d, RequestOK(d), Ask(q, d),
           epoch' \in Nat, epoch' >= epoch
    PROVE  /\ DOMAIN request' = Requests
           /\ request' = [p \in Requests |-> request'[p]]
           /\ \A p \in Requests : RequestOK(request[p])'
           /\ \A p \in Requests : request'[p] = IF p = q THEN d ELSE request[p]
<1>1. \A p \in Requests : request'[p] = IF p = q THEN d ELSE request[p]
  BY DEF SessTyped, Ask
<1>2. DOMAIN request' = Requests /\ request' = [p \in Requests |-> request'[p]]
  BY DEF SessTyped, Ask
<1>3. ASSUME NEW p \in Requests PROVE RequestOK(request[p])'
  <2>1. RequestOK(request'[p])
    BY <1>1 DEF SessTyped
  <2>2. request'[p].began \in Nat
    BY <2>1 DEF RequestOK, RequestState
  <2> QED
    BY <2>1, <2>2 DEF RequestOK, SessTyped
<1> QED
  BY <1>1, <1>2, <1>3

LEMMA RevokeTyped ==
    ASSUME session \in [SessionIds -> Rows], NEW S \in SUBSET SessionIds
    PROVE  /\ Revoke(S) \in [SessionIds -> Rows]
           /\ \A s \in SessionIds :
                 /\ Revoke(S)[s].from = session[s].from
                 /\ Revoke(S)[s].state = IF s \in S /\ session[s].state \in {"live", "expired"}
                                         THEN "revoked" ELSE session[s].state
  BY DEF Revoke, Rows

LEMMA NewSessionUnused == Unused # {} => NewSession \in Unused
  BY DEF NewSession

-----------------------------------------------------------------------------
(* One successor.  What makes ConsumedOnce inductive is what a request      *)
(* holds between the update that consumed its token and the insert of the   *)
(* successor: a revoked session that has no successor and no other claimant.*)
Claims(q, s) == request[q].at = "issue" /\ request[q].s = s /\ s # NoSession

OneSuccessor ==
    \A c, d \in SessionIds :
       session[c].from # NoSession =>
          /\ session[c].from = session[d].from => c = d
          /\ session[session[c].from].state = "revoked"

OneClaim ==
    \A q \in Requests, s \in SessionIds :
       Claims(q, s) =>
          /\ session[s].state = "revoked"
          /\ \A c \in SessionIds : session[c].from # s
          /\ \A p \in Requests : Claims(p, s) => p = q

Links == OneSuccessor /\ OneClaim

ResetOnce == \A t \in ResetTokens : token[t] # "used" => resets[t] = 0

SessInv == SessTyped /\ Links /\ ResetOnce /\ LiveSessionsAreCurrent

LEMMA SessInvInit == SessInit => SessInv
<1> SUFFICES ASSUME SessInit PROVE SessInv
  OBVIOUS
<1>1. SessTyped
  BY UnsentOK DEF SessInit, SessTyped, Rows
<1>2. Links
  BY DEF SessInit, Links, OneSuccessor, OneClaim, Claims, Unsent
<1>3. ResetOnce /\ LiveSessionsAreCurrent
  BY DEF SessInit, ResetOnce, LiveSessionsAreCurrent
<1> QED
  BY <1>1, <1>2, <1>3 DEF SessInv

\* Steps that consume nothing and issue nothing.
LEMMA LinksKept ==
    ASSUME SessTyped, Links,
           \A s \in SessionIds : /\ session'[s].from = session[s].from
                                 /\ session[s].state = "revoked" => session'[s].state = "revoked",
           \A q \in Requests, s \in SessionIds : Claims(q, s)' => Claims(q, s)
    PROVE  Links'
<1>1. OneSuccessor'
  <2> SUFFICES ASSUME NEW c \in SessionIds, NEW d \in SessionIds, session'[c].from # NoSession
               PROVE  /\ session'[c].from = session'[d].from => c = d
                      /\ session'[session'[c].from].state = "revoked"
    BY DEF OneSuccessor
  <2>1. session[c].from \in SessionIds
    BY DEF SessTyped, Rows
  <2> QED
    BY <2>1 DEF Links, OneSuccessor
<1>2. OneClaim'
  BY DEF Links, OneClaim
<1> QED
  BY <1>1, <1>2 DEF Links

\* A request moves, or nothing does, and every session stays.
LEMMA RequestMoves ==
    ASSUME SessInv, NEW q \in Requests, NEW d, RequestOK(d), Ask(q, d),
           d.at = "issue" => d.s = NoSession,
           UNCHANGED <<session, token, epoch, born, late, resets>>
    PROVE  SessInv'
<1>1. /\ DOMAIN request' = Requests
      /\ request' = [p \in Requests |-> request'[p]]
      /\ \A p \in Requests : RequestOK(request[p])'
      /\ \A p \in Requests : request'[p] = IF p = q THEN d ELSE request[p]
  BY AskTyped DEF SessInv, SessTyped
<1>2. SessTyped'
  BY <1>1 DEF SessInv, SessTyped
<1>3. \A p \in Requests, s \in SessionIds : Claims(p, s)' => Claims(p, s)
  BY <1>1 DEF Claims
<1>4. Links'
  BY <1>3, LinksKept DEF SessInv
<1>5. ResetOnce' /\ LiveSessionsAreCurrent'
  BY DEF SessInv, ResetOnce, LiveSessionsAreCurrent
<1> QED
  BY <1>2, <1>4, <1>5 DEF SessInv

\* Sessions are revoked, all of them if an epoch begins, and nothing is issued.
LEMMA Revokes ==
    ASSUME SessInv, NEW S \in SUBSET SessionIds, session' = Revoke(S),
           \/ epoch' = epoch
           \/ epoch' = epoch + 1 /\ S = SessionIds,
           request' = request \/ \E q \in Requests : Ask(q, Unsent),
           UNCHANGED <<born, late>>,
           token' \in [ResetTokens -> {"none", "usable", "used", "expired"}],
           resets' \in [ResetTokens -> {0, 1}], ResetOnce'
    PROVE  SessInv'
<1>0. SessTyped /\ Links /\ LiveSessionsAreCurrent /\ epoch' \in Nat /\ epoch' >= epoch
  BY DEF SessInv, SessTyped
<1>1. /\ session' \in [SessionIds -> Rows]
      /\ \A s \in SessionIds :
            /\ session'[s].from = session[s].from
            /\ session'[s].state = IF s \in S /\ session[s].state \in {"live", "expired"}
                                   THEN "revoked" ELSE session[s].state
  BY <1>0, RevokeTyped DEF SessTyped
<1>2. SessTyped' /\ \A p \in Requests : request'[p] = Unsent \/ request'[p] = request[p]
  <2>1. CASE request' = request
    <3>1. ASSUME NEW p \in Requests PROVE RequestOK(request[p])'
      <4>1. RequestOK(request[p]) /\ request[p].began \in Nat
        BY <1>0 DEF SessTyped, RequestOK, RequestState
      <4> QED
        BY <1>0, <2>1, <4>1 DEF RequestOK, SessTyped
    <3> QED
      BY <1>0, <1>1, <2>1, <3>1 DEF SessTyped
  <2>2. ASSUME NEW q \in Requests, Ask(q, Unsent)
        PROVE  SessTyped' /\ \A p \in Requests : request'[p] = Unsent \/ request'[p] = request[p]
    <3>1. RequestOK(Unsent)
      BY <1>0, UnsentOK DEF SessTyped
    <3>2. /\ DOMAIN request' = Requests
          /\ request' = [p \in Requests |-> request'[p]]
          /\ \A p \in Requests : RequestOK(request[p])'
          /\ \A p \in Requests : request'[p] = IF p = q THEN Unsent ELSE request[p]
      BY <1>0, <2>2, <3>1, AskTyped
    <3> QED
      BY <1>0, <1>1, <3>2 DEF SessTyped
  <2> QED
    BY <2>1, <2>2
<1>3. \A p \in Requests, s \in SessionIds : Claims(p, s)' => Claims(p, s)
  BY <1>2 DEF Claims, Unsent
<1>4. Links'
  BY <1>0, <1>1, <1>3, LinksKept
<1>5. LiveSessionsAreCurrent'
  BY <1>0, <1>1 DEF LiveSessionsAreCurrent
<1> QED
  BY <1>2, <1>4, <1>5 DEF SessInv

LEMMA IssueStep ==
    ASSUME SessInv, NEW q \in Requests, IssueTokens(q)
    PROVE  SessInv'
<1>0. SessTyped /\ Links /\ ResetOnce /\ LiveSessionsAreCurrent
  BY DEF SessInv
<1>1. PICK n \in SessionIds :
         /\ session[n].state = "none"
         /\ session' = [session EXCEPT ![n] = [state |-> "live", from |-> request[q].s]]
         /\ born' = [born EXCEPT ![n] = request[q].began]
         /\ late' = IF request[q].began < epoch THEN late \cup {n} ELSE late
  BY NewSessionUnused DEF IssueTokens, Unused
<1>2. /\ ReqAt(q, "issue") /\ Ask(q, Unsent)
      /\ UNCHANGED <<token, active, changes, epoch, resets>>
  BY DEF IssueTokens
<1>3. /\ request[q].s \in SessionIds \cup {NoSession}
      /\ request[q].began \in Nat /\ request[q].began =< epoch
  BY <1>0 DEF SessTyped, RequestOK, RequestState
<1>4. /\ DOMAIN request' = Requests
      /\ request' = [p \in Requests |-> request'[p]]
      /\ \A p \in Requests : RequestOK(request[p])'
      /\ \A p \in Requests : request'[p] = IF p = q THEN Unsent ELSE request[p]
  BY <1>0, <1>2, AskTyped, UnsentOK DEF SessTyped
<1>5. \A s \in SessionIds : session'[s] = IF s = n THEN [state |-> "live", from |-> request[q].s]
                                           ELSE session[s]
  BY <1>0, <1>1 DEF SessTyped
<1>6. SessTyped'
  <2>1. [state |-> "live", from |-> request[q].s] \in Rows
    BY <1>3 DEF Rows
  <2> QED
    BY <1>0, <1>1, <1>2, <1>3, <1>4, <2>1 DEF SessTyped
<1>7. OneSuccessor'
  <2> SUFFICES ASSUME NEW c \in SessionIds, NEW d \in SessionIds, session'[c].from # NoSession
               PROVE  /\ session'[c].from = session'[d].from => c = d
                      /\ session'[session'[c].from].state = "revoked"
    BY DEF OneSuccessor
  <2>1. session'[c].from \in SessionIds
    BY <1>6 DEF SessTyped, Rows
  <2>2. CASE c = n
    <3>1. Claims(q, session'[c].from)
      BY <1>2, <1>5, <2>1, <2>2 DEF Claims, ReqAt
    <3> QED
      BY <1>0, <1>1, <1>5, <2>1, <2>2, <3>1 DEF Links, OneClaim
  <2>3. CASE c # n
    <3>1. session'[c].from = session[c].from
      BY <1>5, <2>3
    <3>2. session[session[c].from].state = "revoked"
      BY <1>0, <3>1 DEF Links, OneSuccessor
    <3>3. CASE d = n
      <4>1. session'[d].from = request[q].s
        BY <1>5, <3>3
      <4>2. session[c].from # request[q].s
        BY <1>0, <1>2, <2>1, <3>1 DEF Claims, ReqAt, Links, OneClaim
      <4> QED
        BY <1>1, <1>5, <2>1, <3>1, <3>2, <4>1, <4>2
    <3>4. CASE d # n
      BY <1>0, <1>1, <1>5, <2>1, <3>1, <3>2, <3>4 DEF Links, OneSuccessor
    <3> QED
      BY <3>3, <3>4
  <2> QED
    BY <2>2, <2>3
<1>8. OneClaim'
  <2> SUFFICES ASSUME NEW p \in Requests, NEW s \in SessionIds, Claims(p, s)'
               PROVE  /\ session'[s].state = "revoked"
                      /\ \A c \in SessionIds : session'[c].from # s
                      /\ \A r \in Requests : Claims(r, s)' => r = p
    BY DEF OneClaim
  <2>1. p # q /\ Claims(p, s)
    BY <1>4 DEF Claims, Unsent
  <2>2. request[q].s # s
    BY <1>0, <1>2, <2>1 DEF Claims, ReqAt, Links, OneClaim
  <2>3. \A r \in Requests : Claims(r, s)' => Claims(r, s)
    BY <1>4 DEF Claims, Unsent
  <2> QED
    BY <1>0, <1>1, <1>5, <2>1, <2>2, <2>3 DEF Links, OneClaim
<1>9. LiveSessionsAreCurrent'
  BY <1>0, <1>1, <1>2, <1>3, <1>5 DEF LiveSessionsAreCurrent, SessTyped
<1>10. ResetOnce'
  BY <1>0, <1>2 DEF ResetOnce
<1> QED
  BY <1>6, <1>7, <1>8, <1>9, <1>10 DEF SessInv, Links

LEMMA ConsumeStep ==
    ASSUME SessInv, NEW q \in Requests, Consume(q)
    PROVE  SessInv'
<1>0. SessTyped /\ Links /\ ResetOnce /\ LiveSessionsAreCurrent
  BY DEF SessInv
<1>1. /\ request[q].at = "consume" /\ request[q].s \in SessionIds
      /\ UNCHANGED <<token, active, changes, epoch, born, late, resets>>
  BY <1>0 DEF Consume, ReqAt, SessTyped, RequestOK
<1>2. CASE session[request[q].s].state # "live"
  <2>1. PICK d : d = [request[q] EXCEPT !.at = "revoke"]
    OBVIOUS
  <2>2. RequestOK(d) /\ d.at = "revoke"
    BY <1>0, <2>1 DEF SessTyped, RequestOK, RequestState, RequestStages
  <2> QED
    BY <1>1, <1>2, <2>1, <2>2, RequestMoves DEF Consume
<1>3. CASE session[request[q].s].state = "live"
  <2>1. PICK d : d = [request[q] EXCEPT !.at = "issue"]
    OBVIOUS
  <2>2. RequestOK(d) /\ d.at = "issue" /\ d.s = request[q].s
    BY <1>0, <2>1 DEF SessTyped, RequestOK, RequestState, RequestStages
  <2>3. Ask(q, d) /\ session' = Revoke({d.s})
    BY <1>3, <2>1, <2>2 DEF Consume
  <2>4. /\ DOMAIN request' = Requests
        /\ request' = [p \in Requests |-> request'[p]]
        /\ \A p \in Requests : RequestOK(request[p])'
        /\ \A p \in Requests : request'[p] = IF p = q THEN d ELSE request[p]
    BY <1>0, <1>1, <2>2, <2>3, AskTyped DEF SessTyped
  <2>5. /\ session' \in [SessionIds -> Rows]
        /\ \A s \in SessionIds :
              /\ session'[s].from = session[s].from
              /\ session'[s].state = IF s = d.s THEN "revoked" ELSE session[s].state
    BY <1>0, <1>1, <1>3, <2>2, <2>3, RevokeTyped DEF SessTyped
  <2>6. SessTyped'
    BY <1>0, <1>1, <2>4, <2>5 DEF SessTyped
  <2>7. OneSuccessor'
    <3> SUFFICES ASSUME NEW c \in SessionIds, NEW e \in SessionIds, session'[c].from # NoSession
                 PROVE  /\ session'[c].from = session'[e].from => c = e
                        /\ session'[session'[c].from].state = "revoked"
      BY DEF OneSuccessor
    <3>1. session[c].from \in SessionIds
      BY <1>0, <2>5 DEF SessTyped, Rows
    <3> QED
      BY <1>0, <2>5, <3>1 DEF Links, OneSuccessor
  <2>8. OneClaim'
    <3> SUFFICES ASSUME NEW p \in Requests, NEW s \in SessionIds, Claims(p, s)'
                 PROVE  /\ session'[s].state = "revoked"
                        /\ \A c \in SessionIds : session'[c].from # s
                        /\ \A r \in Requests : Claims(r, s)' => r = p
      BY DEF OneClaim
    <3>1. CASE s = d.s
      <4>1. \A r \in Requests : ~Claims(r, s)
        BY <1>0, <1>3, <2>2, <3>1 DEF Links, OneClaim
      <4>2. \A r \in Requests : Claims(r, s)' => r = q
        BY <2>4, <4>1 DEF Claims
      <4>3. \A c \in SessionIds : session[c].from # s
        BY <1>0, <1>3, <2>2, <3>1 DEF Links, OneSuccessor
      <4> QED
        BY <2>5, <3>1, <4>2, <4>3
    <3>2. CASE s # d.s
      <4>1. \A r \in Requests : Claims(r, s)' => Claims(r, s)
        BY <2>4, <3>2 DEF Claims
      <4> QED
        BY <1>0, <2>5, <4>1 DEF Links, OneClaim
    <3> QED
      BY <3>1, <3>2
  <2>9. LiveSessionsAreCurrent' /\ ResetOnce'
    BY <1>0, <1>1, <2>5 DEF LiveSessionsAreCurrent, ResetOnce
  <2> QED
    BY <2>6, <2>7, <2>8, <2>9 DEF SessInv, Links
<1> QED
  BY <1>2, <1>3

LEMMA SessInvStep == SessInv /\ [SessNext]_sessVars => SessInv'
<1> SUFFICES ASSUME SessInv, [SessNext]_sessVars PROVE SessInv'
  OBVIOUS
<1>0. SessTyped /\ Links /\ ResetOnce /\ LiveSessionsAreCurrent
  BY DEF SessInv
<1>1. ASSUME UNCHANGED <<session, token, request, epoch, born, late, resets>>
      PROVE  SessInv'
  BY <1>0, <1>1 DEF SessInv, SessTyped, RequestOK, Links, OneSuccessor, OneClaim, Claims,
                    ResetOnce, LiveSessionsAreCurrent
<1>2. ASSUME NEW q \in Requests, Login(q) PROVE SessInv'
  <2>1. PICK d : d = [Unsent EXCEPT !.at = "issue", !.began = epoch]
    OBVIOUS
  <2>2. RequestOK(d) /\ d.s = NoSession
    <3>1. d \in RequestState
      BY <1>0, <2>1, UnsentInState DEF RequestState, RequestStages, SessTyped
    <3>2. d.began = epoch /\ d.at = "issue" /\ d.s = NoSession
      BY <2>1, UnsentInState DEF RequestState
    <3> QED
      BY <1>0, <3>1, <3>2 DEF RequestOK, SessTyped
  <2> QED
    BY <1>2, <2>1, <2>2, RequestMoves DEF Login
<1>3. ASSUME NEW q \in Requests, NEW s \in SessionIds, Refresh(q, s) PROVE SessInv'
  <2>1. PICK d : d = [Unsent EXCEPT !.at = IF session[s].state = "live" THEN "user" ELSE "revoke",
                                    !.s = s, !.began = epoch]
    OBVIOUS
  <2>2. RequestOK(d) /\ d.at # "issue"
    <3>1. d \in RequestState
      BY <1>0, <2>1, UnsentInState DEF RequestState, RequestStages, SessTyped
    <3>2. d.began = epoch /\ d.at \in {"user", "revoke"} /\ d.s = s
      BY <2>1, UnsentInState DEF RequestState
    <3> QED
      BY <1>0, <3>1, <3>2 DEF RequestOK, SessTyped
  <2> QED
    BY <1>3, <2>1, <2>2, RequestMoves DEF Refresh
<1>4. ASSUME NEW q \in Requests, ReadUser(q) PROVE SessInv'
  <2>1. PICK d : d = IF active THEN [request[q] EXCEPT !.at = "consume"] ELSE Unsent
    OBVIOUS
  <2>2. RequestOK(d) /\ d.at # "issue"
    <3>1. CASE active
      BY <1>0, <1>4, <2>1, <3>1 DEF ReadUser, ReqAt, RequestOK, RequestState, RequestStages, SessTyped
    <3>2. CASE ~active
      BY <1>0, <2>1, <3>2, UnsentOK DEF SessTyped, Unsent
    <3> QED
      BY <3>1, <3>2
  <2> QED
    BY <1>4, <2>1, <2>2, RequestMoves DEF ReadUser
<1>5. ASSUME NEW q \in Requests, NEW t \in ResetTokens, Confirm(q, t) PROVE SessInv'
  <2>1. PICK d : d = [Unsent EXCEPT !.at = "reset", !.t = t, !.began = epoch]
    OBVIOUS
  <2>2. RequestOK(d) /\ d.at # "issue"
    <3>1. d \in RequestState
      BY <1>0, <2>1, UnsentInState DEF RequestState, RequestStages, SessTyped
    <3>2. d.began = epoch /\ d.at = "reset" /\ d.t = t
      BY <2>1, UnsentInState DEF RequestState
    <3> QED
      BY <1>0, <3>1, <3>2 DEF RequestOK, SessTyped
  <2> QED
    BY <1>5, <2>1, <2>2, RequestMoves DEF Confirm
<1>6. ASSUME NEW q \in Requests, RequestDies(q) PROVE SessInv'
  BY <1>0, <1>6, UnsentOK, RequestMoves DEF RequestDies, SessTyped, Unsent
<1>7. ASSUME NEW q \in Requests, RevokeFamily(q) PROVE SessInv'
  BY <1>0, <1>7, Revokes DEF RevokeFamily, SessTyped, ResetOnce
<1>8. ASSUME NEW s \in SessionIds, Logout(s) PROVE SessInv'
  BY <1>0, <1>8, Revokes DEF Logout, SessTyped, ResetOnce
<1>9. CASE DeactivateUser
  BY <1>0, <1>9, Revokes DEF DeactivateUser, SessTyped, ResetOnce
<1>10. ASSUME NEW q \in Requests, ResetPassword(q) PROVE SessInv'
  <2>1. request[q].t \in ResetTokens /\ Ask(q, Unsent) /\ UNCHANGED <<born, late>>
    BY <1>0, <1>10 DEF ResetPassword, ReqAt, SessTyped, RequestOK
  <2>2. CASE token[request[q].t] = "used"
    BY <1>0, <1>10, <2>1, <2>2, UnsentOK, RequestMoves DEF ResetPassword, SessTyped, Unsent
  <2>3. CASE token[request[q].t] # "used"
    <3>1. /\ token' = [token EXCEPT ![request[q].t] = "used"]
          /\ session' = Revoke(SessionIds)
          /\ epoch' = epoch + 1
          /\ resets' = [resets EXCEPT ![request[q].t] = @ + 1]
      BY <1>10, <2>3 DEF ResetPassword
    <3>2. token' \in [ResetTokens -> {"none", "usable", "used", "expired"}]
      BY <1>0, <3>1 DEF SessTyped
    <3>3. resets[request[q].t] = 0
      BY <1>0, <2>1, <2>3 DEF ResetOnce
    <3>4. resets' \in [ResetTokens -> {0, 1}] /\ ResetOnce'
      BY <1>0, <2>1, <3>1, <3>3 DEF SessTyped, ResetOnce
    <3> QED
      BY <2>1, <3>1, <3>2, <3>4, Revokes
  <2> QED
    BY <2>2, <2>3
<1>11. ASSUME NEW s \in SessionIds, SessionExpires(s) PROVE SessInv'
  <2>1. /\ session' = [session EXCEPT ![s].state = "expired"] /\ session[s].state = "live"
        /\ UNCHANGED <<token, request, epoch, born, late, resets>>
    BY <1>11 DEF SessionExpires
  <2>2. \A u \in SessionIds : /\ session'[u].from = session[u].from
                              /\ session'[u].state = IF u = s THEN "expired" ELSE session[u].state
    BY <1>0, <2>1 DEF SessTyped, Rows
  <2>3. SessTyped'
    <3>1. session' \in [SessionIds -> Rows]
      BY <1>0, <2>1 DEF SessTyped, Rows
    <3> QED
      BY <1>0, <2>1, <3>1 DEF SessTyped, RequestOK
  <2>4. Links'
    BY <1>0, <2>1, <2>2, LinksKept DEF Claims
  <2>5. LiveSessionsAreCurrent' /\ ResetOnce'
    BY <1>0, <2>1, <2>2 DEF LiveSessionsAreCurrent, ResetOnce
  <2> QED
    BY <2>3, <2>4, <2>5 DEF SessInv
<1>12. ASSUME NEW t \in ResetTokens, RequestReset(t) \/ TokenExpires(t) PROVE SessInv'
  <2>1. /\ UNCHANGED <<session, request, epoch, born, late, resets>>
        /\ token[t] # "used"
        /\ \E w \in {"usable", "expired"} : token' = [token EXCEPT ![t] = w]
    BY <1>12 DEF RequestReset, TokenExpires
  <2>2. SessTyped' /\ ResetOnce'
    BY <1>0, <2>1 DEF SessTyped, RequestOK, ResetOnce
  <2> QED
    BY <1>0, <2>1, <2>2 DEF SessInv, Links, OneSuccessor, OneClaim, Claims, LiveSessionsAreCurrent
<1>13. CASE ActivateUser \/ Provision
  BY <1>1, <1>13 DEF ActivateUser, Provision
<1>14. CASE UNCHANGED sessVars
  BY <1>1, <1>14 DEF sessVars
<1> QED
  BY <1>2, <1>3, <1>4, <1>5, <1>6, <1>7, <1>8, <1>9, <1>10, <1>11, <1>12, <1>13, <1>14,
     ConsumeStep, IssueStep DEF SessNext

\* What SessTypeOK says beyond SessTyped.
SessRest ==
    /\ active \in BOOLEAN
    /\ \A q \in Requests : ReqAt(q, "idle") <=> request[q] = Unsent
    /\ \A s \in SessionIds : born[s] =< epoch

LEMMA SessRestStep == SessInv /\ SessRest /\ [SessNext]_sessVars => SessRest'
<1> SUFFICES ASSUME SessInv, SessRest, [SessNext]_sessVars PROVE SessRest'
  OBVIOUS
<1>0. SessTyped
  BY DEF SessInv
<1>1. Unsent.at = "idle"
  BY DEF Unsent
<1>2. active' \in BOOLEAN
  <2>1. CASE UNCHANGED active
    BY <2>1 DEF SessRest
  <2>2. CASE DeactivateUser \/ ActivateUser \/ Provision
    BY <2>2 DEF DeactivateUser, ActivateUser, Provision
  <2> QED
    BY <2>1, <2>2 DEF SessNext, sessVars, Login, ReadUser, Consume, RevokeFamily, IssueTokens,
       ResetPassword, RequestDies, Refresh, Confirm, Logout, SessionExpires, RequestReset,
       TokenExpires
<1>3. ASSUME NEW q \in Requests, NEW d, Ask(q, d), d = Unsent \/ d.at # "idle"
      PROVE  \A p \in Requests : ReqAt(p, "idle")' <=> request'[p] = Unsent
  <2>1. \A p \in Requests : request'[p] = IF p = q THEN d ELSE request[p]
    BY <1>0, <1>3 DEF Ask, SessTyped
  <2> QED
    BY <1>1, <1>3, <2>1 DEF SessRest, ReqAt
<1>4. \A p \in Requests : ReqAt(p, "idle")' <=> request'[p] = Unsent
  <2>1. CASE UNCHANGED request
    BY <2>1 DEF SessRest, ReqAt
  <2>2. ASSUME NEW q \in Requests, Ask(q, Unsent)
        PROVE  \A p \in Requests : ReqAt(p, "idle")' <=> request'[p] = Unsent
    BY <1>3, <2>2
  <2>3. ASSUME NEW q \in Requests, Login(q)
        PROVE  \A p \in Requests : ReqAt(p, "idle")' <=> request'[p] = Unsent
    <3>1. [Unsent EXCEPT !.at = "issue", !.began = epoch].at = "issue"
      BY DEF Unsent
    <3> QED
      BY <1>3, <2>3, <3>1 DEF Login
  <2>4. ASSUME NEW q \in Requests, NEW s \in SessionIds, Refresh(q, s)
        PROVE  \A p \in Requests : ReqAt(p, "idle")' <=> request'[p] = Unsent
    <3>1. PICK d : d = [Unsent EXCEPT !.at = IF session[s].state = "live" THEN "user" ELSE "revoke",
                                      !.s = s, !.began = epoch]
      OBVIOUS
    <3>2. d.at # "idle"
      BY <3>1 DEF Unsent
    <3> QED
      BY <1>3, <2>4, <3>1, <3>2 DEF Refresh
  <2>5. ASSUME NEW q \in Requests, NEW t \in ResetTokens, Confirm(q, t)
        PROVE  \A p \in Requests : ReqAt(p, "idle")' <=> request'[p] = Unsent
    <3>1. [Unsent EXCEPT !.at = "reset", !.t = t, !.began = epoch].at = "reset"
      BY DEF Unsent
    <3> QED
      BY <1>3, <2>5, <3>1 DEF Confirm
  <2>6. ASSUME NEW q \in Requests, NEW pc \in RequestStages \ {"idle"}, Ask(q, [request[q] EXCEPT !.at = pc])
        PROVE  \A p \in Requests : ReqAt(p, "idle")' <=> request'[p] = Unsent
    <3>1. [request[q] EXCEPT !.at = pc].at = pc
      BY <1>0 DEF SessTyped, RequestOK, RequestState
    <3> QED
      BY <1>3, <2>6, <3>1
  <2>7. ASSUME NEW q \in Requests, ReadUser(q) \/ Consume(q)
        PROVE  \A p \in Requests : ReqAt(p, "idle")' <=> request'[p] = Unsent
    BY <2>2, <2>6, <2>7 DEF ReadUser, Consume, RequestStages
  <2>8. ASSUME NEW q \in Requests,
               RevokeFamily(q) \/ IssueTokens(q) \/ ResetPassword(q) \/ RequestDies(q)
        PROVE  \A p \in Requests : ReqAt(p, "idle")' <=> request'[p] = Unsent
    BY <2>2, <2>8 DEF RevokeFamily, IssueTokens, ResetPassword, RequestDies
  <2> QED
    BY <2>1, <2>3, <2>4, <2>5, <2>7, <2>8 DEF SessNext, sessVars, Logout, SessionExpires,
       RequestReset, TokenExpires, DeactivateUser, ActivateUser, Provision
<1>5. \A s \in SessionIds : born'[s] =< epoch'
  <2>1. CASE UNCHANGED born /\ epoch' \in {epoch, epoch + 1}
    BY <1>0, <2>1 DEF SessRest, SessTyped
  <2>2. ASSUME NEW q \in Requests, IssueTokens(q) PROVE \A s \in SessionIds : born'[s] =< epoch'
    <3>1. request[q].began =< epoch /\ epoch' = epoch
      BY <1>0, <2>2 DEF IssueTokens, SessTyped, RequestOK
    <3>2. \A s \in SessionIds : born'[s] = born[s] \/ born'[s] = request[q].began
      BY <1>0, <2>2 DEF IssueTokens, SessTyped
    <3> QED
      BY <3>1, <3>2 DEF SessRest
  <2>3. ASSUME NEW q \in Requests, ResetPassword(q) PROVE UNCHANGED born /\ epoch' \in {epoch, epoch + 1}
    BY <2>3 DEF ResetPassword
  <2> QED
    BY <2>1, <2>2, <2>3 DEF SessNext, sessVars, Login, ReadUser, Consume, RevokeFamily, RequestDies,
       Refresh, Confirm, Logout, SessionExpires, RequestReset, TokenExpires, DeactivateUser,
       ActivateUser, Provision
<1> QED
  BY <1>2, <1>4, <1>5 DEF SessRest

(* Every value keeps its type; an idle request holds nothing, and no session *)
(* is younger than the last change of its user.                              *)
THEOREM SessionTypeCorrect == SessSpec => []SessTypeOK
<1>1. SessInit => SessRest
  BY DEF SessInit, SessRest, ReqAt, Unsent
<1>2. SessInv /\ SessRest => SessTypeOK
  BY DEF SessInv, SessTyped, SessRest, SessTypeOK, Rows
<1> QED
  BY <1>1, <1>2, SessInvInit, SessInvStep, SessRestStep, PTL DEF SessSpec

(* However many requests present one refresh token at once, it has one      *)
(* successor and is revoked; a reset token changes the password once        *)
(* (auth.service.ts:438).                                                   *)
THEOREM TokensConsumedOnce == SessSpec => []ConsumedOnce
<1>1. SessInv => ConsumedOnce
  <2> SUFFICES ASSUME SessInv PROVE ConsumedOnce
    OBVIOUS
  <2>1. \A t \in ResetTokens : resets[t] =< 1
    BY DEF SessInv, SessTyped
  <2> QED
    BY <2>1 DEF SessInv, Links, OneSuccessor, ConsumedOnce
<1> QED
  BY <1>1, SessInvInit, SessInvStep, PTL DEF SessSpec

(* A password reset or a deactivation ends every session but those that a   *)
(* request issues late.                                                     *)
THEOREM SessionsAreCurrent == SessSpec => []LiveSessionsAreCurrent
<1>1. SessInv => LiveSessionsAreCurrent
  BY DEF SessInv
<1> QED
  BY <1>1, SessInvInit, SessInvStep, PTL DEF SessSpec

HIDE SessionAssumption DEF SessionAssumption

-----------------------------------------------------------------------------
(* Accounts: a tenant keeps an owner.                                        *)

Slots == [at : {"idle", "write"}, op : {"none", "demote", "deactivate"}, u : Users \cup {NoUser}]

AccTyped ==
    /\ role \in [Users -> {"OWNER", "MEMBER", "NONE"}]
    /\ enabled \in [Users -> BOOLEAN]
    /\ admin \in [Admins -> Slots]
    /\ \A x \in Admins : admin[x].at = "write" => admin[x].u \in Users

\* Another owner than the one a transaction is about to take away.
Another(x) == Owners \ {admin[x].u} # {}

Writing == {x \in Admins : admin[x].at = "write"}

(* OwnerRemains is not inductive: a transaction about to write has counted  *)
(* owners who must still be there.  They are, while it is the only one.     *)
Guarded ==
    /\ Owners # {}
    /\ \A x, y \in Writing : x = y
    /\ \A x \in Writing : Another(x)

AccInv == AccTyped /\ (~skewed /\ ~provisioned => Guarded)

LEMMA AccInvInit == AccInit => AccInv
<1> SUFFICES ASSUME AccInit PROVE AccInv
  OBVIOUS
<1>1. PICK first \in Users : role = [u \in Users |-> IF u = first THEN "OWNER" ELSE "NONE"]
  BY DEF AccInit
<1>2. AccTyped
  <2>1. enabled \in [Users -> BOOLEAN]
    BY DEF AccInit
  <2> QED
    BY <1>1, <2>1 DEF AccInit, AccTyped, Slots, Off
<1>3. first \in Owners /\ Writing = {}
  BY <1>1 DEF AccInit, Owners, Writing, Off
<1> QED
  BY <1>2, <1>3 DEF AccInv, Guarded

\* The count that the guard reads.
LEMMA CountMeansAnother ==
    ASSUME NEW u \in Users, Owners # {}, role[u] = "OWNER" => OwnerCount > 1
    PROVE  Owners \ {u} # {}
<1>1. CASE u \notin Owners
  BY <1>1
<1>2. CASE u \in Owners
  <2> SUFFICES ASSUME Owners \ {u} = {} PROVE FALSE
    OBVIOUS
  <2>1. Owners = {u}
    BY <1>2
  <2>2. OwnerCount = 1
    BY <2>1, FS_Singleton DEF OwnerCount
  <2>3. role[u] = "OWNER"
    BY <1>2 DEF Owners
  <2> QED
    BY <2>2, <2>3
<1> QED
  BY <1>1, <1>2

LEMMA AccInvStep == AccInv /\ [AccNext]_accVars => AccInv'
<1> SUFFICES ASSUME AccInv, [AccNext]_accVars PROVE AccInv'
  OBVIOUS
<1>0. AccTyped /\ (~skewed /\ ~provisioned => Guarded)
  BY DEF AccInv
<1>1. CASE UNCHANGED accVars
  BY <1>0, <1>1 DEF accVars, AccInv, AccTyped, Guarded, Owners, Writing, Another
<1>2. ASSUME NEW x \in Admins, NEW op \in {"demote", "deactivate"}, NEW u \in Users,
             BeginLoss(x, op, u)
      PROVE  AccInv'
  <2>1. /\ admin' = [admin EXCEPT ![x] = [at |-> "write", op |-> op, u |-> u]]
        /\ Owners' = Owners /\ role' = role /\ enabled' = enabled
        /\ Owners # {} /\ (role[u] = "OWNER" => OwnerCount > 1)
        /\ ~skewed' /\ ~provisioned' => ~skewed /\ ~provisioned /\ Writing = {}
    BY <1>2 DEF BeginLoss, Turn, Owners, Writing, AdminAt
  <2>2. [at |-> "write", op |-> op, u |-> u] \in Slots
    BY DEF Slots
  <2>3. AccTyped'
    BY <1>0, <2>1, <2>2 DEF AccTyped
  <2>4. ASSUME Writing = {} PROVE Guarded'
    <3>1. Writing' = {x} /\ admin'[x].u = u
      BY <1>0, <2>1, <2>4 DEF Writing, AccTyped
    <3>2. Owners \ {u} # {}
      BY <2>1, CountMeansAnother
    <3> QED
      BY <2>1, <3>1, <3>2 DEF Guarded, Another
  <2> QED
    BY <2>1, <2>3, <2>4 DEF AccInv
<1>3. ASSUME NEW x \in Admins, WriteLoss(x) PROVE AccInv'
  <2> DEFINE u == admin[x].u
  <2>1. u \in Users /\ x \in Writing /\ admin' = [admin EXCEPT ![x] = Off]
        /\ skewed' = skewed /\ provisioned' = provisioned
    BY <1>0, <1>3, Zenon DEF WriteLoss, AdminAt, Turn, AccTyped, Writing
  <2>2. AccTyped' /\ \A v \in Owners : v # u => v \in Owners'
    <3>1. Off \in Slots /\ Off.at = "idle"
      BY DEF Off, Slots
    <3>2. admin' \in [Admins -> Slots] /\ \A y \in Admins : admin'[y].at = "write" => admin'[y].u \in Users
      BY <1>0, <2>1, <3>1 DEF AccTyped
    <3>3. CASE role' = [role EXCEPT ![u] = "MEMBER"] /\ enabled' = enabled
      BY <1>0, <2>1, <3>2, <3>3 DEF AccTyped, Owners
    <3>4. CASE enabled' = [enabled EXCEPT ![u] = FALSE] /\ role' = role
      BY <1>0, <2>1, <3>2, <3>4 DEF AccTyped, Owners
    <3> QED
      BY <1>3, <3>3, <3>4 DEF WriteLoss
  <2>3. ASSUME Guarded PROVE Guarded'
    <3>1. Writing' = {}
      BY <1>0, <2>1, <2>3 DEF Writing, Guarded, AccTyped, Off
    <3>2. Owners' # {}
      BY <2>1, <2>2, <2>3 DEF Guarded, Another
    <3> QED
      BY <3>1, <3>2 DEF Guarded
  <2> QED
    BY <1>0, <2>1, <2>2, <2>3 DEF AccInv
<1>4. ASSUME NEW x \in Admins, RollBack(x) PROVE AccInv'
  <2>1. /\ admin' = [admin EXCEPT ![x] = Off]
        /\ UNCHANGED <<role, enabled, skewed, provisioned>>
    BY <1>4 DEF RollBack, Turn
  <2>2. Off \in Slots /\ Off.at = "idle"
    BY DEF Off, Slots
  <2>3. AccTyped' /\ Owners' = Owners
    BY <1>0, <2>1, <2>2 DEF AccTyped, Owners
  <2>4. Writing' \subseteq Writing /\ \A y \in Writing' : admin'[y] = admin[y]
    BY <1>0, <2>1, <2>2 DEF AccTyped, Writing
  <2> QED
    BY <1>0, <2>1, <2>3, <2>4 DEF AccInv, Guarded, Another
<1>5. ASSUME admin' = admin, AccTyped', Owners \subseteq Owners', ~skewed' => ~skewed,
             provisioned' = provisioned
      PROVE  AccInv'
  BY <1>0, <1>5 DEF AccInv, Guarded, Another, Writing
<1>6. ASSUME NEW u \in Users, Promote(u) \/ Activate(u) PROVE AccInv'
  <2>1. CASE Promote(u)
    BY <1>0, <1>5, <2>1 DEF Promote, AccTyped, Owners
  <2>2. CASE Activate(u)
    BY <1>0, <1>5, <2>2 DEF Activate, AccTyped, Owners
  <2> QED
    BY <1>6, <2>1, <2>2
<1>7. ASSUME NEW u \in Users, NEW r \in {"OWNER", "MEMBER"}, Invite(u, r) PROVE AccInv'
  BY <1>0, <1>5, <1>7 DEF Invite, AccTyped, Owners
<1>8. ASSUME NEW u \in Users, ProvisionRole(u) PROVE AccInv'
  <2>1. admin' = admin /\ skewed' = skewed
    BY <1>8 DEF ProvisionRole
  <2>2. AccTyped' /\ \A v \in Owners : v # u => v \in Owners'
    <3>1. CASE \E r \in {"OWNER", "MEMBER"} : role' = [role EXCEPT ![u] = r] /\ UNCHANGED enabled
      BY <1>0, <2>1, <3>1 DEF AccTyped, Owners
    <3>2. CASE \E b \in BOOLEAN : enabled' = [enabled EXCEPT ![u] = b] /\ UNCHANGED role
      BY <1>0, <2>1, <3>2 DEF AccTyped, Owners
    <3> QED
      BY <1>8, <3>1, <3>2 DEF ProvisionRole
  <2>3. ~provisioned' => ~provisioned /\ u \notin Owners
    BY <1>8 DEF ProvisionRole
  <2>4. ~provisioned' => Owners \subseteq Owners'
    BY <2>2, <2>3
  <2> QED
    BY <1>0, <2>1, <2>2, <2>3, <2>4 DEF AccInv, Guarded, Another, Writing
<1> QED
  BY <1>1, <1>2, <1>3, <1>4, <1>6, <1>7, <1>8 DEF AccNext

\* What AccTypeOK says beyond AccTyped.
AdminsIdle == \A x \in Admins : AdminAt(x, "idle") <=> admin[x] = Off

LEMMA AdminsIdleStep == AccInv /\ AdminsIdle /\ [AccNext]_accVars => AdminsIdle'
<1> SUFFICES ASSUME AccInv, AdminsIdle, [AccNext]_accVars PROVE AdminsIdle'
  OBVIOUS
<1>1. Off.at = "idle"
  BY DEF Off
<1>2. ASSUME NEW x \in Admins, NEW d, Turn(x, d), d = Off \/ d.at # "idle" PROVE AdminsIdle'
  <2>1. \A y \in Admins : admin'[y] = IF y = x THEN d ELSE admin[y]
    BY <1>2 DEF Turn, AccInv, AccTyped
  <2> QED
    BY <1>1, <1>2, <2>1 DEF AdminsIdle, AdminAt
<1>3. CASE UNCHANGED admin
  BY <1>3 DEF AdminsIdle, AdminAt
<1>4. ASSUME NEW x \in Admins, NEW op \in {"demote", "deactivate"}, NEW u \in Users,
             BeginLoss(x, op, u)
      PROVE  AdminsIdle'
  <2>1. [at |-> "write", op |-> op, u |-> u].at = "write"
    OBVIOUS
  <2> QED
    BY <1>2, <1>4, <2>1 DEF BeginLoss
<1>5. ASSUME NEW x \in Admins, WriteLoss(x) \/ RollBack(x) PROVE AdminsIdle'
  BY <1>2, <1>5 DEF WriteLoss, RollBack
<1> QED
  BY <1>3, <1>4, <1>5 DEF AccNext, accVars, Promote, Activate, ProvisionRole, Invite

(* Every value keeps its type, and a transaction that is over holds nothing.*)
THEOREM AccountTypeCorrect == AccSpec => []AccTypeOK
<1>1. AccInit => AdminsIdle
  BY DEF AccInit, AdminsIdle, AdminAt, Off
<1>2. AccInv /\ AdminsIdle => AccTypeOK
  BY DEF AccInv, AccTyped, AdminsIdle, AccTypeOK
<1> QED
  BY <1>1, <1>2, AccInvInit, AccInvStep, AdminsIdleStep, PTL DEF AccSpec

(* A tenant keeps an active owner, unless two transactions counted before   *)
(* either wrote or the identity provider took an owner away                 *)
(* (users.service.ts:138).                                                  *)
THEOREM TenantKeepsOwner == AccSpec => []OwnerRemains
<1>1. AccInv => OwnerRemains
  BY DEF AccInv, Guarded, OwnerRemains
<1> QED
  BY <1>1, AccInvInit, AccInvStep, PTL DEF AccSpec

-----------------------------------------------------------------------------
(* WebhookSecrets: a subscriber swaps the key it holds.                      *)

Calls == [at : {"idle", "write", "answer", "dead"}, old : Nat, new : Nat]
Parcels == [at : {"waiting", "sent", "accepted", "lost"}, tries : Nat,
            signers : SUBSET Nat, crossed : SUBSET Nat]

SecretsTyped ==
    /\ endpoint \in [active : Nat, previous : Nat, grace : BOOLEAN]
    /\ generated \in Nat /\ held \in Nat
    /\ endpoint.active <= generated /\ held <= generated
    /\ rotation \in [Rotations -> Calls]
    /\ parcel \in [Deliveries -> Parcels]

\* The secrets that calls in flight generated are theirs, and unknown to the
\* subscriber.
Unanswered(r) == rotation[r].at \in {"write", "answer"}

SecretsFresh ==
    \A r \in Rotations : Unanswered(r) =>
        /\ rotation[r].new <= generated /\ rotation[r].new # held
        /\ \A q \in Rotations : Unanswered(q) /\ rotation[q].new = rotation[r].new => q = r

\* Only the last rotation has an answer on its way: the one before it was
\* swapped for, or it would have been hurried.
AnswersActive == \A r \in Rotations : rotation[r].at = "answer" => rotation[r].new = endpoint.active

\* Every attempt that did not verify was overtaken by a swap.
ParcelOK(b) ==
    /\ b.at \in {"waiting", "sent"} => b.crossed \subseteq 1..b.tries
    /\ b.at = "waiting" => b.crossed = 1..b.tries /\ b.tries < Tries
    /\ b.at = "sent" => /\ b.tries \in 1..Tries
                        /\ 1..(b.tries - 1) \subseteq b.crossed
                        /\ b.tries \in b.crossed \/ held \in b.signers
    /\ b.at = "lost" => b.crossed = 1..Tries

(* SwapIsSafe is not inductive: that the next swap, and the next attempt,    *)
(* are safe depends on what calls and deliveries in flight carry.            *)
SecretInv ==
    /\ SecretsTyped /\ SecretsFresh
    /\ Orderly => AnswersActive /\ held \in Signers /\ \A d \in Deliveries : ParcelOK(parcel[d])

LEMMA SecretInvInit == SecretInit => SecretInv
<1> SUFFICES ASSUME SecretInit PROVE SecretInv
  OBVIOUS
<1>1. SecretsTyped
  BY DEF SecretInit, SecretsTyped, Calls, Parcels
<1>2. SecretsFresh /\ AnswersActive /\ held \in Signers
  BY DEF SecretInit, SecretsFresh, AnswersActive, Signers, Unanswered
<1>3. ASSUME NEW d \in Deliveries PROVE ParcelOK(parcel[d])
  <2>1. parcel[d].at = "waiting" /\ parcel[d].tries = 0 /\ parcel[d].crossed = {}
    BY DEF SecretInit
  <2>2. 1..0 = {}
    OBVIOUS
  <2> QED
    BY <2>1, <2>2, SecretAssumption DEF SecretAssumption, ParcelOK
<1> QED
  BY <1>1, <1>2, <1>3 DEF SecretInv

\* A call of rotateSecret moves, and the deliveries stay.
LEMMA RotationMoves ==
    ASSUME SecretInv, NEW r \in Rotations, NEW at \in {"write", "answer", "dead"},
           NEW old \in Nat, NEW new \in Nat, RotationBecomes(r, at, old, new)
    PROVE  /\ rotation' \in [Rotations -> Calls]
           /\ rotation'[r] = [at |-> at, old |-> old, new |-> new]
           /\ \A q \in Rotations : q # r => rotation'[q] = rotation[q]
  BY DEF SecretInv, SecretsTyped, RotationBecomes, Calls

LEMMA SecretInvStep == SecretInv /\ [SecretNext]_secretVars => SecretInv'
<1> SUFFICES ASSUME SecretInv, [SecretNext]_secretVars PROVE SecretInv'
  OBVIOUS
<1>0. SecretsTyped /\ SecretsFresh
  BY DEF SecretInv
<1>1. CASE UNCHANGED secretVars
  BY <1>1 DEF secretVars, SecretInv, SecretsTyped, SecretsFresh, AnswersActive, ParcelOK, Signers,
     Orderly, Unanswered
<1>2. ASSUME NEW r \in Rotations, ReadSecret(r) PROVE SecretInv'
  <2>1. /\ rotation' \in [Rotations -> Calls]
        /\ rotation'[r] = [at |-> "write", old |-> endpoint.active, new |-> generated + 1]
        /\ \A q \in Rotations : q # r => rotation'[q] = rotation[q]
    BY <1>0, <1>2, RotationMoves DEF ReadSecret, SecretsTyped
  <2>2. SecretsTyped'
    BY <1>0, <1>2, <2>1 DEF ReadSecret, SecretsTyped
  <2>3. SecretsFresh'
    BY <1>0, <1>2, <2>1 DEF ReadSecret, SecretsTyped, SecretsFresh, Unanswered, Calls
  <2>4. ASSUME Orderly'
        PROVE  AnswersActive' /\ held' \in Signers' /\ \A d \in Deliveries : ParcelOK(parcel[d])'
    BY <1>2, <2>1, <2>4 DEF ReadSecret, SecretInv, Orderly, AnswersActive, Signers, ParcelOK
  <2> QED
    BY <2>2, <2>3, <2>4 DEF SecretInv
<1>3. ASSUME NEW r \in Rotations, WriteSecret(r) PROVE SecretInv'
  <2>0. rotation[r] \in Calls
    BY <1>0 DEF SecretsTyped
  <2>1. /\ rotation' \in [Rotations -> Calls]
        /\ rotation'[r] = [at |-> "answer", old |-> rotation[r].old, new |-> rotation[r].new]
        /\ \A q \in Rotations : q # r => rotation'[q] = rotation[q]
    BY <1>0, <1>3, <2>0, RotationMoves DEF WriteSecret, Calls
  <2>2. SecretsTyped'
    BY <1>0, <1>3, <2>0, <2>1 DEF WriteSecret, SecretsTyped, SecretsFresh, Unanswered, Calls
  <2>3. SecretsFresh'
    BY <1>0, <1>3, <2>1 DEF WriteSecret, SecretsFresh, Unanswered
  <2>4. ASSUME Orderly'
        PROVE  AnswersActive' /\ held' \in Signers' /\ \A d \in Deliveries : ParcelOK(parcel[d])'
    <3>1. Orderly /\ rotation[r].old = endpoint.active /\ held = endpoint.active
      BY <1>3, <2>4, Zenon DEF WriteSecret, Orderly
    <3>2. \A q \in Rotations : rotation[q].at # "answer"
      BY <1>0, <3>1 DEF SecretInv, AnswersActive, SecretsFresh, Unanswered
    <3>3. AnswersActive'
      BY <1>3, <2>1, <3>2 DEF WriteSecret, AnswersActive
    <3>4. held' \in Signers'
      BY <1>3, <3>1 DEF WriteSecret, Signers
    <3> QED
      BY <1>3, <3>1, <3>3, <3>4 DEF WriteSecret, SecretInv, ParcelOK
  <2> QED
    BY <2>2, <2>3, <2>4 DEF SecretInv
<1>4. ASSUME NEW r \in Rotations, RotationFails(r) PROVE SecretInv'
  <2>0. rotation[r] \in Calls
    BY <1>0 DEF SecretsTyped
  <2>1. /\ rotation' \in [Rotations -> Calls]
        /\ rotation'[r] = [at |-> "dead", old |-> rotation[r].old, new |-> rotation[r].new]
        /\ \A q \in Rotations : q # r => rotation'[q] = rotation[q]
    BY <1>0, <1>4, <2>0, RotationMoves DEF RotationFails, Calls
  <2>2. SecretsTyped' /\ SecretsFresh'
    BY <1>0, <1>4, <2>1 DEF RotationFails, SecretsTyped, SecretsFresh, Unanswered
  <2>3. ASSUME Orderly'
        PROVE  AnswersActive' /\ held' \in Signers' /\ \A d \in Deliveries : ParcelOK(parcel[d])'
    BY <1>4, <2>1, <2>3 DEF RotationFails, SecretInv, Orderly, AnswersActive, Signers, ParcelOK
  <2> QED
    BY <2>2, <2>3 DEF SecretInv
<1>5. ASSUME NEW r \in Rotations, SwapSecret(r) PROVE SecretInv'
  <2>0. rotation[r] \in Calls
    BY <1>0 DEF SecretsTyped
  <2>1. /\ rotation' \in [Rotations -> Calls]
        /\ rotation'[r] = [at |-> "dead", old |-> rotation[r].old, new |-> rotation[r].new]
        /\ \A q \in Rotations : q # r => rotation'[q] = rotation[q]
    BY <1>0, <1>5, <2>0, RotationMoves DEF SwapSecret, Calls
  <2>2. \A d \in Deliveries :
           /\ parcel'[d] \in Parcels
           /\ parcel'[d].at = parcel[d].at /\ parcel'[d].tries = parcel[d].tries
           /\ parcel[d].at = "sent" => parcel'[d].crossed = parcel[d].crossed \cup {parcel[d].tries}
           /\ parcel[d].at # "sent" => parcel'[d] = parcel[d]
    BY <1>0, <1>5 DEF SwapSecret, SecretsTyped, Parcels
  <2>3. SecretsTyped'
    BY <1>0, <1>5, <2>0, <2>1, <2>2 DEF SwapSecret, SecretsTyped, SecretsFresh, Unanswered, Calls
  <2>4. SecretsFresh'
    BY <1>0, <1>5, <2>1 DEF SwapSecret, SecretsFresh, Unanswered
  <2>5. ASSUME Orderly'
        PROVE  AnswersActive' /\ held' \in Signers' /\ \A d \in Deliveries : ParcelOK(parcel[d])'
    <3>1. Orderly /\ AnswersActive
      BY <1>5, <2>5 DEF SwapSecret, Orderly, SecretInv
    <3>2. AnswersActive' /\ held' \in Signers'
      BY <1>5, <2>1, <3>1 DEF SwapSecret, AnswersActive, Signers
    <3>3. ASSUME NEW d \in Deliveries PROVE ParcelOK(parcel[d])'
      <4>1. ParcelOK(parcel[d]) /\ parcel[d] \in Parcels
        BY <1>0, <3>1 DEF SecretInv, SecretsTyped
      <4> QED
        BY <2>2, <4>1, SecretAssumption DEF SecretAssumption, ParcelOK, Parcels
    <3> QED
      BY <3>2, <3>3
  <2> QED
    BY <2>3, <2>4, <2>5 DEF SecretInv
<1>6. ASSUME NEW d \in Deliveries, SignParcel(d) \/ ParcelArrives(d) PROVE SecretInv'
  <2>0. parcel[d] \in Parcels
    BY <1>0 DEF SecretsTyped
  <2>1. PICK b : /\ parcel' = [parcel EXCEPT ![d] = b] /\ b \in Parcels
                 /\ Orderly => ParcelOK(b)
    <3>1. CASE SignParcel(d)
      <4>1. PICK b : b = [parcel[d] EXCEPT !.at = "sent", !.tries = @ + 1, !.signers = Signers]
        OBVIOUS
      <4>2. Signers \subseteq Nat
        BY <1>0 DEF SecretsTyped, Signers
      <4>3. b \in Parcels /\ b.at = "sent" /\ b.tries = parcel[d].tries + 1 /\ b.signers = Signers
            /\ b.crossed = parcel[d].crossed
        <5>1. PICK n : n = parcel[d].tries + 1
          OBVIOUS
        <5>2. PICK S : S = Signers
          OBVIOUS
        <5>3. n \in Nat /\ S \in SUBSET Nat
          BY <2>0, <4>2, <5>1, <5>2 DEF Parcels
        <5>4. b = [at |-> "sent", tries |-> n, signers |-> S, crossed |-> parcel[d].crossed]
          BY <2>0, <4>1, <5>1, <5>2 DEF Parcels
        <5> QED
          BY <2>0, <5>1, <5>2, <5>3, <5>4 DEF Parcels
      <4>4. Orderly => ParcelOK(b)
        <5> SUFFICES ASSUME Orderly PROVE ParcelOK(b)
          OBVIOUS
        <5>1. parcel[d].crossed = 1..parcel[d].tries /\ parcel[d].tries < Tries /\ held \in Signers
          BY <3>1 DEF SignParcel, SecretInv, ParcelOK
        <5> QED
          BY <2>0, <4>3, <5>1, SecretAssumption DEF SecretAssumption, ParcelOK, Parcels
      <4>5. parcel' = [parcel EXCEPT ![d] = b]
        BY <1>0, <3>1, <4>1 DEF SignParcel, SecretsTyped, Parcels
      <4> QED
        BY <4>3, <4>4, <4>5
    <3>2. CASE ParcelArrives(d)
      <4>1. PICK at : at = IF held \in parcel[d].signers THEN "accepted"
                           ELSE IF parcel[d].tries < Tries THEN "waiting" ELSE "lost"
        OBVIOUS
      <4>2. PICK b : b = [parcel[d] EXCEPT !.at = at]
        OBVIOUS
      <4>3. b \in Parcels /\ b.at = at /\ b.tries = parcel[d].tries /\ b.crossed = parcel[d].crossed
        BY <2>0, <4>1, <4>2 DEF Parcels
      <4>4. Orderly => ParcelOK(b)
        <5> SUFFICES ASSUME Orderly PROVE ParcelOK(b)
          OBVIOUS
        <5>1. ParcelOK(parcel[d]) /\ parcel[d].at = "sent"
          BY <3>2 DEF ParcelArrives, SecretInv
        <5>2. held \notin parcel[d].signers => parcel[d].crossed = 1..parcel[d].tries
          <6>1. PICK n, C : n = parcel[d].tries /\ C = parcel[d].crossed
            OBVIOUS
          <6>2. held \notin parcel[d].signers =>
                    n \in Nat \ {0} /\ C \subseteq 1..n /\ 1..(n - 1) \subseteq C /\ n \in C
            BY <2>0, <5>1, <6>1, SecretAssumption DEF SecretAssumption, ParcelOK, Parcels
          <6>3. \A k \in 1..n : n \in Nat => k = n \/ k \in 1..(n - 1)
            OBVIOUS
          <6> QED
            BY <6>1, <6>2, <6>3
        <5> QED
          BY <2>0, <4>1, <4>3, <5>1, <5>2, SecretAssumption
             DEF SecretAssumption, ParcelOK, Parcels
      <4>5. parcel' = [parcel EXCEPT ![d] = b]
        BY <1>0, <3>2, <4>1, <4>2 DEF ParcelArrives, SecretsTyped, Parcels
      <4> QED
        BY <4>3, <4>4, <4>5
    <3> QED
      BY <1>6, <3>1, <3>2
  <2>2. UNCHANGED <<endpoint, generated, rotation, held, misplaced, hurried, tardy>>
    BY <1>6 DEF SignParcel, ParcelArrives
  <2>3. SecretsTyped' /\ SecretsFresh'
    BY <1>0, <2>1, <2>2 DEF SecretsTyped, SecretsFresh, Unanswered
  <2>4. ASSUME Orderly'
        PROVE  AnswersActive' /\ held' \in Signers' /\ \A e \in Deliveries : ParcelOK(parcel[e])'
    <3>1. Orderly
      BY <2>2, <2>4 DEF Orderly
    <3>2. \A e \in Deliveries : parcel'[e] = IF e = d THEN b ELSE parcel[e]
      BY <1>0, <2>1 DEF SecretsTyped
    <3>3. AnswersActive' /\ held' \in Signers'
      BY <2>2, <3>1 DEF SecretInv, AnswersActive, Signers
    <3>4. ASSUME NEW e \in Deliveries PROVE ParcelOK(parcel[e])'
      <4>1. ParcelOK(IF e = d THEN b ELSE parcel[e])
        BY <2>1, <3>1 DEF SecretInv
      <4>2. ParcelOK(parcel'[e])
        BY <3>2, <4>1
      <4> QED
        BY <2>2, <4>2 DEF ParcelOK
    <3> QED
      BY <3>3, <3>4
  <2> QED
    BY <2>3, <2>4 DEF SecretInv
<1>7. CASE GraceEnds
  <2>1. SecretsTyped' /\ SecretsFresh'
    BY <1>0, <1>7 DEF GraceEnds, SecretsTyped, SecretsFresh, Unanswered
  <2>2. ASSUME Orderly'
        PROVE  AnswersActive' /\ held' \in Signers' /\ \A d \in Deliveries : ParcelOK(parcel[d])'
    <3>1. Orderly /\ held = endpoint.active
      BY <1>7, <2>2, Zenon DEF GraceEnds, Orderly
    <3>2. endpoint'.active = endpoint.active
      BY <1>0, <1>7 DEF GraceEnds, SecretsTyped
    <3> QED
      BY <1>7, <3>1, <3>2 DEF GraceEnds, SecretInv, AnswersActive, Signers, ParcelOK
  <2> QED
    BY <2>1, <2>2 DEF SecretInv
<1> QED
  BY <1>1, <1>2, <1>3, <1>4, <1>5, <1>6, <1>7 DEF SecretNext

(* A subscriber that follows each rotation can swap its key without losing   *)
(* a delivery (webhooks.service.ts:192), for any number of rotations and     *)
(* deliveries and any number of attempts.                                    *)
THEOREM SwappingIsSafe == SecretSpec => []SwapIsSafe
<1>1. SecretInv => SwapIsSafe
  BY DEF SecretInv, SwapIsSafe, ParcelOK
<1> QED
  BY <1>1, SecretInvInit, SecretInvStep, PTL DEF SecretSpec

\* What types leave out of a row, a call and a delivery: their numbers stay
\* below what was generated and below the attempts a job has.
Counted(b) ==
    /\ b.tries <= Tries /\ b.crossed \subseteq 1..b.tries
    /\ b.at = "waiting" => b.tries < Tries
    /\ b.at = "sent" => b.tries >= 1

SecretRest ==
    /\ endpoint.previous <= generated
    /\ \A r \in Rotations : rotation[r].at = "write" => rotation[r].old <= generated
    /\ \A d \in Deliveries : Counted(parcel[d])

LEMMA SecretRestInit == SecretInit => SecretRest
<1> SUFFICES ASSUME SecretInit PROVE SecretRest
  OBVIOUS
<1>1. endpoint.previous <= generated /\ \A r \in Rotations : rotation[r].at = "idle"
  BY DEF SecretInit
<1>2. ASSUME NEW d \in Deliveries PROVE Counted(parcel[d])
  <2>1. parcel[d].at = "waiting" /\ parcel[d].tries = 0 /\ parcel[d].crossed = {}
    BY DEF SecretInit
  <2> QED
    BY <2>1, SecretAssumption DEF SecretAssumption, Counted
<1> QED
  BY <1>1, <1>2 DEF SecretRest

LEMMA SecretRestStep == SecretInv /\ SecretRest /\ [SecretNext]_secretVars => SecretRest'
<1> SUFFICES ASSUME SecretInv, SecretRest, [SecretNext]_secretVars PROVE SecretRest'
  OBVIOUS
<1>0. SecretsTyped
  BY DEF SecretInv
<1>1. CASE UNCHANGED secretVars
  BY <1>1 DEF secretVars, SecretRest, Counted
<1>2. ASSUME NEW r \in Rotations, ReadSecret(r) PROVE SecretRest'
  <2>1. \A q \in Rotations :
           rotation'[q] = IF q = r THEN [at |-> "write", old |-> endpoint.active, new |-> generated + 1]
                          ELSE rotation[q]
    BY <1>0, <1>2 DEF ReadSecret, RotationBecomes, SecretsTyped
  <2>2. /\ endpoint'.previous <= generated'
        /\ \A q \in Rotations : rotation'[q].at = "write" => rotation'[q].old <= generated'
    BY <1>0, <1>2, <2>1 DEF ReadSecret, SecretsTyped, SecretRest, Calls
  <2>3. \A d \in Deliveries : Counted(parcel'[d])
    BY <1>2 DEF ReadSecret, SecretRest
  <2> QED
    BY <2>2, <2>3 DEF SecretRest, Counted
<1>3. ASSUME NEW r \in Rotations, WriteSecret(r) \/ RotationFails(r) PROVE SecretRest'
  <2>1. /\ rotation'[r].at # "write"
        /\ \A q \in Rotations : q # r => rotation'[q] = rotation[q]
        /\ generated' = generated /\ parcel' = parcel
    BY <1>0, <1>3 DEF WriteSecret, RotationFails, RotationBecomes, SecretsTyped
  <2>2. endpoint'.previous <= generated'
    BY <1>3, <2>1 DEF WriteSecret, RotationFails, SecretRest
  <2>3. \A q \in Rotations : rotation'[q].at = "write" => rotation'[q].old <= generated'
    BY <2>1 DEF SecretRest
  <2>4. \A d \in Deliveries : Counted(parcel'[d])
    BY <2>1 DEF SecretRest
  <2> QED
    BY <2>2, <2>3, <2>4 DEF SecretRest, Counted
<1>4. ASSUME NEW r \in Rotations, SwapSecret(r) PROVE SecretRest'
  <2>1. /\ rotation'[r].at # "write"
        /\ \A q \in Rotations : q # r => rotation'[q] = rotation[q]
        /\ generated' = generated /\ endpoint' = endpoint
    BY <1>0, <1>4 DEF SwapSecret, RotationBecomes, SecretsTyped
  <2>2. ASSUME NEW d \in Deliveries PROVE Counted(parcel'[d])
    <3>1. Counted(parcel[d]) /\ parcel[d] \in Parcels
      BY <1>0 DEF SecretRest, SecretsTyped
    <3>2. CASE parcel[d].at # "sent"
      BY <1>4, <3>1, <3>2 DEF SwapSecret
    <3>3. CASE parcel[d].at = "sent"
      <4>1. /\ parcel'[d].at = "sent" /\ parcel'[d].tries = parcel[d].tries
            /\ parcel'[d].crossed = parcel[d].crossed \cup {parcel[d].tries}
        BY <1>4, <3>1, <3>3 DEF SwapSecret, Parcels
      <4>2. parcel[d].tries \in 1..parcel[d].tries
        BY <3>1, <3>3 DEF Counted, Parcels
      <4> QED
        BY <3>1, <3>3, <4>1, <4>2 DEF Counted
    <3> QED
      BY <3>2, <3>3
  <2>3. \A q \in Rotations : rotation'[q].at = "write" => rotation'[q].old <= generated'
    BY <2>1 DEF SecretRest
  <2> QED
    BY <2>1, <2>2, <2>3 DEF SecretRest, Counted
<1>5. ASSUME NEW d \in Deliveries, SignParcel(d) \/ ParcelArrives(d) PROVE SecretRest'
  <2>1. Counted(parcel[d]) /\ parcel[d] \in Parcels
    BY <1>0 DEF SecretRest, SecretsTyped
  <2>2. \A e \in Deliveries : e # d => parcel'[e] = parcel[e]
    BY <1>0, <1>5 DEF SignParcel, ParcelArrives, SecretsTyped
  <2>3. Counted(parcel'[d])
    <3>1. CASE SignParcel(d)
      <4>1. /\ parcel'[d].at = "sent" /\ parcel'[d].tries = parcel[d].tries + 1
            /\ parcel'[d].crossed = parcel[d].crossed /\ parcel[d].at = "waiting"
        BY <1>0, <2>1, <3>1 DEF SignParcel, SecretsTyped, Parcels
      <4>2. parcel[d].tries \in Nat
        BY <2>1 DEF Parcels
      <4>3. parcel[d].tries + 1 <= Tries /\ 1..parcel[d].tries \subseteq 1..(parcel[d].tries + 1)
        BY <2>1, <4>1, <4>2, SecretAssumption DEF SecretAssumption, Counted
      <4> QED
        BY <2>1, <4>1, <4>2, <4>3 DEF Counted
    <3>2. CASE ParcelArrives(d)
      <4>1. /\ parcel'[d].tries = parcel[d].tries /\ parcel'[d].crossed = parcel[d].crossed
            /\ parcel'[d].at # "sent" /\ (parcel'[d].at = "waiting" => parcel[d].tries < Tries)
        BY <1>0, <2>1, <3>2 DEF ParcelArrives, SecretsTyped, Parcels
      <4> QED
        BY <2>1, <4>1 DEF Counted
    <3> QED
      BY <1>5, <3>1, <3>2
  <2>4. UNCHANGED <<endpoint, generated, rotation>>
    BY <1>5 DEF SignParcel, ParcelArrives
  <2>5. \A e \in Deliveries : Counted(parcel'[e])
    BY <2>2, <2>3 DEF SecretRest
  <2> QED
    BY <2>4, <2>5 DEF SecretRest, Counted
<1>6. CASE GraceEnds
  <2>1. endpoint'.previous = endpoint.previous /\ UNCHANGED <<generated, rotation, parcel>>
    BY <1>0, <1>6 DEF GraceEnds, SecretsTyped
  <2> QED
    BY <2>1 DEF SecretRest, Counted
<1> QED
  BY <1>1, <1>2, <1>3, <1>4, <1>5, <1>6 DEF SecretNext

(* Every secret an endpoint, a call or the subscriber holds was generated,   *)
(* and no delivery is tried more often than its job has attempts.            *)
THEOREM SecretTypeCorrect == SecretSpec => []SecretTypeOK
<1>1. SecretInv /\ SecretRest => SecretTypeOK
  <2> SUFFICES ASSUME SecretInv, SecretRest PROVE SecretTypeOK
    OBVIOUS
  <2>1. SecretsTyped
    BY DEF SecretInv
  <2>2. /\ endpoint.active \in 0..generated /\ endpoint.previous \in 0..generated
        /\ held \in 0..generated
    BY <2>1 DEF SecretsTyped, SecretRest
  <2>3. \A r \in Rotations : rotation[r].at \in {"idle", "write", "answer", "dead"}
    BY <2>1 DEF SecretsTyped, Calls
  <2>4. ASSUME NEW d \in Deliveries
        PROVE  parcel[d].tries \in 0..Tries /\ parcel[d].crossed \subseteq 1..Tries
    <3>1. Counted(parcel[d]) /\ parcel[d].tries \in Nat
      BY <2>1 DEF SecretRest, SecretsTyped, Parcels
    <3> QED
      BY <3>1, SecretAssumption DEF SecretAssumption, Counted
  <2> QED
    BY <2>2, <2>3, <2>4 DEF SecretTypeOK
<1> QED
  BY <1>1, SecretInvInit, SecretInvStep, SecretRestInit, SecretRestStep, PTL DEF SecretSpec
=============================================================================
