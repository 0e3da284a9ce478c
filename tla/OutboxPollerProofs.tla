------------------------- MODULE OutboxPollerProofs -------------------------
(***************************************************************************)
(* Theorems about OutboxPoller, for any number of rows, endpoints, tenants *)
(* and replicas.                                                           *)
(***************************************************************************)
EXTENDS OutboxPoller, FiniteSetTheorems, TLAPS

USE OutboxAssumption DEF OutboxAssumption

\* The part of TypeOK about one worker.
DrainOK(d) ==
    /\ d \in DrainState
    /\ d.pc \in {"enqueue", "mark", "bump", "giveUp"} => d.row \in Events
    /\ d.pc \notin {"enqueue", "mark", "bump", "giveUp"} => d.row = NoRow

LEMMA DrainType ==
    ASSUME TypeOK, NEW w \in Workers
    PROVE  DrainOK(drain[w])
  BY DEF TypeOK, DrainOK, AtRow

LEMMA GoesType ==
    ASSUME TypeOK, NEW w \in Workers, NEW d, DrainOK(d), Goes(w, d)
    PROVE  /\ drain' \in [Workers -> DrainState]
           /\ \A v \in Workers : /\ AtRow(v)' => drain'[v].row \in Events
                                 /\ ~AtRow(v)' => drain'[v].row = NoRow
  BY DEF TypeOK, DrainOK, AtRow, Goes

LEMMA IdleType == DrainOK(Idle)
  BY DEF DrainOK, DrainState, Stages, Idle

LEMMA BetweenRowsType ==
    ASSUME NEW d, DrainOK(d)
    PROVE  DrainOK(BetweenRows(d))
  BY DEF DrainOK, DrainState, Stages, BetweenRows

LEMMA TypeInit == Init => TypeOK
  BY DEF Init, TypeOK, AtRow, DrainState, Stages, Statuses, Idle

LEMMA TypeStep == TypeOK /\ [Next]_vars => TypeOK'
<1> SUFFICES ASSUME TypeOK, [Next]_vars PROVE TypeOK'
  OBVIOUS
<1> USE DEF rows, config, At, Reads
<1>1. CASE UNCHANGED vars
  BY <1>1 DEF vars, TypeOK, AtRow
<1>2. ASSUME NEW e \in Events, Publish(e) PROVE TypeOK'
  <2>1. Cardinality({f \in Events : status[f] # "NONE"}) \in Nat
    <3>1. {f \in Events : status[f] # "NONE"} \subseteq Events
      OBVIOUS
    <3> QED
      BY <3>1, FS_Subset, FS_CardinalityType
  <2> QED
    BY <1>2, <2>1 DEF Publish, EndpointsOf, TypeOK, AtRow, Statuses
<1>3. ASSUME NEW p \in Endpoints, ToggleEndpoint(p) PROVE TypeOK'
  BY <1>3 DEF ToggleEndpoint, TypeOK, AtRow
<1>4. ASSUME NEW t \in Tenants, ToggleTenant(t) PROVE TypeOK'
  BY <1>4 DEF ToggleTenant, TypeOK, AtRow
<1>5. CASE Tick
  BY <1>5 DEF Tick, TypeOK, AtRow
<1>6. ASSUME NEW j \in Jobs, Forget(j) PROVE TypeOK'
  BY <1>6 DEF Forget, TypeOK, AtRow
<1>7. ASSUME NEW w \in Workers, StartDrain(w) PROVE TypeOK'
  <2>1. DrainOK([Idle EXCEPT !.pc = "fetch"])
    BY DEF DrainOK, DrainState, Stages, Idle
  <2> QED
    BY <1>7, <2>1, GoesType DEF StartDrain, TypeOK
<1>8. ASSUME NEW w \in Workers, Fetch(w) PROVE TypeOK'
  <2>1. PICK S \in SUBSET Candidates : Goes(w, [drain[w] EXCEPT !.pc = "filter", !.batch = S])
    BY <1>8 DEF Fetch
  <2>2. DrainOK([drain[w] EXCEPT !.pc = "filter", !.batch = S])
    BY <1>8, DrainType DEF Fetch, DrainOK, DrainState, Stages, Candidates
  <2>3. contested' \subseteq Events
    <3>1. PICK B : B \subseteq Candidates /\ contested' = contested \cup (B \cap HeldByOthers(w))
      BY <1>8 DEF Fetch
    <3> QED
      BY <3>1 DEF Candidates, TypeOK
  <2> QED
    BY <1>8, <2>1, <2>2, <2>3, GoesType DEF Fetch, TypeOK
<1>9. ASSUME NEW w \in Workers, FilterActive(w) PROVE TypeOK'
  <2>1. DrainOK([drain[w] EXCEPT !.pc = "row", !.batch = {e \in @ : TenantOf[e] \in live}])
    BY <1>9, DrainType DEF FilterActive, DrainOK, DrainState, Stages
  <2> QED
    BY <1>9, <2>1, GoesType DEF FilterActive, TypeOK
<1>10. ASSUME NEW w \in Workers, Dispatch(w) PROVE TypeOK'
  <2>1. PICK e \in drain[w].batch :
            Goes(w, [pc |-> IF Targets(e) = {} THEN "mark" ELSE "enqueue",
                       batch |-> drain[w].batch \ {e}, row |-> e,
                       targets |-> Targets(e)])
    BY <1>10 DEF Dispatch
  <2>2. Targets(e) \subseteq Endpoints
    BY DEF Targets, EndpointsOf
  <2>3. DrainOK([pc |-> IF Targets(e) = {} THEN "mark" ELSE "enqueue",
                 batch |-> drain[w].batch \ {e}, row |-> e, targets |-> Targets(e)])
    BY <2>2, DrainType DEF DrainOK, DrainState, Stages
  <2> QED
    BY <1>10, <2>1, <2>3, GoesType DEF Dispatch, TypeOK
<1>11. ASSUME NEW w \in Workers, NEW p \in Endpoints, Enqueue(w, p) PROVE TypeOK'
  <2>1. DrainOK([drain[w] EXCEPT !.targets = @ \ {p},
                                 !.pc = IF drain[w].targets = {p} THEN "mark" ELSE @])
    BY <1>11, DrainType DEF Enqueue, DrainOK, DrainState, Stages
  <2>2. <<drain[w].row, p>> \in Jobs
    BY <1>11, DrainType DEF Enqueue, DrainOK, Jobs
  <2> QED
    BY <1>11, <2>1, <2>2, GoesType DEF Enqueue, TypeOK
<1>12. ASSUME NEW w \in Workers, MarkPublished(w) PROVE TypeOK'
  <2>1. drain[w].row \in Events /\ DrainOK(BetweenRows(drain[w]))
    BY <1>12, DrainType, BetweenRowsType DEF MarkPublished, DrainOK
  <2> QED
    BY <1>12, <2>1, GoesType DEF MarkPublished, TypeOK, Statuses
<1>13. ASSUME NEW w \in Workers, MarkFailed(w) PROVE TypeOK'
  <2>1. drain[w].row \in Events /\ DrainOK(BetweenRows(drain[w]))
    BY <1>13, DrainType, BetweenRowsType DEF MarkFailed, DrainOK
  <2>2. DrainOK([drain[w] EXCEPT !.pc = "giveUp"])
    BY <2>1, DrainType DEF DrainOK, DrainState, Stages
  <2> QED
    BY <1>13, <2>1, <2>2, GoesType DEF MarkFailed, TypeOK
<1>14. ASSUME NEW w \in Workers, GiveUp(w) PROVE TypeOK'
  <2>1. drain[w].row \in Events /\ DrainOK(BetweenRows(drain[w]))
    BY <1>14, DrainType, BetweenRowsType DEF GiveUp, DrainOK
  <2> QED
    BY <1>14, <2>1, GoesType DEF GiveUp, TypeOK, Statuses
<1>15. ASSUME NEW w \in Workers, EndDrain(w) PROVE TypeOK'
  BY <1>15, IdleType, GoesType DEF EndDrain, TypeOK
<1>16. ASSUME NEW w \in Workers, RowThrows(w) PROVE TypeOK'
  <2>1. DrainOK([drain[w] EXCEPT !.pc = "bump", !.targets = {}])
    BY <1>16, DrainType DEF RowThrows, DrainOK, DrainState, Stages
  <2> QED
    BY <1>16, <2>1, GoesType DEF RowThrows, TypeOK
<1>17. ASSUME NEW w \in Workers, Abort(w) PROVE TypeOK'
  BY <1>17, IdleType, GoesType DEF Abort, TypeOK
<1> QED
  BY <1>1, <1>2, <1>3, <1>4, <1>5, <1>6, <1>7, <1>8, <1>9, <1>10, <1>11, <1>12,
     <1>13, <1>14, <1>15, <1>16, <1>17 DEF Next, DrainStep

(* Every state variable keeps its type, whatever the constants are.        *)
THEOREM TypeCorrect == Spec => []TypeOK
<1>1. Init => TypeOK
  BY TypeInit
<1>2. TypeOK /\ [Next]_vars => TypeOK'
  BY TypeStep
<1> QED
  BY <1>1, <1>2, PTL DEF Spec

-----------------------------------------------------------------------------
(***************************************************************************)
(* No subscriber is skipped, with any number of replicas.  What makes the  *)
(* property inductive: a worker that dispatches a row still holds, as a    *)
(* target, every steady endpoint it has not added a job for.               *)
(***************************************************************************)
InsertedOnly ==
    \A w \in Workers : /\ \A e \in drain[w].batch : status[e] # "NONE"
                       /\ AtRow(w) => status[drain[w].row] # "NONE"

SteadyMatches == \A e \in Events : steady[e] \subseteq matching \cap EndpointsOf(e)

StillToAdd ==
    \A w \in Workers : \A e \in Events \ Unknown :
        drain[w].row = e =>
          /\ At(w, "enqueue") => \A p \in steady[e] : p \in drain[w].targets \/ <<e, p>> \in added
          /\ At(w, "mark") => \A p \in steady[e] : <<e, p>> \in added

FanOutInv == NoSubscriberSkipped /\ InsertedOnly /\ SteadyMatches /\ StillToAdd

\* A step that only moves w to a stage without a row, or with nothing to add.
LEMMA MoveKeepsFanOut ==
    ASSUME TypeOK, FanOutInv, NEW w \in Workers, NEW d, DrainOK(d), Goes(w, d),
           \A e \in d.batch : status[e] # "NONE",
           d.pc \in {"enqueue", "mark", "bump", "giveUp"} => status[d.row] # "NONE",
           d.pc \notin {"enqueue", "mark"},
           UNCHANGED <<status, matching, steady, added>>
    PROVE  FanOutInv'
<1>1. drain'[w] = d /\ \A v \in Workers \ {w} : drain'[v] = drain[v]
  BY DEF Goes, TypeOK
<1>2. NoSubscriberSkipped' /\ SteadyMatches'
  BY DEF FanOutInv, NoSubscriberSkipped, SteadyMatches
<1>3. InsertedOnly'
  BY <1>1 DEF FanOutInv, InsertedOnly, AtRow
<1>4. StillToAdd'
  BY <1>1 DEF FanOutInv, StillToAdd, At
<1> QED
  BY <1>2, <1>3, <1>4 DEF FanOutInv

LEMMA FanOutInit == Init => FanOutInv
  BY DEF Init, FanOutInv, NoSubscriberSkipped, InsertedOnly, SteadyMatches,
         StillToAdd, AtRow, At, Idle

LEMMA FanOutStep == TypeOK /\ FanOutInv /\ [Next]_vars => FanOutInv'
<1> SUFFICES ASSUME TypeOK, FanOutInv, [Next]_vars PROVE FanOutInv'
  OBVIOUS
<1> USE DEF rows, config, Reads
<1>1. ASSUME UNCHANGED <<status, matching, steady, added, drain>> PROVE FanOutInv'
  BY <1>1 DEF FanOutInv, NoSubscriberSkipped, InsertedOnly, SteadyMatches, StillToAdd,
              AtRow, At
<1>2. ASSUME NEW e \in Events, Publish(e) PROVE FanOutInv'
  <2> USE <1>2 DEF Publish
  <2>1. /\ status[e] = "NONE" /\ status'[e] = "PENDING"
        /\ steady'[e] = matching \cap EndpointsOf(e)
        /\ \A f \in Events \ {e} : status'[f] = status[f] /\ steady'[f] = steady[f]
    BY DEF TypeOK
  <2>2. NoSubscriberSkipped'
    BY <2>1 DEF FanOutInv, NoSubscriberSkipped
  <2>3. InsertedOnly'
    BY <2>1 DEF FanOutInv, InsertedOnly, AtRow, TypeOK, DrainState
  <2>4. SteadyMatches'
    BY <2>1 DEF FanOutInv, SteadyMatches
  <2>5. StillToAdd'
    <3>1. \A w \in Workers : At(w, "enqueue") \/ At(w, "mark") => drain[w].row # e
      BY <2>1 DEF FanOutInv, InsertedOnly, AtRow, At
    <3> QED
      BY <2>1, <3>1 DEF FanOutInv, StillToAdd, At
  <2> QED
    BY <2>2, <2>3, <2>4, <2>5 DEF FanOutInv
<1>3. ASSUME NEW p \in Endpoints, ToggleEndpoint(p) PROVE FanOutInv'
  <2> USE <1>3 DEF ToggleEndpoint
  <2>1. \A e \in Events : steady'[e] = steady[e] \ {p}
    BY DEF TypeOK
  <2>2. NoSubscriberSkipped' /\ InsertedOnly' /\ StillToAdd'
    BY <2>1 DEF FanOutInv, NoSubscriberSkipped, InsertedOnly, StillToAdd, AtRow, At
  <2>3. SteadyMatches'
    BY <2>1 DEF FanOutInv, SteadyMatches
  <2> QED
    BY <2>2, <2>3 DEF FanOutInv
<1>4. ASSUME NEW w \in Workers, StartDrain(w) PROVE FanOutInv'
  <2>1. DrainOK([Idle EXCEPT !.pc = "fetch"])
    BY DEF DrainOK, DrainState, Stages, Idle
  <2> QED
    BY <1>4, <2>1, MoveKeepsFanOut DEF StartDrain, Idle
<1>5. ASSUME NEW w \in Workers, Fetch(w) PROVE FanOutInv'
  <2>1. PICK S \in SUBSET Candidates : Goes(w, [drain[w] EXCEPT !.pc = "filter", !.batch = S])
    BY <1>5 DEF Fetch
  <2> DEFINE d == [drain[w] EXCEPT !.pc = "filter", !.batch = S]
  <2>2. DrainOK(d)
    BY <1>5, DrainType DEF Fetch, At, DrainOK, DrainState, Stages, Candidates
  <2>3. d.pc = "filter" /\ d.batch = S
    BY DrainType DEF DrainOK, DrainState
  <2>4. \A e \in d.batch : status[e] # "NONE"
    BY <2>3 DEF Candidates
  <2> HIDE DEF d
  <2> QED
    BY <1>5, <2>1, <2>2, <2>3, <2>4, MoveKeepsFanOut DEF Fetch, d
<1>6. ASSUME NEW w \in Workers, FilterActive(w) PROVE FanOutInv'
  <2> DEFINE d == [drain[w] EXCEPT !.pc = "row", !.batch = {e \in @ : TenantOf[e] \in live}]
  <2>1. DrainOK(d)
    BY <1>6, DrainType DEF FilterActive, At, DrainOK, DrainState, Stages
  <2>2. d.pc = "row" /\ d.batch \subseteq drain[w].batch
    BY DrainType DEF DrainOK, DrainState
  <2>3. \A e \in d.batch : status[e] # "NONE"
    BY <2>2 DEF FanOutInv, InsertedOnly
  <2>4. Goes(w, d)
    BY <1>6 DEF FilterActive
  <2> HIDE DEF d
  <2> QED
    BY <1>6, <2>1, <2>2, <2>3, <2>4, MoveKeepsFanOut DEF FilterActive
<1>7. ASSUME NEW w \in Workers, Dispatch(w) PROVE FanOutInv'
  <2>1. PICK e \in drain[w].batch :
            Goes(w, [pc |-> IF Targets(e) = {} THEN "mark" ELSE "enqueue",
                       batch |-> drain[w].batch \ {e}, row |-> e,
                       targets |-> Targets(e)])
    BY <1>7 DEF Dispatch
  <2>2. /\ drain'[w].row = e /\ drain'[w].targets = Targets(e)
        /\ drain'[w].batch = drain[w].batch \ {e}
        /\ drain'[w].pc = "mark" => Targets(e) = {}
        /\ \A v \in Workers \ {w} : drain'[v] = drain[v]
    BY <2>1 DEF Goes, TypeOK
  <2>3. NoSubscriberSkipped' /\ SteadyMatches'
    BY <1>7 DEF Dispatch, FanOutInv, NoSubscriberSkipped, SteadyMatches
  <2>4. InsertedOnly'
    BY <1>7, <2>2 DEF Dispatch, FanOutInv, InsertedOnly, AtRow
  <2>5. e \in Events \ Unknown => steady[e] \subseteq Targets(e)
    BY DEF FanOutInv, SteadyMatches, Targets
  <2>6. StillToAdd'
    BY <1>7, <2>2, <2>5 DEF Dispatch, FanOutInv, StillToAdd, At
  <2> QED
    BY <2>3, <2>4, <2>6 DEF FanOutInv
<1>8. ASSUME NEW w \in Workers, NEW p \in Endpoints, Enqueue(w, p) PROVE FanOutInv'
  <2>1. /\ drain'[w].row = drain[w].row /\ drain'[w].batch = drain[w].batch
        /\ drain'[w].targets = drain[w].targets \ {p}
        /\ drain'[w].pc = IF drain[w].targets = {p} THEN "mark" ELSE "enqueue"
        /\ \A v \in Workers \ {w} : drain'[v] = drain[v]
    BY <1>8 DEF Enqueue, At, Goes, TypeOK, DrainState
  <2>2. added' = added \cup {<<drain[w].row, p>>} /\ UNCHANGED <<status, matching, steady>>
    BY <1>8 DEF Enqueue
  <2>3. NoSubscriberSkipped' /\ SteadyMatches'
    BY <2>2 DEF FanOutInv, NoSubscriberSkipped, SteadyMatches
  <2>4. InsertedOnly'
    BY <1>8, <2>1, <2>2 DEF Enqueue, FanOutInv, InsertedOnly, AtRow, At
  <2>5. StillToAdd'
    BY <1>8, <2>1, <2>2 DEF Enqueue, FanOutInv, StillToAdd, At
  <2> QED
    BY <2>2, <2>3, <2>4, <2>5 DEF FanOutInv
<1>9. ASSUME NEW w \in Workers, MarkPublished(w) \/ GiveUp(w) PROVE FanOutInv'
  <2>1. drain[w].row \in Events /\ AtRow(w)
    BY <1>9 DEF TypeOK, MarkPublished, GiveUp, AtRow, At
  <2>2. /\ drain'[w].row = NoRow /\ drain'[w].batch = drain[w].batch
        /\ drain'[w].pc = "row"
        /\ \A v \in Workers \ {w} : drain'[v] = drain[v]
    <3>1. /\ drain'[w] = BetweenRows(drain[w])
          /\ \A v \in Workers \ {w} : drain'[v] = drain[v]
      BY <1>9 DEF MarkPublished, GiveUp, Goes, TypeOK
    <3>2. drain[w] \in DrainState
      BY DEF TypeOK
    <3> QED
      BY <3>1, <3>2 DEF BetweenRows, DrainState
  <2>3. /\ status'[drain[w].row] # "NONE"
        /\ status'[drain[w].row] = "PUBLISHED" => At(w, "mark")
        /\ \A e \in Events \ {drain[w].row} : status'[e] = status[e]
        /\ UNCHANGED <<matching, steady, added>>
    BY <1>9, <2>1 DEF MarkPublished, GiveUp, TypeOK
  <2>4. NoSubscriberSkipped'
    BY <2>1, <2>3 DEF FanOutInv, NoSubscriberSkipped, StillToAdd
  <2>5. InsertedOnly'
    BY <2>2, <2>3 DEF FanOutInv, InsertedOnly, AtRow, TypeOK, DrainState
  <2>6. SteadyMatches' /\ StillToAdd'
    BY <2>2, <2>3 DEF FanOutInv, SteadyMatches, StillToAdd, At
  <2> QED
    BY <2>4, <2>5, <2>6 DEF FanOutInv
<1>10. ASSUME NEW w \in Workers, MarkFailed(w) PROVE FanOutInv'
  <2> DEFINE d == IF attempts[drain[w].row] + 1 >= MaxAttempts
                  THEN [drain[w] EXCEPT !.pc = "giveUp"] ELSE BetweenRows(drain[w])
  <2>1. DrainOK([drain[w] EXCEPT !.pc = "giveUp"]) /\ DrainOK(BetweenRows(drain[w]))
    BY <1>10, DrainType, BetweenRowsType DEF MarkFailed, At, DrainOK, DrainState, Stages
  <2>2. /\ DrainOK(d) /\ d.batch = drain[w].batch /\ d.pc \in {"giveUp", "row"}
        /\ d.pc = "giveUp" => d.row = drain[w].row
    BY <2>1, DrainType DEF BetweenRows, DrainOK, DrainState
  <2>3. Goes(w, d)
    BY <1>10 DEF MarkFailed
  <2>4. AtRow(w)
    BY <1>10 DEF MarkFailed, At, AtRow
  <2>5. /\ \A e \in d.batch : status[e] # "NONE"
        /\ d.pc = "giveUp" => status[d.row] # "NONE"
    BY <2>2, <2>4 DEF FanOutInv, InsertedOnly
  <2> HIDE DEF d
  <2> QED
    BY <1>10, <2>2, <2>3, <2>5, MoveKeepsFanOut DEF MarkFailed
<1>11. ASSUME NEW w \in Workers, RowThrows(w) PROVE FanOutInv'
  <2> DEFINE d == [drain[w] EXCEPT !.pc = "bump", !.targets = {}]
  <2>1. DrainOK(d)
    BY <1>11, DrainType DEF RowThrows, DrainOK, DrainState, Stages
  <2>2. d.batch = drain[w].batch /\ d.pc = "bump" /\ d.row = drain[w].row
    BY DrainType DEF DrainOK, DrainState
  <2>3. /\ \A e \in d.batch : status[e] # "NONE"
        /\ status[d.row] # "NONE"
    BY <1>11, <2>2 DEF RowThrows, FanOutInv, InsertedOnly, AtRow
  <2>4. Goes(w, d)
    BY <1>11 DEF RowThrows
  <2> HIDE DEF d
  <2> QED
    BY <1>11, <2>1, <2>2, <2>3, <2>4, MoveKeepsFanOut DEF RowThrows
<1>12. ASSUME NEW w \in Workers, EndDrain(w) \/ Abort(w) PROVE FanOutInv'
  BY <1>12, IdleType, MoveKeepsFanOut DEF EndDrain, Abort, Idle
<1>13. (Tick \/ (\E t \in Tenants : ToggleTenant(t)) \/ (\E j \in Jobs : Forget(j))
          \/ UNCHANGED vars) => UNCHANGED <<status, matching, steady, added, drain>>
  BY DEF Tick, ToggleTenant, Forget, vars
<1> QED
  BY <1>1, <1>2, <1>3, <1>4, <1>5, <1>6, <1>7, <1>8, <1>9, <1>10, <1>11, <1>12,
     <1>13 DEF Next, DrainStep

(* However many replicas drain the outbox, whatever throws or crashes: a   *)
(* PUBLISHED row has a job for every endpoint that matched it all along.   *)
THEOREM NeverSkips == Spec => []NoSubscriberSkipped
<1>1. Init => FanOutInv
  BY FanOutInit
<1>2. TypeOK /\ FanOutInv /\ [Next]_vars => FanOutInv'
  BY FanOutStep
<1>3. FanOutInv => NoSubscriberSkipped
  BY DEF FanOutInv
<1> QED
  BY <1>1, <1>2, <1>3, TypeCorrect, PTL DEF Spec

-----------------------------------------------------------------------------
(***************************************************************************)
(* Any number of replicas.  A row that two workers never had in hand at    *)
(* once leaves PENDING only by the hand of the worker that dispatches it,  *)
(* so while a worker holds such a row it is PENDING and nobody else's.     *)
(***************************************************************************)
HoldsPending ==
    \A w \in Workers :
        /\ AtRow(w) => drain[w].row \notin drain[w].batch
        /\ \A e \in Held(w) \ contested :
              status[e] = "PENDING" /\ \A v \in Workers \ {w} : e \notin Held(v)

InHand(d) == d.batch \cup (IF d.pc \in {"enqueue", "mark", "bump", "giveUp"} THEN {d.row} ELSE {})

LEMMA HeldInHand == \A w \in Workers : Held(w) = InHand(drain[w])
  BY DEF Held, InHand, AtRow

LEMMA HeldEvents == TypeOK => \A w \in Workers : Held(w) \subseteq Events
  BY DEF TypeOK, DrainState, Held, AtRow

LEMMA HoldsPendingInit == Init => HoldsPending
  BY DEF Init, HoldsPending, Held, AtRow, Idle

\* A worker that takes up no row, and changes only the status of rows it lets go.
LEMMA GoesKeepsHolding ==
    ASSUME TypeOK, HoldsPending, NEW w \in Workers, NEW d, Goes(w, d),
           InHand(d) \subseteq Held(w),
           d.pc \in {"enqueue", "mark", "bump", "giveUp"} => d.row \notin d.batch,
           contested' = contested,
           \A e \in Events : status'[e] = status[e] \/ (e \in Held(w) /\ e \notin InHand(d))
    PROVE  HoldsPending'
<1>1. drain'[w] = d /\ \A v \in Workers \ {w} : drain'[v] = drain[v]
  BY DEF Goes, TypeOK
<1>2. Held(w)' = InHand(d) /\ \A v \in Workers \ {w} : Held(v)' = Held(v)
  BY <1>1 DEF Held, InHand, AtRow
<1>3. \A v \in Workers : Held(v)' \subseteq Held(v) /\ Held(v) \subseteq Events
  BY <1>2, HeldEvents
<1>4. ASSUME NEW v \in Workers, NEW e \in Held(v)' \ contested'
      PROVE  status'[e] = "PENDING" /\ \A u \in Workers \ {v} : e \notin Held(u)'
  <2>1. e \in Held(v) \ contested /\ e \in Events
    BY <1>3, <1>4
  <2>2. status[e] = "PENDING" /\ \A u \in Workers \ {v} : e \notin Held(u)
    BY <2>1 DEF HoldsPending
  <2>3. status'[e] = status[e]
    BY <1>2, <1>4, <2>1, <2>2
  <2> QED
    BY <1>3, <2>2, <2>3
<1>5. \A v \in Workers : AtRow(v)' => (drain[v].row)' \notin (drain[v].batch)'
  BY <1>1 DEF AtRow, HoldsPending
<1> QED
  BY <1>4, <1>5 DEF HoldsPending

\* A drain takes its batch: what another worker holds is contested from now on.
LEMMA FetchKeepsHolding ==
    ASSUME TypeOK, HoldsPending, NEW w \in Workers, Fetch(w)
    PROVE  HoldsPending'
<1>1. PICK S \in SUBSET Candidates :
          /\ Goes(w, [drain[w] EXCEPT !.pc = "filter", !.batch = S])
          /\ contested' = contested \cup (S \cap HeldByOthers(w))
  BY DEF Fetch
<1>2. drain[w] \in DrainState
  BY DEF TypeOK
<1>3. /\ drain'[w] = [drain[w] EXCEPT !.pc = "filter", !.batch = S]
      /\ \A v \in Workers \ {w} : drain'[v] = drain[v]
  BY <1>1 DEF Goes, TypeOK
<1>4. drain'[w].pc = "filter" /\ drain'[w].batch = S
  BY <1>2, <1>3 DEF DrainState
<1>5. Held(w)' = S /\ \A v \in Workers \ {w} : Held(v)' = Held(v)
  BY <1>3, <1>4 DEF Held, AtRow
<1>6. UNCHANGED status /\ \A e \in S : status[e] = "PENDING"
  BY <1>1 DEF Fetch, Candidates, rows
<1>7. ASSUME NEW v \in Workers, NEW e \in Held(v)' \ contested'
      PROVE  status'[e] = "PENDING" /\ \A u \in Workers \ {v} : e \notin Held(u)'
  <2>1. CASE v = w
    <3>1. e \in S /\ e \notin HeldByOthers(w)
      BY <1>1, <1>5, <1>7, <2>1
    <3> QED
      BY <1>5, <1>6, <2>1, <3>1 DEF HeldByOthers
  <2>2. CASE v # w
    <3>1. e \in Held(v) \ contested /\ e \in HeldByOthers(w)
      BY <1>1, <1>5, <1>7, <2>2 DEF HeldByOthers
    <3>2. e \notin S
      BY <1>1, <1>7, <3>1
    <3>3. status[e] = "PENDING" /\ \A u \in Workers \ {v} : e \notin Held(u)
      BY <3>1 DEF HoldsPending
    <3> QED
      BY <1>5, <1>6, <3>2, <3>3
  <2> QED
    BY <2>1, <2>2
<1>8. \A v \in Workers : AtRow(v)' => (drain[v].row)' \notin (drain[v].batch)'
  BY <1>3, <1>4 DEF AtRow, HoldsPending
<1> QED
  BY <1>7, <1>8 DEF HoldsPending

LEMMA HoldsPendingStep == TypeOK /\ HoldsPending /\ [Next]_vars => HoldsPending'
<1> SUFFICES ASSUME TypeOK, HoldsPending, [Next]_vars PROVE HoldsPending'
  OBVIOUS
<1> USE DEF rows, config, Reads
<1>1. ASSUME UNCHANGED <<status, drain, contested>> PROVE HoldsPending'
  BY <1>1 DEF HoldsPending, Held, AtRow
<1>2. ASSUME NEW e \in Events, Publish(e) PROVE HoldsPending'
  <2>1. status[e] = "NONE" /\ \A f \in Events \ {e} : status'[f] = status[f]
    BY <1>2 DEF Publish, TypeOK
  <2>2. UNCHANGED <<drain, contested>>
    BY <1>2 DEF Publish
  <2>3. \A w \in Workers : Held(w)' = Held(w) /\ Held(w) \subseteq Events
    BY <2>2, HeldEvents DEF Held, AtRow
  <2>4. ASSUME NEW w \in Workers, NEW f \in Held(w) \ contested PROVE status'[f] = "PENDING"
    <3>1. status[f] = "PENDING" /\ f \in Events
      BY <2>3, <2>4 DEF HoldsPending
    <3> QED
      BY <2>1, <3>1
  <2> QED
    BY <2>2, <2>3, <2>4 DEF HoldsPending, AtRow
<1>3. ASSUME NEW w \in Workers, DrainStep(w) \/ RowThrows(w) \/ Abort(w) PROVE HoldsPending'
  <2> USE HeldInHand
  <2>0. drain[w] \in DrainState /\ Held(w) = InHand(drain[w]) /\ Held(w) \subseteq Events
    BY HeldEvents DEF TypeOK
  <2>1. ASSUME NEW d, Goes(w, d), UNCHANGED <<status, contested>>, InHand(d) \subseteq Held(w),
               d.pc \in {"enqueue", "mark", "bump", "giveUp"} => d.row \notin d.batch
        PROVE  HoldsPending'
    BY <2>1, GoesKeepsHolding
  <2>2. CASE StartDrain(w) \/ EndDrain(w) \/ Abort(w)
    <3>1. PICK d : d \in {Idle, [Idle EXCEPT !.pc = "fetch"]} /\ Goes(w, d)
      BY <2>2 DEF StartDrain, EndDrain, Abort
    <3>2. d.batch = {} /\ d.pc \in {"idle", "fetch"}
      BY <3>1 DEF Idle
    <3>3. InHand(d) = {}
      BY <3>2 DEF InHand
    <3> QED
      BY <2>1, <2>2, <3>1, <3>2, <3>3 DEF StartDrain, EndDrain, Abort
  <2>3. CASE Fetch(w)
    BY <2>3, FetchKeepsHolding
  <2>4. CASE FilterActive(w)
    <3>1. PICK d : /\ d = [drain[w] EXCEPT !.pc = "row", !.batch = {e \in @ : TenantOf[e] \in live}]
                   /\ Goes(w, d)
      BY <2>4 DEF FilterActive
    <3>2. d.pc = "row" /\ d.batch \subseteq drain[w].batch
      BY <2>0, <3>1 DEF DrainState
    <3>3. InHand(d) \subseteq Held(w)
      BY <2>0, <3>2 DEF InHand
    <3> QED
      BY <2>1, <2>4, <3>1, <3>2, <3>3 DEF FilterActive
  <2>5. CASE Dispatch(w)
    <3>0. PICK e \in drain[w].batch :
              Goes(w, [pc |-> IF Targets(e) = {} THEN "mark" ELSE "enqueue",
                       batch |-> drain[w].batch \ {e}, row |-> e, targets |-> Targets(e)])
      BY <2>5 DEF Dispatch
    <3>1. PICK d :
              /\ d = [pc |-> IF Targets(e) = {} THEN "mark" ELSE "enqueue",
                      batch |-> drain[w].batch \ {e}, row |-> e, targets |-> Targets(e)]
              /\ Goes(w, d)
      BY <3>0
    <3>2. d.batch = drain[w].batch \ {e} /\ d.row = e
      BY <3>1
    <3>3. InHand(d) \subseteq Held(w)
      BY <2>0, <3>2 DEF InHand
    <3> QED
      BY <2>1, <2>5, <3>1, <3>2, <3>3 DEF Dispatch
  <2>6. CASE (\E p \in Endpoints : Enqueue(w, p)) \/ MarkFailed(w) \/ RowThrows(w)
    <3>1. AtRow(w)
      BY <2>6 DEF Enqueue, MarkFailed, RowThrows, At, AtRow
    <3>2. PICK d : /\ Goes(w, d)
                   /\ d.batch = drain[w].batch
                   /\ d.pc \in {"enqueue", "mark", "bump", "giveUp"} => d.row = drain[w].row
      <4>1. ASSUME NEW p \in Endpoints, Enqueue(w, p)
            PROVE  \E d : /\ Goes(w, d)
                          /\ d.batch = drain[w].batch
                          /\ d.row = drain[w].row
        <5> DEFINE d == [drain[w] EXCEPT !.targets = @ \ {p},
                                         !.pc = IF drain[w].targets = {p} THEN "mark" ELSE @]
        <5>1. d.batch = drain[w].batch /\ d.row = drain[w].row
          BY <2>0 DEF DrainState
        <5>2. Goes(w, d)
          BY <4>1 DEF Enqueue
        <5> HIDE DEF d
        <5> QED
          BY <5>1, <5>2
      <4>2. CASE RowThrows(w)
        <5> DEFINE d == [drain[w] EXCEPT !.pc = "bump", !.targets = {}]
        <5>1. d.batch = drain[w].batch /\ d.row = drain[w].row
          BY <2>0 DEF DrainState
        <5>2. Goes(w, d)
          BY <4>2 DEF RowThrows
        <5> HIDE DEF d
        <5> QED
          BY <5>1, <5>2
      <4>3. CASE MarkFailed(w)
        <5> DEFINE d == IF attempts[drain[w].row] + 1 >= MaxAttempts
                        THEN [drain[w] EXCEPT !.pc = "giveUp"] ELSE BetweenRows(drain[w])
        <5>1. /\ d.batch = drain[w].batch
              /\ d.pc \in {"enqueue", "mark", "bump", "giveUp"} => d.row = drain[w].row
          BY <2>0 DEF DrainState, BetweenRows
        <5>2. Goes(w, d)
          BY <4>3 DEF MarkFailed
        <5> HIDE DEF d
        <5> QED
          BY <5>1, <5>2
      <4> QED
        BY <2>6, <4>1, <4>2, <4>3
    <3>3. drain[w].row \notin drain[w].batch /\ Held(w) = drain[w].batch \cup {drain[w].row}
      BY <3>1 DEF HoldsPending, Held
    <3>4. InHand(d) \subseteq Held(w)
      BY <3>2, <3>3 DEF InHand
    <3>5. UNCHANGED <<status, contested>>
      BY <2>6 DEF Enqueue, MarkFailed, RowThrows
    <3> QED
      BY <2>1, <3>2, <3>3, <3>4, <3>5
  <2>7. CASE MarkPublished(w) \/ GiveUp(w)
    <3>1. AtRow(w) /\ Goes(w, BetweenRows(drain[w])) /\ UNCHANGED contested
      BY <2>7 DEF MarkPublished, GiveUp, At, AtRow
    <3>2. PICK d : d = BetweenRows(drain[w])
      OBVIOUS
    <3>3. d.batch = drain[w].batch /\ d.pc = "row"
      BY <2>0, <3>2 DEF BetweenRows, DrainState
    <3>4. drain[w].row \notin drain[w].batch /\ Held(w) = drain[w].batch \cup {drain[w].row}
      BY <3>1 DEF HoldsPending, Held
    <3>5. InHand(d) = drain[w].batch
      BY <3>3 DEF InHand
    <3>6. \A e \in Events : status'[e] = status[e] \/ e = drain[w].row
      BY <2>7 DEF MarkPublished, GiveUp, TypeOK
    <3>7. \A e \in Events : status'[e] = status[e] \/ (e \in Held(w) /\ e \notin InHand(d))
      BY <3>4, <3>5, <3>6
    <3> QED
      BY <3>1, <3>2, <3>3, <3>4, <3>5, <3>7, GoesKeepsHolding
  <2> QED
    BY <1>3, <2>2, <2>3, <2>4, <2>5, <2>6, <2>7 DEF DrainStep
<1>4. (Tick \/ (\E t \in Tenants : ToggleTenant(t)) \/ (\E j \in Jobs : Forget(j))
          \/ (\E p \in Endpoints : ToggleEndpoint(p)) \/ UNCHANGED vars)
            => UNCHANGED <<status, drain, contested>>
  BY DEF Tick, ToggleTenant, ToggleEndpoint, Forget, vars
<1> QED
  BY <1>1, <1>2, <1>3, <1>4 DEF Next

\* What a step does to a row that is settled and was never contested.
LEMMA PendingBoundary ==
    ASSUME TypeOK, HoldsPending, [Next]_vars, NEW e \in Events \ contested, Final(e)
    PROVE  Untouched(e)
<1> USE DEF rows, config, Reads
<1>0. status[e] \notin {"NONE", "PENDING"} /\ \A w \in Workers : e \notin Held(w)
  BY DEF Final, HoldsPending
<1>1. ASSUME UNCHANGED <<status, queued>> PROVE Untouched(e)
  BY <1>1 DEF Untouched
<1>2. ASSUME NEW f \in Events, Publish(f) PROVE Untouched(e)
  BY <1>0, <1>2 DEF Publish, TypeOK, Untouched
<1>3. ASSUME NEW w \in Workers, DrainStep(w) \/ RowThrows(w) \/ Abort(w) PROVE Untouched(e)
  <2>1. CASE MarkPublished(w) \/ GiveUp(w)
    <3>1. drain[w].row # e
      BY <1>0, <2>1 DEF MarkPublished, GiveUp, Held, At, AtRow
    <3> QED
      BY <2>1, <3>1 DEF MarkPublished, GiveUp, TypeOK, Untouched
  <2>2. ASSUME NEW p \in Endpoints, Enqueue(w, p) PROVE Untouched(e)
    <3>1. drain[w].row # e
      BY <1>0, <2>2 DEF Enqueue, Held, At, AtRow
    <3> QED
      BY <2>2, <3>1 DEF Enqueue, Untouched
  <2>3. (StartDrain(w) \/ Fetch(w) \/ FilterActive(w) \/ Dispatch(w) \/ MarkFailed(w)
           \/ EndDrain(w) \/ RowThrows(w) \/ Abort(w)) => UNCHANGED <<status, queued>>
    BY DEF StartDrain, Fetch, FilterActive, Dispatch, MarkFailed, EndDrain, RowThrows, Abort
  <2> QED
    BY <1>1, <1>3, <2>1, <2>2, <2>3 DEF DrainStep
<1>4. ASSUME NEW j \in Jobs, Forget(j) PROVE Untouched(e)
  BY <1>4 DEF Forget, Untouched
<1>5. (Tick \/ (\E t \in Tenants : ToggleTenant(t)) \/ (\E p \in Endpoints : ToggleEndpoint(p))
         \/ UNCHANGED vars) => UNCHANGED <<status, queued>>
  BY DEF Tick, ToggleTenant, ToggleEndpoint, vars
<1> QED
  BY <1>1, <1>2, <1>3, <1>4, <1>5 DEF Next

(* However many replicas drain the outbox: a settled row is written or       *)
(* fanned out again only after two drainers had it in hand at once.          *)
THEOREM OnlyRivalsResettle == Spec => ResettledOnlyByRival
<1>1. TypeOK /\ HoldsPending /\ [Next]_vars =>
        [\A e \in Events \ contested : Final(e) => Untouched(e)]_vars
  BY PendingBoundary
<1> QED
  BY <1>1, HoldsPendingInit, HoldsPendingStep, TypeCorrect, PTL DEF Spec, ResettledOnlyByRival
=============================================================================
