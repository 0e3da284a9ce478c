------------------------ MODULE WebhookPipelineProofs -----------------------
(***************************************************************************)
(* Theorems about WebhookPipeline, for any number of rows, endpoints,      *)
(* tenants, replicas and executions.                                       *)
(***************************************************************************)
EXTENDS WebhookPipeline, TLAPS

PP == INSTANCE OutboxPollerProofs WITH
        queued <- {j \in Jobs : job[j].state # "absent"},
        matching <- active

USE PipelineAssumption DEF PipelineAssumption

-----------------------------------------------------------------------------
(* The inductive invariant.                                                *)

JobRecords == [state : D!States, made : Nat, stalls : Nat]
SlotStates == [pc : D!Stages, job : SUBSET Jobs, made : Nat, answer : D!Answers, owner : BOOLEAN]

Runs(s, j) == exec[s].job = {j}
Inserted == {e \in Events : status[e] # "NONE"}

QueueTyped ==
    /\ job \in [Jobs -> JobRecords]
    /\ exec \in [Slots -> SlotStates]
    /\ active \subseteq Endpoints \ deleted
    /\ \A s \in Slots : \/ exec[s].pc = "idle" /\ exec[s].job = {}
                        \/ exec[s].pc # "idle" /\ \E j \in Jobs : Runs(s, j)

\* The poller handles rows that exist, and endpoints of their tenant.
DrainOK(d) ==
    /\ d.batch \subseteq Inserted
    /\ d.pc \in {"enqueue", "mark", "bump", "giveUp"} => d.row \in Inserted
    /\ d.pc = "enqueue" => d.targets \subseteq P!EndpointsOf(d.row)

PollerOK ==
    /\ status \in [Events -> P!Statuses]
    /\ drain \in [Workers -> P!DrainState]
    /\ steady \in [Events -> SUBSET active]
    /\ \A w \in Workers : DrainOK(drain[w])

\* A job is of a row that exists, and the queue knows it or has forgotten it.
Known(j) == j[1] \in Inserted /\ (job[j].state # "absent" \/ j \in forgotten)

\* What the poller added, or a slot runs, or a subscriber accepted, is known.
JobsKnown ==
    \A j \in Jobs :
        /\ j \in added \/ j \in accepted \/ job[j].state # "absent" => Known(j)
        /\ \A s \in Slots : Runs(s, j) => Known(j)

\* One execution holds the lock of an active job; the others lost it.
LockOK ==
    \A s \in Slots, j \in Jobs : Runs(s, j) =>
        /\ exec[s].owner => job[j].state = "active"
        /\ ~exec[s].owner => j \in troubled
        /\ \A t \in Slots \ {s} : Runs(t, j) => ~exec[s].owner \/ ~exec[t].owner

\* A dead letter is kept for as long as its endpoint exists.
Filed(j) == j \in dead \/ EndpointOf[j] \in deleted

\* A finished job has a verdict, a reason, or a mishap on record.
Accounted(j) ==
    \/ j \in accepted \cup troubled
    \/ Filed(j)
    \/ skipped \cap ({j} \X D!Reasons) # {}

FinishedAccounted ==
    \A j \in Jobs : Finished(j) \/ j \in forgotten => Accounted(j)

\* What an execution has recorded before it settles the job.
StageOK(x, j) ==
    /\ x.pc \in {"persist", "account", "disable"} => x.answer # "none"
    /\ x.pc \notin {"persist", "account", "disable"} => x.answer = "none"
    /\ x.answer = "ok" => j \in accepted
    /\ x.pc \in {"account", "disable"} =>
          /\ x.answer = "gone" => Filed(j)
          /\ x.answer = "error" /\ Attempts <= x.made + 1 => Filed(j)
    /\ x.pc = "disable" => x.answer = "error"
    /\ x.pc = "reject" => Filed(j)

USE DEF Filed

StagesOK == \A s \in Slots, j \in Jobs : Runs(s, j) => StageOK(exec[s], j)

\* An endpoint that a job was dropped for has not matched all along.
DroppedUnsteady ==
    \A j \in Jobs : <<j, "endpoint">> \in skipped
                       => j[1] \in Inserted /\ j[2] \notin steady[j[1]]

\* A job that was accepted and may run again stalled, lost a call or was evicted.
Excused(j) == j \in accepted => j \in troubled \cup forgotten

NotAgain ==
    \A j \in Jobs :
        /\ job[j].state = "waiting" => Excused(j)
        /\ \A s \in Slots : Runs(s, j) /\ exec[s].answer # "ok" => Excused(j)

Inv == /\ QueueTyped /\ PollerOK
       /\ JobsKnown /\ LockOK /\ FinishedAccounted /\ StagesOK /\ DroppedUnsteady /\ NotAgain

LEMMA InvInit == Init => Inv
<1> SUFFICES ASSUME Init PROVE Inv
  OBVIOUS
<1>0. Init /\ D!Init /\ P!Init
  BY DEF Init
<1>1. QueueTyped
  BY <1>0 DEF D!Init, QueueTyped, JobRecords, SlotStates, D!Absent, D!Free, D!States, D!Stages,
     D!Answers
<1>2. PollerOK
  BY <1>0 DEF P!Init, PollerOK, P!Statuses, P!DrainState, P!Stages, P!Idle, DrainOK
<1>3. \A s \in Slots, j \in Jobs : ~Runs(s, j)
  BY <1>0 DEF D!Init, Runs, D!Free
<1>4. JobsKnown /\ LockOK /\ StagesOK /\ NotAgain /\ FinishedAccounted /\ DroppedUnsteady
  BY <1>0, <1>3 DEF D!Init, P!Init, JobsKnown, LockOK, StagesOK, NotAgain, FinishedAccounted,
     DroppedUnsteady, Finished, D!Absent
<1> QED
  BY <1>1, <1>2, <1>4 DEF Inv

-----------------------------------------------------------------------------
(* Steps of the poller.  The queue is as it was; rows are only inserted.   *)

LEMMA QueueStill ==
    ASSUME Inv, UNCHANGED queueVars, added' = added, PollerOK', Inserted \subseteq Inserted',
           \A e \in Inserted : steady'[e] = steady[e]
    PROVE  Inv'
<1> USE DEF queueVars
<1>1. QueueTyped' /\ LockOK' /\ FinishedAccounted' /\ StagesOK' /\ NotAgain'
  BY DEF Inv, QueueTyped, LockOK, FinishedAccounted, StagesOK, NotAgain, Runs, Finished, Accounted,
     StageOK, Excused
<1>2. JobsKnown' /\ DroppedUnsteady'
  BY DEF Inv, JobsKnown, Known, Runs, DroppedUnsteady
<1> QED
  BY <1>1, <1>2 DEF Inv

\* A step of one replica that moves no row to NONE.
LEMMA DrainMoves ==
    ASSUME Inv, UNCHANGED queueVars, UNCHANGED <<steady, added>>,
           NEW w \in Workers, NEW d \in P!DrainState, DrainOK(d), P!Goes(w, d),
           status' \in [Events -> P!Statuses], Inserted \subseteq Inserted'
    PROVE  Inv'
<1>1. PollerOK
  BY DEF Inv
<1>2. drain' \in [Workers -> P!DrainState] /\ \A v \in Workers : drain'[v] = IF v = w THEN d ELSE drain[v]
  BY <1>1 DEF PollerOK, P!Goes
<1>3. \A v \in Workers : DrainOK(drain[v])'
  BY <1>1, <1>2 DEF PollerOK, DrainOK, P!EndpointsOf
<1>4. PollerOK'
  BY <1>1, <1>2, <1>3 DEF PollerOK, queueVars
<1> QED
  BY <1>4, QueueStill

LEMMA PollerKeeps ==
    ASSUME Inv, PollerStep
    PROVE  Inv'
<1>0. UNCHANGED queueVars /\ PollerOK
  BY DEF PollerStep, Inv
<1> USE DEF P!Reads, P!rows, P!config, P!At
<1>1. ASSUME NEW e \in Events, P!Publish(e) PROVE Inv'
  <2>1. /\ status[e] = "NONE" /\ status' = [status EXCEPT ![e] = "PENDING"]
        /\ steady' = [steady EXCEPT ![e] = active \cap P!EndpointsOf(e)]
        /\ UNCHANGED <<active, drain, added>>
    BY <1>0, <1>1 DEF P!Publish, queueVars
  <2>2. Inserted \subseteq Inserted' /\ \A f \in Inserted : steady'[f] = steady[f]
    BY <1>0, <2>1 DEF Inserted, PollerOK
  <2>3. \A w \in Workers : DrainOK(drain[w])'
    BY <1>0, <2>1, <2>2 DEF PollerOK, DrainOK, P!EndpointsOf
  <2>4. PollerOK'
    BY <1>0, <2>1, <2>3 DEF PollerOK, P!Statuses
  <2> QED
    BY <1>0, <2>1, <2>2, <2>4, QueueStill
<1>2. CASE P!Tick
  <2>1. UNCHANGED <<status, steady, active, drain, added>>
    BY <1>0, <1>2 DEF P!Tick, queueVars
  <2>2. PollerOK' /\ Inserted \subseteq Inserted' /\ \A f \in Inserted : steady'[f] = steady[f]
    BY <1>0, <2>1 DEF PollerOK, DrainOK, Inserted, P!EndpointsOf
  <2> QED
    BY <1>0, <2>1, <2>2, QueueStill
<1>3. ASSUME NEW w \in Workers, NEW d, d \in P!DrainState, DrainOK(d), P!Goes(w, d),
             UNCHANGED <<steady, added>>, status' \in [Events -> P!Statuses],
             Inserted \subseteq Inserted'
      PROVE  Inv'
  BY <1>0, <1>3, DrainMoves
<1>4. ASSUME NEW w \in Workers
      PROVE  /\ drain[w] \in P!DrainState /\ DrainOK(drain[w])
             /\ UNCHANGED status => status' \in [Events -> P!Statuses] /\ Inserted \subseteq Inserted'
             /\ P!Idle \in P!DrainState /\ DrainOK(P!Idle)
             /\ P!BetweenRows(drain[w]) \in P!DrainState /\ DrainOK(P!BetweenRows(drain[w]))
             /\ drain[w].batch \subseteq Events
             /\ \A e \in Events, v \in P!Statuses \ {"NONE"} :
                    status' = [status EXCEPT ![e] = v] => status' \in [Events -> P!Statuses]
                                                          /\ Inserted \subseteq Inserted'
  <2>1. drain[w] \in P!DrainState /\ DrainOK(drain[w])
    BY <1>0 DEF PollerOK
  <2>2. P!Idle \in P!DrainState /\ DrainOK(P!Idle)
    BY DEF DrainOK, P!Idle, P!DrainState, P!Stages
  <2>3. P!BetweenRows(drain[w]) \in P!DrainState /\ DrainOK(P!BetweenRows(drain[w]))
    BY <2>1 DEF DrainOK, P!BetweenRows, P!DrainState, P!Stages
  <2>4. ASSUME NEW e \in Events, NEW v \in P!Statuses \ {"NONE"}, status' = [status EXCEPT ![e] = v]
        PROVE  status' \in [Events -> P!Statuses] /\ Inserted \subseteq Inserted'
    BY <1>0, <2>4 DEF PollerOK, Inserted
  <2> QED
    BY <1>0, <2>1, <2>2, <2>3, <2>4 DEF PollerOK, DrainOK, Inserted
<1>5. ASSUME NEW w \in Workers, P!StartDrain(w) PROVE Inv'
  <2>1. PICK d : d = [P!Idle EXCEPT !.pc = "fetch"]
    OBVIOUS
  <2>2. d \in P!DrainState /\ DrainOK(d)
    BY <2>1 DEF DrainOK, P!Idle, P!DrainState, P!Stages
  <2> QED
    BY <1>3, <1>4, <1>5, <2>1, <2>2 DEF P!StartDrain
<1>6. ASSUME NEW w \in Workers, P!Fetch(w) PROVE Inv'
  <2>1. PICK S \in SUBSET P!Candidates :
            P!Goes(w, [drain[w] EXCEPT !.pc = "filter", !.batch = S])
    BY <1>6 DEF P!Fetch
  <2>2. PICK d : d = [drain[w] EXCEPT !.pc = "filter", !.batch = S]
    OBVIOUS
  <2>3. d \in P!DrainState /\ DrainOK(d)
    BY <1>4, <2>2 DEF DrainOK, P!DrainState, P!Stages, P!Candidates, Inserted
  <2> QED
    BY <1>3, <1>4, <1>6, <2>1, <2>2, <2>3 DEF P!Fetch
<1>7. ASSUME NEW w \in Workers, P!FilterActive(w) PROVE Inv'
  <2>1. PICK d : d = [drain[w] EXCEPT !.pc = "row", !.batch = {e \in @ : TenantOf[e] \in live}]
    OBVIOUS
  <2>2. d \in P!DrainState /\ DrainOK(d)
    BY <1>4, <2>1 DEF DrainOK, P!DrainState, P!Stages
  <2> QED
    BY <1>3, <1>4, <1>7, <2>1, <2>2 DEF P!FilterActive
<1>8. ASSUME NEW w \in Workers, P!Dispatch(w) PROVE Inv'
  <2>1. PICK e \in drain[w].batch :
            P!Goes(w, [pc |-> IF P!Targets(e) = {} THEN "mark" ELSE "enqueue",
                         batch |-> drain[w].batch \ {e}, row |-> e, targets |-> P!Targets(e)])
    BY <1>8 DEF P!Dispatch
  <2>2. PICK d : d = [pc |-> IF P!Targets(e) = {} THEN "mark" ELSE "enqueue",
                      batch |-> drain[w].batch \ {e}, row |-> e, targets |-> P!Targets(e)]
    OBVIOUS
  <2>3. P!Targets(e) \subseteq P!EndpointsOf(e) /\ P!EndpointsOf(e) \subseteq Endpoints
    BY DEF P!Targets, P!EndpointsOf
  <2>4. e \in Events /\ e \in Inserted /\ drain[w].batch \subseteq Inserted
    BY <1>4 DEF DrainOK, Inserted
  <2>5. d \in P!DrainState /\ DrainOK(d)
    BY <1>4, <2>2, <2>3, <2>4 DEF DrainOK, P!DrainState, P!Stages
  <2> QED
    BY <1>3, <1>4, <1>8, <2>1, <2>2, <2>5 DEF P!Dispatch
<1>9. ASSUME NEW w \in Workers, P!MarkPublished(w) \/ P!GiveUp(w) PROVE Inv'
  <2>1. drain[w].row \in Events /\ "PUBLISHED" \in P!Statuses \ {"NONE"}
        /\ "FAILED" \in P!Statuses \ {"NONE"}
    BY <1>4, <1>9 DEF DrainOK, Inserted, P!MarkPublished, P!GiveUp, P!Statuses
  <2> QED
    BY <1>3, <1>4, <1>9, <2>1 DEF P!MarkPublished, P!GiveUp
<1>10. ASSUME NEW w \in Workers, P!RowThrows(w) PROVE Inv'
  <2>1. PICK d : d = [drain[w] EXCEPT !.pc = "bump", !.targets = {}]
    OBVIOUS
  <2>2. d \in P!DrainState /\ DrainOK(d)
    BY <1>4, <1>10, <2>1 DEF DrainOK, P!DrainState, P!Stages, P!RowThrows
  <2> QED
    BY <1>3, <1>4, <1>10, <2>1, <2>2 DEF P!RowThrows
<1>11. ASSUME NEW w \in Workers, P!MarkFailed(w) PROVE Inv'
  <2>1. PICK d : d = [drain[w] EXCEPT !.pc = "giveUp"]
    OBVIOUS
  <2>2. d \in P!DrainState /\ DrainOK(d)
    BY <1>4, <1>11, <2>1 DEF DrainOK, P!DrainState, P!Stages, P!MarkFailed
  <2>3. P!Goes(w, d) \/ P!Goes(w, P!BetweenRows(drain[w]))
    BY <1>11, <2>1 DEF P!MarkFailed
  <2>4. UNCHANGED <<status, steady, added>>
    BY <1>11 DEF P!MarkFailed
  <2> QED
    BY <1>3, <1>4, <2>2, <2>3, <2>4
<1>12. ASSUME NEW w \in Workers, P!EndDrain(w) \/ P!Abort(w) PROVE Inv'
  BY <1>3, <1>4, <1>12 DEF P!EndDrain, P!Abort
<1> QED
  BY <1>1, <1>2, <1>5, <1>6, <1>7, <1>8, <1>9, <1>10, <1>11, <1>12 DEF PollerStep

\* The poller's add: the queue learns of the job, unless it still knows it.
LEMMA AddKeeps ==
    ASSUME Inv, NEW w \in Workers, NEW p \in Endpoints, Add(w, p)
    PROVE  Inv'
<1>1. PICK j, b, d :
          /\ j = <<drain[w].row, p>>
          /\ b = IF job[j].state = "absent" THEN [job[j] EXCEPT !.state = "waiting"] ELSE job[j]
          /\ d = [drain[w] EXCEPT !.targets = @ \ {p},
                                  !.pc = IF drain[w].targets = {p} THEN "mark" ELSE @]
  OBVIOUS
<1>2. /\ drain[w].pc = "enqueue" /\ p \in drain[w].targets /\ D!Offer(j) /\ P!Goes(w, d)
      /\ added' = added \cup {j}
      /\ UNCHANGED <<status, active, steady>> /\ QueueTyped /\ PollerOK
  BY <1>1 DEF Add, P!Enqueue, P!At, P!rows, P!config, Inv
<1>3. j \in Jobs /\ j[1] \in Inserted
  BY <1>1, <1>2 DEF PollerOK, DrainOK, P!EndpointsOf, Jobs, Inserted
<1>4. /\ UNCHANGED <<exec, active, deleted, dead, accepted, skipped, troubled, forgotten>>
      /\ b \in JobRecords /\ b.state # "absent"
      /\ b.state = IF job[j].state = "absent" THEN "waiting" ELSE job[j].state
      /\ \A i \in Jobs : job'[i] = IF i = j THEN b ELSE job[i]
      /\ job' \in [Jobs -> JobRecords]
  <2>1. b \in JobRecords /\ b.state # "absent"
        /\ b.state = IF job[j].state = "absent" THEN "waiting" ELSE job[j].state
    BY <1>1, <1>2, <1>3 DEF QueueTyped, JobRecords, D!States
  <2>2. job' = [job EXCEPT ![j] = b]
    BY <1>1, <1>2, <1>3 DEF D!Offer, QueueTyped
  <2> QED
    BY <1>2, <1>3, <2>1, <2>2 DEF D!Offer, D!endpointVars, D!history, QueueTyped
<1>5. QueueTyped'
  BY <1>2, <1>4 DEF QueueTyped, Runs
<1>6. PollerOK'
  <2>1. d \in P!DrainState /\ DrainOK(d)
    BY <1>1, <1>2 DEF PollerOK, DrainOK, P!DrainState, P!Stages
  <2>2. /\ drain' \in [Workers -> P!DrainState]
        /\ \A v \in Workers : drain'[v] = IF v = w THEN d ELSE drain[v]
    BY <1>2, <2>1 DEF PollerOK, P!Goes
  <2>3. \A v \in Workers : DrainOK(drain[v])'
    BY <1>2, <2>1, <2>2 DEF PollerOK, DrainOK, P!EndpointsOf, Inserted
  <2> QED
    BY <1>2, <2>2, <2>3 DEF PollerOK
<1>7. Inserted' = Inserted
  BY <1>2 DEF Inserted
<1>8. JobsKnown'
  BY <1>2, <1>3, <1>4, <1>7 DEF Inv, JobsKnown, Known, Runs
<1>9. LockOK' /\ StagesOK' /\ DroppedUnsteady'
  BY <1>2, <1>4, <1>7 DEF Inv, LockOK, StagesOK, StageOK, DroppedUnsteady, Runs
<1>10. FinishedAccounted'
  BY <1>4 DEF Inv, FinishedAccounted, Finished, Accounted
<1>11. NotAgain'
  BY <1>3, <1>4 DEF Inv, NotAgain, JobsKnown, Known, Excused, Runs
<1> QED
  BY <1>5, <1>6, <1>8, <1>9, <1>10, <1>11 DEF Inv

-----------------------------------------------------------------------------
(* Steps of an execution.                                                  *)

\* Slot s, which runs j, becomes x and leaves the queue's record b of the job;
\* only the holder of the lock writes it.
SlotMoves(s, j, x, b) ==
    /\ x \in SlotStates /\ (x = D!Free \/ (x.pc # "idle" /\ x.job = {j}))
    /\ b \in JobRecords /\ (b = job[j] \/ (exec[s].owner /\ b.state # "absent"))
    /\ exec' = [exec EXCEPT ![s] = x]
    /\ job' = [job EXCEPT ![j] = b]
    /\ accepted' \in {accepted, accepted \cup {j}}
    /\ dead \subseteq dead' /\ troubled \subseteq troubled' /\ skipped \subseteq skipped'
    /\ \A i \in Jobs : <<i, "endpoint">> \in skipped' \ skipped => i = j /\ j[2] \notin active
    /\ active' \subseteq active
    /\ Resubscribed
    /\ UNCHANGED <<deleted, status, drain, added, forgotten>>

LEMMA SlotStep ==
    ASSUME Inv, NEW s \in Slots, NEW j \in Jobs, NEW x, NEW b, Runs(s, j), SlotMoves(s, j, x, b),
           x # D!Free => /\ StageOK(x, j)'
                         /\ x.owner => exec[s].owner /\ b = job[j]
                         /\ ~x.owner => j \in troubled'
                         /\ x.answer # "ok" => Excused(j)',
           b # job[j] => /\ b.state \in {"completed", "failed"} => Accounted(j)'
                         /\ b.state = "waiting" => Excused(j)'
    PROVE  Inv'
<1> USE DEF SlotMoves
<1>0. /\ QueueTyped /\ PollerOK /\ JobsKnown /\ LockOK /\ FinishedAccounted /\ StagesOK
      /\ DroppedUnsteady /\ NotAgain
  BY DEF Inv
<1>1. /\ \A t \in Slots : exec'[t] = IF t = s THEN x ELSE exec[t]
      /\ \A i \in Jobs : job'[i] = IF i = j THEN b ELSE job[i]
      /\ exec' \in [Slots -> SlotStates] /\ job' \in [Jobs -> JobRecords]
  BY <1>0 DEF QueueTyped
<1>2. D!Free.job = {} /\ D!Free.pc = "idle"
  BY DEF D!Free
<1>3. /\ \A t \in Slots, i \in Jobs : t # s => (Runs(t, i)' <=> Runs(t, i))
      /\ \A i \in Jobs : Runs(s, i)' <=> i = j /\ x # D!Free
  BY <1>1, <1>2 DEF Runs
<1>4. QueueTyped'
  BY <1>0, <1>1, <1>2, <1>3 DEF QueueTyped, Runs
<1>5. /\ \A e \in Events : steady'[e] = steady[e] \cap (active \cap active')
      /\ PollerOK' /\ Inserted' = Inserted
  BY <1>0 DEF PollerOK, Resubscribed, DrainOK, P!EndpointsOf, Inserted
<1>6. Known(j) /\ Known(j)'
  BY <1>0, <1>1, <1>5 DEF JobsKnown, Known
<1>7. JobsKnown'
  BY <1>0, <1>1, <1>3, <1>5, <1>6 DEF JobsKnown, Known
<1>8. LockOK'
  <2> SUFFICES ASSUME NEW t \in Slots, NEW i \in Jobs, Runs(t, i)'
               PROVE  /\ exec'[t].owner => job'[i].state = "active"
                      /\ ~exec'[t].owner => i \in troubled'
                      /\ \A u \in Slots \ {t} : Runs(u, i)' => ~exec'[t].owner \/ ~exec'[u].owner
    BY DEF LockOK
  <2>1. CASE t = s
    BY <1>0, <1>1, <1>3, <2>1 DEF LockOK
  <2>2. CASE t # s
    BY <1>0, <1>1, <1>3, <2>2 DEF LockOK
  <2> QED
    BY <2>1, <2>2
<1>9. \A i \in Jobs : Accounted(i) => Accounted(i)'
  BY DEF Accounted
<1>10. FinishedAccounted'
  BY <1>0, <1>1, <1>9 DEF FinishedAccounted, Finished
<1>11. StagesOK'
  <2>1. \A t \in Slots : exec[t] \in SlotStates
    BY <1>0 DEF QueueTyped
  <2>2. ASSUME NEW t \in Slots, NEW i \in Jobs, Runs(t, i)', t # s PROVE StageOK(exec[t], i)'
    BY <1>0, <1>1, <1>3, <2>2 DEF StagesOK, StageOK
  <2>3. ASSUME NEW i \in Jobs, Runs(s, i)' PROVE StageOK(exec[s], i)'
    BY <1>1, <1>3, <2>3
  <2> QED
    BY <2>2, <2>3 DEF StagesOK
<1>12. DroppedUnsteady'
  BY <1>0, <1>5, <1>6 DEF DroppedUnsteady, Known, Inserted, Jobs
<1>13. NotAgain'
  <2>1. \A i \in Jobs \ {j} : Excused(i) => Excused(i)'
    BY DEF Excused
  <2>3. ASSUME job'[j].state = "waiting" PROVE Excused(j)'
    BY <1>0, <1>1, <2>3 DEF NotAgain, Excused, LockOK
  <2>4. ASSUME NEW t \in Slots, Runs(t, j)', exec'[t].answer # "ok" PROVE Excused(j)'
    <3>1. CASE t = s
      BY <1>1, <1>3, <2>4, <3>1
    <3>2. CASE t # s
      BY <1>0, <1>1, <1>3, <2>4, <3>2 DEF NotAgain, Excused, LockOK
    <3> QED
      BY <3>1, <3>2
  <2> QED
    BY <1>0, <1>1, <1>3, <2>1, <2>3, <2>4 DEF NotAgain
<1> QED
  BY <1>4, <1>5, <1>7, <1>8, <1>10, <1>11, <1>12, <1>13 DEF Inv

LEMMA JobOfIs ==
    ASSUME QueueTyped, NEW s \in Slots, exec[s].pc # "idle"
    PROVE  D!JobOf(s) \in Jobs /\ Runs(s, D!JobOf(s))
<1>1. PICK j \in Jobs : Runs(s, j)
  BY DEF QueueTyped
<1>2. \A i : i \in exec[s].job <=> i = j
  BY <1>1 DEF Runs
<1>3. D!JobOf(s) = CHOOSE i \in Jobs : i \in exec[s].job
  BY DEF D!JobOf
<1>4. D!JobOf(s) \in Jobs /\ D!JobOf(s) \in exec[s].job
  BY <1>2, <1>3
<1> QED
  BY <1>1, <1>2, <1>4 DEF Runs

\* How an execution ends: what Complete and Throw make of slot and record.
Ended(s, j, b) ==
    /\ exec' = [exec EXCEPT ![s] = D!Free] /\ job' = [job EXCEPT ![j] = b]
    /\ b \in JobRecords /\ (b = job[j] \/ (exec[s].owner /\ b.state # "absent"))

LEMMA CompleteEnds ==
    ASSUME Inv, NEW s \in Slots, NEW j \in Jobs, j = D!JobOf(s), D!Complete(s)
    PROVE  \E b : Ended(s, j, b) /\ (b # job[j] => b.state = "completed")
<1>1. PICK b : b = IF exec[s].owner THEN [job[j] EXCEPT !.state = "completed"] ELSE job[j]
  OBVIOUS
<1>2. job[j] \in JobRecords /\ QueueTyped
  BY DEF Inv, QueueTyped
<1>3. b \in JobRecords /\ (b # job[j] => exec[s].owner /\ b.state = "completed")
  BY <1>1, <1>2 DEF JobRecords, D!States
<1>4. exec' = [exec EXCEPT ![s] = D!Free] /\ job' = [job EXCEPT ![j] = b]
  BY <1>1, <1>2 DEF D!Complete, QueueTyped
<1> QED
  BY <1>3, <1>4 DEF Ended

LEMMA ThrowEnds ==
    ASSUME Inv, NEW s \in Slots, NEW j \in Jobs, j = D!JobOf(s), D!Throw(s)
    PROVE  \E b : /\ Ended(s, j, b)
                  /\ b # job[j] => \/ b.state = "waiting" /\ exec[s].made + 1 < Attempts
                                   \/ b.state = "failed" /\ ~(exec[s].made + 1 < Attempts)
<1>1. PICK m, st, b :
          /\ m = exec[s].made + 1 /\ st = IF m < Attempts THEN "waiting" ELSE "failed"
          /\ b = IF exec[s].owner THEN [job[j] EXCEPT !.made = m, !.state = st] ELSE job[j]
  OBVIOUS
<1>2. job[j] \in JobRecords /\ QueueTyped /\ exec[s] \in SlotStates
  BY DEF Inv, QueueTyped
<1>3. m \in Nat /\ st \in {"waiting", "failed"} /\ (st = "waiting" <=> m < Attempts)
  BY <1>1, <1>2 DEF SlotStates
<1>4. b \in JobRecords /\ (b # job[j] => exec[s].owner /\ b.state = st)
  BY <1>1, <1>2, <1>3 DEF JobRecords, D!States
<1>5. exec' = [exec EXCEPT ![s] = D!Free] /\ job' = [job EXCEPT ![j] = b]
  BY <1>1, <1>2 DEF D!Throw, QueueTyped
<1>6. Ended(s, j, b)
  BY <1>3, <1>4, <1>5 DEF Ended
<1> QED
  BY <1>1, <1>3, <1>4, <1>6

LEMMA EndStep ==
    ASSUME Inv, NEW s \in Slots, NEW j \in Jobs, NEW b, Runs(s, j), Ended(s, j, b),
           dead \subseteq dead', troubled \subseteq troubled', skipped \subseteq skipped',
           \A i \in Jobs : <<i, "endpoint">> \in skipped' \ skipped => i = j /\ j[2] \notin active,
           active' \subseteq active, Resubscribed,
           UNCHANGED <<accepted, deleted, status, drain, added, forgotten>>,
           b # job[j] => /\ b.state \in {"completed", "failed"} => Accounted(j)'
                         /\ b.state = "waiting" => Excused(j)'
    PROVE  Inv'
<1>1. D!Free \in SlotStates
  BY DEF D!Free, SlotStates, D!Stages, D!Answers
<1>2. SlotMoves(s, j, D!Free, b)
  BY <1>1 DEF SlotMoves, Ended
<1> QED
  BY <1>2, SlotStep

LEMMA GoStep ==
    ASSUME Inv, NEW s \in Slots, NEW j \in Jobs, NEW x \in SlotStates, Runs(s, j),
           x.pc # "idle", x.job = {j}, x.owner = exec[s].owner,
           exec' = [exec EXCEPT ![s] = x], job' = job,
           accepted' \in {accepted, accepted \cup {j}}, dead \subseteq dead',
           UNCHANGED <<troubled, skipped, active>>, Resubscribed,
           UNCHANGED <<deleted, status, drain, added, forgotten>>,
           StageOK(x, j)', x.answer # "ok" => Excused(j)'
    PROVE  Inv'
<1>0. QueueTyped /\ LockOK
  BY DEF Inv
<1>1. job' = [job EXCEPT ![j] = job[j]] /\ job[j] \in JobRecords
  BY <1>0 DEF QueueTyped
<1>2. SlotMoves(s, j, x, job[j])
  BY <1>1 DEF SlotMoves
<1>3. ~x.owner => j \in troubled'
  BY <1>0 DEF LockOK
<1> QED
  BY <1>2, <1>3, SlotStep

\* The part of a worker's step that is no business of the queue.
Aside(s) == Resubscribed /\ UNCHANGED <<status, drain, added>> /\ exec[s].pc # "idle"

LEMMA CheckTenantKeeps ==
    ASSUME Inv, NEW s \in Slots, D!CheckTenant(s), Aside(s)
    PROVE  Inv'
<1> USE DEF Aside, D!endpointVars, D!At
<1>1. PICK j \in Jobs : j = D!JobOf(s) /\ Runs(s, j)
  BY JobOfIs DEF Inv
<1>2. exec[s] \in SlotStates /\ StageOK(exec[s], j) /\ exec[s].pc = "tenant"
  BY <1>1 DEF Inv, QueueTyped, StagesOK, D!CheckTenant
<1>3. UNCHANGED <<active, deleted, dead, accepted, troubled, forgotten>>
  BY DEF D!CheckTenant
<1>4. CASE D!Goto(s, "endpoint") /\ UNCHANGED <<job, skipped>>
  <2>1. PICK x : x = [exec[s] EXCEPT !.pc = "endpoint"]
    OBVIOUS
  <2>2. x \in SlotStates /\ x.pc = "endpoint" /\ x.job = {j} /\ x.owner = exec[s].owner
        /\ x.answer = "none" /\ StageOK(x, j)' /\ Excused(j)'
    BY <1>1, <1>2, <1>3, <2>1 DEF SlotStates, D!Stages, StageOK, Runs, Inv, NotAgain, Excused
  <2>3. exec' = [exec EXCEPT ![s] = x]
    BY <1>4, <2>1 DEF D!Goto
  <2> QED
    BY <1>1, <1>3, <1>4, <2>2, <2>3, GoStep
<1>5. CASE D!Complete(s) /\ skipped' = skipped \cup {<<j, "tenant">>}
  <2>1. PICK b : Ended(s, j, b) /\ (b # job[j] => b.state = "completed")
    BY <1>1, <1>5, CompleteEnds
  <2>2. Accounted(j)'
    <3>1. <<j, "tenant">> \in skipped' \cap ({j} \X D!Reasons)
      BY <1>5 DEF D!Reasons
    <3> QED
      BY <3>1 DEF Accounted
  <2> QED
    BY <1>1, <1>3, <1>5, <2>1, <2>2, EndStep
<1> QED
  BY <1>1, <1>4, <1>5 DEF D!CheckTenant

LEMMA LoadEndpointKeeps ==
    ASSUME Inv, NEW s \in Slots, D!LoadEndpoint(s), Aside(s)
    PROVE  Inv'
<1> USE DEF Aside, D!endpointVars, D!At
<1>1. PICK j \in Jobs : j = D!JobOf(s) /\ Runs(s, j)
  BY JobOfIs DEF Inv
<1>2. exec[s] \in SlotStates /\ StageOK(exec[s], j) /\ exec[s].pc = "endpoint"
  BY <1>1 DEF Inv, QueueTyped, StagesOK, D!LoadEndpoint
<1>3. UNCHANGED <<active, deleted, dead, accepted, troubled, forgotten>>
  BY DEF D!LoadEndpoint
<1>4. CASE D!Goto(s, "validate") /\ UNCHANGED <<job, skipped>>
  <2>1. PICK x : x = [exec[s] EXCEPT !.pc = "validate"]
    OBVIOUS
  <2>2. x \in SlotStates /\ x.pc = "validate" /\ x.job = {j} /\ x.owner = exec[s].owner
        /\ x.answer = "none" /\ StageOK(x, j)' /\ Excused(j)'
    BY <1>1, <1>2, <1>3, <2>1 DEF SlotStates, D!Stages, StageOK, Runs, Inv, NotAgain, Excused
  <2>3. exec' = [exec EXCEPT ![s] = x]
    BY <1>4, <2>1 DEF D!Goto
  <2> QED
    BY <1>1, <1>3, <1>4, <2>2, <2>3, GoStep
<1>5. CASE /\ D!Endpoint(s) \notin active \ deleted
           /\ D!Complete(s) /\ skipped' = skipped \cup {<<j, "endpoint">>}
  <2>1. PICK b : Ended(s, j, b) /\ (b # job[j] => b.state = "completed")
    BY <1>1, <1>5, CompleteEnds
  <2>2. Accounted(j)'
    <3>1. <<j, "endpoint">> \in skipped' \cap ({j} \X D!Reasons)
      BY <1>5 DEF D!Reasons
    <3> QED
      BY <3>1 DEF Accounted
  <2>3. j[2] \notin active
    BY <1>1, <1>5 DEF D!Endpoint, EndpointOf, Inv, QueueTyped
  <2>4. /\ skipped \subseteq skipped'
        /\ \A i \in Jobs : <<i, "endpoint">> \in skipped' \ skipped => i = j /\ j[2] \notin active
    BY <1>5, <2>3
  <2> QED
    BY <1>1, <1>3, <1>5, <2>1, <2>2, <2>4, EndStep
<1> QED
  BY <1>1, <1>4, <1>5 DEF D!LoadEndpoint

LEMMA ValidateKeeps ==
    ASSUME Inv, NEW s \in Slots, D!Validate(s), Aside(s)
    PROVE  Inv'
<1> USE DEF Aside, D!endpointVars, D!history, D!At
<1>1. PICK j \in Jobs : j = D!JobOf(s) /\ Runs(s, j)
  BY JobOfIs DEF Inv
<1>2. exec[s] \in SlotStates /\ StageOK(exec[s], j) /\ exec[s].pc = "validate"
  BY <1>1 DEF Inv, QueueTyped, StagesOK, D!Validate
<1>3. UNCHANGED <<job, active, deleted, accepted, skipped, troubled, forgotten>>
  BY DEF D!Validate
<1>4. PICK pc \in {"post", "reject"} :
          D!Goto(s, pc) /\ (pc = "reject" => j \in dead') /\ dead \subseteq dead'
  BY <1>1 DEF D!Validate, Runs
<1>5. PICK x : x = [exec[s] EXCEPT !.pc = pc]
  OBVIOUS
<1>6. x \in SlotStates /\ x.pc = pc /\ x.job = {j} /\ x.owner = exec[s].owner
      /\ x.answer = "none" /\ StageOK(x, j)' /\ Excused(j)'
  BY <1>1, <1>2, <1>3, <1>4, <1>5 DEF SlotStates, D!Stages, StageOK, Runs, Inv, NotAgain, Excused
<1>7. exec' = [exec EXCEPT ![s] = x]
  BY <1>4, <1>5 DEF D!Goto
<1> QED
  BY <1>1, <1>3, <1>4, <1>6, <1>7, GoStep

LEMMA PostKeeps ==
    ASSUME Inv, NEW s \in Slots, D!Post(s), Aside(s)
    PROVE  Inv'
<1> USE DEF Aside, D!endpointVars, D!At
<1>1. PICK j \in Jobs : j = D!JobOf(s) /\ Runs(s, j)
  BY JobOfIs DEF Inv
<1>2. exec[s] \in SlotStates /\ StageOK(exec[s], j) /\ exec[s].pc = "post"
  BY <1>1 DEF Inv, QueueTyped, StagesOK, D!Post
<1>3. UNCHANGED <<job, active, deleted, dead, skipped, troubled, forgotten>>
  BY DEF D!Post
<1>4. PICK a \in D!Answers \ {"none"} :
          /\ exec' = [exec EXCEPT ![s].pc = "persist", ![s].answer = a]
          /\ accepted' = IF a = "ok" THEN accepted \cup {j} ELSE accepted
  BY <1>1 DEF D!Post, Runs
<1>5. PICK x : x = [exec[s] EXCEPT !.pc = "persist", !.answer = a]
  OBVIOUS
<1>6. x \in SlotStates /\ x.pc = "persist" /\ x.job = {j} /\ x.owner = exec[s].owner /\ x.answer = a
  BY <1>1, <1>2, <1>4, <1>5 DEF SlotStates, D!Stages, Runs
<1>7. StageOK(x, j)' /\ (x.answer # "ok" => Excused(j)')
  <2>1. Excused(j)
    BY <1>1, <1>2 DEF Inv, NotAgain, StageOK
  <2> QED
    BY <1>3, <1>4, <1>6, <2>1 DEF StageOK, Excused
<1>8. exec' = [exec EXCEPT ![s] = x]
  BY <1>2, <1>4, <1>5 DEF Inv, QueueTyped
<1>9. accepted' \in {accepted, accepted \cup {j}}
  BY <1>4
<1> QED
  BY <1>1, <1>3, <1>6, <1>7, <1>8, <1>9, GoStep

LEMMA PersistKeeps ==
    ASSUME Inv, NEW s \in Slots, D!Persist(s), Aside(s)
    PROVE  Inv'
<1> USE DEF Aside, D!endpointVars, D!history, D!At
<1>1. PICK j \in Jobs : j = D!JobOf(s) /\ Runs(s, j)
  BY JobOfIs DEF Inv
<1>2. exec[s] \in SlotStates /\ StageOK(exec[s], j) /\ exec[s].pc = "persist"
  BY <1>1 DEF Inv, QueueTyped, StagesOK, D!Persist
<1>3. UNCHANGED <<job, active, deleted, accepted, skipped, troubled, forgotten>>
  BY DEF D!Persist
<1>4. /\ D!Goto(s, "account") /\ dead \subseteq dead'
      /\ exec[s].answer = "gone" => j \in dead'
      /\ exec[s].answer = "error" /\ Attempts <= exec[s].made + 1 => j \in dead'
  BY <1>1 DEF D!Persist, D!Exhausted, Runs
<1>5. PICK x : x = [exec[s] EXCEPT !.pc = "account"]
  OBVIOUS
<1>6. x \in SlotStates /\ x.pc = "account" /\ x.job = {j} /\ x.owner = exec[s].owner
      /\ x.answer = exec[s].answer /\ x.made = exec[s].made
  BY <1>1, <1>2, <1>5 DEF SlotStates, D!Stages, Runs
<1>7. StageOK(x, j)' /\ (x.answer # "ok" => Excused(j)')
  BY <1>1, <1>2, <1>3, <1>4, <1>6 DEF StageOK, Inv, NotAgain, Excused
<1>8. exec' = [exec EXCEPT ![s] = x]
  BY <1>4, <1>5 DEF D!Goto
<1> QED
  BY <1>1, <1>3, <1>4, <1>6, <1>7, <1>8, GoStep

\* After a failure a job that has no attempt left is done, any other waits again.
LEMMA SettleEnds ==
    ASSUME Inv, NEW s \in Slots, NEW j \in Jobs, j = D!JobOf(s), D!Settle(s)
    PROVE  \E b : /\ Ended(s, j, b)
                  /\ b # job[j] => \/ b.state = "waiting"
                                   \/ b.state = "completed" /\ Attempts <= exec[s].made + 1
<1>1. exec[s] \in SlotStates /\ Attempts \in Nat
  BY DEF Inv, QueueTyped
<1>2. CASE D!Exhausted(s)
  BY <1>2, CompleteEnds DEF D!Settle, D!Exhausted
<1>3. CASE ~D!Exhausted(s)
  <2>1. PICK b : /\ Ended(s, j, b)
                 /\ b # job[j] => \/ b.state = "waiting" /\ exec[s].made + 1 < Attempts
                                  \/ b.state = "failed" /\ ~(exec[s].made + 1 < Attempts)
    BY <1>3, ThrowEnds DEF D!Settle
  <2>2. exec[s].made + 1 < Attempts
    BY <1>1, <1>3 DEF D!Exhausted, SlotStates
  <2> QED
    BY <2>1, <2>2
<1> QED
  BY <1>2, <1>3

LEMMA RecordHealthyKeeps ==
    ASSUME Inv, NEW s \in Slots, D!RecordHealthy(s), Aside(s)
    PROVE  Inv'
<1> USE DEF Aside, D!history, D!At
<1>1. PICK j \in Jobs : j = D!JobOf(s) /\ Runs(s, j)
  BY JobOfIs DEF Inv
<1>2. UNCHANGED <<active, deleted, dead, accepted, skipped, troubled, forgotten>>
  BY DEF D!RecordHealthy
<1>3. Accounted(j)'
  BY <1>1, <1>2 DEF D!RecordHealthy, Inv, StagesOK, StageOK, Accounted
<1>4. PICK b : Ended(s, j, b) /\ (b # job[j] => b.state = "completed")
  BY <1>1, CompleteEnds DEF D!RecordHealthy
<1> QED
  BY <1>1, <1>2, <1>3, <1>4, EndStep

LEMMA RecordFailureKeeps ==
    ASSUME Inv, NEW s \in Slots, D!RecordFailure(s), Aside(s)
    PROVE  Inv'
<1> USE DEF Aside, D!history, D!At
<1>1. PICK j \in Jobs : j = D!JobOf(s) /\ Runs(s, j)
  BY JobOfIs DEF Inv
<1>2. exec[s] \in SlotStates /\ StageOK(exec[s], j) /\ exec[s].pc = "account"
      /\ exec[s].answer = "error"
  BY <1>1 DEF Inv, QueueTyped, StagesOK, D!RecordFailure
<1>3. UNCHANGED <<active, deleted, dead, accepted, skipped, troubled, forgotten>>
  BY DEF D!RecordFailure
<1>4. Excused(j) /\ Excused(j)'
  BY <1>1, <1>2, <1>3 DEF Inv, NotAgain, Excused
<1>5. CASE D!Goto(s, "disable") /\ job' = job
  <2>1. PICK x : x = [exec[s] EXCEPT !.pc = "disable"]
    OBVIOUS
  <2>2. x \in SlotStates /\ x.pc = "disable" /\ x.job = {j} /\ x.owner = exec[s].owner
        /\ x.answer = "error" /\ x.made = exec[s].made
    BY <1>1, <1>2, <2>1 DEF SlotStates, D!Stages, Runs
  <2>3. StageOK(x, j)'
    BY <1>2, <1>3, <2>2 DEF StageOK
  <2>4. exec' = [exec EXCEPT ![s] = x]
    BY <1>5, <2>1 DEF D!Goto
  <2> QED
    BY <1>1, <1>3, <1>4, <1>5, <2>2, <2>3, <2>4, GoStep
<1>6. CASE D!Settle(s)
  <2>1. PICK b : /\ Ended(s, j, b)
                 /\ b # job[j] => \/ b.state = "waiting"
                                  \/ b.state = "completed" /\ Attempts <= exec[s].made + 1
    BY <1>1, <1>6, SettleEnds
  <2>2. Attempts <= exec[s].made + 1 => Accounted(j)'
    BY <1>2, <1>3 DEF StageOK, Accounted
  <2> QED
    BY <1>1, <1>3, <1>4, <2>1, <2>2, EndStep
<1> QED
  BY <1>5, <1>6 DEF D!RecordFailure

LEMMA DisableKeeps ==
    ASSUME Inv, NEW s \in Slots, D!Disable(s), Aside(s)
    PROVE  Inv'
<1> USE DEF Aside, D!history, D!At
<1>1. PICK j \in Jobs : j = D!JobOf(s) /\ Runs(s, j)
  BY JobOfIs DEF Inv
<1>2. exec[s] \in SlotStates /\ StageOK(exec[s], j)
  BY <1>1 DEF Inv, QueueTyped, StagesOK
<1>3. active' \subseteq active /\ UNCHANGED <<deleted, dead, accepted, skipped, troubled, forgotten>>
  BY DEF D!Disable
<1>4. CASE exec[s].pc = "disable" /\ D!Settle(s)
  <2>1. PICK b : /\ Ended(s, j, b)
                 /\ b # job[j] => \/ b.state = "waiting"
                                  \/ b.state = "completed" /\ Attempts <= exec[s].made + 1
    BY <1>1, <1>4, SettleEnds
  <2>2. Attempts <= exec[s].made + 1 => Accounted(j)'
    BY <1>2, <1>3, <1>4 DEF StageOK, Accounted
  <2>3. Excused(j)'
    BY <1>1, <1>2, <1>3, <1>4 DEF Inv, NotAgain, Excused, StageOK
  <2> QED
    BY <1>1, <1>3, <2>1, <2>2, <2>3, EndStep
<1>5. CASE /\ exec[s].pc = "reject" \/ (exec[s].pc = "account" /\ exec[s].answer = "gone")
           /\ D!Complete(s)
  <2>1. PICK b : Ended(s, j, b) /\ (b # job[j] => b.state = "completed")
    BY <1>1, <1>5, CompleteEnds
  <2>2. Accounted(j)'
    BY <1>2, <1>3, <1>5 DEF StageOK, Accounted
  <2> QED
    BY <1>1, <1>3, <2>1, <2>2, EndStep
<1> QED
  BY <1>4, <1>5 DEF D!Disable

\* An execution that ends in a mishap.
LEMMA MishapKeeps ==
    ASSUME Inv, NEW s \in Slots, D!DatabaseFails(s) \/ D!WriteToDeleted(s), Aside(s)
    PROVE  Inv'
<1> USE DEF Aside, D!endpointVars
<1>1. PICK j \in Jobs : j = D!JobOf(s) /\ Runs(s, j)
  BY JobOfIs DEF Inv
<1>2. /\ UNCHANGED <<active, deleted, dead, accepted, skipped, forgotten>>
      /\ troubled \subseteq troubled' /\ j \in troubled' /\ D!Throw(s)
  BY <1>1 DEF D!DatabaseFails, D!WriteToDeleted, Runs
<1>3. Accounted(j)' /\ Excused(j)'
  BY <1>2 DEF Accounted, Excused
<1>4. PICK b : Ended(s, j, b)
  BY <1>1, <1>2, ThrowEnds
<1> QED
  BY <1>1, <1>2, <1>3, <1>4, EndStep

LEMMA StallKeeps ==
    ASSUME Inv, NEW s \in Slots, D!Stall(s), Aside(s)
    PROVE  Inv'
<1> USE DEF Aside, D!endpointVars
<1>1. PICK j \in Jobs : j = D!JobOf(s) /\ Runs(s, j)
  BY JobOfIs DEF Inv
<1>2. PICK st, b : /\ st = IF job[j].stalls < MaxStalled THEN "waiting" ELSE "failed"
                   /\ b = [job[j] EXCEPT !.stalls = @ + 1, !.state = st]
  OBVIOUS
<1>3. /\ QueueTyped /\ exec[s] \in SlotStates /\ StageOK(exec[s], j) /\ job[j] \in JobRecords
      /\ exec[s].owner
  BY <1>1 DEF Inv, QueueTyped, StagesOK, D!Stall
<1>4. b \in JobRecords /\ b.state \in {"waiting", "failed"}
  <2>1. st \in {"waiting", "failed"} /\ job[j].stalls + 1 \in Nat
    BY <1>2, <1>3 DEF JobRecords
  <2> QED
    BY <1>2, <1>3, <2>1 DEF JobRecords, D!States
<1>5. job' = [job EXCEPT ![j] = b]
  BY <1>1, <1>2, <1>3 DEF D!Stall, QueueTyped
<1>6. /\ UNCHANGED <<active, deleted, dead, accepted, skipped, forgotten>>
      /\ troubled' = troubled \cup {j}
  BY <1>1 DEF D!Stall
<1>7. Accounted(j)' /\ Excused(j)'
  BY <1>6 DEF Accounted, Excused
<1>8. CASE exec' = [exec EXCEPT ![s] = D!Free]
  <2>1. Ended(s, j, b)
    BY <1>3, <1>4, <1>5, <1>8 DEF Ended
  <2> QED
    BY <1>1, <1>6, <1>7, <2>1, EndStep
<1>9. CASE exec' = [exec EXCEPT ![s].owner = FALSE]
  <2>1. PICK x : x = [exec[s] EXCEPT !.owner = FALSE]
    OBVIOUS
  <2>2. /\ x \in SlotStates /\ x.pc = exec[s].pc /\ x.job = {j} /\ ~x.owner
        /\ x.answer = exec[s].answer /\ x.made = exec[s].made
    BY <1>1, <1>3, <2>1 DEF SlotStates, Runs
  <2>3. StageOK(x, j)'
    BY <1>3, <1>6, <2>2 DEF StageOK
  <2>4. exec' = [exec EXCEPT ![s] = x]
    BY <1>9, <2>1
  <2>5. SlotMoves(s, j, x, b)
    BY <1>3, <1>4, <1>5, <1>6, <2>2, <2>4 DEF SlotMoves
  <2> QED
    BY <1>1, <1>6, <1>7, <2>2, <2>3, <2>5, SlotStep
<1> QED
  BY <1>8, <1>9 DEF D!Stall

LEMMA TakeKeeps ==
    ASSUME Inv, NEW s \in Slots, NEW j \in Jobs, D!Take(s, j), Resubscribed,
           UNCHANGED <<status, drain, added>>
    PROVE  Inv'
<1> USE DEF D!endpointVars, D!history, D!At
<1>1. PICK x, b : /\ x = [D!Free EXCEPT !.pc = "tenant", !.job = {j}, !.made = job[j].made,
                                       !.owner = TRUE]
                  /\ b = [job[j] EXCEPT !.state = "active"]
  OBVIOUS
<1>2. /\ QueueTyped /\ PollerOK /\ JobsKnown /\ LockOK /\ FinishedAccounted /\ StagesOK
      /\ DroppedUnsteady /\ NotAgain /\ job[j] \in JobRecords /\ job[j].state = "waiting"
      /\ exec[s].pc = "idle" /\ exec[s].job = {}
  BY DEF Inv, QueueTyped, D!Take, Runs
<1>3. /\ x \in SlotStates /\ x.pc = "tenant" /\ x.job = {j} /\ x.owner /\ x.answer = "none"
      /\ b \in JobRecords /\ b.state = "active"
  BY <1>1, <1>2 DEF SlotStates, JobRecords, D!Free, D!Stages, D!Answers, D!States
<1>4. /\ UNCHANGED <<active, deleted, dead, accepted, skipped, troubled, forgotten>>
      /\ \A t \in Slots : exec'[t] = IF t = s THEN x ELSE exec[t]
      /\ \A i \in Jobs : job'[i] = IF i = j THEN b ELSE job[i]
      /\ exec' \in [Slots -> SlotStates] /\ job' \in [Jobs -> JobRecords]
  <2>1. exec' = [exec EXCEPT ![s] = x] /\ job' = [job EXCEPT ![j] = b]
    BY <1>1, <1>2 DEF D!Take, QueueTyped
  <2> QED
    BY <1>2, <1>3, <2>1 DEF D!Take, QueueTyped
<1>5. /\ \A t \in Slots, i \in Jobs : t # s => (Runs(t, i)' <=> Runs(t, i))
      /\ \A i \in Jobs : Runs(s, i)' <=> i = j
  BY <1>3, <1>4 DEF Runs
<1>6. QueueTyped'
  BY <1>2, <1>3, <1>4, <1>5 DEF QueueTyped, Runs
<1>7. PollerOK' /\ Inserted' = Inserted /\ \A e \in Events : steady'[e] = steady[e]
  BY <1>2, <1>4 DEF PollerOK, Resubscribed, DrainOK, P!EndpointsOf, Inserted
<1>8. JobsKnown'
  BY <1>2, <1>3, <1>4, <1>5, <1>7 DEF JobsKnown, Known
<1>9. LockOK'
  <2>1. \A t \in Slots \ {s} : Runs(t, j) => ~exec[t].owner
    BY <1>2 DEF LockOK
  <2>2. ASSUME NEW t \in Slots, NEW i \in Jobs, Runs(t, i)'
        PROVE  /\ exec'[t].owner => job'[i].state = "active"
               /\ ~exec'[t].owner => i \in troubled'
               /\ \A u \in Slots \ {t} : Runs(u, i)' => ~exec'[t].owner \/ ~exec'[u].owner
    <3>1. CASE t = s
      BY <1>3, <1>4, <1>5, <2>1, <2>2, <3>1
    <3>2. CASE t # s
      BY <1>2, <1>3, <1>4, <1>5, <2>1, <2>2, <3>2 DEF LockOK
    <3> QED
      BY <3>1, <3>2
  <2> QED
    BY <2>2 DEF LockOK
<1>10. FinishedAccounted' /\ DroppedUnsteady'
  BY <1>2, <1>3, <1>4, <1>7 DEF FinishedAccounted, Finished, Accounted, DroppedUnsteady, Jobs, Inserted
<1>11. StagesOK'
  <2>1. StageOK(x, j)'
    BY <1>3 DEF StageOK
  <2>2. ASSUME NEW i \in Jobs, Runs(s, i)' PROVE StageOK(exec[s], i)'
    BY <1>4, <1>5, <2>1, <2>2
  <2>3. ASSUME NEW t \in Slots, NEW i \in Jobs, Runs(t, i)', t # s PROVE StageOK(exec[t], i)'
    BY <1>2, <1>4, <1>5, <2>3 DEF StagesOK, StageOK
  <2> QED
    BY <2>2, <2>3 DEF StagesOK
<1>12. NotAgain'
  BY <1>2, <1>3, <1>4, <1>5 DEF NotAgain, Excused
<1> QED
  BY <1>6, <1>7, <1>8, <1>9, <1>10, <1>11, <1>12 DEF Inv

LEMMA ConfigKeeps ==
    ASSUME Inv, UNCHANGED <<job, exec, accepted, skipped, troubled, forgotten>>,
           deleted \subseteq deleted', \A j \in Jobs : j \in dead => Filed(j)',
           UNCHANGED <<status, drain, added>>, Resubscribed, active' \subseteq Endpoints \ deleted'
    PROVE  Inv'
<1>1. QueueTyped' /\ LockOK' /\ FinishedAccounted' /\ StagesOK' /\ NotAgain' /\ JobsKnown'
  BY DEF Inv, QueueTyped, LockOK, FinishedAccounted, StagesOK, NotAgain, Runs, Finished, Accounted,
     StageOK, Excused, JobsKnown, Known, Inserted
<1>2. PollerOK' /\ DroppedUnsteady'
  BY DEF Inv, PollerOK, Resubscribed, DrainOK, P!EndpointsOf, Inserted, DroppedUnsteady, Jobs
<1> QED
  BY <1>1, <1>2 DEF Inv

LEMMA ForgetKeeps ==
    ASSUME Inv, NEW j \in Jobs, D!Forget(j), Resubscribed, UNCHANGED <<status, drain, added>>
    PROVE  Inv'
<1> USE DEF D!endpointVars
<1>1. /\ QueueTyped /\ PollerOK /\ JobsKnown /\ LockOK /\ FinishedAccounted /\ StagesOK
      /\ DroppedUnsteady /\ NotAgain /\ Finished(j) /\ forgotten' = forgotten \cup {j}
      /\ UNCHANGED <<exec, active, deleted, dead, accepted, skipped, troubled>>
  BY DEF Inv, D!Forget, Finished
<1>2. /\ D!Absent \in JobRecords /\ D!Absent.state = "absent"
      /\ \A i \in Jobs : job'[i] = IF i = j THEN D!Absent ELSE job[i]
      /\ job' \in [Jobs -> JobRecords]
  BY <1>1 DEF D!Forget, D!Absent, JobRecords, D!States, QueueTyped
<1>3. QueueTyped'
  BY <1>1, <1>2 DEF QueueTyped, Runs
<1>4. PollerOK' /\ Inserted' = Inserted /\ \A e \in Events : steady'[e] = steady[e]
  BY <1>1 DEF PollerOK, Resubscribed, DrainOK, P!EndpointsOf, Inserted
<1>5. Known(j)
  BY <1>1 DEF JobsKnown, Finished
<1>6. JobsKnown'
  BY <1>1, <1>2, <1>4, <1>5 DEF JobsKnown, Known, Runs
<1>7. LockOK' /\ StagesOK'
  BY <1>1, <1>2 DEF LockOK, StagesOK, StageOK, Runs, Finished
<1>8. FinishedAccounted' /\ DroppedUnsteady'
  BY <1>1, <1>2, <1>4 DEF FinishedAccounted, Finished, Accounted, DroppedUnsteady, Jobs, Inserted
<1>9. NotAgain'
  BY <1>1, <1>2 DEF NotAgain, Excused, Runs
<1> QED
  BY <1>3, <1>4, <1>6, <1>7, <1>8, <1>9 DEF Inv

LEMMA InvStep == Inv /\ [Next]_vars => Inv'
<1> SUFFICES ASSUME Inv, [Next]_vars PROVE Inv'
  OBVIOUS
<1>1. CASE PollerStep
  BY <1>1, PollerKeeps
<1>2. CASE \E w \in Workers, p \in Endpoints : Add(w, p)
  BY <1>2, AddKeeps
<1>3. ASSUME NEW s \in Slots, DeliveryStep(s) PROVE Inv'
  <2>1. Resubscribed /\ UNCHANGED <<status, drain, added>>
    BY <1>3 DEF DeliveryStep
  <2>2. CASE exec[s].pc # "idle"
    <3>1. Aside(s)
      BY <2>1, <2>2 DEF Aside
    <3>2. CASE D!Execute(s)
      BY <3>1, <3>2, CheckTenantKeeps, LoadEndpointKeeps, ValidateKeeps, PostKeeps, PersistKeeps,
         RecordHealthyKeeps, RecordFailureKeeps, DisableKeeps, MishapKeeps DEF D!Execute
    <3>3. CASE D!Stall(s) \/ D!DatabaseFails(s)
      BY <3>1, <3>3, StallKeeps, MishapKeeps
    <3>4. CASE \E j \in Jobs : D!Take(s, j)
      BY <2>1, <3>4, TakeKeeps
    <3> QED
      BY <1>3, <3>2, <3>3, <3>4 DEF DeliveryStep
  <2>3. CASE exec[s].pc = "idle"
    <3>1. \E j \in Jobs : D!Take(s, j)
      BY <1>3, <2>3 DEF DeliveryStep, D!Execute, D!Stall, D!DatabaseFails, D!At, D!CheckTenant,
         D!LoadEndpoint, D!Validate, D!Post, D!Persist, D!RecordHealthy, D!RecordFailure, D!Disable,
         D!WriteToDeleted
    <3> QED
      BY <2>1, <3>1, TakeKeeps
  <2> QED
    BY <2>2, <2>3
<1>4. CASE Administer
  <2>1. Resubscribed /\ UNCHANGED <<status, drain, added>>
    BY <1>4 DEF Administer
  <2>2. ASSUME NEW p \in Endpoints, D!Delete(p) PROVE Inv'
    BY <2>1, <2>2, ConfigKeeps DEF D!Delete, D!history, Inv, QueueTyped
  <2>3. ASSUME NEW p \in Endpoints, NEW on \in BOOLEAN, D!SetActive(p, on) PROVE Inv'
    BY <2>1, <2>3, ConfigKeeps DEF D!SetActive, D!history, Inv, QueueTyped
  <2>4. ASSUME NEW t \in Tenants, D!ToggleTenant(t) PROVE Inv'
    BY <2>1, <2>4, ConfigKeeps DEF D!ToggleTenant, D!endpointVars, D!history, Inv, QueueTyped
  <2>5. ASSUME NEW j \in Jobs, D!Forget(j) PROVE Inv'
    BY <2>1, <2>5, ForgetKeeps
  <2> QED
    BY <1>4, <2>2, <2>3, <2>4, <2>5 DEF Administer
<1>5. CASE UNCHANGED vars
  <2>1. PollerOK' /\ UNCHANGED queueVars /\ added' = added /\ UNCHANGED <<status, steady>>
    BY <1>5 DEF vars, pollerVars, queueVars, Inv, PollerOK, DrainOK, P!EndpointsOf, Inserted
  <2> QED
    BY <2>1, QueueStill DEF Inserted
<1> QED
  BY <1>1, <1>2, <1>3, <1>4, <1>5 DEF Next

-----------------------------------------------------------------------------
(***************************************************************************)
(* The pipeline is an outbox poller among administrators: seen from the    *)
(* poller, an execution that disables an endpoint toggles it, and a job    *)
(* record that is evicted is a job id the queue forgets.                   *)
(***************************************************************************)
Queued == {j \in Jobs : job[j].state # "absent"}

LEMMA EndpointToggles ==
    ASSUME Inv, NEW p \in Endpoints, active' \in {active, active \ {p}, active \cup {p}},
           Resubscribed, Queued' = Queued,
           UNCHANGED <<status, attempts, age, live, ticks, drain, aborts, added, contested>>
    PROVE  [P!Next]_(P!vars)
<1>0. steady \in [Events -> SUBSET active] /\ steady' = [e \in Events |-> steady[e] \cap (active \cap active')]
  BY DEF Inv, PollerOK, Resubscribed
<1>1. CASE active' = active
  <2>1. steady' = steady
    BY <1>0, <1>1
  <2> QED
    BY <1>1, <2>1 DEF P!vars, P!rows, P!config, Queued
<1>2. CASE active' = active \ {p} /\ p \in active
  <2>1. steady' = [e \in Events |-> steady[e] \ {p}]
    BY <1>0, <1>2
  <2>2. P!ToggleEndpoint(p)
    BY <1>2, <2>1 DEF P!ToggleEndpoint, P!rows, Queued
  <2> QED
    BY <2>2 DEF P!Next
<1>3. CASE active' = active \cup {p} /\ p \notin active
  <2>1. steady' = [e \in Events |-> steady[e] \ {p}]
    BY <1>0, <1>3
  <2>2. P!ToggleEndpoint(p)
    BY <1>3, <2>1 DEF P!ToggleEndpoint, P!rows, Queued
  <2> QED
    BY <2>2 DEF P!Next
<1> QED
  BY <1>1, <1>2, <1>3

LEMMA EndedQueued ==
    ASSUME Inv, NEW s \in Slots, NEW j \in Jobs, NEW b, Runs(s, j), Ended(s, j, b)
    PROVE  Queued' = Queued
<1>1. job \in [Jobs -> JobRecords] /\ (exec[s].owner => job[j].state = "active")
  BY DEF Inv, QueueTyped, LockOK
<1> QED
  BY <1>1 DEF Ended, Queued

LEMMA DeliveryQueued ==
    ASSUME Inv, NEW s \in Slots, DeliveryStep(s)
    PROVE  Queued' = Queued
<1>0. job \in [Jobs -> JobRecords]
  BY DEF Inv, QueueTyped
<1>1. CASE job' = job
  BY <1>1 DEF Queued
<1>2. CASE \E j \in Jobs : D!Take(s, j)
  BY <1>0, <1>2 DEF D!Take, Queued
<1>3. CASE exec[s].pc # "idle" /\ (D!Complete(s) \/ D!Throw(s))
  <2>1. PICK j \in Jobs : j = D!JobOf(s) /\ Runs(s, j)
    BY <1>3, JobOfIs DEF Inv
  <2> QED
    BY <1>3, <2>1, CompleteEnds, ThrowEnds, EndedQueued
<1>4. CASE D!Stall(s)
  <2>1. PICK j \in Jobs : j = D!JobOf(s) /\ Runs(s, j)
    BY <1>4, JobOfIs DEF D!Stall, D!At, Inv
  <2>2. job[j].state = "active" /\ job[j] \in JobRecords
    BY <1>0, <1>4, <2>1 DEF D!Stall, Inv, LockOK
  <2>3. PICK st \in {"waiting", "failed"} :
            job' = [job EXCEPT ![j].stalls = @ + 1, ![j].state = st]
    BY <1>4, <2>1 DEF D!Stall
  <2>4. \A i \in Jobs : job'[i].state = IF i = j THEN st ELSE job[i].state
    BY <1>0, <2>2, <2>3 DEF JobRecords
  <2> QED
    BY <2>2, <2>3, <2>4 DEF Queued
<1> QED
  BY <1>1, <1>2, <1>3, <1>4 DEF DeliveryStep, D!Execute, D!DatabaseFails, D!CheckTenant,
     D!LoadEndpoint, D!Validate, D!Post, D!Persist, D!RecordHealthy, D!RecordFailure, D!Disable,
     D!WriteToDeleted, D!Settle, D!At

LEMMA RefinementStep == Inv /\ [Next]_vars => [P!Next]_(P!vars)
<1> SUFFICES ASSUME Inv, [Next]_vars PROVE [P!Next]_(P!vars)
  OBVIOUS
<1>1. CASE PollerStep
  BY <1>1 DEF PollerStep, P!Next, P!DrainStep
<1>2. CASE \E w \in Workers, p \in Endpoints : Add(w, p)
  BY <1>2 DEF Add, P!Next, P!DrainStep
<1>3. ASSUME NEW s \in Slots, DeliveryStep(s) PROVE [P!Next]_(P!vars)
  <2>1. Queued' = Queued
    BY <1>3, DeliveryQueued
  <2>2. Resubscribed /\ UNCHANGED <<status, attempts, age, ticks, drain, aborts, added, contested>>
    BY <1>3 DEF DeliveryStep
  <2>3. live' = live /\ (D!Disable(s) \/ active' = active)
    BY <1>3 DEF DeliveryStep, D!Execute, D!DatabaseFails, D!CheckTenant, D!LoadEndpoint, D!Validate,
       D!Post, D!Persist, D!RecordHealthy, D!RecordFailure, D!Disable, D!WriteToDeleted, D!Stall,
       D!Take, D!endpointVars
  <2>4. PICK j \in Jobs : TRUE
    BY <1>3, JobOfIs DEF DeliveryStep, D!Execute, D!DatabaseFails, D!CheckTenant, D!LoadEndpoint,
       D!Validate, D!Post, D!Persist, D!RecordHealthy, D!RecordFailure, D!Disable, D!WriteToDeleted,
       D!Stall, D!At, Inv
  <2>5. PICK p \in Endpoints : active' \in {active, active \ {p}}
    <3>1. CASE D!Disable(s)
      <4>1. D!JobOf(s) \in Jobs
        BY <3>1, JobOfIs DEF D!Disable, D!At, Inv
      <4>2. D!Endpoint(s) \in Endpoints
        BY <4>1 DEF D!Endpoint, EndpointOf, Jobs
      <4> QED
        BY <3>1, <4>2 DEF D!Disable
    <3>2. CASE active' = active
      BY <2>4, <3>2 DEF Jobs
    <3> QED
      BY <2>3, <3>1, <3>2
  <2> QED
    BY <2>1, <2>2, <2>3, <2>5, EndpointToggles
<1>4. CASE Administer
  <2>1. Resubscribed /\ UNCHANGED <<status, attempts, age, ticks, drain, aborts, added, contested>>
    BY <1>4 DEF Administer
  <2>2. ASSUME NEW p \in Endpoints, D!Delete(p) PROVE [P!Next]_(P!vars)
    <3>1. Queued' = Queued /\ live' = live /\ active' = active \ {p}
      BY <2>2 DEF D!Delete, Queued
    <3> QED
      BY <2>1, <3>1, EndpointToggles
  <2>3. ASSUME NEW p \in Endpoints, NEW on \in BOOLEAN, D!SetActive(p, on) PROVE [P!Next]_(P!vars)
    <3>1. Queued' = Queued /\ live' = live /\ active' \in {active \ {p}, active \cup {p}}
      BY <2>3 DEF D!SetActive, Queued
    <3> QED
      BY <2>1, <3>1, EndpointToggles
  <2>4. ASSUME \/ \E t \in Tenants : D!ToggleTenant(t)
               \/ \E j \in Jobs : D!Forget(j)
        PROVE  [P!Next]_(P!vars)
    <3>1. active' = active /\ steady \in [Events -> SUBSET active]
      BY <2>4 DEF D!ToggleTenant, D!Forget, D!endpointVars, Inv, PollerOK
    <3>2. steady' = steady
      BY <2>1, <3>1 DEF Resubscribed
    <3>3. ASSUME NEW t \in Tenants, D!ToggleTenant(t) PROVE P!ToggleTenant(t)
      BY <2>1, <3>1, <3>2, <3>3 DEF D!ToggleTenant, P!ToggleTenant, P!rows
    <3>4. ASSUME NEW j \in Jobs, D!Forget(j) PROVE P!Forget(j) /\ j \in P!Jobs
      <4>1. j \in Queued /\ live' = live /\ job \in [Jobs -> JobRecords]
        BY <3>4 DEF D!Forget, Queued, Inv, QueueTyped
      <4>2. Queued' = Queued \ {j}
        BY <3>4, <4>1 DEF D!Forget, D!Absent, Queued
      <4> QED
        BY <2>1, <3>1, <3>2, <4>1, <4>2 DEF P!Forget, P!rows, P!config, Queued, Jobs, P!Jobs
    <3> QED
      BY <2>4, <3>3, <3>4 DEF P!Next
  <2> QED
    BY <1>4, <2>2, <2>3, <2>4 DEF Administer
<1>5. CASE UNCHANGED vars
  BY <1>5 DEF vars, pollerVars, queueVars, P!vars, P!rows, P!config
<1> QED
  BY <1>1, <1>2, <1>3, <1>4, <1>5 DEF Next

LEMMA InvInvariant == Spec => []Inv
<1>1. Init => Inv
  BY InvInit
<1>2. Inv /\ [Next]_vars => Inv'
  BY InvStep
<1> QED
  BY <1>1, <1>2, PTL DEF Spec

(* Seen from the outbox, the pipeline is the poller of OutboxPoller: what  *)
(* the delivery worker does to the queue and to the endpoints (eviction of *)
(* finished jobs, disabling) are steps OutboxPoller allows its environment.*)
THEOREM PollerRefined == Spec => P!Spec
<1>1. Init => P!Init
  BY DEF Init
<1> QED
  BY <1>1, InvInvariant, RefinementStep, PTL DEF Spec, P!Spec

LEMMA SameAssumption == PP!OutboxAssumption
  BY DEF PP!OutboxAssumption, PP!IsFiniteSet, IsFiniteSet

LEMMA SameCardinality == \A S : PP!Cardinality(S) = P!Cardinality(S)
  BY Zenon DEF PP!Cardinality, P!Cardinality

LEMMA SameSpec == P!Spec => PP!Spec
<1>1. P!Init => PP!Init
  BY DEF P!Init, PP!Init, P!Idle, PP!Idle
<1>2. [P!Next]_(P!vars) => [PP!Next]_(PP!vars)
  <2> USE DEF P!rows, PP!rows, P!config, PP!config, P!Reads, PP!Reads, P!At, PP!At,
          P!Goes, PP!Goes, P!Idle, PP!Idle, P!BetweenRows, PP!BetweenRows
  <2>1. ASSUME NEW e \in Events, P!Publish(e) PROVE PP!Publish(e)
    BY <2>1, SameCardinality DEF P!Publish, PP!Publish, P!EndpointsOf, PP!EndpointsOf
  <2>2. ASSUME NEW p \in Endpoints, P!ToggleEndpoint(p) PROVE PP!ToggleEndpoint(p)
    BY <2>2 DEF P!ToggleEndpoint, PP!ToggleEndpoint
  <2>3. ASSUME NEW t \in Tenants, P!ToggleTenant(t) PROVE PP!ToggleTenant(t)
    BY <2>3 DEF P!ToggleTenant, PP!ToggleTenant
  <2>4. ASSUME NEW j \in P!Jobs, P!Forget(j) PROVE PP!Forget(j) /\ j \in PP!Jobs
    BY <2>4 DEF P!Forget, PP!Forget, P!Jobs, PP!Jobs
  <2>5. P!Tick => PP!Tick
    BY DEF P!Tick, PP!Tick
  <2>6. ASSUME NEW w \in Workers
        PROVE  /\ P!StartDrain(w) => PP!StartDrain(w)
               /\ P!Fetch(w) => PP!Fetch(w)
               /\ P!FilterActive(w) => PP!FilterActive(w)
               /\ P!Dispatch(w) => PP!Dispatch(w)
               /\ P!MarkPublished(w) => PP!MarkPublished(w)
               /\ P!MarkFailed(w) => PP!MarkFailed(w)
               /\ P!GiveUp(w) => PP!GiveUp(w)
               /\ P!EndDrain(w) => PP!EndDrain(w)
               /\ P!RowThrows(w) => PP!RowThrows(w)
               /\ P!Abort(w) => PP!Abort(w)
               /\ \A p \in Endpoints : P!Enqueue(w, p) => PP!Enqueue(w, p)
    <3>1. P!StartDrain(w) => PP!StartDrain(w)
      BY DEF P!StartDrain, PP!StartDrain
    <3>2. P!Fetch(w) => PP!Fetch(w)
      BY SameCardinality
         DEF P!HeldByOthers, PP!HeldByOthers, P!Held, PP!Held, P!AtRow, PP!AtRow, P!Fetch, PP!Fetch, P!Candidates, PP!Candidates, P!IsOldest, PP!IsOldest
    <3>3. P!FilterActive(w) => PP!FilterActive(w)
      BY DEF P!FilterActive, PP!FilterActive
    <3>4. P!Dispatch(w) => PP!Dispatch(w)
      BY DEF P!Dispatch, PP!Dispatch, P!Targets, PP!Targets, P!EndpointsOf, PP!EndpointsOf
    <3>5. P!MarkPublished(w) => PP!MarkPublished(w)
      BY DEF P!MarkPublished, PP!MarkPublished
    <3>6. P!MarkFailed(w) => PP!MarkFailed(w)
      BY DEF P!MarkFailed, PP!MarkFailed
    <3>7. P!GiveUp(w) => PP!GiveUp(w)
      BY DEF P!GiveUp, PP!GiveUp
    <3>8. P!EndDrain(w) => PP!EndDrain(w)
      BY DEF P!EndDrain, PP!EndDrain
    <3>9. P!RowThrows(w) => PP!RowThrows(w)
      BY DEF P!RowThrows, PP!RowThrows
    <3>10. P!Abort(w) => PP!Abort(w)
      BY DEF P!Abort, PP!Abort
    <3>11. \A p \in Endpoints : P!Enqueue(w, p) => PP!Enqueue(w, p)
      BY DEF P!Enqueue, PP!Enqueue
    <3> QED
      BY <3>1, <3>2, <3>3, <3>4, <3>5, <3>6, <3>7, <3>8, <3>9, <3>10, <3>11
  <2>7. UNCHANGED P!vars => UNCHANGED PP!vars
    BY DEF P!vars, PP!vars
  <2> QED
    BY <2>1, <2>2, <2>3, <2>4, <2>5, <2>6, <2>7 DEF P!Next, PP!Next, P!DrainStep, PP!DrainStep
<1> QED
  BY <1>1, <1>2, PTL DEF P!Spec, PP!Spec

\* OutboxPoller's theorem, about the poller inside the pipeline.
LEMMA NoneSkipped == Spec => []P!NoSubscriberSkipped
<1>1. Spec => PP!Spec
  BY PollerRefined, SameSpec
<1>2. PP!Spec => []PP!NoSubscriberSkipped
  BY SameAssumption, PP!NeverSkips
<1>3. PP!NoSubscriberSkipped => P!NoSubscriberSkipped
  BY DEF PP!NoSubscriberSkipped, P!NoSubscriberSkipped
<1> QED
  BY <1>1, <1>2, <1>3, PTL

-----------------------------------------------------------------------------
(* End to end, from the row a transaction committed to the subscriber: a   *)
(* PUBLISHED row whose job is over was answered with a 2xx or left a dead  *)
(* letter, unless its execution stalled, lost a database call or met a     *)
(* suspended tenant (outbox.poller.ts dispatchOne, webhook-delivery        *)
(* .processor.ts process).                                                 *)
THEOREM NothingLost == Spec => []NothingLostSilently
<1>1. Inv /\ P!NoSubscriberSkipped => NothingLostSilently
  <2> SUFFICES ASSUME Inv, P!NoSubscriberSkipped, NEW j \in Jobs,
                      status[j[1]] = "PUBLISHED", j[2] \in steady[j[1]], j[1] \notin Unknown,
                      job[j].state \notin {"waiting", "active"}
               PROVE  \/ j \in accepted \cup dead \cup troubled
                      \/ <<j, "tenant">> \in skipped
    BY DEF NothingLostSilently
  <2>1. j[1] \in Events /\ j[2] \in Endpoints /\ j = <<j[1], j[2]>>
    BY DEF Jobs
  <2>2. j \in added
    BY <2>1 DEF P!NoSubscriberSkipped
  <2>3. Finished(j) \/ j \in forgotten
    BY <2>2 DEF Inv, JobsKnown, Known, QueueTyped, JobRecords, D!States, Finished
  <2>4. Accounted(j)
    BY <2>3 DEF Inv, FinishedAccounted
  <2>5. <<j, "endpoint">> \notin skipped
    BY DEF Inv, DroppedUnsteady
  <2>6. EndpointOf[j] \notin deleted
    BY <2>1 DEF Inv, PollerOK, QueueTyped, EndpointOf, Jobs
  <2>7. Filed(j) => j \in dead
    BY <2>6 DEF Filed
  <2> QED
    BY <2>4, <2>5, <2>7 DEF Accounted, D!Reasons
<1> QED
  BY <1>1, InvInvariant, NoneSkipped, PTL

(* A job that used every attempt without a 2xx leaves a dead letter for    *)
(* replay, also when its endpoint is disabled or rejected on the way, as   *)
(* long as the endpoint exists (webhook-delivery.processor.ts:             *)
(* persistDelivery comes before any counter and before disableEndpoint).   *)
THEOREM DeadLetterLeft == Spec => []ExhaustedLeavesDeadLetter
<1>1. Inv => ExhaustedLeavesDeadLetter
  BY DEF Inv, FinishedAccounted, Accounted, ExhaustedLeavesDeadLetter
<1> QED
  BY <1>1, InvInvariant, PTL

(* A subscriber that answered 2xx is not asked again by a later execution  *)
(* or by a second add of the same row, unless the job stalled, lost a      *)
(* database call or had been evicted (the deterministic jobId of           *)
(* outbox.poller.ts).                                                      *)
THEOREM DeliveredOnce == Spec => AcceptedOnce
<1>1. Inv => \A s \in Slots : exec[s].pc = "post" /\ exec'[s].pc = "persist"
                 => exec[s].job \cap accepted \subseteq troubled \cup forgotten
  <2> SUFFICES ASSUME Inv, NEW s \in Slots, exec[s].pc = "post"
               PROVE  exec[s].job \cap accepted \subseteq troubled \cup forgotten
    OBVIOUS
  <2>1. PICK j \in Jobs : Runs(s, j)
    BY DEF Inv, QueueTyped
  <2>2. exec[s].answer = "none"
    BY <2>1 DEF Inv, StagesOK, StageOK
  <2>3. Excused(j)
    BY <2>1, <2>2 DEF Inv, NotAgain
  <2> QED
    BY <2>1, <2>3 DEF Runs, Excused
<1> QED
  BY <1>1, InvInvariant, PTL DEF AcceptedOnce
=============================================================================
