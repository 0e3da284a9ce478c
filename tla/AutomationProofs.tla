--------------------------- MODULE AutomationProofs ---------------------------
(***************************************************************************)
(* What runs behind the queues and the webhooks that fill them promises,   *)
(* for any number of handlers, workers, runs, imports and posts.           *)
(***************************************************************************)
EXTENDS Reminders, WorkflowRuns, Imports, ProviderCallbacks, FiniteSetTheorems, TLAPS

-----------------------------------------------------------------------------
(* Reminders: never early, and closed for good.                            *)

ClientStates ==
    [at : {"idle", "row", "remove", "add", "close"},
     op : {"none", "create", "update", "dismiss", "remove"}, when : 0..MaxTime]

RemTyped ==
    /\ RemTypeOK
    /\ client \in [Clients -> ClientStates]
    /\ \A c \in Clients : ClientAt(c, "row") => client[c].op = "update"

\* Without an overlap one handler or the processor is at work, and what the
\* processor read of the row still holds when it writes.
Solo ==
    /\ \A c, d \in Clients : ~ClientAt(c, "idle") /\ ~ClientAt(d, "idle") => c = d
    /\ firing # "idle" => ~Busy
    /\ firing = "write" => reminder.status = "PENDING"
    /\ reminder.status = "NONE" => alarm.state = "none" /\ ~Busy

\* Between the row and the queue: an update has written the new time and the
\* job of the old one is still there.
Rewritten == \E c \in Clients : ClientAt(c, "remove") /\ client[c].op = "update"

(* NeverEarlyUnlessCrossed is not inductive: a job that is still to fire     *)
(* must be due no earlier than the row says.                                *)
Timely ==
    /\ sounded # "early"
    /\ alarm.state = "active" => alarm.when <= clock
    /\ alarm.state \in {"delayed", "active"} /\ ~Rewritten => reminder.when <= alarm.when
    /\ \A c \in Clients :
          /\ ClientAt(c, "add") => client[c].when = reminder.when /\ alarm.state = "none"
          /\ ClientAt(c, "remove") /\ client[c].op = "update" => client[c].when = reminder.when

RemInv ==
    /\ RemTyped
    /\ ~crossed => Solo
    /\ ~crossed /\ ~cutShort => Timely

LEMMA RemInvInit == RemInit => RemInv
<1> SUFFICES ASSUME RemInit PROVE RemInv
  OBVIOUS
<1>1. RemTyped
  BY ReminderAssumption DEF ReminderAssumption, RemInit, RemTyped, RemTypeOK, ClientStates, ClientAt,
     NoAlarm, Ready
<1>2. Solo /\ Timely
  BY DEF RemInit, Solo, Timely, Busy, Rewritten, ClientAt, NoAlarm, Ready
<1> QED
  BY <1>1, <1>2 DEF RemInv

LEMMA SetTyped ==
    ASSUME RemTyped, NEW c \in Clients, NEW d \in ClientStates, Set(c, d),
           d.at = "row" => d.op = "update"
    PROVE  /\ client' \in [Clients -> ClientStates]
           /\ \A e \in Clients : client'[e] = IF e = c THEN d ELSE client[e]
           /\ \A e \in Clients : ClientAt(e, "row")' => client'[e].op = "update"
  BY DEF RemTyped, Set, ClientAt

\* A handler begins: nothing else was in flight, if nothing crossed.
LEMMA HandlerBegins ==
    ASSUME RemInv, NEW c \in Clients, ClientAt(c, "idle"), NEW d \in ClientStates,
           d.at \in {"row", "remove", "add"}, d.at = "row" => d.op = "update",
           d.at = "remove" => d.op # "update",
           Set(c, d), Cross, UNCHANGED <<alarm, firing, clock, cutShort, sounded>>,
           \/ reminder' = reminder /\ reminder.status # "NONE" /\ d.at # "add"
           \/ /\ reminder.status = "NONE" /\ d.at = "add"
              /\ reminder' = [status |-> "PENDING", deleted |-> FALSE, when |-> d.when]
    PROVE  RemInv'
<1>0. RemTyped
  BY DEF RemInv
<1>1. /\ client' \in [Clients -> ClientStates]
      /\ \A e \in Clients : client'[e] = IF e = c THEN d ELSE client[e]
      /\ \A e \in Clients : ClientAt(e, "row")' => client'[e].op = "update"
  BY <1>0, SetTyped
<1>2. RemTyped'
  <2>1. d.when \in 0..MaxTime
    BY DEF ClientStates
  <2>2. reminder' \in [status : {"NONE", "PENDING", "FIRED", "DISMISSED", "CANCELLED"},
                       deleted : BOOLEAN, when : 0..MaxTime]
    <3>1. CASE reminder' = reminder
      BY <1>0, <3>1 DEF RemTyped, RemTypeOK
    <3>2. CASE reminder' = [status |-> "PENDING", deleted |-> FALSE, when |-> d.when]
      BY <2>1, <3>2
    <3> QED
      BY <3>1, <3>2
  <2> QED
    BY <1>0, <1>1, <2>2 DEF RemTyped, RemTypeOK
<1>3. ~crossed' => ~crossed /\ ~Busy /\ firing = "idle"
  BY Zenon DEF Cross
<1>4. ASSUME ~crossed' PROVE Solo'
  BY <1>0, <1>1, <1>3, <1>4 DEF RemInv, Solo, Busy, ClientAt
<1>5. ASSUME ~crossed' /\ ~cutShort' PROVE Timely'
  <2>1. Solo /\ Timely
    BY <1>3, <1>5 DEF RemInv
  <2>2. ~Rewritten /\ ~Rewritten'
    BY <1>1, <1>3, <1>5 DEF Rewritten, Busy, ClientAt
  <2>3. \A e \in Clients : e # c => client'[e].at = "idle"
    BY <1>1, <1>3, <1>5 DEF Busy, ClientAt
  <2> QED
    BY <1>0, <1>1, <2>1, <2>2, <2>3 DEF Solo, Timely, ClientAt
<1> QED
  BY <1>2, <1>4, <1>5 DEF RemInv

\* A handler goes on, alone if nothing crossed.
LEMMA HandlerMoves ==
    ASSUME RemInv, NEW c \in Clients, ~ClientAt(c, "idle"), NEW d \in ClientStates,
           d.at # "row", Set(c, d), UNCHANGED <<firing, clock, crossed, sounded>>,
           reminder' \in [status : {"NONE", "PENDING", "FIRED", "DISMISSED", "CANCELLED"},
                          deleted : BOOLEAN, when : 0..MaxTime],
           reminder'.status = "NONE" => reminder.status = "NONE",
           alarm' \in [state : {"none", "delayed", "active", "kept"}, when : 0..MaxTime,
                       fails : Nat, stalls : Nat],
           alarm'.state = "active" <=> alarm.state = "active",
           ~cutShort' => ~cutShort,
           ~crossed /\ ~cutShort' =>
              \* d is the only handler, and the processor is idle.
              /\ alarm'.state = "delayed" /\ ~(d.at = "remove" /\ d.op = "update")
                    => reminder'.when <= alarm'.when
              /\ d.at = "add" => d.when = reminder'.when /\ alarm'.state = "none"
              /\ d.at = "remove" /\ d.op = "update" => d.when = reminder'.when
    PROVE  RemInv'
<1>0. RemTyped
  BY DEF RemInv
<1>1. /\ client' \in [Clients -> ClientStates]
      /\ \A e \in Clients : client'[e] = IF e = c THEN d ELSE client[e]
      /\ \A e \in Clients : ClientAt(e, "row")' => client'[e].op = "update"
  BY <1>0, SetTyped
<1>2. RemTyped'
  BY <1>0, <1>1 DEF RemTyped, RemTypeOK
<1>3. ASSUME ~crossed
      PROVE  /\ firing = "idle" /\ alarm.state # "active" /\ reminder.status # "NONE"
             /\ \A e \in Clients : e # c => client'[e].at = "idle"
  BY <1>0, <1>1, <1>3 DEF RemInv, Solo, Busy, ClientAt, RemTyped, RemTypeOK
<1>4. ASSUME ~crossed' PROVE Solo'
  BY <1>1, <1>3, <1>4 DEF Solo, Busy, ClientAt
<1>5. ASSUME ~crossed' /\ ~cutShort' PROVE Timely'
  <2>1. sounded' # "early"
    BY <1>5 DEF RemInv, Timely
  <2>2. Rewritten' <=> d.at = "remove" /\ d.op = "update"
    BY <1>1, <1>3, <1>5 DEF Rewritten, ClientAt
  <2> QED
    BY <1>1, <1>3, <1>5, <2>1, <2>2 DEF Timely, ClientAt
<1> QED
  BY <1>2, <1>4, <1>5 DEF RemInv

LEMMA RemHandlersKeep ==
    ASSUME RemInv, NEW c \in Clients,
           \/ \E t \in Times : CreateReminder(c, t) \/ Begin(c, "update", t)
           \/ \E op \in {"dismiss", "remove"} : Begin(c, op, 0)
           \/ HandlerStep(c) \/ HandlerDies(c)
    PROVE  RemInv'
<1>0. /\ RemTyped /\ client[c] \in ClientStates
      /\ Times \subseteq 0..MaxTime /\ 0 \in 0..MaxTime
      /\ Ready \in ClientStates /\ Ready.at = "idle"
  BY ReminderAssumption DEF ReminderAssumption, RemInv, RemTyped, Times, ClientStates, Ready
<1>1. ASSUME NEW t \in Times, CreateReminder(c, t) PROVE RemInv'
  <2>1. PICK d : d = [at |-> "add", op |-> "create", when |-> t]
    OBVIOUS
  <2>2. d \in ClientStates /\ d.at = "add" /\ d.when = t
    BY <1>0, <2>1 DEF ClientStates
  <2>3. Set(c, d)
    BY <1>1, <2>1 DEF CreateReminder
  <2> QED
    BY <1>1, <2>2, <2>3, HandlerBegins DEF CreateReminder
<1>2. ASSUME NEW op \in {"update", "dismiss", "remove"}, NEW t \in 0..MaxTime, Begin(c, op, t)
      PROVE  RemInv'
  <2>1. PICK d : d = [at |-> IF op = "update" THEN "row" ELSE "remove", op |-> op, when |-> t]
    OBVIOUS
  <2>2. /\ d \in ClientStates /\ d.at \in {"row", "remove"} /\ (d.at = "row" => d.op = "update")
        /\ d.at = "remove" => d.op # "update"
    BY <1>0, <2>1 DEF ClientStates
  <2>3. Set(c, d)
    BY <1>2, <2>1 DEF Begin
  <2> QED
    BY <1>2, <2>2, <2>3, HandlerBegins DEF Begin
<1> USE DEF ClientAt
<1>3. CASE UpdateRow(c)
  <2>1. PICK d : d = [client[c] EXCEPT !.at = "remove"]
    OBVIOUS
  <2>2. d \in ClientStates /\ d.at = "remove" /\ d.op = "update" /\ d.when = client[c].when
    BY <1>0, <1>3, <2>1 DEF ClientStates, UpdateRow, RemTyped
  <2>3. /\ reminder' \in [status : {"NONE", "PENDING", "FIRED", "DISMISSED", "CANCELLED"},
                          deleted : BOOLEAN, when : 0..MaxTime]
        /\ reminder'.status = reminder.status /\ reminder'.when = d.when
    BY <1>0, <1>3, <2>2 DEF UpdateRow, RemTyped, RemTypeOK, ClientStates
  <2> QED
    BY <1>0, <1>3, <2>1, <2>2, <2>3, HandlerMoves DEF UpdateRow, RemTyped, RemTypeOK
<1>4. CASE RemoveAlarm(c)
  <2>1. PICK d : d = [client[c] EXCEPT !.at = IF client[c].op = "update" THEN "add" ELSE "close"]
    OBVIOUS
  <2>2. /\ d \in ClientStates /\ d.at \in {"add", "close"} /\ d.when = client[c].when
        /\ d.at = "add" => client[c].op = "update"
    BY <1>0, <2>1 DEF ClientStates
  <2>3. /\ alarm' \in [state : {"none", "delayed", "active", "kept"}, when : 0..MaxTime,
                       fails : Nat, stalls : Nat]
        /\ \/ alarm.state = "active" /\ alarm' = alarm
           \/ alarm.state # "active" /\ alarm'.state = "none"
    BY <1>0, <1>4 DEF RemoveAlarm, Removed, NoAlarm, RemTyped, RemTypeOK
  <2>4. ~crossed => alarm.state # "active"
    BY <1>0, <1>4 DEF RemoveAlarm, RemInv, Solo, Busy, RemTyped, RemTypeOK
  <2>5. ~crossed /\ ~cutShort' => (d.at = "add" => d.when = reminder'.when)
    BY <1>4, <2>2 DEF RemoveAlarm, RemInv, Timely
  <2> QED
    BY <1>0, <1>4, <2>1, <2>2, <2>3, <2>4, <2>5, HandlerMoves DEF RemoveAlarm, RemTyped, RemTypeOK
<1>5. CASE AddAlarm(c)
  <2>1. /\ alarm' \in [state : {"none", "delayed", "active", "kept"}, when : 0..MaxTime,
                       fails : Nat, stalls : Nat]
        /\ \/ alarm.state = "none" /\ alarm'.state = "delayed" /\ alarm'.when = client[c].when
           \/ alarm.state # "none" /\ alarm' = alarm
    BY <1>0, <1>5 DEF AddAlarm, Added, NoAlarm, RemTyped, RemTypeOK, ClientStates
  <2>2. ~crossed /\ ~cutShort' => client[c].when = reminder'.when /\ alarm.state = "none"
    BY <1>5 DEF AddAlarm, RemInv, Timely
  <2>3. reminder.when \in Nat
    BY <1>0 DEF RemTyped, RemTypeOK
  <2> QED
    BY <1>0, <1>5, <2>1, <2>2, <2>3, HandlerMoves DEF AddAlarm, RemTyped, RemTypeOK
<1>6. CASE CloseRow(c)
  <2>1. /\ reminder' \in [status : {"NONE", "PENDING", "FIRED", "DISMISSED", "CANCELLED"},
                          deleted : BOOLEAN, when : 0..MaxTime]
        /\ reminder'.status # "NONE" /\ reminder'.when = reminder.when
    BY <1>0, <1>6 DEF CloseRow, RemTyped, RemTypeOK
  <2>2. ~crossed => ~Rewritten
    BY <1>6 DEF CloseRow, RemInv, Solo, Rewritten
  <2>3. ~crossed /\ ~cutShort' /\ alarm'.state = "delayed" => reminder'.when <= alarm'.when
    BY <1>6, <2>1, <2>2 DEF CloseRow, RemInv, Timely
  <2> QED
    BY <1>0, <1>6, <2>1, <2>3, HandlerMoves DEF CloseRow, RemTyped, RemTypeOK
<1>7. CASE HandlerDies(c)
  <2>1. ~cutShort' => ~cutShort /\ ~(ClientAt(c, "remove") /\ client[c].op = "update")
    BY <1>7, Zenon DEF HandlerDies
  <2>2. ~crossed /\ ~cutShort' => ~Rewritten
    BY <1>7, <2>1 DEF HandlerDies, RemInv, Solo, Rewritten
  <2>3. ~crossed /\ ~cutShort' /\ alarm'.state = "delayed" => reminder'.when <= alarm'.when
    BY <1>7, <2>1, <2>2 DEF HandlerDies, RemInv, Timely
  <2> QED
    BY <1>0, <1>7, <2>1, <2>3, HandlerMoves DEF HandlerDies, RemTyped, RemTypeOK
<1> QED
  BY <1>0, <1>1, <1>2, <1>3, <1>4, <1>5, <1>6, <1>7 DEF HandlerStep

\* The processor, or the queue, lets the job go.
LEMMA JobRests ==
    ASSUME RemInv, RemTyped', UNCHANGED <<client, clock, crossed, cutShort, sounded>>,
           firing' # "idle" => firing # "idle",
           reminder' = reminder,
           alarm'.when = alarm.when \/ alarm'.state = "none",
           alarm'.state = "delayed" => alarm.state \in {"delayed", "active"},
           alarm'.state = "active" => alarm.state = "active",
           alarm.state = "none" => alarm'.state = "none",
           firing' = "write" => firing = "write" \/ reminder.status = "PENDING"
    PROVE  RemInv'
<1>1. ASSUME ~crossed' PROVE Solo'
  BY <1>1 DEF RemInv, Solo, Busy, ClientAt
<1>2. ASSUME ~crossed' /\ ~cutShort' PROVE Timely'
  BY <1>2 DEF RemInv, Timely, Rewritten, ClientAt
<1> QED
  BY <1>1, <1>2 DEF RemInv

LEMMA RemInvStep == RemInv /\ [RemNext]_remVars => RemInv'
<1> SUFFICES ASSUME RemInv, [RemNext]_remVars PROVE RemInv'
  OBVIOUS
<1>0. RemTyped
  BY DEF RemInv
<1> USE DEF RemTyped, RemTypeOK, ClientAt
<1>1. CASE UNCHANGED remVars
  BY <1>1 DEF remVars, RemInv, Solo, Timely, Busy, Rewritten
<1>2. ASSUME NEW c \in Clients,
             \/ \E t \in Times : CreateReminder(c, t) \/ Begin(c, "update", t)
             \/ \E op \in {"dismiss", "remove"} : Begin(c, op, 0)
             \/ HandlerStep(c) \/ HandlerDies(c)
      PROVE  RemInv'
  BY <1>2, RemHandlersKeep
<1>3. CASE TakeAlarm
  <2>1. RemTyped' /\ alarm'.state = "active" /\ alarm'.when = alarm.when
    BY <1>0, <1>3 DEF TakeAlarm
  <2>2. ~crossed' => ~crossed /\ ~Busy
    BY <1>3, Zenon DEF TakeAlarm, Cross
  <2>3. ASSUME ~crossed' PROVE Solo'
    BY <1>3, <2>1, <2>2, <2>3 DEF TakeAlarm, RemInv, Solo, Busy
  <2>4. ASSUME ~crossed' /\ ~cutShort' PROVE Timely'
    <3>1. Timely /\ ~Rewritten
      BY <1>3, <2>2, <2>4 DEF TakeAlarm, RemInv, Busy, Rewritten
    <3> QED
      BY <1>3, <2>1, <3>1 DEF TakeAlarm, Timely, Rewritten
  <2> QED
    BY <2>1, <2>3, <2>4 DEF RemInv
<1>5. CASE LoadReminder
  <2>1. /\ RemTyped'
        /\ alarm'.when = alarm.when
        /\ alarm'.state \in {alarm.state, "kept"} /\ alarm.state = "active"
    BY <1>0, <1>5 DEF LoadReminder, Complete
  <2>2. firing' = "write" => reminder.status = "PENDING"
    BY <1>5 DEF LoadReminder, Complete
  <2>3. /\ UNCHANGED <<client, clock, crossed, cutShort, sounded>> /\ firing = "load"
        /\ reminder' = reminder
    BY <1>5 DEF LoadReminder
  <2> HIDE DEF RemTyped
  <2> QED
    BY <2>1, <2>2, <2>3, JobRests
<1>6. CASE Fire
  <2>1. RemTyped' /\ reminder'.when = reminder.when /\ reminder'.status # "NONE"
        /\ alarm'.state = "kept" /\ firing' = "idle" /\ alarm.state = "active"
    BY <1>0, <1>6 DEF Fire, Complete
  <2>2. ASSUME ~crossed' PROVE Solo'
    BY <1>6, <2>1, <2>2 DEF Fire, RemInv, Solo, Busy
  <2>3. ASSUME ~crossed' /\ ~cutShort' PROVE Timely'
    <3>1. Timely /\ Solo /\ ~Busy
      BY <1>6, <2>3 DEF Fire, RemInv, Solo
    <3>2. reminder.when <= alarm.when /\ alarm.when <= clock
      BY <2>1, <3>1 DEF Timely, Rewritten, Busy
    <3>3. sounded' # "early"
      BY <1>0, <1>6, <3>2 DEF Fire
    <3> QED
      BY <1>6, <2>1, <3>1, <3>3 DEF Fire, Timely, Busy
  <2> QED
    BY <2>1, <2>2, <2>3 DEF RemInv
<1>7. CASE FireThrows
  <2>1. PICK st \in {"kept", "delayed"} : alarm' = [alarm EXCEPT !.fails = @ + 1, !.state = st]
    BY <1>7 DEF FireThrows
  <2> QED
    <3>1. /\ RemTyped'
          /\ alarm'.when = alarm.when /\ alarm'.state \in {"kept", "delayed"} /\ alarm.state = "active"
      <4>1. /\ alarm \in [state : {"none", "delayed", "active", "kept"}, when : 0..MaxTime,
                          fails : Nat, stalls : Nat]
            /\ alarm.state = "active"
        BY <1>0, <1>7 DEF FireThrows
      <4>2. PICK n \in Nat : n = alarm.fails + 1
        BY <4>1
      <4>3. alarm' = [alarm EXCEPT !.fails = n, !.state = st]
        BY <2>1, <4>2
      <4>4. /\ alarm' \in [state : {"none", "delayed", "active", "kept"}, when : 0..MaxTime,
                           fails : Nat, stalls : Nat]
            /\ alarm'.when = alarm.when /\ alarm'.state = st
        BY <4>1, <4>3
      <4> QED
        BY <1>0, <1>7, <4>1, <4>4 DEF FireThrows
    <3>2. /\ UNCHANGED <<client, clock, crossed, cutShort, sounded>> /\ firing' = "idle"
          /\ reminder' = reminder
      BY <1>7 DEF FireThrows
    <3> HIDE DEF RemTyped
    <3> QED
      BY <3>1, <3>2, JobRests
<1>8. CASE WorkerDies
  <2>1. PICK st \in {"kept", "delayed"} : alarm' = [alarm EXCEPT !.stalls = @ + 1, !.state = st]
    BY <1>8 DEF WorkerDies
  <2> QED
    <3>1. /\ RemTyped'
          /\ alarm'.when = alarm.when /\ alarm'.state \in {"kept", "delayed"} /\ alarm.state = "active"
      <4>1. /\ alarm \in [state : {"none", "delayed", "active", "kept"}, when : 0..MaxTime,
                          fails : Nat, stalls : Nat]
            /\ alarm.state = "active"
        BY <1>0, <1>8 DEF WorkerDies
      <4>2. PICK n \in Nat : n = alarm.stalls + 1
        BY <4>1
      <4>3. alarm' = [alarm EXCEPT !.stalls = n, !.state = st]
        BY <2>1, <4>2
      <4>4. /\ alarm' \in [state : {"none", "delayed", "active", "kept"}, when : 0..MaxTime,
                           fails : Nat, stalls : Nat]
            /\ alarm'.when = alarm.when /\ alarm'.state = st
        BY <4>1, <4>3
      <4> QED
        BY <1>0, <1>8, <4>1, <4>4 DEF WorkerDies
    <3>2. /\ UNCHANGED <<client, clock, crossed, cutShort, sounded>> /\ firing' = "idle"
          /\ reminder' = reminder
      BY <1>8 DEF WorkerDies
    <3> HIDE DEF RemTyped
    <3> QED
      BY <3>1, <3>2, JobRests
<1>9. CASE EvictAlarm
  <2>1. RemTyped' /\ alarm'.state = "none"
    BY <1>0, <1>9, ReminderAssumption DEF EvictAlarm, NoAlarm, ReminderAssumption
  <2>2. /\ UNCHANGED <<client, clock, crossed, cutShort, sounded>> /\ firing' = firing
        /\ reminder' = reminder /\ alarm.state = "kept" /\ firing = "idle"
    BY <1>0, <1>9 DEF EvictAlarm
  <2> HIDE DEF RemTyped
  <2> QED
    BY <2>1, <2>2, JobRests
<1>10. CASE TimePasses
  <2>1. RemTyped'
    BY <1>0, <1>10, ReminderAssumption DEF TimePasses, ReminderAssumption
  <2>2. ASSUME ~crossed' PROVE Solo'
    BY <1>10, <2>2 DEF TimePasses, RemInv, Solo, Busy
  <2>3. ASSUME ~crossed' /\ ~cutShort' PROVE Timely'
    BY <1>0, <1>10, <2>3 DEF TimePasses, RemInv, Timely, Rewritten
  <2> QED
    BY <2>1, <2>2, <2>3 DEF RemInv
<1> QED
  BY <1>1, <1>2, <1>3, <1>5, <1>6, <1>7, <1>8, <1>9, <1>10 DEF RemNext, ProcessorStep

(* Every value of the row, the job and the clock keeps its range, and the    *)
(* processor is at work exactly while the job is active.                     *)
THEOREM ReminderTypeCorrect == RemSpec => []RemTypeOK
<1>1. RemInv => RemTypeOK
  BY DEF RemInv, RemTyped
<1> QED
  BY <1>1, RemInvInit, RemInvStep, PTL DEF RemSpec

(* A reminder never fires before the time last set, unless handlers          *)
(* overlapped or one died after it wrote the new time                        *)
(* (reminders.service.ts:178-180).                                           *)
THEOREM NeverEarly == RemSpec => []NeverEarlyUnlessCrossed
<1>1. RemInv => NeverEarlyUnlessCrossed
  BY DEF RemInv, Timely, NeverEarlyUnlessCrossed
<1> QED
  BY <1>1, RemInvInit, RemInvStep, PTL DEF RemSpec

LEMMA ClosedStays == RemInit /\ [][RemNext]_remVars => ClosedStaysClosed
<1>1. RemInv /\ [RemNext]_remVars =>
         (reminder.status \in {"DISMISSED", "CANCELLED"} /\ reminder'.status = "FIRED" => crossed)
  <2> SUFFICES ASSUME RemInv, [RemNext]_remVars, ~crossed,
                      reminder.status \in {"DISMISSED", "CANCELLED"}
               PROVE  reminder'.status # "FIRED"
    BY Zenon
  <2>1. RemTyped /\ Solo
    BY DEF RemInv
  <2>2. CASE reminder' = reminder
    BY <2>2
  <2>3. ASSUME NEW c \in Clients, UpdateRow(c) \/ CloseRow(c) PROVE reminder'.status # "FIRED"
    BY <2>1, <2>3 DEF UpdateRow, CloseRow, RemTyped, RemTypeOK
  <2>4. ~Fire /\ \A c \in Clients, t \in Times : ~CreateReminder(c, t)
    BY <2>1 DEF Fire, CreateReminder, Solo
  <2> QED
    BY <2>2, <2>3, <2>4 DEF RemNext, remVars, ProcessorStep, HandlerStep, Begin, RemoveAlarm, AddAlarm,
       HandlerDies, TakeAlarm, LoadReminder, FireThrows, WorkerDies, EvictAlarm, TimePasses
<1> QED
  BY <1>1, RemInvInit, RemInvStep, PTL DEF ClosedStaysClosed

(* What a user dismissed or removed does not fire afterwards, unless the     *)
(* processor or another handler was in flight (reminders.processor.ts reads  *)
(* the status before it writes FIRED by id).                                 *)
THEOREM ClosedForGood == RemSpec => ClosedStaysClosed
  BY ClosedStays DEF RemSpec

-----------------------------------------------------------------------------
(* Workflow runs: one at a time, every step, and what was cancelled.        *)

Steps == 0..(StepCount - 1)
Points == {"idle", "check", "create", "load", "mark", "act", "fail", "wait", "paused", "complete", "cap"}
ExecStates == [at : Points, todo : SUBSET Workflows, wf : Workflows \cup {NoWorkflow},
               run : Runs \cup {NoRun}, i : Nat, job : ResumeJobs \cup {NoJob}, own : BOOLEAN]
JobStates == [run : Runs \cup {NoRun}, from : Nat, state : {"none", "waiting", "active"}, stalls : Nat]
RunStates == [wf : Workflows \cup {NoWorkflow},
              status : {"NONE", "RUNNING", "COMPLETED", "FAILED", "CANCELLED"}, step : Steps]

WfTyped ==
    /\ WfTypeOK
    /\ resume \in [ResumeJobs -> JobStates]
    /\ exec \in [Executors -> ExecStates]
    /\ acted \in [Runs -> [Steps -> Nat]]
    /\ \A x \in Executors :
          /\ exec[x].run = NoRun <=> exec[x].at \in {"idle", "check", "create"}
          /\ exec[x].own => exec[x].job # NoJob /\ exec[x].run # NoRun
          /\ ExecAt(x, "create") => exec[x].wf \in Workflows
          /\ ExecAt(x, "act") => exec[x].i < StepCount
    /\ \A x, y \in Executors : exec[x].own /\ exec[y].own /\ exec[x].job = exec[y].job => x = y

\* Nothing refers to a row that is not there yet.
Unstarted ==
    \A r \in Runs : run[r].status = "NONE" =>
       /\ \A i \in Steps : acted[r][i] = 0
       /\ \A x \in Executors : exec[x].run # r
       /\ \A j \in ResumeJobs : resume[j].run # r

\* OneRunPerPair with the triggers between their check and their insert.
Creating(x, w) == ExecAt(x, "create") /\ exec[x].wf = w
OneAtATime ==
    \A w \in Workflows : w \notin raced =>
       /\ \A r, s \in Running(w) : r = s
       /\ \A x, y \in Executors : Creating(x, w) /\ Creating(y, w) => x = y
       /\ \A x \in Executors : Creating(x, w) => Running(w) = {}

\* Executors of a cancelled run have yet to read its status, or are done.
Unpursued ==
    \A r \in Runs, x \in Executors :
       run[r].status = "CANCELLED" /\ r \notin pursued /\ exec[x].run = r
          => exec[x].at \in {"load", "paused", "cap"}

\* Every step before the index of an executor or of a job was executed.
Behind(r, n) == \A i \in Steps : i < n /\ i \notin WaitsAt[run[r].wf] => acted[r][i] > 0
Frontier ==
    /\ \A x \in Executors :
          /\ exec[x].run # NoRun => Behind(exec[x].run, exec[x].i)
          /\ ExecAt(x, "complete") => StepCount <= exec[x].i
          /\ ExecAt(x, "wait") => exec[x].i \in WaitsAt[run[exec[x].run].wf]
    /\ \A j \in ResumeJobs : resume[j].run # NoRun => Behind(resume[j].run, resume[j].from)
    /\ \A r \in Runs : run[r].status = "COMPLETED" => Behind(r, StepCount)

\* A run has one executor or one waiting job, with every step from its index
\* on still to execute.
Executes(x, r) == exec[x].run = r /\ ~ExecAt(x, "paused")
WaitsFor(j, r) == resume[j].run = r /\ resume[j].state = "waiting"
Ahead(r, n) == \A i \in Steps : i >= n => acted[r][i] = 0
OneToken ==
    \A r \in Runs : r \notin redone =>
       /\ \A i \in Steps : acted[r][i] <= 1
       /\ \A x \in Executors : Executes(x, r) =>
             /\ Ahead(r, exec[x].i)
             /\ \A y \in Executors : Executes(y, r) => x = y
             /\ \A j \in ResumeJobs : ~WaitsFor(j, r)
       /\ \A j \in ResumeJobs : WaitsFor(j, r) =>
             /\ Ahead(r, resume[j].from)
             /\ \A k \in ResumeJobs : WaitsFor(k, r) => j = k

WfInv == WfTyped /\ Unstarted /\ OneAtATime /\ Unpursued /\ Frontier /\ OneToken

LEMMA WfInvInit == WfInit => WfInv
<1> SUFFICES ASSUME WfInit PROVE WfInv
  OBVIOUS
<1> USE DEF WfInit, ExecAt
<1>0. StepCount \in Nat \ {0} /\ NoRun \notin Runs /\ 0 \in Steps
  BY WorkflowAssumption DEF WorkflowAssumption, Steps
<1>1. WfTyped
  <2>1. Unengaged \in ExecStates /\ NoResume \in JobStates
    BY DEF Unengaged, NoResume, ExecStates, JobStates, Points
  <2>2. WfTypeOK
    BY <1>0 DEF WfTypeOK, Steps, NoResume, Unengaged
  <2> QED
    BY <2>1, <2>2 DEF WfTyped, Unengaged, Steps
<1>2. Unstarted
  BY <1>0 DEF Unstarted, Unengaged, NoResume, Steps
<1>3. OneAtATime
  BY DEF OneAtATime, Creating, Running, Unengaged
<1>4. Unpursued
  BY DEF Unpursued
<1>5. Frontier
  BY DEF Frontier, Unengaged, NoResume
<1>6. OneToken
  BY <1>0 DEF OneToken, Executes, WaitsFor, Unengaged, NoResume, Steps
<1> QED
  BY <1>1, <1>2, <1>3, <1>4, <1>5, <1>6 DEF WfInv

LEMMA MoveTyped ==
    ASSUME WfTyped, NEW x \in Executors, NEW d \in ExecStates, Move(x, d)
    PROVE  /\ exec' \in [Executors -> ExecStates]
           /\ \A y \in Executors : exec'[y] = IF y = x THEN d ELSE exec[y]
  BY DEF WfTyped, Move

\* An executor lets go of its run and of its job, or has none.
LEMMA ExecutorGoes ==
    ASSUME WfInv, NEW x \in Executors, NEW d \in ExecStates, Move(x, d),
           d.run = NoRun, d.at \in {"idle", "check", "create"}, ~d.own,
           d.at = "create" =>
              /\ d.wf \in Workflows
              /\ Running(d.wf) = {}
              /\ d.wf \notin raced' => \A y \in Executors \ {x} : ~Creating(y, d.wf),
           raced \subseteq raced',
           UNCHANGED <<acted, redone, pursued>>,
           resume' \in [ResumeJobs -> JobStates],
           \A j \in ResumeJobs :
              \/ resume'[j] = resume[j]
              \/ exec[x].own /\ j = exec[x].job /\ resume'[j] = NoResume,
           run' \in [Runs -> RunStates],
           \A r \in Runs :
              /\ run'[r].wf = run[r].wf
              /\ \/ run'[r].status = run[r].status
                 \/ /\ r = exec[x].run
                    /\ \/ run'[r].status = "FAILED"
                       \/ run'[r].status = "COMPLETED" /\ ExecAt(x, "complete")
    PROVE  WfInv'
<1>0. WfTyped
  BY DEF WfInv
<1>1. /\ exec' \in [Executors -> ExecStates]
      /\ \A y \in Executors : exec'[y] = IF y = x THEN d ELSE exec[y]
  BY <1>0, MoveTyped
<1> USE DEF ExecAt
<1>2. NoResume.run = NoRun /\ NoResume.state = "none"
  BY DEF NoResume
<1>3. WfTyped'
  <2>1. WfTypeOK'
    <3>1. run' \in [Runs -> [wf : Workflows \cup {NoWorkflow},
                             status : {"NONE", "RUNNING", "COMPLETED", "FAILED", "CANCELLED"},
                             step : 0..(StepCount - 1)]]
      BY DEF RunStates, Steps
    <3>2. \A j \in ResumeJobs : resume'[j].state = "none" <=> resume'[j].run = NoRun
      BY <1>0, <1>2 DEF WfTyped, WfTypeOK
    <3>3. \A y \in Executors : y # x /\ exec[y].own =>
             exec[y].job \in ResumeJobs /\ resume[exec[y].job].state = "active"
      BY <1>0 DEF WfTyped, WfTypeOK, ExecStates
    <3>4. \A y \in Executors : exec'[y].own => resume'[exec'[y].job].state = "active"
      BY <1>0, <1>1, <3>3 DEF WfTyped
    <3> QED
      BY <3>1, <3>2, <3>4 DEF WfTypeOK
  <2>2. acted' \in [Runs -> [Steps -> Nat]]
    BY <1>0 DEF WfTyped
  <2>3. \A y \in Executors :
           /\ exec'[y].run = NoRun <=> exec'[y].at \in {"idle", "check", "create"}
           /\ exec'[y].own => exec'[y].job # NoJob /\ exec'[y].run # NoRun
           /\ exec'[y].at = "create" => exec'[y].wf \in Workflows
           /\ exec'[y].at = "act" => exec'[y].i < StepCount
    BY <1>0, <1>1 DEF WfTyped
  <2>4. \A y, z \in Executors :
           exec'[y].own /\ exec'[z].own /\ exec'[y].job = exec'[z].job => y = z
    BY <1>0, <1>1 DEF WfTyped
  <2> QED
    BY <1>1, <2>1, <2>2, <2>3, <2>4 DEF WfTyped
<1>4. \A r \in Runs : run'[r].status = "NONE" => run[r].status = "NONE"
  OBVIOUS
<1>5. NoRun \notin Runs
  BY WorkflowAssumption DEF WorkflowAssumption
<1>6. Unstarted'
  BY <1>1, <1>2, <1>4, <1>5 DEF WfInv, Unstarted
<1>7. OneAtATime'
  <2>1. \A w \in Workflows : Running(w)' \subseteq Running(w)
    BY DEF Running
  <2> QED
    BY <1>0, <1>1, <2>1 DEF WfInv, OneAtATime, Creating
<1>8. Unpursued'
  BY <1>1, <1>5 DEF WfInv, Unpursued
<1>9. Frontier'
  <2>1. \A r \in Runs, n \in Nat : Behind(r, n) => Behind(r, n)'
    BY DEF Behind
  <2>3. StepCount \in Nat
    BY WorkflowAssumption DEF WorkflowAssumption
  <2>2. \A r \in Runs : run'[r].status = "COMPLETED" => Behind(r, StepCount)
    <3>1. ASSUME ExecAt(x, "complete"), exec[x].run \in Runs PROVE Behind(exec[x].run, StepCount)
      <4>1. exec[x].i \in Nat /\ StepCount <= exec[x].i /\ Behind(exec[x].run, exec[x].i)
        BY <1>0, <1>5, <3>1 DEF WfInv, Frontier, WfTyped, ExecStates
      <4> QED
        BY <2>3, <4>1 DEF Behind, Steps
    <3> QED
      BY <3>1 DEF WfInv, Frontier
  <2>4. \A y \in Executors : y # x /\ exec[y].run # NoRun => exec[y].run \in Runs /\ exec[y].i \in Nat
    BY <1>0 DEF WfTyped, ExecStates
  <2>5. \A j \in ResumeJobs : resume[j].run # NoRun => resume[j].run \in Runs /\ resume[j].from \in Nat
    BY <1>0 DEF WfTyped, JobStates
  <2>6. \A y \in Executors :
           /\ exec'[y].run # NoRun => Behind(exec[y].run, exec[y].i)' 
           /\ exec'[y].at = "complete" => StepCount <= exec'[y].i
           /\ exec'[y].at = "wait" => exec'[y].i \in WaitsAt[run'[exec'[y].run].wf]
    BY <1>0, <1>1, <2>1, <2>4 DEF WfInv, Frontier, WfTyped
  <2>7. \A j \in ResumeJobs : resume'[j].run # NoRun => Behind(resume[j].run, resume[j].from)'
    BY <1>2, <2>1, <2>5 DEF WfInv, Frontier
  <2>8. \A r \in Runs : run'[r].status = "COMPLETED" => Behind(r, StepCount)'
    BY <2>1, <2>2, <2>3
  <2> QED
    BY <2>6, <2>7, <2>8 DEF Frontier
<1>10. OneToken'
  BY <1>1, <1>2, <1>5 DEF WfInv, OneToken, Executes, WaitsFor, Ahead
<1> QED
  BY <1>3, <1>6, <1>7, <1>8, <1>9, <1>10 DEF WfInv

\* An executor goes on with its run.
LEMMA GoesOn ==
    ASSUME WfInv, NEW x \in Executors, NEW d \in ExecStates, Move(x, d),
           exec[x].run # NoRun, ~ExecAt(x, "paused"),
           d.run = exec[x].run, d.job = exec[x].job, d.own = exec[x].own,
           d.at \in {"mark", "act", "fail", "wait", "complete"},
           UNCHANGED <<resume, raced, redone, pursued>>,
           run[exec[x].run].status = "CANCELLED" => exec[x].run \in pursued,
           run' \in [Runs -> RunStates],
           \A r \in Runs : run'[r].wf = run[r].wf /\ run'[r].status = run[r].status,
           acted' \in [Runs -> [Steps -> Nat]],
           \A r \in Runs : r # exec[x].run => acted'[r] = acted[r],
           \/ acted' = acted /\ d.i = exec[x].i
           \/ /\ ExecAt(x, "act") /\ d.i = exec[x].i + 1
              /\ \A i \in Steps : acted'[exec[x].run][i] =
                    IF i = exec[x].i THEN acted[exec[x].run][i] + 1 ELSE acted[exec[x].run][i],
           d.at = "act" => d.i < StepCount,
           d.at = "complete" => StepCount <= d.i,
           d.at = "wait" => d.i \in WaitsAt[run[exec[x].run].wf]
    PROVE  WfInv'
<1>0. WfTyped /\ StepCount \in Nat
  BY WorkflowAssumption DEF WfInv, WorkflowAssumption
<1>1. /\ exec' \in [Executors -> ExecStates]
      /\ \A y \in Executors : exec'[y] = IF y = x THEN d ELSE exec[y]
  BY <1>0, MoveTyped
<1>2. PICK q \in Runs : q = exec[x].run
  BY <1>0 DEF WfTyped, ExecStates
<1> USE DEF ExecAt
<1>3. WfTyped'
  <2>1. run' \in [Runs -> [wf : Workflows \cup {NoWorkflow},
                           status : {"NONE", "RUNNING", "COMPLETED", "FAILED", "CANCELLED"},
                           step : 0..(StepCount - 1)]]
    BY DEF RunStates, Steps
  <2>2. WfTypeOK'
    <3>0. WfTypeOK /\ resume' = resume
      BY <1>0 DEF WfTyped
    <3>1. \A y \in Executors : exec'[y].own = exec[y].own /\ exec'[y].job = exec[y].job
      BY <1>1
    <3>2. \A j \in ResumeJobs : resume'[j].state = "none" <=> resume'[j].run = NoRun
      BY <3>0 DEF WfTypeOK
    <3>3. \A y \in Executors : exec'[y].own => resume'[exec'[y].job].state = "active"
      BY <3>0, <3>1 DEF WfTypeOK
    <3> QED
      BY <2>1, <3>2, <3>3 DEF WfTypeOK
  <2>3. \A y \in Executors :
           /\ exec'[y].run = NoRun <=> exec'[y].at \in {"idle", "check", "create"}
           /\ exec'[y].own => exec'[y].job # NoJob /\ exec'[y].run # NoRun
           /\ exec'[y].at = "create" => exec'[y].wf \in Workflows
           /\ exec'[y].at = "act" => exec'[y].i < StepCount
    BY <1>0, <1>1, <1>2 DEF WfTyped
  <2>4. \A y, z \in Executors :
           exec'[y].own /\ exec'[z].own /\ exec'[y].job = exec'[z].job => y = z
    BY <1>0, <1>1 DEF WfTyped
  <2> QED
    BY <1>0, <1>1, <2>2, <2>3, <2>4 DEF WfTyped
<1>4. run[q].status # "NONE"
  BY <1>2 DEF WfInv, Unstarted
<1>5. \A y \in Executors : exec'[y].run = exec[y].run /\ exec'[y].own = exec[y].own
                               /\ exec'[y].job = exec[y].job
  BY <1>1
<1>6. Unstarted'
  <2> SUFFICES ASSUME NEW r \in Runs, run'[r].status = "NONE"
               PROVE  /\ \A i \in Steps : acted'[r][i] = 0
                      /\ \A y \in Executors : exec'[y].run # r
                      /\ \A j \in ResumeJobs : resume'[j].run # r
    BY DEF Unstarted
  <2>1. r # q /\ run[r].status = "NONE"
    BY <1>4
  <2>2. acted'[r] = acted[r]
    BY <1>2, <2>1
  <2> QED
    BY <1>5, <2>1, <2>2 DEF WfInv, Unstarted
<1>7. OneAtATime'
  <2>1. \A w \in Workflows : Running(w)' = Running(w)
    BY DEF Running
  <2>2. \A y \in Executors, w \in Workflows : Creating(y, w)' => Creating(y, w)
    BY <1>1 DEF Creating
  <2> QED
    BY <2>1, <2>2 DEF WfInv, OneAtATime
<1>8. Unpursued'
  BY <1>1, <1>2 DEF WfInv, Unpursued
<1>9. Frontier'
  <2>1. \A r \in Runs, n \in Nat : Behind(r, n) => Behind(r, n)'
    <3> SUFFICES ASSUME NEW r \in Runs, NEW n \in Nat, Behind(r, n) PROVE Behind(r, n)'
      OBVIOUS
    <3>1. \A i \in Steps : acted'[r][i] >= acted[r][i]
      BY <1>0, <1>2 DEF WfTyped
    <3> QED
      BY <1>0, <3>1 DEF Behind, WfTyped
  <2>2. Behind(q, d.i)'
    <3>1. exec[x].i \in Nat /\ Behind(q, exec[x].i)
      BY <1>0, <1>2 DEF WfInv, Frontier, WfTyped, ExecStates
    <3>2. CASE d.i = exec[x].i
      BY <2>1, <3>1, <3>2
    <3>3. CASE ExecAt(x, "act") /\ d.i = exec[x].i + 1
      <4>1. \A i \in Steps : i < d.i => i = exec[x].i \/ i < exec[x].i
        BY <3>1, <3>3 DEF Steps
      <4> QED
        BY <1>0, <1>2, <2>1, <3>1, <3>3, <4>1 DEF Behind, WfTyped
    <3> QED
      BY <1>2, <3>1, <3>2, <3>3
  <2>4. \A y \in Executors : y # x /\ exec[y].run # NoRun => exec[y].run \in Runs /\ exec[y].i \in Nat
    BY <1>0 DEF WfTyped, ExecStates
  <2>5. \A j \in ResumeJobs : resume[j].run # NoRun => resume[j].run \in Runs /\ resume[j].from \in Nat
    BY <1>0 DEF WfTyped, JobStates
  <2>6. \A y \in Executors : y # x =>
           /\ exec'[y].run # NoRun => Behind(exec[y].run, exec[y].i)'
           /\ exec'[y].at = "complete" => StepCount <= exec'[y].i
           /\ exec'[y].at = "wait" => exec'[y].i \in WaitsAt[run'[exec'[y].run].wf]
    BY <1>0, <1>1, <2>1, <2>4 DEF WfInv, Frontier, WfTyped
  <2>7. \A j \in ResumeJobs : resume'[j].run # NoRun => Behind(resume[j].run, resume[j].from)'
    BY <2>1, <2>5 DEF WfInv, Frontier
  <2>8. \A r \in Runs : run'[r].status = "COMPLETED" => Behind(r, StepCount)'
    BY <1>0, <2>1 DEF WfInv, Frontier
  <2>9. Behind(exec[x].run, exec[x].i)'
    BY <1>1, <1>2, <2>2
  <2> QED
    BY <1>1, <1>2, <2>6, <2>7, <2>8, <2>9 DEF Frontier
<1>10. OneToken'
  <2>1. \A y \in Executors, r \in Runs : Executes(y, r)' <=> Executes(y, r)
    BY <1>1 DEF Executes
  <2>2. \A j \in ResumeJobs, r \in Runs : WaitsFor(j, r)' <=> WaitsFor(j, r)
    BY DEF WaitsFor
  <2>3. \A r \in Runs, n \in Nat : r # q /\ Ahead(r, n) => Ahead(r, n)'
    BY <1>2 DEF Ahead
  <2>4. Executes(x, q)
    BY <1>2 DEF Executes
  <2>5. ASSUME q \notin redone
        PROVE  (\A i \in Steps : acted'[q][i] <= 1) /\ Ahead(q, exec[x].i)'
    <3>1. /\ exec[x].i \in Nat /\ Ahead(q, exec[x].i)
          /\ \A i \in Steps : acted[q][i] <= 1 /\ acted[q][i] \in Nat
      BY <1>0, <2>4, <2>5 DEF WfInv, OneToken, WfTyped, ExecStates
    <3>2. CASE acted' = acted /\ d.i = exec[x].i
      BY <1>1, <3>1, <3>2 DEF Ahead
    <3>3. CASE /\ d.i = exec[x].i + 1
               /\ \A i \in Steps : acted'[q][i] = IF i = exec[x].i THEN acted[q][i] + 1 ELSE acted[q][i]
      <4>1. \A i \in Steps : i >= d.i => i # exec[x].i /\ i >= exec[x].i
        BY <3>1, <3>3 DEF Steps
      <4>2. \A i \in Steps : i = exec[x].i => acted[q][i] = 0
        BY <3>1 DEF Ahead, Steps
      <4>3. \A i \in Steps : acted'[q][i] <= 1
        BY <3>1, <3>3, <4>2
      <4>4. \A i \in Steps : i >= d.i => acted'[q][i] = 0
        BY <3>1, <3>3, <4>1 DEF Ahead
      <4> QED
        BY <1>1, <4>3, <4>4 DEF Ahead
    <3> QED
      BY <1>2, <3>1, <3>2, <3>3
  <2> SUFFICES ASSUME NEW r \in Runs, r \notin redone
               PROVE  /\ \A i \in Steps : acted'[r][i] <= 1
                      /\ \A y \in Executors : Executes(y, r)' =>
                            /\ Ahead(r, exec[y].i)'
                            /\ \A z \in Executors : Executes(z, r)' => y = z
                            /\ \A j \in ResumeJobs : ~WaitsFor(j, r)'
                      /\ \A j \in ResumeJobs : WaitsFor(j, r)' =>
                            /\ Ahead(r, resume[j].from)'
                            /\ \A k \in ResumeJobs : WaitsFor(k, r)' => j = k
    BY DEF OneToken
  <2>6. /\ \A y, z \in Executors : Executes(y, r) /\ Executes(z, r) => y = z
        /\ \A y \in Executors, j \in ResumeJobs : Executes(y, r) => ~WaitsFor(j, r)
        /\ \A j, k \in ResumeJobs : WaitsFor(j, r) /\ WaitsFor(k, r) => j = k
    BY DEF WfInv, OneToken
  <2>7. CASE r = q
    BY <2>1, <2>2, <2>4, <2>5, <2>6, <2>7
  <2>8. CASE r # q
    <3>1. \A y \in Executors : Executes(y, r) => exec'[y] = exec[y] /\ exec[y].i \in Nat
      BY <1>0, <1>1, <1>2, <2>8 DEF Executes, WfTyped, ExecStates
    <3>2. \A j \in ResumeJobs : resume[j].from \in Nat
      BY <1>0 DEF WfTyped, JobStates
    <3>3. \A y \in Executors : Executes(y, r) => Ahead(r, exec[y].i)'
      BY <2>3, <2>8, <3>1 DEF WfInv, OneToken
    <3>4. \A j \in ResumeJobs : WaitsFor(j, r) => Ahead(r, resume[j].from)'
      BY <2>3, <2>8, <3>2 DEF WfInv, OneToken
    <3>5. \A i \in Steps : acted'[r][i] <= 1
      BY <1>2, <2>8 DEF WfInv, OneToken
    <3> QED
      BY <2>1, <2>2, <2>6, <3>3, <3>4, <3>5
  <2> QED
    BY <2>7, <2>8
<1> QED
  BY <1>3, <1>6, <1>7, <1>8, <1>9, <1>10 DEF WfInv

LEMMA CreateKeeps ==
    ASSUME WfInv, NEW x \in Executors, CreateRun(x)
    PROVE  WfInv'
<1>0. WfTyped /\ StepCount \in Nat /\ 0 \in Steps /\ NoRun \notin Runs
  BY WorkflowAssumption DEF WfInv, WorkflowAssumption, Steps
<1> USE DEF ExecAt
<1>1. PICK q \in Runs : q = NewRun /\ run[q].status = "NONE"
  BY DEF CreateRun, NewRun, UnusedRuns
<1>2. PICK d : d = [exec[x] EXCEPT !.at = "load", !.run = NewRun, !.i = 0]
  OBVIOUS
<1>3. exec[x] \in ExecStates /\ exec[x].wf \in Workflows /\ ExecAt(x, "create") /\ exec[x].run = NoRun
  BY <1>0 DEF CreateRun, WfTyped
<1>4. /\ d \in ExecStates /\ d.at = "load" /\ d.run = q /\ d.i = 0
      /\ d.wf = exec[x].wf /\ d.job = exec[x].job /\ d.own = exec[x].own
  BY <1>1, <1>2, <1>3 DEF ExecStates, Points
<1>5. /\ exec' \in [Executors -> ExecStates]
      /\ \A y \in Executors : exec'[y] = IF y = x THEN d ELSE exec[y]
  BY <1>0, <1>2, <1>4, MoveTyped DEF CreateRun
<1>6. /\ run' \in [Runs -> RunStates]
      /\ \A r \in Runs : run'[r] = IF r = q THEN [wf |-> exec[x].wf, status |-> "RUNNING", step |-> 0]
                                   ELSE run[r]
  BY <1>0, <1>1, <1>3 DEF CreateRun, WfTyped, WfTypeOK, RunStates, Steps
<1>7. UNCHANGED <<resume, acted, raced, redone, pursued>>
  BY DEF CreateRun
<1>8. /\ \A i \in Steps : acted[q][i] = 0
      /\ \A y \in Executors : exec[y].run # q
      /\ \A j \in ResumeJobs : resume[j].run # q
  BY <1>1 DEF WfInv, Unstarted
<1>9. WfTyped'
  <2>1. run' \in [Runs -> [wf : Workflows \cup {NoWorkflow},
                           status : {"NONE", "RUNNING", "COMPLETED", "FAILED", "CANCELLED"},
                           step : 0..(StepCount - 1)]]
    BY <1>6 DEF RunStates, Steps
  <2>2. \A y \in Executors : exec'[y].own = exec[y].own /\ exec'[y].job = exec[y].job
    BY <1>4, <1>5
  <2>3. WfTypeOK'
    BY <1>0, <1>7, <2>1, <2>2 DEF WfTyped, WfTypeOK
  <2> QED
    BY <1>0, <1>4, <1>5, <1>7, <2>2, <2>3 DEF WfTyped
<1>10. Unstarted'
  BY <1>1, <1>4, <1>5, <1>6, <1>7 DEF WfInv, Unstarted
<1>11. OneAtATime'
  <2>1. \A w \in Workflows : Running(w)' = IF w = exec[x].wf THEN Running(w) \cup {q} ELSE Running(w)
    BY <1>1, <1>6 DEF Running
  <2>2. \A y \in Executors, w \in Workflows : Creating(y, w)' => y # x /\ Creating(y, w)
    BY <1>4, <1>5 DEF Creating
  <2>3. Creating(x, exec[x].wf)
    BY <1>3 DEF Creating
  <2> SUFFICES ASSUME NEW w \in Workflows, w \notin raced
               PROVE  /\ \A r, s \in Running(w)' : r = s
                      /\ \A y, z \in Executors : Creating(y, w)' /\ Creating(z, w)' => y = z
                      /\ \A y \in Executors : Creating(y, w)' => Running(w)' = {}
    BY <1>7 DEF OneAtATime
  <2>4. /\ \A r, s \in Running(w) : r = s
        /\ \A y, z \in Executors : Creating(y, w) /\ Creating(z, w) => y = z
        /\ \A y \in Executors : Creating(y, w) => Running(w) = {}
    BY DEF WfInv, OneAtATime
  <2>5. CASE w = exec[x].wf
    BY <2>1, <2>2, <2>3, <2>4, <2>5
  <2>6. CASE w # exec[x].wf
    BY <2>1, <2>2, <2>4, <2>6
  <2> QED
    BY <2>5, <2>6
<1>12. Unpursued'
  BY <1>4, <1>5, <1>6, <1>7 DEF WfInv, Unpursued
<1>13. Frontier'
  <2>1. \A r \in Runs, n \in Nat : r # q /\ Behind(r, n) => Behind(r, n)'
    BY <1>6, <1>7 DEF Behind
  <2>2. \A y \in Executors : exec[y].run # NoRun => exec[y].run \in Runs /\ exec[y].i \in Nat
    BY <1>0 DEF WfTyped, ExecStates
  <2>3. \A j \in ResumeJobs : resume[j].run # NoRun => resume[j].run \in Runs /\ resume[j].from \in Nat
    BY <1>0 DEF WfTyped, JobStates
  <2>4. Behind(q, d.i)'
    BY <1>4 DEF Behind, Steps
  <2>5. Behind(exec[x].run, exec[x].i)'
    BY <1>4, <1>5, <2>4
  <2>6. \A y \in Executors : y # x =>
           /\ exec'[y].run # NoRun => Behind(exec[y].run, exec[y].i)'
           /\ exec'[y].at = "complete" => StepCount <= exec'[y].i
           /\ exec'[y].at = "wait" => exec'[y].i \in WaitsAt[run'[exec'[y].run].wf]
    BY <1>0, <1>5, <1>6, <1>8, <2>1, <2>2 DEF WfInv, Frontier, WfTyped
  <2>7. \A j \in ResumeJobs : resume'[j].run # NoRun => Behind(resume[j].run, resume[j].from)'
    BY <1>7, <1>8, <2>1, <2>3 DEF WfInv, Frontier
  <2>8. \A r \in Runs : run'[r].status = "COMPLETED" => Behind(r, StepCount)'
    BY <1>0, <1>6, <2>1 DEF WfInv, Frontier
  <2> QED
    BY <1>4, <1>5, <2>5, <2>6, <2>7, <2>8 DEF Frontier
<1>14. OneToken'
  <2>1. \A y \in Executors, r \in Runs : Executes(y, r)' <=> (y = x /\ r = q) \/ Executes(y, r)
    BY <1>0, <1>3, <1>4, <1>5 DEF Executes
  <2>2. \A y \in Executors : ~Executes(y, q)
    BY <1>8 DEF Executes
  <2>3. \A j \in ResumeJobs, r \in Runs : WaitsFor(j, r)' <=> WaitsFor(j, r)
    BY <1>7 DEF WaitsFor
  <2>4. \A j \in ResumeJobs : ~WaitsFor(j, q)
    BY <1>8 DEF WaitsFor
  <2>5. \A r \in Runs : r # q => ~Executes(x, r)
    BY <1>0, <1>3 DEF Executes
  <2>6. exec'[x].i = 0 /\ \A y \in Executors : y # x => exec'[y] = exec[y]
    BY <1>4, <1>5
  <2> QED
    BY <1>7, <1>8, <2>1, <2>2, <2>3, <2>4, <2>5, <2>6 DEF WfInv, OneToken, Ahead
<1> QED
  BY <1>9, <1>10, <1>11, <1>12, <1>13, <1>14 DEF WfInv

\* The executor pauses and leaves the next index behind.
LEMMA AddResumeKeeps ==
    ASSUME WfInv, NEW x \in Executors, AddResume(x)
    PROVE  WfInv'
<1>0. WfTyped /\ NoRun \notin Runs /\ StepCount \in Nat
  BY WorkflowAssumption DEF WfInv, WorkflowAssumption
<1> USE DEF ExecAt
<1>1. PICK f \in ResumeJobs : f = FreeSlot /\ resume[f].state = "none" /\ resume[f].run = NoRun
  BY <1>0 DEF AddResume, ProceedWith, FreeSlot, WfTyped, WfTypeOK
<1>2. PICK d : d = [exec[x] EXCEPT !.at = "paused"]
  OBVIOUS
<1>3. PICK q \in Runs : q = exec[x].run
  BY <1>0 DEF AddResume, WfTyped, ExecStates
<1>4. exec[x] \in ExecStates /\ ExecAt(x, "wait") /\ exec[x].i \in Nat
  BY <1>0 DEF AddResume, WfTyped, ExecStates
<1>5. /\ d \in ExecStates /\ d.at = "paused" /\ d.run = q /\ d.i = exec[x].i
      /\ d.wf = exec[x].wf /\ d.job = exec[x].job /\ d.own = exec[x].own
  BY <1>2, <1>3, <1>4 DEF ExecStates, Points
<1>6. /\ exec' \in [Executors -> ExecStates]
      /\ \A y \in Executors : exec'[y] = IF y = x THEN d ELSE exec[y]
  BY <1>0, <1>2, <1>5, MoveTyped DEF AddResume, ProceedWith
<1>7. PICK p : p = Payload(x, exec[x].i + 1)
  OBVIOUS
<1>8. p \in JobStates /\ p.run = q /\ p.from = exec[x].i + 1 /\ p.state = "waiting"
  BY <1>3, <1>4, <1>7 DEF Payload, JobStates
<1>9. /\ resume' \in [ResumeJobs -> JobStates]
      /\ \A j \in ResumeJobs : resume'[j] = IF j = f THEN p ELSE resume[j]
  BY <1>0, <1>1, <1>7, <1>8 DEF AddResume, ProceedWith, WfTyped
<1>10. UNCHANGED <<run, acted, raced, redone, pursued>>
  BY DEF AddResume
<1>11. run[q].status # "NONE"
  BY <1>3 DEF WfInv, Unstarted
<1>12. \A y \in Executors : /\ exec'[y].own = exec[y].own /\ exec'[y].job = exec[y].job
                            /\ exec'[y].run = exec[y].run /\ exec'[y].i = exec[y].i
  BY <1>3, <1>5, <1>6
<1>13. WfTyped'
  <2>1. \A j \in ResumeJobs : resume'[j].state = "none" <=> resume'[j].run = NoRun
    BY <1>0, <1>8, <1>9 DEF WfTyped, WfTypeOK
  <2>2. \A y \in Executors : exec[y].own => exec[y].job \in ResumeJobs /\ exec[y].job # f
    BY <1>0, <1>1 DEF WfTyped, WfTypeOK, ExecStates
  <2>3. WfTypeOK'
    BY <1>0, <1>9, <1>10, <1>12, <2>1, <2>2 DEF WfTyped, WfTypeOK
  <2> QED
    BY <1>0, <1>3, <1>5, <1>6, <1>9, <1>10, <1>12, <2>3 DEF WfTyped
<1>14. Unstarted'
  BY <1>8, <1>9, <1>10, <1>11, <1>12 DEF WfInv, Unstarted
<1>15. OneAtATime'
  <2>1. \A w \in Workflows : Running(w)' = Running(w)
    BY <1>10 DEF Running
  <2>2. \A y \in Executors, w \in Workflows : Creating(y, w)' => Creating(y, w)
    BY <1>5, <1>6 DEF Creating
  <2> QED
    BY <1>10, <2>1, <2>2 DEF WfInv, OneAtATime
<1>16. Unpursued'
  BY <1>5, <1>6, <1>10 DEF WfInv, Unpursued
<1>17. Frontier'
  <2>1. \A r, n : Behind(r, n) => Behind(r, n)'
    BY <1>10 DEF Behind
  <2>2. Behind(q, p.from)
    <3>1. Behind(q, exec[x].i) /\ exec[x].i \in WaitsAt[run[q].wf]
      BY <1>0, <1>3, <1>4 DEF WfInv, Frontier
    <3> QED
      BY <1>4, <1>8, <3>1 DEF Behind, Steps
  <2>3. \A j \in ResumeJobs : resume'[j].run # NoRun => Behind(resume[j].run, resume[j].from)'
    <3> SUFFICES ASSUME NEW j \in ResumeJobs, resume'[j].run # NoRun
                 PROVE  Behind(resume'[j].run, resume'[j].from)
      BY <1>10 DEF Behind
    <3> QED
      BY <1>8, <1>9, <2>2 DEF WfInv, Frontier
  <2>4. \A y \in Executors :
           /\ exec'[y].run # NoRun => Behind(exec[y].run, exec[y].i)'
           /\ exec'[y].at = "complete" => StepCount <= exec'[y].i
           /\ exec'[y].at = "wait" => exec'[y].i \in WaitsAt[run'[exec'[y].run].wf]
    <3> SUFFICES ASSUME NEW y \in Executors
                 PROVE  /\ exec'[y].run # NoRun => Behind(exec'[y].run, exec'[y].i)
                        /\ exec'[y].at = "complete" => StepCount <= exec'[y].i
                        /\ exec'[y].at = "wait" => exec'[y].i \in WaitsAt[run'[exec'[y].run].wf]
      BY <1>10 DEF Behind
    <3> QED
      BY <1>5, <1>6, <1>10, <1>12 DEF WfInv, Frontier
  <2>5. \A r \in Runs : run'[r].status = "COMPLETED" => Behind(r, StepCount)'
    BY <1>10, <2>1 DEF WfInv, Frontier
  <2> QED
    BY <2>3, <2>4, <2>5 DEF Frontier
<1>18. OneToken'
  <2>1. \A y \in Executors, r \in Runs : Executes(y, r)' <=> y # x /\ Executes(y, r)
    BY <1>5, <1>6 DEF Executes
  <2>2. \A j \in ResumeJobs, r \in Runs : WaitsFor(j, r)' <=> (j = f /\ r = q) \/ WaitsFor(j, r)
    BY <1>1, <1>8, <1>9 DEF WaitsFor
  <2>3. Executes(x, q) /\ \A r \in Runs : ~WaitsFor(f, r)
    BY <1>1, <1>3, <1>4 DEF Executes, WaitsFor
  <2>4. \A r, n : Ahead(r, n)' <=> Ahead(r, n)
    BY <1>10 DEF Ahead
  <2>5. Ahead(q, exec[x].i) => Ahead(q, p.from)
    BY <1>4, <1>8 DEF Ahead, Steps
  <2> SUFFICES ASSUME NEW r \in Runs, r \notin redone
               PROVE  /\ \A i \in Steps : acted'[r][i] <= 1
                      /\ \A y \in Executors : Executes(y, r)' =>
                            /\ Ahead(r, exec'[y].i)
                            /\ \A z \in Executors : Executes(z, r)' => y = z
                            /\ \A j \in ResumeJobs : ~WaitsFor(j, r)'
                      /\ \A j \in ResumeJobs : WaitsFor(j, r)' =>
                            /\ Ahead(r, resume'[j].from)
                            /\ \A k \in ResumeJobs : WaitsFor(k, r)' => j = k
    BY <1>10 DEF OneToken, Ahead
  <2>6. /\ \A i \in Steps : acted[r][i] <= 1
        /\ \A y \in Executors : Executes(y, r) =>
              /\ Ahead(r, exec[y].i)
              /\ \A z \in Executors : Executes(z, r) => y = z
              /\ \A j \in ResumeJobs : ~WaitsFor(j, r)
        /\ \A j \in ResumeJobs : WaitsFor(j, r) =>
              /\ Ahead(r, resume[j].from)
              /\ \A k \in ResumeJobs : WaitsFor(k, r) => j = k
    BY DEF WfInv, OneToken
  <2>7. CASE r = q
    BY <1>9, <1>10, <1>12, <2>1, <2>2, <2>3, <2>5, <2>6, <2>7
  <2>8. CASE r # q
    BY <1>9, <1>10, <1>12, <2>1, <2>2, <2>3, <2>6, <2>8
  <2> QED
    BY <2>7, <2>8
<1> QED
  BY <1>13, <1>14, <1>15, <1>16, <1>17, <1>18 DEF WfInv

LEMMA ResumeKeeps ==
    ASSUME WfInv, NEW x \in Executors, NEW h \in ResumeJobs, TakeResume(x, h)
    PROVE  WfInv'
<1>0. WfTyped /\ NoRun \notin Runs /\ NoJob \notin ResumeJobs /\ StepCount \in Nat
  BY WorkflowAssumption DEF WfInv, WorkflowAssumption
<1> USE DEF ExecAt
<1>1. PICK q \in Runs : q = resume[h].run
  BY <1>0 DEF TakeResume, WfTyped, WfTypeOK, JobStates
<1>2. PICK d : d = [Unengaged EXCEPT !.at = IF resume[h].from >= StepCap THEN "cap" ELSE "load",
                                     !.run = resume[h].run, !.i = resume[h].from,
                                     !.job = h, !.own = TRUE]
  OBVIOUS
<1>3. resume[h] \in JobStates /\ resume[h].state = "waiting" /\ ExecAt(x, "idle") /\ exec[x].run = NoRun
  BY <1>0 DEF TakeResume, WfTyped
<1>4. /\ d \in ExecStates /\ d.at \in {"cap", "load"} /\ d.run = q /\ d.i = resume[h].from
      /\ d.job = h /\ d.own
  BY <1>1, <1>2, <1>3 DEF ExecStates, JobStates, Points, Unengaged
<1>5. /\ exec' \in [Executors -> ExecStates]
      /\ \A y \in Executors : exec'[y] = IF y = x THEN d ELSE exec[y]
  BY <1>0, <1>2, <1>4, MoveTyped DEF TakeResume
<1>6. PICK p : p = [resume[h] EXCEPT !.state = "active"]
  OBVIOUS
<1>7. p \in JobStates /\ p.run = q /\ p.from = resume[h].from /\ p.state = "active"
  BY <1>1, <1>3, <1>6 DEF JobStates
<1>8. /\ resume' \in [ResumeJobs -> JobStates]
      /\ \A j \in ResumeJobs : resume'[j] = IF j = h THEN p ELSE resume[j]
  <2>1. resume' = [resume EXCEPT ![h] = p]
    BY <1>6 DEF TakeResume
  <2> QED
    BY <1>0, <1>7, <2>1 DEF WfTyped
<1>9. UNCHANGED <<run, acted, raced, redone, pursued>>
  BY DEF TakeResume
<1>10. run[q].status # "NONE"
  BY <1>1 DEF WfInv, Unstarted
<1>11. \A j \in ResumeJobs : resume'[j].run = resume[j].run /\ resume'[j].from = resume[j].from
  BY <1>1, <1>7, <1>8
<1>12. \A y \in Executors : exec[y].own => exec[y].job \in ResumeJobs /\ exec[y].job # h
  BY <1>0, <1>3 DEF WfTyped, WfTypeOK, ExecStates
<1>13. WfTyped'
  <2>1. \A j \in ResumeJobs : resume'[j].state = "none" <=> resume'[j].run = NoRun
    BY <1>0, <1>7, <1>8 DEF WfTyped, WfTypeOK
  <2>2. \A y \in Executors : exec'[y].own => resume'[exec'[y].job].state = "active"
    BY <1>0, <1>4, <1>5, <1>7, <1>8, <1>12 DEF WfTyped, WfTypeOK
  <2>3. WfTypeOK'
    BY <1>0, <1>9, <2>1, <2>2 DEF WfTyped, WfTypeOK
  <2>4. \A y, z \in Executors : exec'[y].own /\ exec'[z].own /\ exec'[y].job = exec'[z].job => y = z
    BY <1>0, <1>4, <1>5, <1>12 DEF WfTyped
  <2> QED
    BY <1>0, <1>4, <1>5, <1>8, <1>9, <2>3, <2>4 DEF WfTyped
<1>14. Unstarted'
  BY <1>4, <1>5, <1>9, <1>10, <1>11 DEF WfInv, Unstarted
<1>15. OneAtATime'
  <2>1. \A w \in Workflows : Running(w)' = Running(w)
    BY <1>9 DEF Running
  <2>2. \A y \in Executors, w \in Workflows : Creating(y, w)' => Creating(y, w)
    BY <1>4, <1>5 DEF Creating
  <2> QED
    BY <1>9, <2>1, <2>2 DEF WfInv, OneAtATime
<1>16. Unpursued'
  BY <1>4, <1>5, <1>9 DEF WfInv, Unpursued
<1>17. Frontier'
  <2>1. \A r, n : Behind(r, n)' <=> Behind(r, n)
    BY <1>9 DEF Behind
  <2>2. \A j \in ResumeJobs : resume'[j].run # NoRun => Behind(resume'[j].run, resume'[j].from)
    BY <1>11 DEF WfInv, Frontier
  <2>3. \A y \in Executors :
           /\ exec'[y].run # NoRun => Behind(exec'[y].run, exec'[y].i)
           /\ exec'[y].at = "complete" => StepCount <= exec'[y].i
           /\ exec'[y].at = "wait" => exec'[y].i \in WaitsAt[run'[exec'[y].run].wf]
    BY <1>0, <1>1, <1>4, <1>5, <1>9 DEF WfInv, Frontier
  <2>4. \A r \in Runs : run'[r].status = "COMPLETED" => Behind(r, StepCount)
    BY <1>9 DEF WfInv, Frontier
  <2> QED
    BY <1>9, <2>2, <2>3, <2>4 DEF Frontier, Behind
<1>18. OneToken'
  <2>1. \A y \in Executors, r \in Runs : Executes(y, r)' <=> (y = x /\ r = q) \/ Executes(y, r)
    BY <1>0, <1>3, <1>4, <1>5 DEF Executes
  <2>2. \A j \in ResumeJobs, r \in Runs : WaitsFor(j, r)' <=> j # h /\ WaitsFor(j, r)
    BY <1>7, <1>8 DEF WaitsFor
  <2>3. WaitsFor(h, q) /\ \A r \in Runs : ~Executes(x, r)
    BY <1>0, <1>1, <1>3 DEF Executes, WaitsFor
  <2>4. exec'[x].i = resume[h].from /\ \A y \in Executors : y # x => exec'[y] = exec[y]
    BY <1>4, <1>5
  <2> SUFFICES ASSUME NEW r \in Runs, r \notin redone
               PROVE  /\ \A i \in Steps : acted'[r][i] <= 1
                      /\ \A y \in Executors : Executes(y, r)' =>
                            /\ Ahead(r, exec'[y].i)
                            /\ \A z \in Executors : Executes(z, r)' => y = z
                            /\ \A j \in ResumeJobs : ~WaitsFor(j, r)'
                      /\ \A j \in ResumeJobs : WaitsFor(j, r)' =>
                            /\ Ahead(r, resume'[j].from)
                            /\ \A k \in ResumeJobs : WaitsFor(k, r)' => j = k
    BY <1>9 DEF OneToken, Ahead
  <2>6. /\ \A i \in Steps : acted[r][i] <= 1
        /\ \A y \in Executors : Executes(y, r) =>
              /\ Ahead(r, exec[y].i)
              /\ \A z \in Executors : Executes(z, r) => y = z
              /\ \A j \in ResumeJobs : ~WaitsFor(j, r)
        /\ \A j \in ResumeJobs : WaitsFor(j, r) =>
              /\ Ahead(r, resume[j].from)
              /\ \A k \in ResumeJobs : WaitsFor(k, r) => j = k
    BY DEF WfInv, OneToken
  <2>7. CASE r = q
    BY <1>9, <1>11, <2>1, <2>2, <2>3, <2>4, <2>6, <2>7
  <2>8. CASE r # q
    BY <1>9, <1>11, <2>1, <2>2, <2>3, <2>4, <2>6, <2>8
  <2> QED
    BY <2>7, <2>8
<1> QED
  BY <1>13, <1>14, <1>15, <1>16, <1>17, <1>18 DEF WfInv

\* The job is handed out again, or not: whoever held it does no longer.
LEMMA StallKeeps ==
    ASSUME WfInv, NEW h \in ResumeJobs, ResumeStalls(h)
    PROVE  WfInv'
<1>0. WfTyped /\ NoRun \notin Runs
  BY WorkflowAssumption DEF WfInv, WorkflowAssumption
<1> USE DEF ExecAt
<1>1. PICK q \in Runs : q = resume[h].run
  BY <1>0 DEF ResumeStalls, WfTyped, WfTypeOK, JobStates
<1>2. UNCHANGED <<run, acted, raced, pursued>> /\ redone' = redone \cup {q} /\ resume[h] \in JobStates
  BY <1>0, <1>1 DEF ResumeStalls, WfTyped
<1>3. PICK p : p = IF resume[h].stalls = 1 THEN NoResume
                   ELSE [resume[h] EXCEPT !.state = "waiting", !.stalls = 1]
  OBVIOUS
<1>4. /\ p \in JobStates
      /\ \/ p.run = NoRun /\ p.state = "none"
         \/ p.run = q /\ p.state = "waiting" /\ p.from = resume[h].from
  BY <1>1, <1>2, <1>3 DEF NoResume, JobStates
<1>5. /\ resume' \in [ResumeJobs -> JobStates]
      /\ \A j \in ResumeJobs : resume'[j] = IF j = h THEN p ELSE resume[j]
  <2>1. resume' = [resume EXCEPT ![h] = p]
    BY <1>3 DEF ResumeStalls
  <2> QED
    BY <1>0, <1>4, <2>1 DEF WfTyped
<1>6. /\ exec' \in [Executors -> ExecStates]
      /\ \A y \in Executors : /\ exec'[y].at = exec[y].at /\ exec'[y].run = exec[y].run
                              /\ exec'[y].i = exec[y].i /\ exec'[y].wf = exec[y].wf
                              /\ exec'[y].job = exec[y].job
                              /\ exec'[y].own => exec[y].own /\ exec[y].job # h
  <2>1. exec' = [y \in Executors |-> IF y \in WorkersOn(h) THEN [exec[y] EXCEPT !.own = FALSE] ELSE exec[y]]
    BY DEF ResumeStalls
  <2>2. \A y \in Executors :
           /\ exec[y] \in ExecStates
           /\ [exec[y] EXCEPT !.own = FALSE] \in ExecStates
    BY <1>0 DEF WfTyped, ExecStates
  <2>3. \A y \in Executors : y \notin WorkersOn(h) => ~exec[y].own \/ exec[y].job # h
    BY DEF WorkersOn
  <2>4. \A y \in Executors : LET e == [exec[y] EXCEPT !.own = FALSE] IN
           /\ e.at = exec[y].at /\ e.run = exec[y].run /\ e.i = exec[y].i /\ e.wf = exec[y].wf
           /\ e.job = exec[y].job /\ ~e.own
    BY <2>2 DEF ExecStates
  <2>5. \A y \in Executors : exec'[y] = IF y \in WorkersOn(h) THEN [exec[y] EXCEPT !.own = FALSE] ELSE exec[y]
    BY <2>1
  <2>6. exec' \in [Executors -> ExecStates]
    BY <2>1, <2>2
  <2> QED
    BY <2>3, <2>4, <2>5, <2>6
<1>7. run[q].status # "NONE"
  BY <1>1 DEF WfInv, Unstarted
<1>8. WfTyped'
  <2>1. \A j \in ResumeJobs : resume'[j].state = "none" <=> resume'[j].run = NoRun
    BY <1>0, <1>4, <1>5 DEF WfTyped, WfTypeOK
  <2>2. \A y \in Executors : exec[y].own => exec[y].job \in ResumeJobs
    BY <1>0 DEF WfTyped, ExecStates
  <2>3. \A y \in Executors : exec'[y].own => resume'[exec'[y].job].state = "active"
    BY <1>0, <1>5, <1>6, <2>2 DEF WfTyped, WfTypeOK
  <2>4. WfTypeOK'
    BY <1>0, <1>2, <2>1, <2>3 DEF WfTyped, WfTypeOK
  <2>5. \A y, z \in Executors : exec'[y].own /\ exec'[z].own /\ exec'[y].job = exec'[z].job => y = z
    BY <1>0, <1>6 DEF WfTyped
  <2> QED
    BY <1>0, <1>2, <1>5, <1>6, <2>4, <2>5 DEF WfTyped
<1>9. Unstarted'
  BY <1>0, <1>2, <1>4, <1>5, <1>6, <1>7 DEF WfInv, Unstarted
<1>10. OneAtATime'
  <2>1. \A w \in Workflows : Running(w)' = Running(w)
    BY <1>2 DEF Running
  <2>2. \A y \in Executors, w \in Workflows : Creating(y, w)' => Creating(y, w)
    BY <1>6 DEF Creating
  <2> QED
    BY <1>2, <2>1, <2>2 DEF WfInv, OneAtATime
<1>11. Unpursued'
  BY <1>2, <1>6 DEF WfInv, Unpursued
<1>12. Frontier'
  <2>1. \A j \in ResumeJobs : resume'[j].run # NoRun => Behind(resume'[j].run, resume'[j].from)
    BY <1>0, <1>1, <1>4, <1>5 DEF WfInv, Frontier
  <2>2. \A y \in Executors :
           /\ exec'[y].run # NoRun => Behind(exec'[y].run, exec'[y].i)
           /\ exec'[y].at = "complete" => StepCount <= exec'[y].i
           /\ exec'[y].at = "wait" => exec'[y].i \in WaitsAt[run'[exec'[y].run].wf]
    BY <1>2, <1>6 DEF WfInv, Frontier
  <2>3. \A r \in Runs : run'[r].status = "COMPLETED" => Behind(r, StepCount)
    BY <1>2 DEF WfInv, Frontier
  <2> QED
    BY <1>2, <2>1, <2>2, <2>3 DEF Frontier, Behind
<1>13. OneToken'
  <2>1. \A y \in Executors, r \in Runs : Executes(y, r)' <=> Executes(y, r)
    BY <1>6 DEF Executes
  <2>2. \A j \in ResumeJobs, r \in Runs : r # q => (WaitsFor(j, r)' <=> WaitsFor(j, r) /\ j # h)
    BY <1>0, <1>4, <1>5 DEF WaitsFor
  <2>3. \A j \in ResumeJobs : j # h => resume'[j] = resume[j]
    BY <1>5
  <2>4. \A y \in Executors : exec'[y].i = exec[y].i
    BY <1>6
  <2> QED
    BY <1>2, <2>1, <2>2, <2>3, <2>4 DEF WfInv, OneToken, Ahead
<1> QED
  BY <1>8, <1>9, <1>10, <1>11, <1>12, <1>13 DEF WfInv

LEMMA CancelKeeps ==
    ASSUME WfInv, NEW q \in Runs, CancelRun(q)
    PROVE  WfInv'
<1>0. WfTyped
  BY DEF WfInv
<1> USE DEF ExecAt
<1>1. UNCHANGED <<resume, exec, acted, raced, redone>> /\ pursued \subseteq pursued'
  BY DEF CancelRun
<1>2. /\ run' \in [Runs -> RunStates]
      /\ \A r \in Runs : /\ r # q => run'[r] = run[r]
                         /\ run'[r].wf = run[r].wf
      /\ run'[q].status = "CANCELLED" /\ run[q].status = "RUNNING"
  BY <1>0 DEF CancelRun, WfTyped, WfTypeOK, RunStates, Steps
<1>3. WfTyped'
  <2>1. run' \in [Runs -> [wf : Workflows \cup {NoWorkflow},
                           status : {"NONE", "RUNNING", "COMPLETED", "FAILED", "CANCELLED"},
                           step : 0..(StepCount - 1)]]
    BY <1>2 DEF RunStates, Steps
  <2>2. WfTypeOK'
    BY <1>0, <1>1, <2>1 DEF WfTyped, WfTypeOK
  <2> QED
    BY <1>0, <1>1, <2>2 DEF WfTyped
<1>4. Unstarted'
  BY <1>1, <1>2 DEF WfInv, Unstarted
<1>5. OneAtATime'
  <2>1. \A w \in Workflows : Running(w)' \subseteq Running(w)
    BY <1>2 DEF Running
  <2> QED
    BY <1>1, <2>1 DEF WfInv, OneAtATime, Creating
<1>6. Unpursued'
  <2>1. \A x \in Executors : exec[x].run = q /\ exec[x].at \notin {"load", "paused"} => q \in pursued'
    BY DEF CancelRun
  <2> QED
    BY <1>1, <1>2, <2>1 DEF WfInv, Unpursued
<1>7. Frontier'
  <2>1. \A r \in Runs : \A n : Behind(r, n) => Behind(r, n)'
    BY <1>1, <1>2 DEF Behind
  <2>2. \A x \in Executors : exec[x].run # NoRun => exec[x].run \in Runs
    BY <1>0 DEF WfTyped, ExecStates
  <2>3. \A j \in ResumeJobs : resume[j].run # NoRun => resume[j].run \in Runs
    BY <1>0 DEF WfTyped, JobStates
  <2>4. \A x \in Executors :
           /\ exec'[x].run # NoRun => Behind(exec[x].run, exec[x].i)'
           /\ exec'[x].at = "complete" => StepCount <= exec'[x].i
           /\ exec'[x].at = "wait" => exec'[x].i \in WaitsAt[run'[exec'[x].run].wf]
    BY <1>0, <1>1, <1>2, <2>1, <2>2 DEF WfInv, Frontier, WfTyped
  <2>5. \A j \in ResumeJobs : resume'[j].run # NoRun => Behind(resume[j].run, resume[j].from)'
    BY <1>1, <2>1, <2>3 DEF WfInv, Frontier
  <2>6. \A r \in Runs : run'[r].status = "COMPLETED" => Behind(r, StepCount)'
    BY <1>2, <2>1 DEF WfInv, Frontier
  <2> QED
    BY <2>4, <2>5, <2>6 DEF Frontier
<1>8. OneToken'
  BY <1>1 DEF WfInv, OneToken, Executes, WaitsFor, Ahead
<1> QED
  BY <1>3, <1>4, <1>5, <1>6, <1>7, <1>8 DEF WfInv

\* How executeFromStep hands back, whether it returned, threw or died.
LEMMA HandsBack ==
    ASSUME WfTyped, NEW x \in Executors,
           \/ Proceed(x)
           \/ Abandon(x)
           \/ Move(x, Unengaged) /\ UNCHANGED resume
    PROVE  /\ \E d \in ExecStates : Move(x, d) /\ d.run = NoRun /\ d.at \in {"idle", "check"} /\ ~d.own
           /\ resume' \in [ResumeJobs -> JobStates]
           /\ \A j \in ResumeJobs :
                 \/ resume'[j] = resume[j]
                 \/ exec[x].own /\ j = exec[x].job /\ resume'[j] = NoResume
<1>1. Unengaged \in ExecStates /\ Unengaged.run = NoRun /\ Unengaged.at = "idle" /\ ~Unengaged.own
  BY DEF Unengaged, ExecStates, Points
<1>2. ASSUME exec[x].job = NoJob
      PROVE  \E d \in ExecStates : /\ d = [exec[x] EXCEPT !.at = "check", !.run = NoRun, !.wf = NoWorkflow]
                                   /\ d.run = NoRun /\ d.at = "check" /\ ~d.own
  <2>1. exec[x] \in ExecStates /\ ~exec[x].own
    BY <1>2 DEF WfTyped
  <2>2. PICK d : d = [exec[x] EXCEPT !.at = "check", !.run = NoRun, !.wf = NoWorkflow]
    OBVIOUS
  <2>3. d \in ExecStates /\ d.run = NoRun /\ d.at = "check" /\ ~d.own
    BY <2>1, <2>2 DEF ExecStates, Points
  <2> QED
    BY <2>2, <2>3
<1>3. \E d \in ExecStates : Move(x, d) /\ d.run = NoRun /\ d.at \in {"idle", "check"} /\ ~d.own
  BY <1>1, <1>2 DEF Proceed, Abandon
<1>4. \/ resume' = resume
      \/ exec[x].own /\ resume' = [resume EXCEPT ![exec[x].job] = NoResume]
  BY DEF Proceed, Abandon
<1>5. NoResume \in JobStates
  BY DEF NoResume, JobStates
<1> QED
  BY <1>3, <1>4, <1>5 DEF WfTyped

LEMMA ExecutorsKeep ==
    ASSUME WfInv, NEW x \in Executors,
           \/ Trigger(x) \/ CheckRunning(x) \/ TriggerEnds(x) \/ LoadRun(x) \/ MarkStep(x) \/ Act(x)
           \/ ActThrows(x) \/ FailRun(x) \/ EndPaused(x) \/ EngineThrows(x) \/ CompleteRun(x)
           \/ CapExceeded(x) \/ ExecutorDies(x)
    PROVE  WfInv'
<1>0. /\ WfTyped /\ NoRun \notin Runs /\ StepCount \in Nat
      /\ exec[x] \in ExecStates /\ exec \in [Executors -> ExecStates]
      /\ resume \in [ResumeJobs -> JobStates] /\ acted \in [Runs -> [Steps -> Nat]]
  BY WorkflowAssumption DEF WfInv, WfTyped, WorkflowAssumption
<1>a. run \in [Runs -> RunStates]
  BY <1>0 DEF WfTyped, WfTypeOK, RunStates, Steps
<1> USE DEF ExecAt
<1>1. /\ exec[x].run = NoRun <=> exec[x].at \in {"idle", "check", "create"}
      /\ exec[x].run # NoRun => exec[x].run \in Runs
      /\ exec[x].run = NoRun => ~exec[x].own
  BY <1>0 DEF WfTyped, ExecStates
<1>2. Unengaged \in ExecStates /\ Unengaged.run = NoRun /\ Unengaged.at = "idle" /\ ~Unengaged.own
  BY DEF Unengaged, ExecStates, Points
<1>3. CASE Trigger(x)
  <2>1. PICK m \in SUBSET Workflows : Move(x, [Unengaged EXCEPT !.at = "check", !.todo = m])
    BY <1>3 DEF Trigger
  <2>2. PICK d : d = [Unengaged EXCEPT !.at = "check", !.todo = m]
    OBVIOUS
  <2>3. d \in ExecStates /\ d.run = NoRun /\ d.at = "check" /\ ~d.own
    BY <2>2 DEF Unengaged, ExecStates, Points
  <2> QED
    BY <1>0, <1>3, <1>a, <2>1, <2>2, <2>3, ExecutorGoes DEF Trigger
<1>4. CASE CheckRunning(x)
  <2>1. PICK w \in exec[x].todo :
           IF Running(w) # {}
           THEN Move(x, [exec[x] EXCEPT !.todo = @ \ {w}]) /\ UNCHANGED raced
           ELSE /\ Move(x, [exec[x] EXCEPT !.at = "create", !.wf = w, !.todo = @ \ {w}])
                /\ raced' = IF \E y \in Executors \ {x} : ExecAt(y, "create") /\ exec[y].wf = w
                            THEN raced \cup {w} ELSE raced
    BY <1>4 DEF CheckRunning
  <2>2. w \in Workflows /\ exec[x].at = "check" /\ exec[x].run = NoRun /\ ~exec[x].own
    BY <1>0, <1>1, <1>4, <2>1 DEF CheckRunning, ExecStates
  <2>3. UNCHANGED <<run, resume, acted, redone, pursued>>
    BY <1>4 DEF CheckRunning
  <2>4. CASE Running(w) # {}
    <3>1. PICK d : d = [exec[x] EXCEPT !.todo = @ \ {w}]
      OBVIOUS
    <3>2. d \in ExecStates /\ d.run = NoRun /\ d.at = "check" /\ ~d.own
      BY <1>0, <2>2, <3>1 DEF ExecStates, Points
    <3>3. Move(x, d) /\ raced' = raced
      BY <2>1, <2>4, <3>1
    <3> QED
      BY <1>0, <1>a, <2>3, <3>2, <3>3, ExecutorGoes
  <2>5. CASE Running(w) = {}
    <3>1. PICK d : d = [exec[x] EXCEPT !.at = "create", !.wf = w, !.todo = @ \ {w}]
      OBVIOUS
    <3>2. d \in ExecStates /\ d.run = NoRun /\ d.at = "create" /\ d.wf = w /\ ~d.own
      BY <1>0, <2>2, <3>1 DEF ExecStates, Points
    <3>3. /\ Move(x, d) /\ raced \subseteq raced'
          /\ w \notin raced' => \A y \in Executors \ {x} : ~Creating(y, w)
      BY <2>1, <2>5, <3>1 DEF Creating
    <3> QED
      BY <1>0, <1>a, <2>2, <2>3, <2>5, <3>2, <3>3, ExecutorGoes
  <2> QED
    BY <2>4, <2>5
<1>5. CASE TriggerEnds(x)
  BY <1>0, <1>2, <1>5, <1>a, ExecutorGoes DEF TriggerEnds
<1>6. ASSUME exec[x].run \in Runs,
             Proceed(x) \/ Abandon(x) \/ (Move(x, Unengaged) /\ UNCHANGED resume),
             UNCHANGED <<acted, raced, redone, pursued>>,
             \/ run' = run
             \/ run' = [run EXCEPT ![exec[x].run].status = "FAILED"]
             \/ run' = [run EXCEPT ![exec[x].run].status = "COMPLETED"] /\ ExecAt(x, "complete")
      PROVE  WfInv'
  <2>1. /\ run' \in [Runs -> RunStates]
        /\ \A r \in Runs :
              /\ run'[r].wf = run[r].wf
              /\ \/ run'[r].status = run[r].status
                 \/ /\ r = exec[x].run
                    /\ \/ run'[r].status = "FAILED"
                       \/ run'[r].status = "COMPLETED" /\ ExecAt(x, "complete")
    BY <1>a, <1>6 DEF RunStates
  <2>2. PICK d \in ExecStates : Move(x, d) /\ d.run = NoRun /\ d.at \in {"idle", "check"} /\ ~d.own
    BY <1>0, <1>6, HandsBack
  <2>3. /\ resume' \in [ResumeJobs -> JobStates]
        /\ \A j \in ResumeJobs :
              \/ resume'[j] = resume[j]
              \/ exec[x].own /\ j = exec[x].job /\ resume'[j] = NoResume
    BY <1>0, <1>6, HandsBack
  <2> QED
    BY <1>6, <2>1, <2>2, <2>3, ExecutorGoes
<1>7. CASE FailRun(x) \/ EndPaused(x) \/ CompleteRun(x) \/ CapExceeded(x)
  BY <1>1, <1>6, <1>7 DEF FailRun, EndPaused, CompleteRun, CapExceeded
<1>14. CASE EngineThrows(x)
  <2>1. UNCHANGED <<run, acted, raced, redone, pursued>> /\ Abandon(x)
    BY <1>14 DEF EngineThrows
  <2>2. CASE exec[x].run = NoRun
    BY <1>0, <1>1, <1>2, <1>a, <2>1, <2>2, ExecutorGoes DEF Abandon
  <2>3. CASE exec[x].run # NoRun
    BY <1>1, <1>6, <2>1, <2>3
  <2> QED
    BY <2>2, <2>3
<1>8. CASE ExecutorDies(x)
  <2>1. CASE exec[x].run = NoRun
    BY <1>0, <1>2, <1>8, <1>a, <2>1, ExecutorGoes DEF ExecutorDies
  <2>2. CASE exec[x].run # NoRun
    BY <1>1, <1>6, <1>8, <2>2 DEF ExecutorDies
  <2> QED
    BY <2>1, <2>2
<1>9. ASSUME exec[x].run \in Runs, run[exec[x].run].status # "CANCELLED" \/ ~ExecAt(x, "load"),
             exec[x].at \in {"load", "mark", "act"},
             NEW at \in {"mark", "act", "fail", "wait", "complete"}, Move(x, [exec[x] EXCEPT !.at = at]),
             UNCHANGED <<resume, acted, raced, redone, pursued>>,
             run' = run \/ \E i \in Steps : run' = [run EXCEPT ![exec[x].run].step = i],
             at = "act" => exec[x].i < StepCount,
             at = "complete" => StepCount <= exec[x].i,
             at = "wait" => exec[x].i \in WaitsAt[run[exec[x].run].wf]
      PROVE  WfInv'
  <2>1. PICK d : d = [exec[x] EXCEPT !.at = at]
    OBVIOUS
  <2>2. /\ d \in ExecStates /\ d.at = at /\ d.run = exec[x].run /\ d.job = exec[x].job
        /\ d.own = exec[x].own /\ d.i = exec[x].i
    BY <1>0, <2>1 DEF ExecStates, Points
  <2>3. /\ run' \in [Runs -> RunStates]
        /\ \A r \in Runs : run'[r].wf = run[r].wf /\ run'[r].status = run[r].status
    <3>1. CASE run' = run
      BY <1>a, <3>1
    <3>2. ASSUME NEW i \in Steps, run' = [run EXCEPT ![exec[x].run].step = i]
          PROVE  /\ run' \in [Runs -> RunStates]
                 /\ \A r \in Runs : run'[r].wf = run[r].wf /\ run'[r].status = run[r].status
      BY <1>a, <1>9, <3>2 DEF RunStates
    <3> QED
      BY <1>9, <3>1, <3>2
  <2>4. run[exec[x].run].status = "CANCELLED" => exec[x].run \in pursued
    BY <1>9 DEF WfInv, Unpursued
  <2> QED
    BY <1>0, <1>9, <2>1, <2>2, <2>3, <2>4, GoesOn
<1>10. CASE LoadRun(x)
  <2>1. CASE run[exec[x].run].status = "RUNNING"
    BY <1>1, <1>9, <1>10, <2>1 DEF LoadRun
  <2>2. CASE run[exec[x].run].status # "RUNNING"
    BY <1>1, <1>6, <1>10, <2>2 DEF LoadRun
  <2> QED
    BY <2>1, <2>2
<1>11. CASE MarkStep(x)
  <2>1. exec[x].run \in Runs /\ exec[x].i \in Nat /\ ExecAt(x, "mark")
    BY <1>0, <1>1, <1>11 DEF MarkStep, ExecStates
  <2>2. CASE exec[x].i < StepCount
    <3>1. PICK at \in {"act", "wait"} :
             /\ Move(x, [exec[x] EXCEPT !.at = at])
             /\ at = "wait" => exec[x].i \in WaitsAt[run[exec[x].run].wf]
      BY <1>11, <2>2 DEF MarkStep
    <3>2. exec[x].i \in Steps
      BY <1>0, <2>1, <2>2 DEF Steps
    <3> QED
      BY <1>9, <1>11, <2>1, <2>2, <3>1, <3>2 DEF MarkStep
  <2>3. CASE ~(exec[x].i < StepCount)
    BY <1>0, <1>9, <1>11, <2>1, <2>3 DEF MarkStep
  <2> QED
    BY <2>2, <2>3
<1>12. CASE Act(x)
  <2>1. exec[x].run \in Runs /\ exec[x].i \in Steps /\ exec[x].i \in Nat /\ ExecAt(x, "act")
    BY <1>0, <1>1, <1>12 DEF Act, ExecStates, WfTyped, Steps
  <2>2. PICK d : d = [exec[x] EXCEPT !.at = "mark", !.i = @ + 1]
    OBVIOUS
  <2>3. /\ d \in ExecStates /\ d.at = "mark" /\ d.run = exec[x].run /\ d.job = exec[x].job
        /\ d.own = exec[x].own /\ d.i = exec[x].i + 1
    <3>1. PICK n \in Nat : n = exec[x].i + 1
      BY <2>1
    <3>2. d = [exec[x] EXCEPT !.at = "mark", !.i = n]
      BY <2>2, <3>1
    <3> QED
      BY <1>0, <3>1, <3>2 DEF ExecStates, Points
  <2>4. /\ acted' \in [Runs -> [Steps -> Nat]]
        /\ \A r \in Runs : r # exec[x].run => acted'[r] = acted[r]
        /\ \A i \in Steps : acted'[exec[x].run][i] =
              IF i = exec[x].i THEN acted[exec[x].run][i] + 1 ELSE acted[exec[x].run][i]
    BY <1>0, <1>12, <2>1 DEF Act
  <2>5. run[exec[x].run].status = "CANCELLED" => exec[x].run \in pursued
    BY <2>1 DEF WfInv, Unpursued
  <2>6. Move(x, d) /\ UNCHANGED <<run, resume, raced, redone, pursued>>
    BY <1>12, <2>2 DEF Act
  <2> QED
    BY <1>0, <1>a, <2>1, <2>3, <2>4, <2>5, <2>6, GoesOn
<1>13. CASE ActThrows(x)
  BY <1>1, <1>9, <1>13 DEF ActThrows
<1> QED
  BY <1>3, <1>4, <1>5, <1>7, <1>8, <1>10, <1>11, <1>12, <1>13, <1>14

LEMMA WfInvStep == WfInv /\ [WfNext]_wfVars => WfInv'
<1> SUFFICES ASSUME WfInv, [WfNext]_wfVars PROVE WfInv'
  OBVIOUS
<1>1. CASE UNCHANGED wfVars
  <2>1. WfTyped' <=> WfTyped
    BY <1>1 DEF wfVars, WfTyped, WfTypeOK, ExecAt
  <2>2. Unstarted' <=> Unstarted
    BY <1>1 DEF wfVars, Unstarted
  <2>3. OneAtATime' <=> OneAtATime
    BY <1>1 DEF wfVars, OneAtATime, Running, Creating, ExecAt
  <2>4. Unpursued' <=> Unpursued
    BY <1>1 DEF wfVars, Unpursued
  <2>5. Frontier' <=> Frontier
    BY <1>1 DEF wfVars, Frontier, Behind, ExecAt
  <2>6. OneToken' <=> OneToken
    BY <1>1 DEF wfVars, OneToken, Executes, WaitsFor, Ahead, ExecAt
  <2> QED
    BY <2>1, <2>2, <2>3, <2>4, <2>5, <2>6 DEF WfInv
<1>2. CASE WfNext
  <2>1. ASSUME NEW x \in Executors, Trigger(x) \/ ExecStep(x) \/ ActThrows(x) \/ EngineThrows(x) \/ ExecutorDies(x)
        PROVE  WfInv'
    BY <2>1, CreateKeeps, AddResumeKeeps, ResumeKeeps, ExecutorsKeep DEF ExecStep
  <2>2. ASSUME NEW j \in ResumeJobs, ResumeStalls(j) PROVE WfInv'
    BY <2>2, StallKeeps
  <2>3. ASSUME NEW r \in Runs, CancelRun(r) PROVE WfInv'
    BY <2>3, CancelKeeps
  <2> QED
    BY <1>2, <2>1, <2>2, <2>3 DEF WfNext
<1> QED
  BY <1>1, <1>2

LEMMA WfInvariance == WfInit /\ [][WfNext]_wfVars => []WfInv
  BY WfInvInit, WfInvStep, PTL

(* The rows keep their ranges, and whoever owns a job owns an active one.    *)
THEOREM WorkflowTypeCorrect == WfSpec => []WfTypeOK
<1>1. WfInv => WfTypeOK
  BY DEF WfInv, WfTyped
<1> QED
  BY <1>1, WfInvariance, PTL DEF WfSpec

(* "One workflow runs at most once per (subject, workflow) pair while        *)
(* RUNNING" (workflows.service.ts:14), of triggers that do not overlap       *)
(* between the check and the insert.                                         *)
THEOREM OneRun == WfSpec => []OneRunPerPair
<1>1. WfInv => OneRunPerPair
  <2> SUFFICES ASSUME WfInv, NEW w \in Workflows, w \notin raced
               PROVE  ~(Cardinality(Running(w)) > 1)
    BY DEF OneRunPerPair
  <2>1. Running(w) = {} \/ \E r : Running(w) = {r}
    <3>1. ASSUME NEW r \in Running(w) PROVE Running(w) = {r}
      <4>1. \A s \in Running(w) : r = s
        BY DEF WfInv, OneAtATime
      <4> QED
        BY <4>1
    <3> QED
      BY <3>1
  <2>2. CASE Running(w) = {}
    BY <2>2, FS_EmptySet
  <2>3. ASSUME NEW r, Running(w) = {r} PROVE ~(Cardinality(Running(w)) > 1)
    <3>1. Cardinality({r}) = 1
      BY FS_Singleton
    <3> QED
      BY <2>3, <3>1
  <2> QED
    BY <2>1, <2>2, <2>3
<1> QED
  BY <1>1, WfInvariance, PTL DEF WfSpec

(* No step of a run is executed twice unless its job was handed out again,   *)
(* and a COMPLETED run has executed every one (executeFromStep resumes from  *)
(* the index in the job).                                                    *)
THEOREM EveryStepOnce == WfSpec => []StepsOnceAndAll
<1>1. WfInv => StepsOnceAndAll
  <2> SUFFICES ASSUME WfInv, NEW r \in Runs, NEW i \in Steps
               PROVE  /\ acted[r][i] > 1 => r \in redone
                      /\ run[r].status = "COMPLETED" /\ i \notin WaitsAt[run[r].wf] => acted[r][i] > 0
    BY DEF StepsOnceAndAll, Steps
  <2>1. acted[r][i] \in Nat
    BY DEF WfInv, WfTyped
  <2>2. r \notin redone => acted[r][i] <= 1
    BY DEF WfInv, OneToken
  <2>3. i < StepCount
    BY WorkflowAssumption DEF Steps, WorkflowAssumption
  <2> QED
    BY <2>1, <2>2, <2>3 DEF WfInv, Frontier, Behind
<1> QED
  BY <1>1, WfInvariance, PTL DEF WfSpec

LEMMA CancelledStays == WfInit /\ [][WfNext]_wfVars => CancelledStaysCancelled
<1>1. WfInv /\ [WfNext]_wfVars =>
         \A r \in Runs : run[r].status = "CANCELLED" /\ r \notin pursued
                            => run'[r].status = "CANCELLED" /\ acted'[r] = acted[r]
  <2> SUFFICES ASSUME WfInv, [WfNext]_wfVars, NEW r \in Runs,
                      run[r].status = "CANCELLED", r \notin pursued
               PROVE  run'[r].status = "CANCELLED" /\ acted'[r] = acted[r]
    OBVIOUS
  <2>0. /\ run \in [Runs -> RunStates] /\ acted \in [Runs -> [Steps -> Nat]] /\ NoRun \notin Runs
        /\ \A x \in Executors : exec[x] \in ExecStates
    BY WorkflowAssumption DEF WfInv, WfTyped, WfTypeOK, RunStates, Steps, WorkflowAssumption
  <2>1. \A x \in Executors : exec[x].run = r => exec[x].at \in {"load", "paused", "cap"}
    BY DEF WfInv, Unpursued
  <2> USE DEF ExecAt
  <2>2. CASE UNCHANGED <<run, acted>>
    BY <2>2
  <2>3. ASSUME NEW x \in Executors, CreateRun(x) PROVE run'[r].status = "CANCELLED" /\ acted'[r] = acted[r]
    <3>1. NewRun # r
      BY <2>3 DEF CreateRun, NewRun, UnusedRuns
    <3> QED
      BY <2>0, <2>3, <3>1 DEF CreateRun
  <2>4. ASSUME NEW x \in Executors, MarkStep(x) \/ FailRun(x) \/ CompleteRun(x) \/ Act(x)
        PROVE  run'[r].status = "CANCELLED" /\ acted'[r] = acted[r]
    <3>1. exec[x].run # r
      BY <2>1, <2>4 DEF MarkStep, FailRun, CompleteRun, Act
    <3> QED
      BY <2>0, <2>4, <3>1 DEF MarkStep, FailRun, CompleteRun, Act
  <2>5. ASSUME NEW x \in Executors, CapExceeded(x) PROVE run'[r].status = "CANCELLED" /\ acted'[r] = acted[r]
    BY <2>0, <2>5 DEF CapExceeded
  <2>6. ASSUME NEW q \in Runs, CancelRun(q) PROVE run'[r].status = "CANCELLED" /\ acted'[r] = acted[r]
    BY <2>0, <2>6 DEF CancelRun
  <2> QED
    BY <2>2, <2>3, <2>4, <2>5, <2>6 DEF WfNext, ExecStep, wfVars, Trigger, CheckRunning, TriggerEnds,
       LoadRun, AddResume, EndPaused, TakeResume, ActThrows, EngineThrows, ExecutorDies, ResumeStalls
<1> QED
  BY <1>1, WfInvariance, PTL DEF CancelledStaysCancelled

(* A cancelled run stays cancelled and executes no further step, unless an   *)
(* executor had read its status before (FailRun and CompleteRun write by id).*)
THEOREM CancelledForGood == WfSpec => CancelledStaysCancelled
  BY CancelledStays DEF WfSpec

-----------------------------------------------------------------------------
(* Callbacks: however often a provider posts, an event counts once.         *)

HookStates == [at : {"idle", "get", "set", "claim", "work", "add", "reply"}, event : Events \cup {NoEvent}]

CbTyped ==
    /\ CallbackTypeOK
    /\ hook \in [Hooks -> HookStates]
    /\ aiJob \in [of : Events \cup {NoEvent}, state : {"none", "waiting", "active", "completed", "failed"}]
    /\ \A h \in Hooks :
          /\ hook[h].at = "idle" => hook[h] = NoHook
          /\ hook[h].at \in {"get", "set"} => Kind[hook[h].event] # "stripe"
          /\ hook[h].at = "add" => Kind[hook[h].event] = "recording"
    /\ \A e \in doubled : Kind[e] # "stripe"

\* A provider reports on a call only once it has been asked to dial, and the row
\* is older than that.  An effect of a recording is the job.
RowFirst ==
    /\ phone = "NONE" => /\ dialler = "idle" /\ ~ringing
                         /\ \A e \in posted : Kind[e] \notin {"status", "recording"}
    /\ aiJob.state # "none" => aiJob.of \in Events /\ applied[aiJob.of] > 0
    /\ \A e \in Events :
          /\ Kind[e] \in {"voice", "recording"} => applied[e] <= 1
          /\ Kind[e] = "recording" /\ applied[e] > 0 => aiJob.state # "none"

\* One handler gets past the key, and does so before the effect.
Working(h, e) == hook[h].event = e /\ hook[h].at \in {"work", "add"}
OneWorker ==
    \A e \in Events : e \notin doubled \cup lapsed =>
       /\ e \notin marked => applied[e] = 0 /\ \A h \in Hooks : ~Working(h, e)
       /\ \A h \in Hooks : Working(h, e) => applied[e] = 0 /\ \A g \in Hooks : Working(g, e) => g = h
       /\ applied[e] <= 1

\* A key says that the effect is there, or coming, or that a mishap took it.
DoneWith(e) == \/ applied[e] > 0
               \/ e \in dropped \cup shadowed \cup strangers
               \/ Kind[e] = "stripe" /\ sold[Payer[e]] \in replaced
PastKey(e) ==
    \/ e \in marked \cup lapsed \cup (posted \ open)
    \/ \E h \in Hooks : hook[h].event = e /\ hook[h].at \in {"work", "add", "reply"}
KeyTells == \A e \in Events : PastKey(e) => DoneWith(e) \/ \E h \in Hooks : Working(h, e)

\* PendingIsWorkedOn, with the handler that is about to add the job.
PendingHeld ==
    transcription = "PENDING" =>
        \/ aiJob.state \in {"waiting", "active", "failed"}
        \/ shadowed # {}
        \/ \E e \in Events : /\ Kind[e] = "recording"
                             /\ \/ e \in dropped \cup doubled \cup lapsed
                                \/ \E h \in Hooks : hook[h].event = e /\ hook[h].at = "add"

\* The customer of a session is the tenant's, or another was written over it.
CustomerKept ==
    /\ NoBuyer \notin replaced
    /\ \A b \in Buyers : /\ sold[b] \in {NoBuyer, customer} \cup replaced
                         /\ b \in storing => sold[b] = NoBuyer
StripeIsSold == \A e \in posted : Kind[e] = "stripe" => sold[Payer[e]] # NoBuyer

CbInv == /\ CbTyped /\ RowFirst /\ OneWorker /\ KeyTells /\ PendingHeld
         /\ CustomerKept /\ StripeIsSold

USE CallbackAssumption DEF CallbackAssumption

LEMMA CbInvInit == CallbackInit => CbInv
<1> SUFFICES ASSUME CallbackInit PROVE CbInv
  OBVIOUS
<1>1. CbTyped
  BY DEF CallbackInit, CbTyped, CallbackTypeOK, HookStates, NoHook
<1>2. RowFirst
  BY DEF CallbackInit, RowFirst
<1>3. OneWorker
  BY DEF CallbackInit, OneWorker, Working, NoHook
<1>4. KeyTells
  BY DEF CallbackInit, KeyTells, PastKey, NoHook
<1>5. PendingHeld
  BY DEF CallbackInit, PendingHeld
<1>6. CustomerKept /\ StripeIsSold
  BY DEF CallbackInit, CustomerKept, StripeIsSold
<1> QED
  BY <1>1, <1>2, <1>3, <1>4, <1>5, <1>6 DEF CbInv

\* Where a handler is after one of its steps.
LEMMA HookMoves ==
    ASSUME CbTyped, NEW h \in Hooks, NEW d \in HookStates, hook' = [hook EXCEPT ![h] = d]
    PROVE  hook' \in [Hooks -> HookStates] /\ \A g \in Hooks : hook'[g] = IF g = h THEN d ELSE hook[g]
  BY DEF CbTyped

LEMMA PhoneKeeps ==
    ASSUME CbInv, CreateCall \/ Dial \/ StoreSid \/ MarkCallFailed \/ TakeAiJob \/ SaveAiResult \/ AiJobFails
    PROVE  CbInv'
<1>1. /\ UNCHANGED <<posted, open, posts, marked, hook, applied, doubled, lapsed, dropped, shadowed>>
      /\ UNCHANGED <<routed, customer, storing, sold, strangers, replaced>>
      /\ phone' = "NONE" => phone = "NONE" /\ dialler' = dialler /\ ringing' = ringing
      /\ phone' \in {"NONE", "QUEUED", "FAILED", "REPORTED"}
      /\ transcription' \in {transcription, "COMPLETED"}
      /\ aiJob'.of = aiJob.of /\ (aiJob'.state = "none" <=> aiJob.state = "none")
      /\ aiJob' \in [of : Events \cup {NoEvent}, state : {"none", "waiting", "active", "completed", "failed"}]
      /\ \/ transcription' = "COMPLETED"
         \/ aiJob.state \in {"waiting", "active", "failed"} => aiJob'.state \in {"waiting", "active", "failed"}
  BY DEF CbInv, CbTyped, CallbackTypeOK, RowFirst, CreateCall, Dial, StoreSid, MarkCallFailed, TakeAiJob,
     SaveAiResult, AiJobFails, dialling, others, provider, keys, tenant, sales
<1>2. CbTyped'
  BY <1>1 DEF CbInv, CbTyped, CallbackTypeOK
<1>3. RowFirst'
  BY <1>1 DEF CbInv, RowFirst
<1>4. OneWorker'
  BY <1>1 DEF CbInv, OneWorker, Working
<1>5. KeyTells'
  BY <1>1 DEF CbInv, KeyTells, PastKey, DoneWith, Working
<1>6. PendingHeld'
  BY <1>1 DEF CbInv, PendingHeld
<1>7. CustomerKept' /\ StripeIsSold'
  BY <1>1 DEF CbInv, CustomerKept, StripeIsSold
<1> QED
  BY <1>2, <1>3, <1>4, <1>5, <1>6, <1>7 DEF CbInv

\* Administrators and checkouts.
LEMMA TenantKeeps ==
    ASSUME CbInv, RegisterNumber \/ \E b \in Buyers : BeginCheckout(b) \/ StoreCustomer(b)
    PROVE  CbInv'
<1>1. /\ UNCHANGED <<posted, open, posts, marked, hook, applied, doubled, lapsed, dropped, shadowed>>
      /\ UNCHANGED <<phone, dialler, ringing, transcription, aiJob, strangers>>
  BY DEF RegisterNumber, BeginCheckout, StoreCustomer, callbacks, provider, keys
<1>2. CallbackTypeOK /\ CustomerKept
  BY DEF CbInv, CbTyped
<1>3. ASSUME sales' = sales, routed' \in BOOLEAN PROVE CbInv'
  <2>1. UNCHANGED <<customer, storing, sold, replaced>>
    BY <1>3 DEF sales
  <2> QED
    BY <1>1, <1>3, <2>1 DEF CbInv, CbTyped, CallbackTypeOK, RowFirst, OneWorker, Working, KeyTells, PastKey,
       DoneWith, PendingHeld, CustomerKept, StripeIsSold
<1>4. ASSUME routed' = routed, storing' \subseteq Buyers, sold' \in [Buyers -> Buyers \cup {NoBuyer}],
             customer' \in Buyers \cup {NoBuyer}, replaced \subseteq replaced', CustomerKept',
             \A b \in Buyers : sold[b] # NoBuyer => sold'[b] = sold[b]
      PROVE  CbInv'
  <2>1. CbTyped'
    BY <1>1, <1>4 DEF CbInv, CbTyped, CallbackTypeOK
  <2>2. RowFirst'
    BY <1>1 DEF CbInv, RowFirst
  <2>3. OneWorker'
    BY <1>1 DEF CbInv, OneWorker, Working
  <2>4. \A e \in Events : DoneWith(e) => DoneWith(e)'
    BY <1>1, <1>2, <1>4 DEF DoneWith, CustomerKept, CallbackTypeOK
  <2>5. \A e \in Events : /\ PastKey(e)' <=> PastKey(e)
                          /\ \A h \in Hooks : Working(h, e)' <=> Working(h, e)
    BY <1>1 DEF PastKey, Working
  <2>6. KeyTells'
    BY <2>4, <2>5 DEF CbInv, KeyTells
  <2>7. PendingHeld'
    BY <1>1 DEF CbInv, PendingHeld
  <2>8. StripeIsSold'
    BY <1>1, <1>2, <1>4 DEF CbInv, StripeIsSold, CallbackTypeOK
  <2> QED
    BY <1>4, <2>1, <2>2, <2>3, <2>6, <2>7, <2>8 DEF CbInv
<1>5. CASE RegisterNumber
  BY <1>3, <1>5 DEF RegisterNumber
<1>6. ASSUME NEW b \in Buyers, BeginCheckout(b) PROVE CbInv'
  <2>1. UNCHANGED <<routed, customer, replaced>> /\ sold[b] = NoBuyer /\ b \notin storing
    BY <1>6 DEF BeginCheckout
  <2>2. CASE storing' = storing \cup {b} /\ sold' = sold
    <3>1. storing' \subseteq Buyers
      BY <1>2, <2>2 DEF CallbackTypeOK
    <3>2. CustomerKept'
      BY <1>2, <2>1, <2>2 DEF CustomerKept
    <3> QED
      BY <1>2, <1>4, <2>1, <2>2, <3>1, <3>2 DEF CallbackTypeOK
  <2>3. CASE sold' = [sold EXCEPT ![b] = customer] /\ storing' = storing
    <3>1. customer \in Buyers \cup {NoBuyer}
      BY <1>2 DEF CallbackTypeOK
    <3>2. \A a \in Buyers : sold'[a] = IF a = b THEN customer ELSE sold[a]
      BY <1>2, <2>3 DEF CallbackTypeOK
    <3>3. CustomerKept'
      BY <1>2, <2>1, <2>3, <3>1, <3>2 DEF CustomerKept
    <3>4. sold' \in [Buyers -> Buyers \cup {NoBuyer}]
      BY <1>2, <2>3, <3>1 DEF CallbackTypeOK
    <3> QED
      BY <1>2, <1>4, <2>1, <2>3, <3>2, <3>3, <3>4 DEF CallbackTypeOK
  <2> QED
    BY <1>6, <2>2, <2>3 DEF BeginCheckout
<1>7. ASSUME NEW b \in Buyers, StoreCustomer(b) PROVE CbInv'
  BY <1>2, <1>4, <1>7 DEF StoreCustomer, CallbackTypeOK, CustomerKept
<1> QED
  BY <1>5, <1>6, <1>7

\* Before a handler is past the key, or after its effect.
LEMMA KeysKeep ==
    ASSUME CbInv, NEW h \in Hooks, NEW e \in Events,
           Post(h, e) \/ GetKey(h, e) \/ SetKey(h, e) \/ ClaimKey(h, e) \/ Reply(h, e)
    PROVE  CbInv'
<1>0. /\ CbTyped /\ RowFirst /\ OneWorker /\ KeyTells /\ PendingHeld
      /\ CustomerKept /\ StripeIsSold
      /\ NoHook \in HookStates /\ NoHook.at = "idle" /\ NoHook.event = NoEvent
  BY DEF CbInv, HookStates, NoHook
<1>1. /\ UNCHANGED <<applied, phone, dialler, ringing, transcription, aiJob, shadowed, losses, dropped, lapsed>>
      /\ UNCHANGED <<routed, customer, storing, sold, strangers, replaced>>
  BY DEF Post, GetKey, SetKey, ClaimKey, Reply, mine, call, keys, tenant, sales
<1>2. CASE Post(h, e)
  <2>1. PICK d \in HookStates : /\ d.event = e /\ hook' = [hook EXCEPT ![h] = d]
                                /\ d.at = IF Kind[e] = "stripe" THEN "claim" ELSE "get"
    <3>1. PICK d : d = [at |-> IF Kind[e] = "stripe" THEN "claim" ELSE "get", event |-> e]
      OBVIOUS
    <3>2. d \in HookStates /\ d.event = e /\ d.at = IF Kind[e] = "stripe" THEN "claim" ELSE "get"
      BY <3>1 DEF HookStates
    <3> QED
      BY <1>2, <3>1, <3>2 DEF Post, HookTo
  <2>2. hook' \in [Hooks -> HookStates] /\ \A g \in Hooks : hook'[g] = IF g = h THEN d ELSE hook[g]
    BY <1>0, <2>1, HookMoves
  <2>3. /\ posted' = posted \cup {e} /\ open' = open \cup {e} /\ UNCHANGED <<marked, doubled>>
        /\ hook[h] = NoHook
        /\ \/ e \in open
           \/ /\ e \notin posted /\ (Kind[e] \in {"status", "recording"} => ringing)
              /\ Kind[e] = "stripe" => sold[Payer[e]] # NoBuyer
    BY <1>2 DEF Post, keys
  <2>4. CbTyped'
    BY <1>0, <1>1, <2>1, <2>2, <2>3 DEF CbTyped, CallbackTypeOK
  <2>5. RowFirst'
    BY <1>0, <1>1, <2>3 DEF RowFirst, CbTyped, CallbackTypeOK
  <2>6. OneWorker'
    BY <1>0, <1>1, <2>1, <2>2, <2>3 DEF OneWorker, Working
  <2>7. KeyTells'
    BY <1>0, <1>1, <2>1, <2>2, <2>3 DEF KeyTells, PastKey, DoneWith, Working
  <2>8. PendingHeld'
    BY <1>0, <1>1, <2>1, <2>2, <2>3 DEF PendingHeld
  <2>9. CustomerKept' /\ StripeIsSold'
    BY <1>0, <1>1, <2>3 DEF CustomerKept, StripeIsSold, CbTyped, CallbackTypeOK
  <2> QED
    BY <2>4, <2>5, <2>6, <2>7, <2>8, <2>9 DEF CbInv
<1>3. CASE GetKey(h, e)
  <2>1. PICK d \in HookStates : /\ d.event = e /\ hook' = [hook EXCEPT ![h] = d]
                                /\ d.at = IF e \in marked THEN "reply" ELSE "set"
    <3>1. PICK d : d = [at |-> IF e \in marked THEN "reply" ELSE "set", event |-> e]
      OBVIOUS
    <3>2. d \in HookStates /\ d.event = e /\ d.at = IF e \in marked THEN "reply" ELSE "set"
      BY <3>1 DEF HookStates
    <3> QED
      BY <1>3, <3>1, <3>2 DEF GetKey, HookTo
  <2>2. hook' \in [Hooks -> HookStates] /\ \A g \in Hooks : hook'[g] = IF g = h THEN d ELSE hook[g]
    BY <1>0, <2>1, HookMoves
  <2>3. UNCHANGED <<posted, open, marked, doubled>> /\ hook[h].event = e /\ hook[h].at = "get"
    BY <1>3 DEF GetKey, keys, provider, HookAt
  <2>4. CbTyped'
    BY <1>0, <1>1, <2>1, <2>2, <2>3 DEF CbTyped, CallbackTypeOK
  <2>5. RowFirst'
    BY <1>0, <1>1, <2>3 DEF RowFirst, CbTyped, CallbackTypeOK
  <2>6. OneWorker'
    BY <1>0, <1>1, <2>1, <2>2, <2>3 DEF OneWorker, Working
  <2>7. KeyTells'
    BY <1>0, <1>1, <2>1, <2>2, <2>3 DEF KeyTells, PastKey, DoneWith, Working
  <2>8. PendingHeld'
    BY <1>0, <1>1, <2>1, <2>2, <2>3 DEF PendingHeld
  <2>9. CustomerKept' /\ StripeIsSold'
    BY <1>0, <1>1, <2>3 DEF CustomerKept, StripeIsSold
  <2> QED
    BY <2>4, <2>5, <2>6, <2>7, <2>8, <2>9 DEF CbInv
<1>4. CASE SetKey(h, e) \/ ClaimKey(h, e)
  <2>1. PICK d \in HookStates :
           /\ d.event = e /\ hook' = [hook EXCEPT ![h] = d]
           /\ d.at = "work" \/ (d.at = "reply" /\ e \in marked)
           /\ d.at = "work" /\ e \in marked => e \in doubled'
    <3>1. [at |-> "work", event |-> e] \in HookStates /\ [at |-> "reply", event |-> e] \in HookStates
      BY DEF HookStates
    <3> QED
      BY <1>4, <3>1 DEF SetKey, ClaimKey, HookTo
  <2>2. hook' \in [Hooks -> HookStates] /\ \A g \in Hooks : hook'[g] = IF g = h THEN d ELSE hook[g]
    BY <1>0, <2>1, HookMoves
  <2>3. /\ UNCHANGED <<posted, open>> /\ marked' = marked \cup {e}
        /\ hook[h].event = e /\ hook[h].at \in {"set", "claim"} /\ e \in posted
        /\ doubled' = doubled \/ (Kind[e] # "stripe" /\ doubled' = doubled \cup {e})
    BY <1>0, <1>4 DEF SetKey, ClaimKey, provider, HookAt, CbTyped, CallbackTypeOK, NoHook
  <2>4. CbTyped'
    BY <1>0, <1>1, <2>1, <2>2, <2>3 DEF CbTyped, CallbackTypeOK
  <2>5. RowFirst'
    BY <1>0, <1>1, <2>3 DEF RowFirst, CbTyped, CallbackTypeOK
  <2>6. OneWorker'
    BY <1>0, <1>1, <2>1, <2>2, <2>3 DEF OneWorker, Working
  <2>7. KeyTells'
    BY <1>0, <1>1, <2>1, <2>2, <2>3 DEF KeyTells, PastKey, DoneWith, Working
  <2>8. PendingHeld'
    BY <1>0, <1>1, <2>1, <2>2, <2>3 DEF PendingHeld
  <2>9. CustomerKept' /\ StripeIsSold'
    BY <1>0, <1>1, <2>3 DEF CustomerKept, StripeIsSold
  <2> QED
    BY <2>4, <2>5, <2>6, <2>7, <2>8, <2>9 DEF CbInv
<1>5. CASE Reply(h, e)
  <2>2. hook' \in [Hooks -> HookStates] /\ \A g \in Hooks : hook'[g] = IF g = h THEN NoHook ELSE hook[g]
    BY <1>0, <1>5, HookMoves DEF Reply
  <2>3. /\ UNCHANGED <<posted, marked, doubled>> /\ open' = open \ {e}
        /\ hook[h].event = e /\ hook[h].at = "reply"
    BY <1>5 DEF Reply, keys, HookAt
  <2>4. CbTyped'
    BY <1>0, <1>1, <2>2, <2>3 DEF CbTyped, CallbackTypeOK
  <2>5. RowFirst'
    BY <1>0, <1>1, <2>3 DEF RowFirst, CbTyped, CallbackTypeOK
  <2>6. OneWorker'
    BY <1>0, <1>1, <2>2, <2>3 DEF OneWorker, Working
  <2>7. KeyTells'
    BY <1>0, <1>1, <2>2, <2>3 DEF KeyTells, PastKey, DoneWith, Working
  <2>8. PendingHeld'
    BY <1>0, <1>1, <2>2, <2>3 DEF PendingHeld
  <2>9. CustomerKept' /\ StripeIsSold'
    BY <1>0, <1>1, <2>3 DEF CustomerKept, StripeIsSold
  <2> QED
    BY <2>4, <2>5, <2>6, <2>7, <2>8, <2>9 DEF CbInv
<1> QED
  BY <1>2, <1>3, <1>4, <1>5

\* A handler that has the key.
LEMMA EffectKeeps ==
    ASSUME CbInv, NEW h \in Hooks, NEW e \in Events,
           WorkVoice(h, e) \/ WorkStatus(h, e) \/ WorkRecording(h, e) \/ AddAiJob(h, e) \/ WorkStripe(h, e)
    PROVE  CbInv'
<1>0. /\ CbTyped /\ RowFirst /\ OneWorker /\ KeyTells /\ PendingHeld
      /\ CustomerKept /\ StripeIsSold
      /\ NoHook \in HookStates /\ NoHook.at = "idle" /\ NoHook.event = NoEvent
      /\ applied \in [Events -> Nat]
  BY DEF CbInv, HookStates, NoHook, CbTyped, CallbackTypeOK
<1>1. /\ UNCHANGED <<posted, open, marked, doubled, lapsed, dropped, dialler, ringing>>
      /\ UNCHANGED <<routed, customer, storing, sold, replaced>>
      /\ hook[h].event = e /\ hook[h].at \in {"work", "add"} /\ Working(h, e) /\ e \in posted
  <2>1. UNCHANGED <<rest, dropped>> /\ (HookAt(h, "work", e) \/ HookAt(h, "add", e))
    BY DEF WorkVoice, WorkStatus, WorkRecording, AddAiJob, WorkStripe
  <2> QED
    BY <1>0, <2>1 DEF rest, keys, provider, tenant, sales, HookAt, Working, CbTyped, CallbackTypeOK, NoHook
<1>2. PICK d \in HookStates :
         /\ hook' = [hook EXCEPT ![h] = d]
         /\ \/ d = NoHook /\ WorkVoice(h, e) /\ applied[e] # 0
            \/ d.event = e /\ d.at = "reply"
            \/ d.event = e /\ d.at = "add" /\ WorkRecording(h, e) /\ phone # "NONE"
  <2>1. [at |-> "reply", event |-> e] \in HookStates /\ [at |-> "add", event |-> e] \in HookStates
    BY DEF HookStates
  <2> QED
    BY <1>0, <2>1 DEF WorkVoice, WorkStatus, WorkRecording, AddAiJob, WorkStripe, HookTo
<1>3. hook' \in [Hooks -> HookStates] /\ \A g \in Hooks : hook'[g] = IF g = h THEN d ELSE hook[g]
  BY <1>0, <1>2, HookMoves
\* The effect.
<1>4. /\ applied' \in [Events -> Nat]
      /\ \A f \in Events : f # e => applied'[f] = applied[f]
      /\ applied'[e] = applied[e] \/ applied'[e] = applied[e] + 1
  BY <1>0 DEF WorkVoice, WorkStatus, WorkRecording, AddAiJob, WorkStripe, Apply
<1>5. applied[e] \in Nat /\ applied'[e] >= applied[e]
  BY <1>0, <1>4
<1>6. /\ phone' \in {"NONE", "QUEUED", "FAILED", "REPORTED"} /\ (phone' = "NONE" <=> phone = "NONE")
      /\ transcription' \in {"NONE", "PENDING", "COMPLETED"}
      /\ transcription' = transcription \/ (d.at = "add" /\ Kind[e] = "recording")
      /\ d.at = "add" => Kind[e] = "recording"
  <2>1. d.at = "add" => Kind[e] = "recording"
    BY <1>0, <1>2 DEF WorkRecording
  <2>2. phone \in {"NONE", "QUEUED", "FAILED", "REPORTED"} /\ transcription \in {"NONE", "PENDING", "COMPLETED"}
    BY <1>0 DEF CbTyped, CallbackTypeOK
  <2>3. phone' \in {"NONE", "QUEUED", "FAILED", "REPORTED"} /\ (phone' = "NONE" <=> phone = "NONE")
    BY <2>2 DEF WorkVoice, WorkStatus, WorkRecording, AddAiJob, WorkStripe
  <2>4. CASE WorkRecording(h, e) /\ phone # "NONE"
    <3>1. hook'[h].at = "add"
      BY <1>0, <2>4 DEF WorkRecording, HookTo, CbTyped
    <3>2. d.at = "add"
      BY <1>3, <3>1
    <3>3. transcription' = "PENDING"
      BY <2>4 DEF WorkRecording
    <3> QED
      BY <2>1, <2>3, <3>2, <3>3
  <2>5. CASE ~(WorkRecording(h, e) /\ phone # "NONE")
    <3>1. transcription' = transcription
      BY <2>5 DEF WorkVoice, WorkStatus, WorkRecording, AddAiJob, WorkStripe
    <3> QED
      BY <2>1, <2>2, <2>3, <3>1
  <2> QED
    BY <2>4, <2>5
\* The job.
<1>7. /\ aiJob' \in [of : Events \cup {NoEvent}, state : {"none", "waiting", "active", "completed", "failed"}]
      /\ shadowed \subseteq shadowed' /\ strangers \subseteq strangers'
      /\ \/ aiJob' = aiJob
         \/ /\ aiJob.state = "none" /\ aiJob'.of = e /\ aiJob'.state = "waiting"
            /\ applied'[e] = applied[e] + 1
  <2>1. [of |-> e, state |-> "waiting"] \in [of : Events \cup {NoEvent},
           state : {"none", "waiting", "active", "completed", "failed"}]
    OBVIOUS
  <2> QED
    BY <1>0, <2>1 DEF CbTyped, WorkVoice, WorkStatus, WorkRecording, AddAiJob, WorkStripe, Apply
<1>8. CbTyped'
  BY <1>0, <1>1, <1>2, <1>3, <1>4, <1>6, <1>7 DEF CbTyped, CallbackTypeOK
<1>9. RowFirst'
  <2>1. phone' = "NONE" => /\ dialler' = "idle" /\ ~ringing'
                           /\ \A f \in posted' : Kind[f] \notin {"status", "recording"}
    BY <1>0, <1>1, <1>6 DEF RowFirst
  <2>2. aiJob'.state # "none" => aiJob'.of \in Events /\ applied'[aiJob'.of] > 0
    BY <1>0, <1>4, <1>5, <1>7 DEF RowFirst
  <2>3. ASSUME Kind[e] \in {"voice", "recording"}, applied'[e] # applied[e]
        PROVE  applied[e] = 0 /\ (Kind[e] = "recording" => aiJob'.state = "waiting")
    <3>1. WorkVoice(h, e) \/ AddAiJob(h, e)
      BY <1>0, <2>3 DEF WorkStatus, WorkRecording, WorkStripe
    <3>2. CASE WorkVoice(h, e)
      <4>1. Kind[e] = "voice"
        BY <3>2 DEF WorkVoice
      <4>2. applied[e] = 0
        BY <2>3, <3>2 DEF WorkVoice
      <4> QED
        BY <4>1, <4>2
    <3>3. CASE AddAiJob(h, e)
      <4>1. aiJob.state = "none" /\ aiJob' = [of |-> e, state |-> "waiting"]
        BY <2>3, <3>3 DEF AddAiJob
      <4>2. Kind[e] = "recording"
        BY <1>0, <1>1, <3>3 DEF AddAiJob, HookAt, CbTyped
      <4>3. applied[e] = 0
        BY <1>0, <4>1, <4>2 DEF RowFirst
      <4> QED
        BY <4>1, <4>3
    <3> QED
      BY <3>1, <3>2, <3>3
  <2>4. \A f \in Events : /\ Kind[f] \in {"voice", "recording"} => applied'[f] <= 1
                          /\ Kind[f] = "recording" /\ applied'[f] > 0 => aiJob'.state # "none"
    BY <1>0, <1>4, <1>5, <1>7, <2>3 DEF RowFirst
  <2> QED
    BY <2>1, <2>2, <2>4 DEF RowFirst
<1>10. OneWorker'
  <2>1. \A f \in Events, g \in Hooks : Working(g, f)' => Working(g, f)
    BY <1>1, <1>2, <1>3 DEF Working, NoHook
  <2>2. Working(h, e)' => applied' = applied
    BY <1>0, <1>2, <1>3 DEF Working, NoHook, WorkRecording
  <2>3. \A f \in Events : f # e => applied'[f] = applied[f]
    BY <1>4
  <2> SUFFICES ASSUME NEW f \in Events, f \notin doubled \cup lapsed
               PROVE  /\ f \notin marked => applied'[f] = 0 /\ \A g \in Hooks : ~Working(g, f)'
                      /\ \A g \in Hooks : Working(g, f)' =>
                            applied'[f] = 0 /\ \A k \in Hooks : Working(k, f)' => k = g
                      /\ applied'[f] <= 1
    BY <1>1 DEF OneWorker
  <2>4. CASE f = e
    BY <1>0, <1>1, <1>4, <2>1, <2>2, <2>4 DEF OneWorker
  <2>5. CASE f # e
    BY <1>0, <2>1, <2>3, <2>5 DEF OneWorker
  <2> QED
    BY <2>4, <2>5
<1>11. KeyTells'
  <2>1. DoneWith(e)' \/ Working(h, e)'
    <3>1. CASE d.at = "add" /\ d.event = e
      BY <1>3, <3>1 DEF Working
    <3>2. CASE d = NoHook /\ applied[e] # 0
      BY <1>5, <1>4, <3>2 DEF DoneWith
    <3>3. CASE d.event = e /\ d.at = "reply"
      <4>1. CASE WorkVoice(h, e)
        <5>1. CASE ~routed
          BY <4>1, <5>1 DEF WorkVoice, DoneWith
        <5>2. CASE routed /\ applied[e] = 0
          BY <1>0, <1>5, <4>1, <5>2 DEF WorkVoice, Apply, DoneWith
        <5>3. CASE routed /\ applied[e] # 0
          BY <1>4, <1>5, <5>3 DEF DoneWith
        <5> QED
          BY <5>1, <5>2, <5>3
      <4>4. CASE WorkStripe(h, e)
        <5>1. CASE sold[Payer[e]] = customer
          BY <1>0, <1>5, <4>4, <5>1 DEF WorkStripe, Apply, DoneWith
        <5>2. CASE sold[Payer[e]] # customer
          <6>1. Kind[e] = "stripe" /\ Payer[e] \in Buyers
            BY <4>4 DEF WorkStripe
          <6>2. sold[Payer[e]] \in replaced
            BY <1>0, <1>1, <5>2, <6>1 DEF CustomerKept, StripeIsSold
          <6> QED
            BY <1>1, <6>1, <6>2 DEF DoneWith
        <5> QED
          BY <5>1, <5>2
      <4>2. CASE WorkStatus(h, e) \/ WorkRecording(h, e)
        <5>1. phone # "NONE"
          BY <1>0, <1>1, <4>2 DEF RowFirst, WorkStatus, WorkRecording
        <5>2. WorkStatus(h, e)
          BY <1>2, <3>3, <4>2, <5>1, <1>0 DEF WorkRecording, HookTo, CbTyped
        <5>3. applied'[e] > 0
          BY <1>0, <1>5, <5>1, <5>2 DEF WorkStatus, Apply
        <5> QED
          BY <5>3 DEF DoneWith
      <4>3. CASE AddAiJob(h, e)
        BY <1>0, <1>4, <1>5, <4>3 DEF AddAiJob, Apply, DoneWith, RowFirst
      <4> QED
        BY <4>1, <4>2, <4>3, <4>4
    <3> QED
      BY <1>2, <3>1, <3>2, <3>3
  <2>2. \A f \in Events : DoneWith(f) => DoneWith(f)'
    BY <1>1, <1>4, <1>5, <1>7 DEF DoneWith
  <2>3. \A f \in Events : f # e => (PastKey(f)' => PastKey(f))
    BY <1>0, <1>1, <1>2, <1>3 DEF PastKey
  <2>4. \A f \in Events, g \in Hooks : f # e /\ Working(g, f) => Working(g, f)'
    BY <1>1, <1>3 DEF Working
  <2> QED
    BY <1>0, <2>1, <2>2, <2>3, <2>4 DEF KeyTells
<1>12. PendingHeld'
  <2> SUFFICES ASSUME transcription' = "PENDING"
               PROVE  \/ aiJob'.state \in {"waiting", "active", "failed"}
                      \/ shadowed' # {}
                      \/ \E f \in Events : /\ Kind[f] = "recording"
                                           /\ \/ f \in dropped \cup doubled \cup lapsed
                                              \/ \E g \in Hooks : hook'[g].event = f /\ hook'[g].at = "add"
    BY <1>1 DEF PendingHeld
  <2>1. CASE d.at = "add"
    BY <1>2, <1>3, <1>6, <2>1 DEF NoHook
  <2>2. CASE d.at # "add" /\ hook[h].at = "add"
    <3>1. AddAiJob(h, e) /\ Kind[e] = "recording"
      BY <1>0, <1>1, <2>2 DEF WorkVoice, WorkStatus, WorkRecording, WorkStripe, HookAt, CbTyped
    <3>2. CASE aiJob.state = "none"
      BY <3>1, <3>2 DEF AddAiJob
    <3>3. CASE aiJob.state # "none" /\ aiJob.of # e
      BY <3>1, <3>3 DEF AddAiJob
    <3>4. CASE aiJob.state # "none" /\ aiJob.of = e
      <4>1. applied[e] # 0
        BY <1>0, <3>4 DEF RowFirst
      <4>2. e \in doubled \cup lapsed
        BY <1>0, <1>1, <4>1 DEF OneWorker
      <4> QED
        BY <3>1, <4>2
    <3> QED
      BY <3>2, <3>3, <3>4
  <2>3. CASE d.at # "add" /\ hook[h].at # "add"
    <3>1. transcription' = transcription /\ (aiJob' = aiJob \/ aiJob'.state = "waiting")
          /\ shadowed \subseteq shadowed'
      BY <1>6, <1>7, <2>3
    <3>2. \A g \in Hooks, f \in Events : hook[g].event = f /\ hook[g].at = "add"
             => hook'[g].event = f /\ hook'[g].at = "add"
      BY <1>3, <2>3
    <3> QED
      BY <1>0, <3>1, <3>2 DEF PendingHeld
  <2> QED
    BY <2>1, <2>2, <2>3
<1>13. CustomerKept' /\ StripeIsSold'
  BY <1>0, <1>1 DEF CustomerKept, StripeIsSold
<1> QED
  BY <1>8, <1>9, <1>10, <1>11, <1>12, <1>13 DEF CbInv

LEMMA MishapsKeep ==
    ASSUME CbInv, (\E h \in Hooks : HookFails(h)) \/ (\E e \in Events : KeyExpires(e))
    PROVE  CbInv'
<1>0. /\ CbTyped /\ RowFirst /\ OneWorker /\ KeyTells /\ PendingHeld
      /\ CustomerKept /\ StripeIsSold
      /\ NoHook \in HookStates /\ NoHook.at = "idle" /\ NoHook.event = NoEvent
  BY DEF CbInv, HookStates, NoHook
<1>1. ASSUME NEW h \in Hooks, HookFails(h) PROVE CbInv'
  <2>1. /\ UNCHANGED <<posted, open, marked, doubled, lapsed, applied, phone, dialler, ringing,
                       transcription, aiJob, shadowed, strangers>>
        /\ UNCHANGED <<routed, customer, storing, sold, replaced>>
        /\ dropped \subseteq dropped'
        /\ hook[h].at \in {"work", "add"} => hook[h].event \in dropped'
    BY <1>1 DEF HookFails, provider, keys, call, tenant, sales
  <2>2. hook' \in [Hooks -> HookStates] /\ \A g \in Hooks : hook'[g] = IF g = h THEN NoHook ELSE hook[g]
    BY <1>0, <1>1, HookMoves DEF HookFails
  <2>3. CbTyped'
    BY <1>0, <2>1, <2>2 DEF CbTyped, CallbackTypeOK
  <2>4. RowFirst'
    BY <1>0, <2>1 DEF RowFirst
  <2>5. OneWorker'
    BY <1>0, <2>1, <2>2 DEF OneWorker, Working
  <2>6. KeyTells'
    BY <1>0, <2>1, <2>2 DEF KeyTells, PastKey, DoneWith, Working
  <2>7. PendingHeld'
    BY <1>0, <2>1, <2>2 DEF PendingHeld
  <2>8. CustomerKept' /\ StripeIsSold'
    BY <1>0, <2>1 DEF CustomerKept, StripeIsSold
  <2> QED
    BY <2>3, <2>4, <2>5, <2>6, <2>7, <2>8 DEF CbInv
<1>2. ASSUME NEW e \in Events, KeyExpires(e) PROVE CbInv'
  <2>1. /\ UNCHANGED <<posted, open, hook, doubled, applied, phone, dialler, ringing,
                       transcription, aiJob, shadowed, dropped, strangers>>
        /\ UNCHANGED <<routed, customer, storing, sold, replaced>>
        /\ marked' = marked \ {e} /\ lapsed' = lapsed \cup {e} /\ e \in marked
        /\ \A h \in Hooks : hook[h].event # e
    BY <1>2 DEF KeyExpires, Handled, provider, mine, call, tenant, sales
  <2>2. CbTyped'
    BY <1>0, <2>1 DEF CbTyped, CallbackTypeOK
  <2>3. RowFirst'
    BY <1>0, <2>1 DEF RowFirst
  <2>4. OneWorker'
    BY <1>0, <2>1 DEF OneWorker, Working
  <2>5. KeyTells'
    BY <1>0, <2>1 DEF KeyTells, PastKey, DoneWith, Working
  <2>6. PendingHeld'
    BY <1>0, <2>1 DEF PendingHeld
  <2>8. CustomerKept' /\ StripeIsSold'
    BY <1>0, <2>1 DEF CustomerKept, StripeIsSold
  <2> QED
    BY <2>2, <2>3, <2>4, <2>5, <2>6, <2>8 DEF CbInv
<1> QED
  BY <1>1, <1>2

LEMMA CbInvStep == CbInv /\ [CallbackNext]_callbackVars => CbInv'
<1> SUFFICES ASSUME CbInv, [CallbackNext]_callbackVars PROVE CbInv'
  OBVIOUS
<1>1. CASE UNCHANGED callbackVars
  <2>1. CbTyped' <=> CbTyped
    BY <1>1 DEF callbackVars, CbTyped, CallbackTypeOK
  <2>2. RowFirst' <=> RowFirst
    BY <1>1 DEF callbackVars, RowFirst
  <2>3. OneWorker' <=> OneWorker
    BY <1>1 DEF callbackVars, OneWorker, Working
  <2>4. KeyTells' <=> KeyTells
    BY <1>1 DEF callbackVars, KeyTells, PastKey, DoneWith, Working
  <2>5. PendingHeld' <=> PendingHeld
    BY <1>1 DEF callbackVars, PendingHeld
  <2>6. (CustomerKept /\ StripeIsSold)' <=> (CustomerKept /\ StripeIsSold)
    BY <1>1 DEF callbackVars, CustomerKept, StripeIsSold
  <2> QED
    BY <2>1, <2>2, <2>3, <2>4, <2>5, <2>6 DEF CbInv
<1>2. CASE CallbackNext
  BY <1>2, PhoneKeeps, TenantKeeps, KeysKeep, EffectKeeps, MishapsKeep DEF CallbackNext
<1> QED
  BY <1>1, <1>2

(* Every key and every handler belongs to an event that happened.            *)
THEOREM CallbackTypeCorrect == CallbackSpec => []CallbackTypeOK
<1>1. CbInv => CallbackTypeOK
  BY DEF CbInv, CbTyped
<1> QED
  BY <1>1, CbInvInit, CbInvStep, PTL DEF CallbackSpec

(* "Skip if already processed" (calls.service.ts:166), "same event is a      *)
(* no-op on re-delivery" (billing.service.ts:148): posted twice, at once or  *)
(* after a failure, an event takes effect once, up to the windows the keys   *)
(* leave.                                                                    *)
THEOREM PostedTwiceCountsOnce == CallbackSpec => []CallbacksCountOnce
<1>1. CbInv => CallbacksCountOnce
  <2> SUFFICES ASSUME CbInv PROVE AppliedOnce /\ AnsweredWasApplied /\ PendingIsWorkedOn
    BY DEF CallbacksCountOnce
  <2>0. applied \in [Events -> Nat] /\ posted \subseteq Events
    BY DEF CbInv, CbTyped, CallbackTypeOK
  <2>1. AppliedOnce
    <3> SUFFICES ASSUME NEW e \in Events, applied[e] > 1
                 PROVE  \/ Kind[e] = "status" /\ e \in doubled \cup lapsed
                        \/ Kind[e] = "stripe" /\ e \in lapsed
      BY DEF AppliedOnce
    <3>1. Kind[e] \in {"status", "stripe"}
      BY <2>0 DEF CbInv, RowFirst
    <3>2. e \in doubled \cup lapsed
      BY <2>0 DEF CbInv, OneWorker
    <3>3. e \in doubled => Kind[e] # "stripe"
      BY DEF CbInv, CbTyped
    <3> QED
      BY <3>1, <3>2, <3>3
  <2>2. AnsweredWasApplied
    <3> SUFFICES ASSUME NEW e \in posted \ open, ~Handled(e)
                 PROVE  DoneWith(e)
      BY DEF AnsweredWasApplied, DoneWith
    <3>1. DoneWith(e) \/ \E h \in Hooks : Working(h, e)
      BY <2>0 DEF CbInv, KeyTells, PastKey
    <3> QED
      BY <3>1 DEF Handled, Working
  <2>3. PendingIsWorkedOn
    BY DEF CbInv, PendingHeld, PendingIsWorkedOn, Handled
  <2> QED
    BY <2>1, <2>2, <2>3
<1> QED
  BY <1>1, CbInvInit, CbInvStep, PTL DEF CallbackSpec

-----------------------------------------------------------------------------
(* Imports: a file may be run again.                                        *)

WorkerStates == [at : {"idle", "begin", "parse", "markFailed", "find", "insert", "return"},
                 job : Imports \cup {NoImport}, row : Nat, ok : Nat, bad : Nat, lost : BOOLEAN]
TaskStates == [state : {"none", "waiting", "active", "completed", "failed"}, stalls : Nat]

OnDuty(w) == worker[w].at # "idle"
Inserts(w, k) == worker[w].at = "insert" /\ CurrentKey(w) = k

ImpTyped ==
    /\ import \in [Imports -> {"NONE", "PENDING", "RUNNING", "COMPLETED", "FAILED"}]
    /\ upload \in [Imports -> {"idle", "add", "done"}]
    /\ task \in [Imports -> TaskStates]
    /\ worker \in [Workers -> WorkerStates]
    /\ count \in [Keys -> Nat]
    /\ together \in BOOLEAN
    /\ inserted \subseteq Imports \X Keys
    /\ \A k \in Keys : count[k] = 0 <=> \A j \in Imports : <<j, k>> \notin inserted
    /\ \A w \in Workers :
          /\ OnDuty(w) <=> worker[w] # OffDuty
          /\ OnDuty(w) <=> worker[w].job \in Imports
          /\ worker[w].at \in {"find", "insert"} => worker[w].row # 0
          /\ worker[w].at = "insert" => worker[w].row \in DOMAIN File /\ CurrentKey(w) \in Keys

\* Until two workers are at it together, one is, and what it is about to insert
\* is not there.
AtWorkAlone ==
    ~together =>
       /\ \A v, w \in Workers : OnDuty(v) /\ OnDuty(w) => v = w
       /\ \A k \in Keys \ Spaced : count[k] <= 1 /\ \A w \in Workers : Inserts(w, k) => count[k] = 0

\* The rows behind a worker have been seen to.
RowDone(j, i) == \/ File[i] = NoKey \/ count[File[i]] > 0 \/ Found(File[i])
                 \/ <<j, File[i]>> \in refused
RowsDone ==
    /\ \A w \in Workers : worker[w].at \in {"find", "insert"} =>
          \A i \in DOMAIN File : i < worker[w].row => RowDone(worker[w].job, i)
    /\ \A j \in Imports : import[j] = "COMPLETED" => \A i \in DOMAIN File : RowDone(j, i)

\* One worker has the lock of a job.
OneHolder ==
    /\ \A w \in Workers : OnDuty(w) =>
          /\ upload[worker[w].job] = "done"
          /\ IF worker[w].lost THEN task[worker[w].job].stalls # 0
             ELSE task[worker[w].job].state = "active"
    /\ \A v, w \in Workers : /\ OnDuty(v) /\ OnDuty(w) /\ ~worker[v].lost /\ ~worker[w].lost
                             /\ worker[v].job = worker[w].job
                             => v = w
    /\ \A j \in Imports : upload[j] # "done" => task[j] = NoTask

\* As long as an import has not been begun anew.
Pristine(j) == \A k \in Keys : <<j, k>> \notin inserted
FirstRun ==
    \A j \in Imports : task[j].stalls = 0 =>
       /\ task[j].state \in {"none", "waiting"} => import[j] \in {"NONE", "PENDING"} /\ Pristine(j)
       /\ import[j] = "FAILED" => Pristine(j)
       /\ \A w \in Workers : OnDuty(w) /\ worker[w].job = j =>
             /\ worker[w].at \in {"begin", "parse", "markFailed"} => Pristine(j)
             /\ worker[w].at \in {"find", "insert"} => worker[w].ok # 0 \/ Pristine(j)
             /\ worker[w].at \in {"parse", "markFailed", "find", "insert"} => import[j] = "RUNNING"

\* NoneForgotten, without the workers that only have to return.
Pursued ==
    \A j \in Imports \ broken : import[j] \in {"PENDING", "RUNNING"} =>
       \/ upload[j] = "add"
       \/ task[j].state = "waiting"
       \/ \E w \in Workers : worker[w].job = j /\ worker[w].at # "return"

ImpInv == ImpTyped /\ AtWorkAlone /\ RowsDone /\ OneHolder /\ FirstRun /\ Pursued

USE ImportAssumption DEF ImportAssumption

LEMMA ImpInvInit == ImportInit => ImpInv
<1> SUFFICES ASSUME ImportInit PROVE ImpInv
  OBVIOUS
<1>1. ImpTyped
  BY DEF ImportInit, ImpTyped, NoTask, OffDuty, TaskStates, WorkerStates, OnDuty
<1>2. AtWorkAlone
  BY DEF ImportInit, AtWorkAlone, OffDuty, OnDuty, Inserts
<1>3. RowsDone
  BY DEF ImportInit, RowsDone, OffDuty
<1>4. OneHolder
  BY DEF ImportInit, OneHolder, OffDuty, OnDuty
<1>5. FirstRun
  BY DEF ImportInit, FirstRun, OffDuty, OnDuty, Pristine, NoTask
<1>6. Pursued
  BY DEF ImportInit, Pursued
<1> QED
  BY <1>1, <1>2, <1>3, <1>4, <1>5, <1>6 DEF ImpInv

LEMMA FileRows == DOMAIN File = 1 .. Len(File) /\ Len(File) \in Nat
  OBVIOUS

LEMMA NoTaskTyped == NoTask \in TaskStates /\ NoTask.state = "none" /\ NoTask.stalls = 0
  BY DEF NoTask, TaskStates

LEMMA OffDutyTyped ==
    OffDuty \in WorkerStates /\ OffDuty.at = "idle" /\ OffDuty.job = NoImport /\ OffDuty.row = 0
    /\ OffDuty.ok = 0 /\ OffDuty.bad = 0 /\ OffDuty.lost = FALSE
  BY DEF OffDuty, WorkerStates

\* Where a worker and a job are after a step.
LEMMA WorkerMoves ==
    ASSUME ImpTyped, NEW w \in Workers, NEW d \in WorkerStates, TurnWorker(w, d)
    PROVE  worker' \in [Workers -> WorkerStates] /\ \A v \in Workers : worker'[v] = IF v = w THEN d ELSE worker[v]
  BY DEF ImpTyped, TurnWorker

LEMMA TaskMoves ==
    ASSUME ImpTyped, NEW j \in Imports, NEW s \in {"waiting", "active", "completed", "failed"}, TaskBecomes(j, s)
    PROVE  /\ task' \in [Imports -> TaskStates]
           /\ task'[j].state = s /\ task'[j].stalls = task[j].stalls
           /\ \A i \in Imports : i # j => task'[i] = task[i]
<1> PICK t \in TaskStates : t = task[j]
  BY DEF ImpTyped
<1>1. task' = [task EXCEPT ![j] = [state |-> s, stalls |-> t.stalls]]
  <2>1. [t EXCEPT !.state = s] = [state |-> s, stalls |-> t.stalls]
    BY DEF TaskStates
  <2>2. task' = [task EXCEPT ![j] = [t EXCEPT !.state = s]]
    BY DEF ImpTyped, TaskBecomes
  <2> QED
    BY <2>1, <2>2
<1>2. [state |-> s, stalls |-> t.stalls] \in TaskStates
  BY DEF TaskStates
<1> QED
  BY <1>1, <1>2 DEF ImpTyped

LEMMA ImportMoves ==
    ASSUME ImpTyped, NEW j \in Imports,
           NEW s \in {"NONE", "PENDING", "RUNNING", "COMPLETED", "FAILED"}, Settle(j, s)
    PROVE  /\ import' \in [Imports -> {"NONE", "PENDING", "RUNNING", "COMPLETED", "FAILED"}]
           /\ \A i \in Imports : import'[i] = IF i = j THEN s ELSE import[i]
  BY DEF ImpTyped, Settle

\* The upload.
LEMMA UploadKeeps ==
    ASSUME ImpInv, NEW j \in Imports, CreateImport(j) \/ AddTask(j) \/ AddFails(j)
    PROVE  ImpInv'
<1>0. /\ ImpTyped /\ AtWorkAlone /\ RowsDone /\ OneHolder /\ FirstRun /\ Pursued
      /\ NoTask.state = "none" /\ NoTask.stalls = 0
  BY NoTaskTyped DEF ImpInv
<1>1. /\ UNCHANGED <<worker, count, inserted, refused, together>>
      /\ upload[j] # "done" /\ upload' \in [Imports -> {"idle", "add", "done"}]
      /\ \A i \in Imports \ {j} : upload'[i] = upload[i]
      /\ task[j].state = "none" /\ task[j].stalls = 0
  <2>1. /\ UNCHANGED <<worker, count, inserted, refused, together>>
        /\ upload[j] # "done" /\ upload' \in [Imports -> {"idle", "add", "done"}]
        /\ \A i \in Imports \ {j} : upload'[i] = upload[i]
    BY <1>0 DEF CreateImport, AddTask, AddFails, clients, ImpTyped
  <2>2. task[j] = NoTask
    BY <1>0, <2>1 DEF OneHolder
  <2> QED
    BY <1>0, <2>1, <2>2
<1>2. /\ import' \in [Imports -> {"NONE", "PENDING", "RUNNING", "COMPLETED", "FAILED"}]
      /\ \A i \in Imports : import'[i] = import[i] \/ (i = j /\ import'[i] = "PENDING")
  BY <1>0, ImportMoves DEF CreateImport, AddTask, AddFails, ImpTyped
<1>3. /\ task' \in [Imports -> TaskStates]
      /\ \A i \in Imports : task'[i].stalls = task[i].stalls
      /\ \A i \in Imports \ {j} : task'[i] = task[i]
      /\ \/ task' = task /\ (upload'[j] = "add" \/ broken' = broken \cup {j})
         \/ task'[j].state = "waiting" /\ upload'[j] = "done"
      /\ broken' = broken \/ broken' = broken \cup {j}
  BY <1>0, TaskMoves DEF CreateImport, AddTask, AddFails, ImpTyped
<1>4. \A w \in Workers : OnDuty(w) => worker[w].job # j
  BY <1>0, <1>1 DEF OneHolder
<1>5. ImpTyped'
  BY <1>0, <1>1, <1>2, <1>3 DEF ImpTyped, OnDuty, CurrentKey
<1>6. AtWorkAlone'
  BY <1>0, <1>1 DEF AtWorkAlone, OnDuty, Inserts, CurrentKey
<1>7. RowsDone'
  BY <1>0, <1>1, <1>2 DEF RowsDone, RowDone, Found
<1>8. OneHolder'
  <2>1. \A i \in Imports : upload'[i] # "done" => task'[i] = NoTask
    BY <1>0, <1>1, <1>3 DEF OneHolder
  <2>2. \A w \in Workers : OnDuty(w) => worker[w].job \in Imports
    BY <1>0 DEF ImpTyped
  <2> QED
    BY <1>0, <1>1, <1>3, <1>4, <2>1, <2>2 DEF OneHolder, OnDuty
<1>9. FirstRun'
  <2> SUFFICES ASSUME NEW i \in Imports, task'[i].stalls = 0
               PROVE  /\ task'[i].state \in {"none", "waiting"} => import'[i] \in {"NONE", "PENDING"} /\ Pristine(i)
                      /\ import'[i] = "FAILED" => Pristine(i)
                      /\ \A w \in Workers : OnDuty(w) /\ worker[w].job = i =>
                            /\ worker[w].at \in {"begin", "parse", "markFailed"} => Pristine(i)
                            /\ worker[w].at \in {"find", "insert"} => worker[w].ok # 0 \/ Pristine(i)
                            /\ worker[w].at \in {"parse", "markFailed", "find", "insert"} => import'[i] = "RUNNING"
    BY <1>1 DEF FirstRun, OnDuty, Pristine
  <2> QED
    BY <1>0, <1>1, <1>2, <1>3, <1>4 DEF FirstRun
<1>10. Pursued'
  BY <1>0, <1>1, <1>2, <1>3 DEF Pursued
<1> QED
  BY <1>5, <1>6, <1>7, <1>8, <1>9, <1>10 DEF ImpInv

\* A worker takes the job.
LEMMA TakeImportKeeps ==
    ASSUME ImpInv, NEW w \in Workers, NEW j \in Imports, TakeImport(w, j)
    PROVE  ImpInv'
<1>0. ImpTyped /\ AtWorkAlone /\ RowsDone /\ OneHolder /\ FirstRun /\ Pursued
  BY DEF ImpInv
<1>1. /\ UNCHANGED <<import, upload, count, inserted, refused, broken>>
      /\ ~OnDuty(w) /\ task[j].state = "waiting"
      /\ together' \in BOOLEAN
      /\ ~together' => ~together /\ \A v \in Workers : ~OnDuty(v)
  BY <1>0 DEF TakeImport, clients, ImpTyped
<1>2. /\ task' \in [Imports -> TaskStates]
      /\ task'[j].state = "active" /\ task'[j].stalls = task[j].stalls
      /\ \A i \in Imports : i # j => task'[i] = task[i]
  BY <1>0, TaskMoves DEF TakeImport
<1> DEFINE d == [OffDuty EXCEPT !.at = "begin", !.job = j]
<1>3. d \in WorkerStates /\ d.at = "begin" /\ d.job = j /\ d.lost = FALSE /\ TurnWorker(w, d)
  <2>1. \A o \in WorkerStates :
           /\ [o EXCEPT !.at = "begin", !.job = j] \in WorkerStates
           /\ [o EXCEPT !.at = "begin", !.job = j].at = "begin"
           /\ [o EXCEPT !.at = "begin", !.job = j].job = j
           /\ [o EXCEPT !.at = "begin", !.job = j].lost = o.lost
    BY DEF WorkerStates
  <2>2. d \in WorkerStates /\ d.at = "begin" /\ d.job = j /\ d.lost = FALSE
    BY <2>1, OffDutyTyped
  <2> HIDE DEF d
  <2>3. TurnWorker(w, d)
    BY DEF TakeImport, d
  <2> QED
    BY <2>2, <2>3
<1> HIDE DEF d
<1>4. /\ worker' \in [Workers -> WorkerStates]
      /\ \A v \in Workers : v # w => worker'[v] = worker[v]
      /\ worker'[w].at = "begin" /\ worker'[w].job = j /\ worker'[w].lost = FALSE
  BY <1>0, <1>3, WorkerMoves
<1>5. /\ upload[j] = "done"
      /\ \A v \in Workers : OnDuty(v) /\ worker[v].job = j => worker[v].lost /\ task[j].stalls # 0
      /\ \A v \in Workers : worker[v] \in WorkerStates
  BY <1>0, <1>1, NoTaskTyped DEF OneHolder, ImpTyped
<1>6. ImpTyped'
  <2>1. ASSUME NEW v \in Workers
        PROVE  /\ OnDuty(v)' <=> worker'[v] # OffDuty
               /\ OnDuty(v)' <=> worker'[v].job \in Imports
               /\ worker'[v].at \in {"find", "insert"} => worker'[v].row # 0
               /\ worker'[v].at = "insert" => /\ worker'[v].row \in DOMAIN File
                                              /\ File[worker'[v].row] \in Keys
    <3>1. CASE v = w
      BY <1>4, <3>1, OffDutyTyped DEF OnDuty
    <3>2. CASE v # w
      BY <1>0, <1>4, <3>2 DEF ImpTyped, OnDuty, CurrentKey
    <3> QED
      BY <3>1, <3>2
  <2> QED
    BY <1>0, <1>1, <1>2, <1>4, <2>1 DEF ImpTyped, CurrentKey
<1>7. AtWorkAlone'
  BY <1>0, <1>1, <1>4 DEF AtWorkAlone, OnDuty, Inserts, CurrentKey
<1>8. RowsDone'
  BY <1>0, <1>1, <1>4 DEF RowsDone, RowDone, Found
<1>9. OneHolder'
  <2>1. \A v \in Workers : OnDuty(v)' => (v = w \/ OnDuty(v))
    BY <1>4 DEF OnDuty
  <2>2. \A v \in Workers : OnDuty(v)' =>
          /\ upload[worker'[v].job] = "done"
          /\ IF worker'[v].lost THEN task'[worker'[v].job].stalls # 0
             ELSE task'[worker'[v].job].state = "active"
    <3> SUFFICES ASSUME NEW v \in Workers, OnDuty(v)'
                 PROVE  /\ upload[worker'[v].job] = "done"
                        /\ IF worker'[v].lost THEN task'[worker'[v].job].stalls # 0
                           ELSE task'[worker'[v].job].state = "active"
      OBVIOUS
    <3>1. CASE v = w
      BY <1>2, <1>4, <1>5, <3>1
    <3>2. CASE v # w
      <4>1. OnDuty(v) /\ worker'[v] = worker[v] /\ worker[v].job \in Imports
        BY <1>0, <1>4, <2>1, <3>2 DEF ImpTyped
      <4> QED
        BY <1>0, <1>2, <4>1 DEF OneHolder
    <3> QED
      BY <3>1, <3>2
  <2>3. \A u, v \in Workers : /\ OnDuty(u)' /\ OnDuty(v)' /\ ~worker'[u].lost /\ ~worker'[v].lost
                              /\ worker'[u].job = worker'[v].job
                              => u = v
    BY <1>0, <1>4, <1>5, <2>1 DEF OneHolder
  <2>4. \A i \in Imports : upload[i] # "done" => task'[i] = NoTask
    BY <1>0, <1>2, <1>5 DEF OneHolder
  <2> QED
    BY <1>1, <2>2, <2>3, <2>4 DEF OneHolder
<1>10. FirstRun'
  <2> SUFFICES ASSUME NEW i \in Imports, task'[i].stalls = 0
               PROVE  /\ task'[i].state \in {"none", "waiting"} => import[i] \in {"NONE", "PENDING"} /\ Pristine(i)
                      /\ import[i] = "FAILED" => Pristine(i)
                      /\ \A v \in Workers : OnDuty(v)' /\ worker'[v].job = i =>
                            /\ worker'[v].at \in {"begin", "parse", "markFailed"} => Pristine(i)
                            /\ worker'[v].at \in {"find", "insert"} => worker'[v].ok # 0 \/ Pristine(i)
                            /\ worker'[v].at \in {"parse", "markFailed", "find", "insert"} => import[i] = "RUNNING"
    BY <1>1 DEF FirstRun, Pristine
  <2>1. CASE i = j
    <3>1. Pristine(i) /\ import[i] \in {"NONE", "PENDING"}
      BY <1>0, <1>1, <1>2, <2>1 DEF FirstRun
    <3>2. \A v \in Workers : OnDuty(v)' /\ worker'[v].job = i => v = w
      BY <1>2, <1>4, <1>5, <2>1 DEF OnDuty
    <3> QED
      BY <1>4, <2>1, <1>2, <3>1, <3>2
  <2>2. CASE i # j
    <3>1. \A v \in Workers : OnDuty(v)' /\ worker'[v].job = i => OnDuty(v) /\ worker'[v] = worker[v]
      BY <1>4, <2>2 DEF OnDuty
    <3>2. task'[i] = task[i] /\ task[i].stalls = 0
      BY <1>2, <2>2
    <3>3. /\ task[i].state \in {"none", "waiting"} => import[i] \in {"NONE", "PENDING"} /\ Pristine(i)
          /\ import[i] = "FAILED" => Pristine(i)
          /\ \A v \in Workers : OnDuty(v) /\ worker[v].job = i =>
                /\ worker[v].at \in {"begin", "parse", "markFailed"} => Pristine(i)
                /\ worker[v].at \in {"find", "insert"} => worker[v].ok # 0 \/ Pristine(i)
                /\ worker[v].at \in {"parse", "markFailed", "find", "insert"} => import[i] = "RUNNING"
      BY <1>0, <3>2 DEF FirstRun
    <3> QED
      BY <3>1, <3>2, <3>3
  <2> QED
    BY <2>1, <2>2
<1>11. Pursued'
  <2>1. \A v \in Workers : worker[v].job \in Imports => worker'[v] = worker[v]
    BY <1>0, <1>1, <1>4 DEF ImpTyped
  <2> QED
    BY <1>0, <1>1, <1>2, <1>4, <2>1 DEF Pursued
<1> QED
  BY <1>6, <1>7, <1>8, <1>9, <1>10, <1>11 DEF ImpInv

\* A step of a worker that keeps its job and its lock, up to the rows.
LEMMA StageKeeps ==
    ASSUME ImpInv, NEW w \in Workers,
           \/ MarkRunning(w) \/ Parse(w) \/ ParseFails(w) \/ MarkImportFailed(w)
           \/ FinishImport(w)
    PROVE  ImpInv'
<1>0. ImpTyped /\ AtWorkAlone /\ RowsDone /\ OneHolder /\ FirstRun /\ Pursued
  BY DEF ImpInv
<1>1. /\ UNCHANGED <<upload, task, count, inserted, refused, together, broken>>
      /\ OnDuty(w) /\ worker[w].job \in Imports
  BY <1>0 DEF MarkRunning, Parse, ParseFails, MarkImportFailed, FinishImport, clients, ImpTyped, WorkerAt, OnDuty
<1> PICK c \in WorkerStates : c = worker[w]
  BY <1>0 DEF ImpTyped
<1>2. PICK d \in WorkerStates :
         /\ TurnWorker(w, d) /\ d.job = c.job /\ d.lost = c.lost /\ d.at # "idle"
         /\ \/ MarkRunning(w) /\ d.at = "parse"
            \/ Parse(w) /\ d.at = "find" /\ d.row = 1
            \/ ParseFails(w) /\ d.at = "markFailed"
            \/ MarkImportFailed(w) /\ d.at = "return"
            \/ FinishImport(w) /\ d.at = "return"
  <2>1. CASE MarkRunning(w)
    BY <2>1 DEF MarkRunning, WorkerStates
  <2>2. CASE Parse(w)
    <3>1. [c EXCEPT !.at = "find", !.row = 1] \in WorkerStates
      BY DEF WorkerStates
    <3>2. TurnWorker(w, [c EXCEPT !.at = "find", !.row = 1])
      BY <2>2 DEF Parse
    <3> QED
      BY <2>2, <3>1, <3>2 DEF WorkerStates
  <2>3. CASE ParseFails(w) \/ MarkImportFailed(w) \/ FinishImport(w)
    BY <2>3 DEF ParseFails, MarkImportFailed, FinishImport, WorkerStates
  <2> QED
    BY <2>1, <2>2, <2>3
<1>3. worker' \in [Workers -> WorkerStates] /\ \A v \in Workers : worker'[v] = IF v = w THEN d ELSE worker[v]
  BY <1>0, <1>2, WorkerMoves
<1>4. /\ import' \in [Imports -> {"NONE", "PENDING", "RUNNING", "COMPLETED", "FAILED"}]
      /\ \A i \in Imports : i # c.job => import'[i] = import[i]
      /\ MarkRunning(w) => import'[c.job] = "RUNNING"
      /\ Parse(w) \/ ParseFails(w) => import' = import
      /\ MarkImportFailed(w) => import'[c.job] = "FAILED"
      /\ FinishImport(w) => import'[c.job] = IF c.bad > 0 /\ c.ok = 0 THEN "FAILED" ELSE "COMPLETED"
  BY <1>0, <1>1, ImportMoves DEF MarkRunning, Parse, ParseFails, MarkImportFailed, FinishImport, ImpTyped
<1>5. \A v \in Workers : OnDuty(v)' <=> OnDuty(v)
  BY <1>1, <1>2, <1>3 DEF OnDuty
<1>6. ImpTyped'
  <2>1. ASSUME NEW v \in Workers
        PROVE  /\ OnDuty(v)' <=> worker'[v] # OffDuty
               /\ OnDuty(v)' <=> worker'[v].job \in Imports
               /\ worker'[v].at \in {"find", "insert"} => worker'[v].row # 0
               /\ worker'[v].at = "insert" => /\ worker'[v].row \in DOMAIN File
                                              /\ File[worker'[v].row] \in Keys
    <3>1. CASE v = w
      BY <1>1, <1>2, <1>3, <3>1, OffDutyTyped DEF OnDuty
    <3>2. CASE v # w
      BY <1>0, <1>3, <3>2 DEF ImpTyped, OnDuty, CurrentKey
    <3> QED
      BY <3>1, <3>2
  <2> QED
    BY <1>0, <1>1, <1>3, <1>4, <2>1 DEF ImpTyped, CurrentKey
<1>7. AtWorkAlone'
  BY <1>0, <1>1, <1>2, <1>3, <1>5 DEF AtWorkAlone, Inserts, CurrentKey
<1>8. RowsDone'
  <2>1. FinishImport(w) => \A i \in DOMAIN File : RowDone(c.job, i)
    <3> SUFFICES ASSUME FinishImport(w), NEW i \in DOMAIN File PROVE RowDone(c.job, i)
      OBVIOUS
    <3>1. c.at = "find" /\ c.row \notin DOMAIN File /\ c.row # 0 /\ c.row \in Nat
      BY <1>0 DEF FinishImport, WorkerAt, ImpTyped, WorkerStates
    <3>2. i < c.row
      BY <3>1, FileRows
    <3> QED
      BY <1>0, <3>1, <3>2 DEF RowsDone
  <2>2. \A v \in Workers : worker'[v].at \in {"find", "insert"} =>
           \A i \in DOMAIN File : i < worker'[v].row => RowDone(worker'[v].job, i)
    BY <1>0, <1>2, <1>3 DEF RowsDone
  <2>3. \A i \in Imports : import'[i] = "COMPLETED" => \A n \in DOMAIN File : RowDone(i, n)
    BY <1>0, <1>2, <1>4, <2>1 DEF RowsDone
  <2> QED
    BY <1>1, <2>2, <2>3 DEF RowsDone, RowDone, Found
<1>9. OneHolder'
  BY <1>0, <1>1, <1>2, <1>3, <1>5 DEF OneHolder
<1>10. FirstRun'
  <2> SUFFICES ASSUME NEW i \in Imports, task[i].stalls = 0
               PROVE  /\ task[i].state \in {"none", "waiting"} => import'[i] \in {"NONE", "PENDING"} /\ Pristine(i)
                      /\ import'[i] = "FAILED" => Pristine(i)
                      /\ \A v \in Workers : OnDuty(v) /\ worker'[v].job = i =>
                            /\ worker'[v].at \in {"begin", "parse", "markFailed"} => Pristine(i)
                            /\ worker'[v].at \in {"find", "insert"} => worker'[v].ok # 0 \/ Pristine(i)
                            /\ worker'[v].at \in {"parse", "markFailed", "find", "insert"} => import'[i] = "RUNNING"
    BY <1>1, <1>5 DEF FirstRun, Pristine
  <2>1. CASE i # c.job
    BY <1>0, <1>2, <1>3, <1>4, <2>1 DEF FirstRun
  <2>2. CASE i = c.job
    <3>1. task[i].state = "active" /\ \A v \in Workers : OnDuty(v) /\ worker[v].job = i => v = w
      BY <1>0, <1>1, <2>2 DEF OneHolder
    <3>2. /\ c.at \in {"begin", "parse", "markFailed"} => Pristine(i)
          /\ c.at \in {"find", "insert"} => c.ok # 0 \/ Pristine(i)
          /\ c.at \in {"parse", "markFailed", "find", "insert"} => import[i] = "RUNNING"
      BY <1>0, <1>1, <2>2 DEF FirstRun
    <3>3. CASE MarkRunning(w)
      BY <1>1, <1>2, <1>3, <1>4, <2>2, <3>1, <3>2, <3>3 DEF MarkRunning, WorkerAt, Parse, ParseFails, MarkImportFailed, FinishImport
    <3>4. CASE Parse(w)
      BY <1>1, <1>2, <1>3, <1>4, <2>2, <3>1, <3>2, <3>4 DEF MarkRunning, WorkerAt, Parse, ParseFails, MarkImportFailed, FinishImport
    <3>5. CASE ParseFails(w)
      BY <1>1, <1>2, <1>3, <1>4, <2>2, <3>1, <3>2, <3>5 DEF MarkRunning, WorkerAt, Parse, ParseFails, MarkImportFailed, FinishImport
    <3>6. CASE FinishImport(w)
      BY <1>1, <1>2, <1>3, <1>4, <2>2, <3>1, <3>2, <3>6 DEF MarkRunning, WorkerAt, Parse, ParseFails, MarkImportFailed, FinishImport
    <3>7. CASE MarkImportFailed(w)
      BY <1>1, <1>2, <1>3, <1>4, <2>2, <3>1, <3>2, <3>7 DEF MarkRunning, WorkerAt, Parse, ParseFails, MarkImportFailed, FinishImport
    <3> QED
      BY <1>2, <3>3, <3>4, <3>5, <3>6, <3>7
  <2> QED
    BY <2>1, <2>2
<1>11. Pursued'
  <2> SUFFICES ASSUME NEW i \in Imports \ broken, import'[i] \in {"PENDING", "RUNNING"}
               PROVE  \/ upload[i] = "add"
                      \/ task[i].state = "waiting"
                      \/ \E v \in Workers : worker'[v].job = i /\ worker'[v].at # "return"
    BY <1>1 DEF Pursued
  <2>1. CASE i # c.job
    <3>1. upload[i] = "add" \/ task[i].state = "waiting"
          \/ \E v \in Workers : worker[v].job = i /\ worker[v].at # "return"
      BY <1>0, <1>4, <2>1 DEF Pursued
    <3>2. \A v \in Workers : worker[v].job = i => worker'[v] = worker[v]
      BY <1>3, <2>1
    <3> QED
      BY <3>1, <3>2
  <2>2. CASE i = c.job
    <3>1. MarkRunning(w) \/ Parse(w) \/ ParseFails(w)
      BY <1>2, <1>4, <2>2
    <3>2. d.at # "return"
      <4>1. ~MarkImportFailed(w) /\ ~FinishImport(w)
        BY <1>4, <2>2
      <4> QED
        BY <1>2, <4>1
    <3> QED
      BY <1>2, <1>3, <2>2, <3>2
  <2> QED
    BY <2>1, <2>2
<1> QED
  BY <1>6, <1>7, <1>8, <1>9, <1>10, <1>11 DEF ImpInv

\* The rows.
LEMMA RowKeeps ==
    ASSUME ImpInv, NEW w \in Workers, Find(w) \/ Insert(w) \/ RowFails(w)
    PROVE  ImpInv'
<1>0. ImpTyped /\ AtWorkAlone /\ RowsDone /\ OneHolder /\ FirstRun /\ Pursued
  BY DEF ImpInv
<1> PICK c \in WorkerStates : c = worker[w]
  BY <1>0 DEF ImpTyped
<1> PICK k \in Keys \cup {NoKey} : c.row \in DOMAIN File /\ k = CurrentKey(w) /\ k = File[c.row]
  <2>1. c.row \in DOMAIN File
    BY <1>0 DEF ImpTyped, Find, Insert, RowFails, WorkerAt
  <2>2. File[c.row] \in Keys \cup {NoKey}
    BY <2>1
  <2> QED
    BY <2>1, <2>2 DEF CurrentKey
<1>1. /\ UNCHANGED <<import, upload, task, together, broken>>
      /\ c.at \in {"find", "insert"} /\ c.row # 0 /\ c.job \in Imports /\ OnDuty(w)
      /\ ~Find(w) => k \in Keys
  <2>1. UNCHANGED <<import, upload, task, together, broken>> /\ c.at \in {"find", "insert"}
    BY DEF Find, Insert, RowFails, clients, WorkerAt
  <2>2. c.row # 0 /\ c.job \in Imports /\ OnDuty(w)
    BY <1>0, <2>1 DEF ImpTyped, OnDuty
  <2>3. ASSUME Insert(w) PROVE k \in Keys
    <3>1. worker[w].at = "insert"
      BY <2>3 DEF Insert, WorkerAt
    <3> QED
      BY <1>0, <3>1 DEF ImpTyped
  <2>4. RowFails(w) => k \in Keys
    BY DEF RowFails
  <2> QED
    BY <2>1, <2>2, <2>3, <2>4
<1>2. PICK d \in WorkerStates :
         /\ TurnWorker(w, d) /\ d.job = c.job /\ d.lost = c.lost /\ d.at \in {"find", "insert"} /\ d.row # 0
         /\ \/ Find(w) /\ d.at = "insert" /\ d.row = c.row /\ d.ok = c.ok /\ k \in Keys /\ ~Found(k)
            \/ Find(w) /\ d.at = "find" /\ d.row = c.row + 1 /\ d.ok = c.ok /\ (k = NoKey \/ Found(k))
            \/ Insert(w) /\ d.at = "find" /\ d.row = c.row + 1 /\ d.ok # 0
            \/ RowFails(w) /\ d.at = "find" /\ d.row = c.row + 1 /\ d.ok = c.ok
  <2>0. c.row + 1 \in Nat /\ c.ok + 1 \in Nat /\ c.bad + 1 \in Nat /\ c.row + 1 # 0 /\ c.ok + 1 # 0
    BY DEF WorkerStates
  <2> PICK n, o, b \in Nat : n = c.row + 1 /\ o = c.ok + 1 /\ b = c.bad + 1
    BY <2>0
  <2> DEFINE past == [c EXCEPT !.at = "find", !.row = n]
  <2>1. Past(worker[w]) = past
    BY DEF Past
  <2>2. /\ past \in WorkerStates /\ past.at = "find" /\ past.row = n /\ past.ok = c.ok
        /\ past.job = c.job /\ past.lost = c.lost
    BY DEF WorkerStates
  <2> HIDE DEF past
  <2>3. CASE Find(w)
    <3>1. CASE k = NoKey
      <4>1. TurnWorker(w, [past EXCEPT !.bad = b])
        <5>1. TurnWorker(w, [past EXCEPT !.bad = @ + 1])
          BY <2>1, <2>3, <3>1 DEF Find
        <5>2. [past EXCEPT !.bad = @ + 1] = [past EXCEPT !.bad = b]
          BY DEF past, WorkerStates
        <5> QED
          BY <5>1, <5>2
      <4>2. /\ [past EXCEPT !.bad = b] \in WorkerStates
            /\ [past EXCEPT !.bad = b].at = "find" /\ [past EXCEPT !.bad = b].row = n
            /\ [past EXCEPT !.bad = b].ok = c.ok /\ [past EXCEPT !.bad = b].job = c.job
            /\ [past EXCEPT !.bad = b].lost = c.lost
        BY <2>1, <2>2 DEF WorkerStates
      <4> QED
        BY <2>0, <2>3, <3>1, <4>1, <4>2
    <3>2. CASE k # NoKey /\ Found(k)
      BY <2>0, <2>1, <2>2, <2>3, <3>2 DEF Find
    <3>3. CASE k # NoKey /\ ~Found(k)
      <4>1. TurnWorker(w, [c EXCEPT !.at = "insert"])
        BY <2>3, <3>3 DEF Find
      <4>2. [c EXCEPT !.at = "insert"] \in WorkerStates
        BY DEF WorkerStates
      <4>3. /\ [c EXCEPT !.at = "insert"].at = "insert" /\ [c EXCEPT !.at = "insert"].row = c.row
            /\ [c EXCEPT !.at = "insert"].ok = c.ok /\ [c EXCEPT !.at = "insert"].job = c.job
            /\ [c EXCEPT !.at = "insert"].lost = c.lost
        BY DEF WorkerStates
      <4> QED
        BY <1>1, <2>3, <3>3, <4>1, <4>2, <4>3
    <3> QED
      BY <3>1, <3>2, <3>3
  <2>4. CASE Insert(w)
    <3>1. TurnWorker(w, [past EXCEPT !.ok = o])
      <4>1. TurnWorker(w, [past EXCEPT !.ok = @ + 1])
        BY <2>1, <2>4 DEF Insert
      <4>2. [past EXCEPT !.ok = @ + 1] = [past EXCEPT !.ok = o]
        BY <2>2
      <4> QED
        BY <4>1, <4>2
    <3>2. /\ [past EXCEPT !.ok = o] \in WorkerStates
          /\ [past EXCEPT !.ok = o].at = "find" /\ [past EXCEPT !.ok = o].row = n
          /\ [past EXCEPT !.ok = o].ok = o /\ [past EXCEPT !.ok = o].job = c.job
          /\ [past EXCEPT !.ok = o].lost = c.lost
      BY <2>1, <2>2 DEF WorkerStates
    <3> QED
      BY <2>0, <2>4, <3>1, <3>2
  <2>5. CASE RowFails(w)
    <3>1. TurnWorker(w, [past EXCEPT !.bad = b])
      <4>1. TurnWorker(w, [past EXCEPT !.bad = @ + 1])
        BY <2>1, <2>5 DEF RowFails
      <4>2. [past EXCEPT !.bad = @ + 1] = [past EXCEPT !.bad = b]
        BY DEF past, WorkerStates
      <4> QED
        BY <4>1, <4>2
    <3>2. /\ [past EXCEPT !.bad = b] \in WorkerStates
          /\ [past EXCEPT !.bad = b].at = "find" /\ [past EXCEPT !.bad = b].row = n
          /\ [past EXCEPT !.bad = b].ok = c.ok /\ [past EXCEPT !.bad = b].job = c.job
          /\ [past EXCEPT !.bad = b].lost = c.lost
      BY <2>1, <2>2 DEF WorkerStates
    <3> QED
      BY <2>0, <2>5, <3>1, <3>2
  <2> QED
    BY <2>3, <2>4, <2>5
<1>3. worker' \in [Workers -> WorkerStates] /\ \A v \in Workers : worker'[v] = IF v = w THEN d ELSE worker[v]
  BY <1>0, <1>2, WorkerMoves
<1>4. /\ count' \in [Keys -> Nat]
      /\ \/ /\ Insert(w) /\ k \in Keys /\ count'[k] = count[k] + 1
            /\ \A i \in Keys : i # k => count'[i] = count[i]
            /\ inserted' = inserted \cup {<<c.job, k>>}
         \/ ~Insert(w) /\ count' = count /\ inserted' = inserted
      /\ IF RowFails(w) THEN refused' = refused \cup {<<c.job, k>>} ELSE refused' = refused
  <2>1. ASSUME Insert(w)
        PROVE  /\ k \in Keys /\ count[k] \in Nat /\ count'[k] = count[k] + 1 /\ count' \in [Keys -> Nat]
               /\ \A i \in Keys : i # k => count'[i] = count[i]
               /\ inserted' = inserted \cup {<<c.job, k>>}
               /\ refused' = refused
    <3>1. k \in Keys
      BY <1>0, <2>1 DEF Insert, WorkerAt, ImpTyped
    <3>2. count[k] \in Nat
      BY <1>0, <3>1 DEF ImpTyped
    <3>3. count' = [count EXCEPT ![k] = count[k] + 1]
      BY <2>1 DEF Insert
    <3>4. inserted' = inserted \cup {<<c.job, k>>} /\ refused' = refused
      BY <2>1 DEF Insert
    <3> QED
      BY <1>0, <3>1, <3>2, <3>3, <3>4 DEF ImpTyped
  <2>2. Insert(w) => ~RowFails(w)
    BY <2>1 DEF RowFails
  <2>3. ~Insert(w) => count' = count /\ inserted' = inserted
    BY DEF Find, RowFails, clients
  <2>4. RowFails(w) => refused' = refused \cup {<<c.job, k>>}
    BY DEF RowFails
  <2>5. ~RowFails(w) => refused' = refused
    BY DEF Find, Insert, clients
  <2>6. CASE Insert(w)
    BY <2>1, <2>2, <2>6
  <2>7. CASE ~Insert(w)
    BY <1>0, <2>3, <2>4, <2>5, <2>7 DEF ImpTyped
  <2> QED
    BY <2>6, <2>7
<1>5. /\ \A i \in Keys : count[i] \in Nat /\ count'[i] \in Nat /\ count'[i] >= count[i]
      /\ inserted \subseteq inserted' /\ refused \subseteq refused'
      /\ \A v \in Workers : OnDuty(v)' <=> OnDuty(v)
  <2>1. \A i \in Keys : count[i] \in Nat
    BY <1>0 DEF ImpTyped
  <2>2. \A v \in Workers : OnDuty(v)' <=> OnDuty(v)
    BY <1>1, <1>2, <1>3 DEF OnDuty
  <2>3. inserted \subseteq inserted' /\ refused \subseteq refused'
    BY <1>4
  <2>4. \A i \in Keys : count'[i] \in Nat /\ count'[i] >= count[i]
    BY <1>4, <2>1
  <2> QED
    BY <2>1, <2>2, <2>3, <2>4
<1>6. ImpTyped'
  <2>1. ASSUME NEW v \in Workers
        PROVE  /\ OnDuty(v)' <=> worker'[v] # OffDuty
               /\ OnDuty(v)' <=> worker'[v].job \in Imports
               /\ worker'[v].at \in {"find", "insert"} => worker'[v].row # 0
               /\ worker'[v].at = "insert" => /\ worker'[v].row \in DOMAIN File
                                              /\ File[worker'[v].row] \in Keys
    <3>1. CASE v = w
      BY <1>1, <1>2, <1>3, <3>1, OffDutyTyped DEF OnDuty
    <3>2. CASE v # w
      BY <1>0, <1>3, <3>2 DEF ImpTyped, OnDuty, CurrentKey
    <3> QED
      BY <3>1, <3>2
  <2>2. inserted' \subseteq Imports \X Keys
    BY <1>0, <1>1, <1>4 DEF ImpTyped
  <2>3. ASSUME NEW i \in Keys PROVE count'[i] = 0 <=> \A j \in Imports : <<j, i>> \notin inserted'
    <3>1. count[i] \in Nat /\ (count[i] = 0 <=> \A j \in Imports : <<j, i>> \notin inserted)
      BY <1>0 DEF ImpTyped
    <3>2. CASE Insert(w) /\ i = k
      <4>1. count'[i] = count[i] + 1 /\ <<c.job, i>> \in inserted'
        BY <1>4, <3>2
      <4> QED
        BY <1>1, <3>1, <4>1
    <3>3. CASE ~(Insert(w) /\ i = k)
      BY <1>4, <3>1, <3>3
    <3> QED
      BY <3>2, <3>3
  <2> QED
    BY <1>0, <1>1, <1>3, <1>4, <2>1, <2>2, <2>3 DEF ImpTyped, CurrentKey
<1>7. AtWorkAlone'
  <2> SUFFICES ASSUME ~together
               PROVE  /\ \A u, v \in Workers : OnDuty(u) /\ OnDuty(v) => u = v
                      /\ \A i \in Keys \ Spaced : /\ count'[i] <= 1
                                                  /\ \A v \in Workers : Inserts(v, i)' => count'[i] = 0
    BY <1>1, <1>5 DEF AtWorkAlone
  <2>1. \A u, v \in Workers : OnDuty(u) /\ OnDuty(v) => u = v
    BY <1>0 DEF AtWorkAlone
  <2>2. ASSUME NEW i \in Keys \ Spaced PROVE count'[i] <= 1
    <3>1. count[i] \in Nat /\ count[i] <= 1
      BY <1>0 DEF AtWorkAlone, ImpTyped
    <3>2. Insert(w) /\ i = k => count[i] = 0
      BY <1>0, <1>1 DEF AtWorkAlone, Inserts, Insert, WorkerAt
    <3> QED
      BY <1>4, <3>1, <3>2
  <2>3. ASSUME NEW i \in Keys \ Spaced, NEW v \in Workers, Inserts(v, i)' PROVE count'[i] = 0
    <3>1. v = w
      BY <1>1, <1>3, <1>5, <2>1, <2>3 DEF Inserts, OnDuty
    <3>2. Find(w) /\ i = k /\ ~Found(k)
      BY <1>2, <1>3, <2>3, <3>1 DEF Inserts, CurrentKey
    <3>3. count[i] = 0
      BY <1>5, <2>3, <3>2 DEF Found, Spaced
    <3>4. count'[i] = count[i]
      BY <3>2 DEF Find, clients
    <3> QED
      BY <3>3, <3>4
  <2> QED
    BY <2>1, <2>2, <2>3
<1>8. RowsDone'
  <2>1. \A j, i : i \in DOMAIN File /\ RowDone(j, i) => RowDone(j, i)'
    <3> SUFFICES ASSUME NEW j, NEW i \in DOMAIN File, RowDone(j, i) PROVE RowDone(j, i)'
      OBVIOUS
    <3>1. File[i] \in Keys \cup {NoKey}
      OBVIOUS
    <3>2. Found(File[i]) => Found(File[i])'
      BY <1>5 DEF Found, Alike
    <3> QED
      BY <1>5, <3>1, <3>2 DEF RowDone
  <2>2. d.row # c.row => RowDone(c.job, c.row)'
    <3>1. Found(k) => Found(k)'
      BY <1>5 DEF Found, Alike
    <3>2. k = NoKey \/ (k \in Keys /\ count'[k] > 0) \/ Found(k)' \/ <<c.job, k>> \in refused' \/ d.row = c.row
      BY <1>1, <1>2, <1>4, <1>5, <3>1
    <3> QED
      BY <3>2 DEF RowDone
  <2>3. ASSUME NEW v \in Workers, worker'[v].at \in {"find", "insert"}, NEW i \in DOMAIN File, i < worker'[v].row
        PROVE  RowDone(worker[v].job, i)'
    <3>1. CASE v # w
      BY <1>0, <1>3, <2>1, <2>3, <3>1 DEF RowsDone
    <3>2. CASE v = w
      <4>1. d.row = c.row \/ d.row = c.row + 1
        BY <1>2
      <4>2. i < c.row \/ (i = c.row /\ d.row # c.row)
        BY <1>3, <2>3, <3>2, <4>1, FileRows DEF WorkerStates
      <4>3. i < c.row => RowDone(c.job, i)
        BY <1>0, <1>1 DEF RowsDone
      <4> QED
        BY <1>2, <1>3, <2>1, <2>2, <3>2, <4>2, <4>3
    <3> QED
      BY <3>1, <3>2
  <2> QED
    BY <1>0, <1>1, <2>1, <2>3 DEF RowsDone
<1>9. OneHolder'
  <2>1. \A v \in Workers : worker'[v].job = worker[v].job /\ worker'[v].lost = worker[v].lost
    BY <1>2, <1>3
  <2> QED
    BY <1>0, <1>1, <1>5, <2>1 DEF OneHolder
<1>10. FirstRun'
  <2> SUFFICES ASSUME NEW i \in Imports, task[i].stalls = 0
               PROVE  /\ task[i].state \in {"none", "waiting"} => import[i] \in {"NONE", "PENDING"} /\ Pristine(i)'
                      /\ import[i] = "FAILED" => Pristine(i)'
                      /\ \A v \in Workers : OnDuty(v) /\ worker'[v].job = i =>
                            /\ worker'[v].at \in {"begin", "parse", "markFailed"} => Pristine(i)'
                            /\ worker'[v].at \in {"find", "insert"} => worker'[v].ok # 0 \/ Pristine(i)'
                            /\ worker'[v].at \in {"parse", "markFailed", "find", "insert"} => import[i] = "RUNNING"
    BY <1>1, <1>5 DEF FirstRun
  <2>1. CASE i # c.job
    <3>1. Pristine(i) => Pristine(i)'
      BY <1>4, <2>1 DEF Pristine
    <3> QED
      BY <1>0, <1>2, <1>3, <2>1, <3>1 DEF FirstRun
  <2>2. CASE i = c.job
    <3>1. task[i].state = "active" /\ \A v \in Workers : OnDuty(v) /\ worker[v].job = i => v = w
      BY <1>0, <1>1, <2>2 DEF OneHolder
    <3>2. (c.ok # 0 \/ Pristine(i)) /\ import[i] = "RUNNING"
      BY <1>0, <1>1, <2>2 DEF FirstRun
    <3>3. d.ok # 0 \/ Pristine(i)'
      <4>1. CASE Insert(w) /\ d.ok # 0
        BY <4>1
      <4>2. CASE d.ok = c.ok /\ ~Insert(w)
        BY <1>4, <3>2, <4>2 DEF Pristine
      <4>3. ASSUME Insert(w) PROVE d.ok # 0
        <5>1. count'[k] # count[k]
          BY <1>4, <1>5, <4>3
        <5>2. ~Find(w) /\ ~RowFails(w)
          BY <5>1 DEF Find, RowFails, clients
        <5> QED
          BY <1>2, <5>2
      <4> QED
        BY <1>2, <4>1, <4>2, <4>3
    <3> QED
      BY <1>2, <1>3, <2>2, <3>1, <3>2, <3>3
  <2> QED
    BY <2>1, <2>2
<1>11. Pursued'
  <2>1. \A v \in Workers : /\ worker'[v].job = worker[v].job
                           /\ worker[v].at # "return" => worker'[v].at # "return"
    BY <1>2, <1>3
  <2> SUFFICES ASSUME NEW i \in Imports \ broken, import[i] \in {"PENDING", "RUNNING"}
               PROVE  \/ upload[i] = "add"
                      \/ task[i].state = "waiting"
                      \/ \E v \in Workers : worker'[v].job = i /\ worker'[v].at # "return"
    BY <1>1 DEF Pursued
  <2>2. \/ upload[i] = "add"
        \/ task[i].state = "waiting"
        \/ \E v \in Workers : worker[v].job = i /\ worker[v].at # "return"
    BY <1>0 DEF Pursued
  <2>3. ASSUME NEW v \in Workers, worker[v].job = i, worker[v].at # "return"
        PROVE  worker'[v].job = i /\ worker'[v].at # "return"
    BY <2>1, <2>3
  <2> QED
    BY <2>2, <2>3
<1> QED
  BY <1>6, <1>7, <1>8, <1>9, <1>10, <1>11 DEF ImpInv

\* A worker ends, or loses its lock.
LEMMA DutyEnds ==
    ASSUME ImpInv, NEW w \in Workers,
           ReturnImport(w) \/ ProcessThrows(w) \/ LostWorkerDies(w) \/ LosesLock(w, TRUE) \/ LosesLock(w, FALSE)
    PROVE  ImpInv'
<1>0. /\ ImpTyped /\ AtWorkAlone /\ RowsDone /\ OneHolder /\ FirstRun /\ Pursued
      /\ OffDuty \in WorkerStates /\ OffDuty.at = "idle" /\ OffDuty.job = NoImport /\ OffDuty.lost = FALSE
  BY OffDutyTyped DEF ImpInv
<1> PICK c \in WorkerStates : c = worker[w]
  BY <1>0 DEF ImpTyped
<1>1. UNCHANGED <<import, upload, count, inserted, refused, together>> /\ c # OffDuty /\ OnDuty(w)
  BY <1>0 DEF ReturnImport, ProcessThrows, LostWorkerDies, LosesLock, clients, ImpTyped, WorkerAt, OnDuty
<1> PICK j \in Imports : j = c.job
  BY <1>0, <1>1 DEF ImpTyped
<1> PICK t \in TaskStates : t = task[j]
  BY <1>0 DEF ImpTyped
<1>2. PICK d \in WorkerStates :
         /\ TurnWorker(w, d)
         /\ \/ d = OffDuty
            \/ /\ d.at = c.at /\ d.job = j /\ d.row = c.row /\ d.ok = c.ok /\ d.lost = TRUE
               /\ LosesLock(w, FALSE)
  <2>1. CASE LosesLock(w, FALSE)
    <3>1. TurnWorker(w, [c EXCEPT !.lost = TRUE])
      BY <2>1 DEF LosesLock
    <3>2. /\ [c EXCEPT !.lost = TRUE] \in WorkerStates /\ [c EXCEPT !.lost = TRUE].at = c.at
          /\ [c EXCEPT !.lost = TRUE].job = j /\ [c EXCEPT !.lost = TRUE].row = c.row
          /\ [c EXCEPT !.lost = TRUE].ok = c.ok /\ [c EXCEPT !.lost = TRUE].lost = TRUE
      BY DEF WorkerStates
    <3> QED
      BY <2>1, <3>1, <3>2
  <2>2. CASE ~LosesLock(w, FALSE)
    BY <1>0, <2>2 DEF ReturnImport, ProcessThrows, LostWorkerDies, LosesLock
  <2> QED
    BY <2>1, <2>2
<1>3. worker' \in [Workers -> WorkerStates] /\ \A v \in Workers : worker'[v] = IF v = w THEN d ELSE worker[v]
  BY <1>0, <1>2, WorkerMoves
<1>4. /\ task' \in [Imports -> TaskStates]
      /\ \A i \in Imports : i # j => task'[i] = task[i]
      /\ \/ c.lost /\ task' = task /\ (j \in broken' \/ c.at = "return")
         \/ /\ ~c.lost /\ task'[j].state \in {"completed", "failed"} /\ task'[j].stalls = task[j].stalls
            /\ ~LosesLock(w, FALSE) /\ (j \in broken' \/ c.at = "return")
         \/ ~c.lost /\ task'[j].stalls # 0 /\ (task'[j].state = "waiting" \/ j \in broken')
      /\ broken \subseteq broken'
  <2>1. CASE ReturnImport(w) \/ ProcessThrows(w)
    <3>1. (EndTask(w, "completed") \/ EndTask(w, "failed")) /\ (j \in broken' \/ c.at = "return")
          /\ broken \subseteq broken'
      BY <2>1 DEF ReturnImport, ProcessThrows, WorkerAt
    <3>2. CASE c.lost
      BY <1>0, <3>1, <3>2 DEF EndTask, ImpTyped
    <3>3. CASE ~c.lost
      <4>1. TaskBecomes(j, "completed") \/ TaskBecomes(j, "failed")
        BY <3>1, <3>3 DEF EndTask
      <4>2. /\ task' \in [Imports -> TaskStates]
            /\ task'[j].state \in {"completed", "failed"} /\ task'[j].stalls = task[j].stalls
            /\ \A i \in Imports : i # j => task'[i] = task[i]
        BY <1>0, <4>1, TaskMoves
      <4>3. CASE LosesLock(w, FALSE)
        <5>1. t.stalls + 1 \in Nat /\ t.stalls + 1 # t.stalls /\ t.stalls \in Nat
          BY DEF TaskStates
        <5>2. task'[j].stalls = t.stalls + 1
          BY <1>0, <4>3 DEF LosesLock, ImpTyped
        <5> QED
          BY <4>2, <5>1, <5>2
      <4> QED
        BY <3>1, <3>3, <4>2, <4>3
    <3> QED
      BY <3>2, <3>3
  <2>2. CASE LostWorkerDies(w)
    BY <1>0, <2>2 DEF LostWorkerDies, ImpTyped
  <2>3. CASE LosesLock(w, TRUE) \/ LosesLock(w, FALSE)
    <3> PICK n \in Nat : n = t.stalls + 1
      BY DEF TaskStates
    <3>1. n # 0 /\ [state |-> IF t.stalls = 0 THEN "waiting" ELSE "failed", stalls |-> n] \in TaskStates
      BY DEF TaskStates
    <3>2. task' = [task EXCEPT ![j] = [state |-> IF t.stalls = 0 THEN "waiting" ELSE "failed", stalls |-> n]]
      BY <1>0, <2>3 DEF LosesLock, ImpTyped
    <3>3. /\ ~c.lost /\ broken \subseteq broken'
          /\ t.stalls = 0 \/ j \in broken'
      BY <2>3 DEF LosesLock
    <3> QED
      BY <1>0, <3>1, <3>2, <3>3 DEF ImpTyped
  <2> QED
    BY <2>1, <2>2, <2>3
<1>5. \A v \in Workers : OnDuty(v)' => OnDuty(v) /\ worker'[v].at = worker[v].at /\ worker'[v].job = worker[v].job
                         /\ worker'[v].row = worker[v].row /\ worker'[v].ok = worker[v].ok
  BY <1>0, <1>1, <1>2, <1>3 DEF OnDuty
<1>6. ImpTyped'
  <2>1. ASSUME NEW v \in Workers
        PROVE  /\ OnDuty(v)' <=> worker'[v] # OffDuty
               /\ OnDuty(v)' <=> worker'[v].job \in Imports
               /\ worker'[v].at \in {"find", "insert"} => worker'[v].row # 0
               /\ worker'[v].at = "insert" => /\ worker'[v].row \in DOMAIN File
                                              /\ File[worker'[v].row] \in Keys
    <3>1. CASE v = w
      <4>1. CASE d = OffDuty
        BY <1>0, <1>3, <3>1, <4>1 DEF OnDuty
      <4>2. CASE d # OffDuty
        <5>1. d.at # "idle" /\ d.at = c.at /\ d.row = c.row /\ d.job = j
          BY <1>1, <1>2, <4>2 DEF OnDuty
        <5>2. /\ c.at \in {"find", "insert"} => c.row # 0
              /\ c.at = "insert" => c.row \in DOMAIN File /\ File[c.row] \in Keys
          BY <1>0 DEF ImpTyped, CurrentKey
        <5> QED
          BY <1>3, <3>1, <4>2, <5>1, <5>2 DEF OnDuty
      <4> QED
        BY <4>1, <4>2
    <3>2. CASE v # w
      BY <1>0, <1>3, <3>2 DEF ImpTyped, OnDuty, CurrentKey
    <3> QED
      BY <3>1, <3>2
  <2> QED
    BY <1>0, <1>1, <1>3, <1>4, <2>1 DEF ImpTyped, CurrentKey
<1>7. AtWorkAlone'
  <2>1. \A v \in Workers, k \in Keys : Inserts(v, k)' => Inserts(v, k)
    BY <1>5 DEF Inserts, OnDuty, CurrentKey
  <2> QED
    BY <1>0, <1>1, <1>5, <2>1 DEF AtWorkAlone
<1>8. RowsDone'
  <2>1. \A v \in Workers : worker'[v].at \in {"find", "insert"} => OnDuty(v)'
    BY DEF OnDuty
  <2> QED
    BY <1>0, <1>1, <1>5, <2>1 DEF RowsDone, RowDone, Found
<1>9. OneHolder'
  <2>1. \A v \in Workers : OnDuty(v)' /\ ~worker'[v].lost => v # w /\ ~worker[v].lost
    BY <1>0, <1>2, <1>3 DEF OnDuty
  <2>2. ASSUME NEW v \in Workers, OnDuty(v)'
        PROVE  /\ upload[worker'[v].job] = "done"
               /\ IF worker'[v].lost THEN task'[worker'[v].job].stalls # 0
                  ELSE task'[worker'[v].job].state = "active"
    <3>1. OnDuty(v) /\ worker'[v].job = worker[v].job /\ worker[v].job \in Imports
          /\ upload[worker[v].job] = "done"
      BY <1>0, <1>5, <2>2 DEF ImpTyped, OneHolder
    <3>2. CASE worker[v].job # j
      <4>1. worker'[v] = worker[v] /\ task'[worker[v].job] = task[worker[v].job]
        BY <1>3, <1>4, <3>1, <3>2
      <4> QED
        BY <1>0, <3>1, <4>1 DEF OneHolder
    <3>3. CASE worker[v].job = j /\ worker'[v].lost
      <4>1. CASE v = w
        <5>1. d # OffDuty
          BY <1>0, <1>3, <3>3, <4>1
        <5>2. LosesLock(w, FALSE)
          BY <1>2, <5>1
        <5>3. ~c.lost
          BY <5>2 DEF LosesLock
        <5> QED
          BY <1>4, <3>1, <3>3, <5>2, <5>3
      <4>2. CASE v # w
        <5>1. worker[v].lost /\ task[j].stalls # 0
          BY <1>0, <1>3, <3>1, <3>3, <4>2 DEF OneHolder
        <5> QED
          BY <1>4, <3>1, <3>3, <5>1
      <4> QED
        BY <4>1, <4>2
    <3>4. CASE worker[v].job = j /\ ~worker'[v].lost
      <4>1. v # w /\ ~worker[v].lost
        BY <2>1, <2>2, <3>4
      <4>2. c.lost
        BY <1>0, <1>1, <3>1, <3>4, <4>1 DEF OneHolder
      <4>3. task' = task
        BY <1>4, <4>2
      <4> QED
        BY <1>0, <3>1, <3>4, <4>1, <4>3 DEF OneHolder
    <3> QED
      BY <3>2, <3>3, <3>4
  <2>3. \A u, v \in Workers : /\ OnDuty(u)' /\ OnDuty(v)' /\ ~worker'[u].lost /\ ~worker'[v].lost
                              /\ worker'[u].job = worker'[v].job
                              => u = v
    BY <1>0, <1>5, <2>1 DEF OneHolder
  <2>4. \A i \in Imports : upload[i] # "done" => task'[i] = NoTask
    BY <1>0, <1>1, <1>4 DEF OneHolder
  <2> QED
    BY <1>1, <2>2, <2>3, <2>4 DEF OneHolder
<1>10. FirstRun'
  <2> SUFFICES ASSUME NEW i \in Imports, task'[i].stalls = 0
               PROVE  /\ task'[i].state \in {"none", "waiting"} => import[i] \in {"NONE", "PENDING"} /\ Pristine(i)
                      /\ import[i] = "FAILED" => Pristine(i)
                      /\ \A v \in Workers : OnDuty(v)' /\ worker'[v].job = i =>
                            /\ worker'[v].at \in {"begin", "parse", "markFailed"} => Pristine(i)
                            /\ worker'[v].at \in {"find", "insert"} => worker'[v].ok # 0 \/ Pristine(i)
                            /\ worker'[v].at \in {"parse", "markFailed", "find", "insert"} => import[i] = "RUNNING"
    BY <1>1 DEF FirstRun, Pristine
  <2>1. CASE i # j
    BY <1>0, <1>4, <1>5, <2>1 DEF FirstRun
  <2>2. CASE i = j
    <3>1. ~c.lost
      BY <1>0, <1>1, <1>4, <2>2 DEF OneHolder
    <3>2. task[i].stalls = 0 /\ task'[i].state \in {"completed", "failed"}
      BY <1>4, <2>2, <3>1
    <3>3. import[i] = "FAILED" => Pristine(i)
      BY <1>0, <3>2 DEF FirstRun
    <3>4. \A v \in Workers : OnDuty(v)' /\ worker'[v].job = i =>
             /\ worker'[v].at \in {"begin", "parse", "markFailed"} => Pristine(i)
             /\ worker'[v].at \in {"find", "insert"} => worker'[v].ok # 0 \/ Pristine(i)
             /\ worker'[v].at \in {"parse", "markFailed", "find", "insert"} => import[i] = "RUNNING"
      BY <1>0, <1>5, <3>2 DEF FirstRun
    <3> QED
      BY <3>2, <3>3, <3>4
  <2> QED
    BY <2>1, <2>2
<1>11. Pursued'
  <2> SUFFICES ASSUME NEW i \in Imports \ broken', import[i] \in {"PENDING", "RUNNING"}
               PROVE  \/ upload[i] = "add"
                      \/ task'[i].state = "waiting"
                      \/ \E v \in Workers : worker'[v].job = i /\ worker'[v].at # "return"
    BY <1>1 DEF Pursued
  <2>1. \/ upload[i] = "add"
        \/ task[i].state = "waiting"
        \/ \E v \in Workers : worker[v].job = i /\ worker[v].at # "return"
    BY <1>0, <1>4 DEF Pursued
  <2>2. CASE i # j
    BY <1>3, <1>4, <2>1, <2>2
  <2>3. CASE i = j
    <3>1. c.lost \/ task[j].state = "active"
      BY <1>0, <1>1 DEF OneHolder
    <3>2. task'[j].state = "waiting" \/ c.at = "return"
      BY <1>4, <2>3
    <3>3. task[j].state = "waiting" => task'[j].state = "waiting"
      BY <1>4, <3>1
    <3> QED
      BY <1>3, <2>1, <2>3, <3>2, <3>3
  <2> QED
    BY <2>2, <2>3
<1> QED
  BY <1>6, <1>7, <1>8, <1>9, <1>10, <1>11 DEF ImpInv

LEMMA ImpInvStep == ImpInv /\ [ImportNext]_importVars => ImpInv'
<1> SUFFICES ASSUME ImpInv, [ImportNext]_importVars PROVE ImpInv'
  OBVIOUS
<1>1. CASE UNCHANGED importVars
  <2>1. ImpTyped' <=> ImpTyped
    BY <1>1 DEF importVars, ImpTyped, OnDuty, CurrentKey
  <2>2. AtWorkAlone' <=> AtWorkAlone
    BY <1>1 DEF importVars, AtWorkAlone, OnDuty, Inserts, CurrentKey
  <2>3. RowsDone' <=> RowsDone
    BY <1>1 DEF importVars, RowsDone, RowDone, Found
  <2>4. OneHolder' <=> OneHolder
    BY <1>1 DEF importVars, OneHolder, OnDuty
  <2>5. FirstRun' <=> FirstRun
    BY <1>1 DEF importVars, FirstRun, OnDuty, Pristine
  <2>6. Pursued' <=> Pursued
    BY <1>1 DEF importVars, Pursued
  <2> QED
    BY <2>1, <2>2, <2>3, <2>4, <2>5, <2>6 DEF ImpInv
<1>2. CASE ImportNext
  <2>1. CASE \E j \in Imports : CreateImport(j) \/ AddTask(j) \/ AddFails(j)
    BY <2>1, UploadKeeps
  <2>2. CASE \E w \in Workers, j \in Imports : TakeImport(w, j)
    BY <2>2, TakeImportKeeps
  <2>3. CASE \E w \in Workers : \/ MarkRunning(w) \/ Parse(w) \/ ParseFails(w) \/ MarkImportFailed(w)
                               \/ FinishImport(w)
    BY <2>3, StageKeeps
  <2>4. CASE \E w \in Workers : Find(w) \/ Insert(w) \/ RowFails(w)
    BY <2>4, RowKeeps
  <2>5. CASE \E w \in Workers : ReturnImport(w) \/ ProcessThrows(w) \/ LostWorkerDies(w)
                                \/ LosesLock(w, TRUE) \/ LosesLock(w, FALSE)
    BY <2>5, DutyEnds
  <2> QED
    BY <1>2, <2>1, <2>2, <2>3, <2>4, <2>5 DEF ImportNext
<1> QED
  BY <1>1, <1>2

(* A client counted for a key was inserted for it, and a worker that is not *)
(* idle has a job.                                                          *)
THEOREM ImportTypeCorrect == ImportSpec => []ImportTypeOK
<1>1. ImpInv => ImportTypeOK
  <2> SUFFICES ASSUME ImpInv PROVE ImportTypeOK
    OBVIOUS
  <2>1. ImpTyped
    BY DEF ImpInv
  <2>2. \A k \in Keys : count[k] = 0 <=> inserted \cap (Imports \X {k}) = {}
    BY <2>1 DEF ImpTyped
  <2>3. \A w \in Workers : worker[w].job = NoImport <=> WorkerAt(w, "idle")
    BY <2>1, OffDutyTyped DEF ImpTyped, OnDuty, WorkerAt, WorkerStates
  <2> QED
    BY <2>1, <2>2, <2>3 DEF ImportTypeOK, ImpTyped
<1> QED
  BY <1>1, ImpInvInit, ImpInvStep, PTL DEF ImportSpec

(* However often a file is uploaded, cut off and begun anew, one worker at  *)
(* a time doubles no client whose phone is written without spaces, every    *)
(* row of a COMPLETED import has a client that its lookup takes for it, a   *)
(* FAILED one has inserted none, and no import waits for a job that is gone *)
(* (import.processor.ts).                                                   *)
THEOREM ImportsMayBeRerun == ImportSpec => []RerunIsSafe
<1>1. ImpInv => RerunIsSafe
  <2> SUFFICES ASSUME ImpInv PROVE NoDuplicates /\ VerdictHolds /\ NoneForgotten
    BY DEF RerunIsSafe
  <2>0. ImpTyped /\ AtWorkAlone /\ RowsDone /\ OneHolder /\ FirstRun /\ Pursued
    BY DEF ImpInv
  <2>1. NoDuplicates
    BY <2>0 DEF NoDuplicates, AtWorkAlone, ImpTyped
  <2>2. VerdictHolds
    <3> SUFFICES ASSUME NEW j \in Imports
                 PROVE  /\ import[j] = "COMPLETED" =>
                              \A i \in DOMAIN File : RowDone(j, i)
                        /\ import[j] = "FAILED" => inserted \cap ({j} \X Keys) = {} \/ task[j].stalls > 0
      BY DEF VerdictHolds, RowDone
    <3>1. import[j] = "COMPLETED" => \A i \in DOMAIN File : RowDone(j, i)
      BY <2>0 DEF RowsDone
    <3>2. task[j].stalls \in Nat
      BY <2>0 DEF ImpTyped, TaskStates
    <3>3. import[j] = "FAILED" /\ task[j].stalls = 0 => Pristine(j)
      BY <2>0 DEF FirstRun
    <3>4. Pristine(j) => inserted \cap ({j} \X Keys) = {}
      BY DEF Pristine
    <3> QED
      BY <3>1, <3>2, <3>3, <3>4
  <2>3. NoneForgotten
    BY <2>0 DEF NoneForgotten, Pursued
  <2> QED
    BY <2>1, <2>2, <2>3
<1> QED
  BY <1>1, ImpInvInit, ImpInvStep, PTL DEF ImportSpec
===============================================================================
