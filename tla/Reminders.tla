------------------------------ MODULE Reminders ------------------------------
(***************************************************************************)
(* One reminder (apps/api/src/modules/reminders): a row in PostgreSQL and  *)
(* a delayed BullMQ job named after it.  create, update, dismiss and       *)
(* remove write the row and the queue one after the other; the processor   *)
(* reads the row and, if it is still PENDING, writes FIRED by id.          *)
(* queue.remove of an active job throws and is swallowed, and an add under *)
(* a job id the queue still knows is a no-op.                              *)
(***************************************************************************)
EXTENDS Naturals, FiniteSets

CONSTANTS
    Clients,      \* slots for handlers in flight
    MaxTime,      \* bound on the clock; times are 1..MaxTime
    FireAttempts, \* attempts of the job
    MaxFaults,    \* bound on crashes and failing calls
    MaxRequests   \* bound on requests; updates without end postpone for ever

ASSUME ReminderAssumption == MaxTime \in Nat

VARIABLES
    reminder,  \* status, deletedAt and remindAt of the row
    alarm,     \* the BullMQ job: state, due time, failed attempts, stalls
    firing,    \* stage of the processor: idle, load, write
    client,    \* local state of each handler
    clock,
    faults,
    requests,  \* requests made
    bereft,    \* history: the row may have no job left, see LoseJob
    cutShort,  \* history: a handler died after it wrote the new time
    crossed,   \* history: handlers overlapped one another or the processor
    sounded    \* history: none, onTime, or early

remVars == <<reminder, alarm, firing, client, clock, faults, requests, bereft, cutShort, crossed, sounded>>

-----------------------------------------------------------------------------
Times == 1..MaxTime
NoAlarm == [state |-> "none", when |-> 0, fails |-> 0, stalls |-> 0]
Ready == [at |-> "idle", op |-> "none", when |-> 0]

Set(c, d) == client' = [client EXCEPT ![c] = d]
ClientAt(c, pc) == client[c].at = pc
Busy == \E c \in Clients : ~ClientAt(c, "idle")

\* A handler or an execution starts while another one is in flight.
Cross == crossed' = (crossed \/ Busy \/ firing # "idle")

Request == requests < MaxRequests /\ requests' = requests + 1

Fault == faults < MaxFaults /\ faults' = faults + 1

\* Faulty: the job is taken from under the worker.
RemovedAnyway == NoAlarm

\* queue.remove(id), its error swallowed.
Removed == IF alarm.state = "active" THEN alarm ELSE NoAlarm

\* queue.add with jobId = id.
Added(t) == IF alarm.state = "none" THEN [NoAlarm EXCEPT !.state = "delayed", !.when = t]
            ELSE alarm

RemInit ==
    /\ reminder = [status |-> "NONE", deleted |-> FALSE, when |-> 0]
    /\ alarm = NoAlarm
    /\ firing = "idle"
    /\ client = [c \in Clients |-> Ready]
    /\ clock = 0
    /\ faults = 0
    /\ requests = 0
    /\ bereft = FALSE
    /\ cutShort = FALSE
    /\ crossed = FALSE
    /\ sounded = "none"

-----------------------------------------------------------------------------
(* Handlers.  Each starts with its first transaction.                       *)

CreateReminder(c, t) ==
    /\ ClientAt(c, "idle")
    /\ reminder.status = "NONE"
    /\ Request
    /\ reminder' = [status |-> "PENDING", deleted |-> FALSE, when |-> t]
    /\ Set(c, [at |-> "add", op |-> "create", when |-> t])
    /\ Cross
    /\ UNCHANGED <<alarm, firing, clock, faults, bereft, cutShort, sounded>>

\* findOne; what follows relies on the status it read.
Begin(c, op, t) ==
    /\ ClientAt(c, "idle")
    /\ reminder.status # "NONE"
    /\ Request
    /\ ~reminder.deleted
    /\ op \in {"update", "dismiss"} => reminder.status = "PENDING"
    /\ Set(c, [at |-> IF op = "update" THEN "row" ELSE "remove", op |-> op, when |-> t])
    /\ Cross
    /\ UNCHANGED <<reminder, alarm, firing, clock, faults, bereft, cutShort, sounded>>

\* The update of remindAt; an update of the title alone touches no time.
UpdateRow(c) ==
    /\ ClientAt(c, "row")
    /\ reminder' = [reminder EXCEPT !.when = client[c].when]
    /\ Set(c, [client[c] EXCEPT !.at = "remove"])
    /\ UNCHANGED <<requests, alarm, firing, clock, faults, bereft, crossed, cutShort, sounded>>

\* Faulty: update adds the new job and leaves the old one.
RemoveSkipped(c) ==
    /\ ClientAt(c, "remove")
    /\ Set(c, [client[c] EXCEPT !.at = IF client[c].op = "update" THEN "add" ELSE "close"])
    /\ UNCHANGED <<requests, reminder, alarm, firing, clock, faults, bereft, crossed, cutShort, sounded>>

RemoveAlarm(c) ==
    /\ ClientAt(c, "remove")
    /\ alarm' = Removed
    /\ Set(c, [client[c] EXCEPT !.at = IF client[c].op = "update" THEN "add" ELSE "close"])
    /\ UNCHANGED <<requests, reminder, firing, clock, faults, bereft, crossed, cutShort, sounded>>

\* Faulty: an update removes the old job and adds none.
AddOnCreateOnly(c) ==
    /\ ClientAt(c, "add")
    /\ alarm' = IF client[c].op = "create" THEN Added(client[c].when) ELSE alarm
    /\ Set(c, Ready)
    /\ UNCHANGED <<requests, reminder, firing, clock, faults, bereft, crossed, cutShort, sounded>>

\* enqueueDelayed; the end of create and update.
AddAlarm(c) ==
    /\ ClientAt(c, "add")
    /\ alarm' = Added(client[c].when)
    /\ Set(c, Ready)
    /\ UNCHANGED <<requests, reminder, firing, clock, faults, bereft, crossed, cutShort, sounded>>

\* The last write of dismiss and remove, by id.
CloseRow(c) ==
    /\ ClientAt(c, "close")
    /\ reminder' = IF client[c].op = "dismiss" THEN [reminder EXCEPT !.status = "DISMISSED"]
                   ELSE [reminder EXCEPT !.status = "CANCELLED", !.deleted = TRUE]
    /\ Set(c, Ready)
    /\ UNCHANGED <<requests, alarm, firing, clock, faults, bereft, crossed, cutShort, sounded>>

\* The handler dies, or its next call fails.  After the row, or after the
\* removal of the old job, nothing adds a job any more.
HandlerDies(c) ==
    /\ ~ClientAt(c, "idle")
    /\ Fault
    /\ bereft' = (bereft \/ client[c].at \in {"add", "close"})
    /\ cutShort' = (cutShort \/ (client[c].op = "update" /\ client[c].at = "remove"))
    /\ Set(c, Ready)
    /\ UNCHANGED <<requests, reminder, alarm, firing, clock, crossed, sounded>>

-----------------------------------------------------------------------------
(* The queue and the processor.                                             *)

TakeAlarm ==
    /\ firing = "idle"
    /\ alarm.state = "delayed"
    /\ alarm.when =< clock
    /\ alarm' = [alarm EXCEPT !.state = "active"]
    /\ firing' = "load"
    /\ Cross
    /\ UNCHANGED <<requests, reminder, client, clock, faults, bereft, cutShort, sounded>>

\* Completed jobs are kept for an hour.
Complete == firing' = "idle" /\ alarm' = [alarm EXCEPT !.state = "kept"]

LoadReminder ==
    /\ firing = "load"
    /\ IF reminder.status = "PENDING" /\ ~reminder.deleted
       THEN firing' = "write" /\ UNCHANGED alarm
       ELSE Complete
    /\ UNCHANGED <<requests, reminder, client, clock, faults, bereft, crossed, cutShort, sounded>>

Fire ==
    /\ firing = "write"
    /\ reminder' = [reminder EXCEPT !.status = "FIRED"]
    /\ sounded' = IF clock < reminder.when THEN "early" ELSE "onTime"
    /\ Complete
    /\ UNCHANGED <<requests, client, clock, faults, bereft, cutShort, crossed>>

\* A transaction of the processor throws: the next attempt after a backoff,
\* or a failed job, kept for a day.
FireThrows ==
    /\ firing # "idle"
    /\ Fault
    /\ firing' = "idle"
    /\ alarm' = [alarm EXCEPT !.fails = @ + 1,
                              !.state = IF alarm.fails + 1 >= FireAttempts THEN "kept" ELSE "delayed"]
    /\ bereft' = (bereft \/ alarm.fails + 1 >= FireAttempts)
    /\ UNCHANGED <<requests, reminder, client, clock, crossed, cutShort, sounded>>

\* The worker dies: its job is found stalled and handed out once more.
WorkerDies ==
    /\ firing # "idle"
    /\ Fault
    /\ firing' = "idle"
    /\ alarm' = [alarm EXCEPT !.stalls = @ + 1,
                              !.state = IF alarm.stalls >= 1 THEN "kept" ELSE "delayed"]
    /\ bereft' = (bereft \/ alarm.stalls >= 1)
    /\ UNCHANGED <<requests, reminder, client, clock, crossed, cutShort, sounded>>

\* removeOnComplete and removeOnFail evict what is old enough.
EvictAlarm ==
    /\ alarm.state = "kept"
    /\ alarm' = NoAlarm
    /\ UNCHANGED <<requests, reminder, firing, client, clock, faults, bereft, crossed, cutShort, sounded>>

TimePasses ==
    /\ clock < MaxTime
    /\ clock' = clock + 1
    /\ UNCHANGED <<requests, reminder, alarm, firing, client, faults, bereft, crossed, cutShort, sounded>>

HandlerStep(c) == UpdateRow(c) \/ RemoveAlarm(c) \/ AddAlarm(c) \/ CloseRow(c)
ProcessorStep == TakeAlarm \/ LoadReminder \/ Fire

RemNext ==
    \/ \E c \in Clients :
          \/ \E t \in Times : CreateReminder(c, t) \/ Begin(c, "update", t)
          \/ \E op \in {"dismiss", "remove"} : Begin(c, op, 0)
          \/ HandlerStep(c) \/ HandlerDies(c)
    \/ ProcessorStep \/ FireThrows \/ WorkerDies \/ EvictAlarm \/ TimePasses

\* Handlers that run go on, the worker polls, time passes.
RemFairness ==
    /\ \A c \in Clients : WF_remVars(HandlerStep(c))
    /\ WF_remVars(ProcessorStep)
    /\ WF_remVars(TimePasses)

RemSpec == RemInit /\ [][RemNext]_remVars /\ RemFairness

-----------------------------------------------------------------------------
RemTypeOK ==
    /\ reminder \in [status : {"NONE", "PENDING", "FIRED", "DISMISSED", "CANCELLED"},
                     deleted : BOOLEAN, when : 0..MaxTime]
    /\ alarm \in [state : {"none", "delayed", "active", "kept"}, when : 0..MaxTime,
                  fails : Nat, stalls : Nat]
    /\ firing # "idle" <=> alarm.state = "active"
    /\ clock \in 0..MaxTime

(* A PENDING reminder does not stay PENDING: it fires, or a user closes it. *)
(* Nothing sweeps the table, so this fails when the handler dies, or Redis  *)
(* does, between the row and the job, and when the job runs out of attempts *)
(* or stalls twice.                                                         *)
PendingFires == reminder.status = "PENDING" ~> reminder.status # "PENDING" \/ bereft

(* "removeJob is a no-op if the job has already moved on, so this is safe   *)
(* under races" (reminders.service.ts:178-180).  It is safe where nothing   *)
(* overlaps: then a reminder never fires before the time last set.          *)
NeverEarlyUnlessCrossed == sounded = "early" => crossed \/ cutShort

(* What a user dismissed or removed does not fire afterwards, unless the    *)
(* processor or another handler was in flight at the time.                  *)
ClosedStaysClosed ==
    [][reminder.status \in {"DISMISSED", "CANCELLED"} /\ reminder'.status = "FIRED"
          => crossed]_remVars
=============================================================================
