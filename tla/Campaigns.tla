------------------------------ MODULE Campaigns -------------------------------
(***************************************************************************)
(* One campaign and its dispatch job (apps/api/src/modules/campaigns and   *)
(* campaign-recipients).  schedule, cancel, pause and resume read the row, *)
(* change the queue, and write the row by id; launch and update only read  *)
(* and write.  No worker consumes the dispatch queue yet.                  *)
(***************************************************************************)
EXTENDS Naturals, FiniteSets

CONSTANTS
    Operators,     \* slots for handlers in flight (users and workflow steps)
    Contacts,      \* subjects the recipient filter may resolve to
    MaxMishaps     \* bound on handlers that die

VARIABLES
    campaign,    \* status, whether scheduledAt is set, and deletedAt
    audience,    \* subjects with a CampaignRecipient row
    dispatch,    \* whether the queue holds the job campaign-<id>
    operator,    \* local state of each handler
    mishaps,
    crowded,     \* history: handlers under way that met another, or an update
    announced,   \* history: the operations that published CAMPAIGN_SENT
    muddled,     \* history: since the last handler that was alone, one that was
                 \* not finished, one died, or the status was set by hand
    primed       \* history: resumed although never launched or scheduled

campVars == <<campaign, audience, dispatch, operator, mishaps, crowded, announced,
              muddled, primed>>

-----------------------------------------------------------------------------
Statuses == {"DRAFT", "SCHEDULED", "ACTIVE", "PAUSED", "COMPLETED", "CANCELLED"}
Terminal == {"COMPLETED", "CANCELLED"}
Waiting == [at |-> "idle", op |-> "none", next |-> "none"]

OpAt(o, pc) == operator[o].at = pc
UnderWay == {o \in Operators : ~OpAt(o, "idle")}
Put(o, d) == operator' = [operator EXCEPT ![o] = d]

\* create may store a scheduledAt with the draft.
CampInit ==
    /\ \E t \in BOOLEAN : campaign = [status |-> "DRAFT", timed |-> t, deleted |-> FALSE]
    /\ audience = {}
    /\ dispatch = FALSE
    /\ operator = [o \in Operators |-> Waiting]
    /\ mishaps = 0
    /\ crowded = {}
    /\ announced = {}
    /\ muddled = FALSE
    /\ primed = FALSE

\* A handler reads the row, at stage pc next, to write the status s in the end.
Enter(o, op, pc, s) ==
    /\ OpAt(o, "idle")
    /\ ~campaign.deleted
    /\ Put(o, [at |-> pc, op |-> op, next |-> s])
    /\ crowded' = IF UnderWay = {} THEN crowded ELSE UnderWay \cup {o}
    /\ UNCHANGED <<campaign, audience, dispatch, mishaps, announced, muddled, primed>>

\* A handler leaves, having changed the queue or the row only if done is TRUE.
Leave(o, done) ==
    /\ Put(o, Waiting)
    /\ crowded' = crowded \ {o}
    /\ muddled' = IF done THEN o \in crowded ELSE muddled

-----------------------------------------------------------------------------
(* Reads and guards.                                                        *)

\* launch refuses COMPLETED, not CANCELLED.
Launch(o) ==
    /\ campaign.status \notin {"COMPLETED", "ACTIVE"}
    /\ Enter(o, "launch", "write", "ACTIVE")

Schedule(o) ==
    /\ campaign.status \notin Terminal
    /\ Enter(o, "schedule", "enqueue", "SCHEDULED")

Cancel(o) ==
    /\ campaign.status \notin Terminal
    /\ Enter(o, "cancel", "unqueue", "CANCELLED")

Pause(o) ==
    /\ campaign.status \notin Terminal \cup {"PAUSED"}
    /\ Enter(o, "pause", "unqueue", "PAUSED")

Resume(o) ==
    /\ campaign.status = "PAUSED"
    /\ Enter(o, "resume", "queue", IF campaign.timed THEN "SCHEDULED" ELSE "ACTIVE")

-----------------------------------------------------------------------------
(* Effects.                                                                 *)

\* CampaignRecipientsService.enqueue: subjects without a row get one.
EnqueueRecipients(o) ==
    /\ OpAt(o, "enqueue")
    /\ ~campaign.deleted
    /\ \E R \in (SUBSET Contacts) \ {{}} : audience' = audience \cup R
    /\ Put(o, [operator[o] EXCEPT !.at = "unqueue"])
    /\ UNCHANGED <<campaign, dispatch, mishaps, crowded, announced, muddled, primed>>

\* An empty audience, or a campaign removed meanwhile, throws before anything
\* was changed.
NoAudience(o) ==
    /\ OpAt(o, "enqueue")
    /\ Leave(o, FALSE)
    /\ UNCHANGED <<campaign, audience, dispatch, mishaps, announced, primed>>

\* Faulty: only schedule removes the job.
KeepJob(o) ==
    /\ OpAt(o, "unqueue")
    /\ dispatch' = (dispatch /\ operator[o].op # "schedule")
    /\ Put(o, [operator[o] EXCEPT !.at = IF operator[o].op = "schedule" THEN "queue" ELSE "write"])
    /\ UNCHANGED <<campaign, audience, mishaps, crowded, announced, muddled, primed>>

RemoveJob(o) ==
    /\ OpAt(o, "unqueue")
    /\ dispatch' = FALSE
    /\ Put(o, [operator[o] EXCEPT !.at = IF operator[o].op = "schedule" THEN "queue" ELSE "write"])
    /\ UNCHANGED <<campaign, audience, mishaps, crowded, announced, muddled, primed>>

AddJob(o) ==
    /\ OpAt(o, "queue")
    /\ dispatch' = TRUE
    /\ Put(o, [operator[o] EXCEPT !.at = "write"])
    /\ UNCHANGED <<campaign, audience, mishaps, crowded, announced, muddled, primed>>

\* The update by id; launch and schedule publish CAMPAIGN_SENT with it.
WriteStatus(o) ==
    /\ OpAt(o, "write")
    /\ campaign' = [campaign EXCEPT !.status = operator[o].next,
                                    !.timed = @ \/ operator[o].op = "schedule"]
    /\ announced' = announced \cup ({operator[o].op} \cap {"launch", "schedule"})
    /\ primed' = (primed \/ (operator[o].op = "resume" /\ announced = {}))
    /\ Leave(o, TRUE)
    /\ UNCHANGED <<audience, dispatch, mishaps>>

\* update writes the columns it is given, scheduledAt among them (never back
\* to null).
SetSchedule(o) ==
    /\ OpAt(o, "idle")
    /\ ~campaign.deleted
    /\ campaign' = [campaign EXCEPT !.timed = TRUE]
    /\ UNCHANGED <<audience, dispatch, operator, mishaps, crowded, announced, muddled,
                   primed>>

\* And the status, without a look at the queue.
Update(o) ==
    /\ OpAt(o, "idle")
    /\ ~campaign.deleted
    /\ \E s \in Statuses : campaign' = [campaign EXCEPT !.status = s]
    /\ crowded' = UnderWay
    /\ muddled' = TRUE
    /\ UNCHANGED <<audience, dispatch, operator, mishaps, announced, primed>>

\* remove: the job, if there is one, stays.
RemoveCampaign(o) ==
    /\ OpAt(o, "idle")
    /\ ~campaign.deleted
    /\ campaign' = [campaign EXCEPT !.deleted = TRUE]
    /\ UNCHANGED <<audience, dispatch, operator, mishaps, crowded, announced, muddled,
                   primed>>

HandlerFails(o) ==
    /\ ~OpAt(o, "idle")
    /\ mishaps < MaxMishaps
    /\ mishaps' = mishaps + 1
    /\ Put(o, Waiting)
    /\ crowded' = crowded \ {o}
    /\ muddled' = TRUE
    /\ UNCHANGED <<campaign, audience, dispatch, announced, primed>>

CampNext ==
    \E o \in Operators :
       \/ Launch(o) \/ Schedule(o) \/ Cancel(o) \/ Pause(o) \/ Resume(o)
       \/ EnqueueRecipients(o) \/ NoAudience(o) \/ RemoveJob(o) \/ AddJob(o)
       \/ WriteStatus(o) \/ SetSchedule(o) \/ Update(o) \/ RemoveCampaign(o)
       \/ HandlerFails(o)

CampSpec == CampInit /\ [][CampNext]_campVars

-----------------------------------------------------------------------------
CampTypeOK ==
    /\ campaign \in [status : Statuses, timed : BOOLEAN, deleted : BOOLEAN]
    /\ audience \subseteq Contacts
    /\ dispatch \in BOOLEAN
    /\ crowded \subseteq UnderWay
    /\ \A o \in Operators : OpAt(o, "idle") <=> operator[o] = Waiting

(* No transaction spans the queue and the row, so handlers that overlap or   *)
(* die, and a status set by hand, leave them at odds; the next handler that *)
(* has the campaign to itself puts them right.  Between handlers, unless    *)
(* something went wrong since the last such one: a SCHEDULED campaign has   *)
(* its job - and its recipients once it was ever scheduled: resume also     *)
(* schedules a draft that has a date -, a draft, paused or cancelled one has *)
(* no job, and what goes out was announced unless a draft was resumed.      *)
QueueMatchesStatus ==
    ~muddled /\ UnderWay = {} =>
       /\ campaign.status = "SCHEDULED" => dispatch
       /\ campaign.status = "SCHEDULED" /\ "schedule" \in announced => audience # {}
       /\ campaign.status \in {"DRAFT", "PAUSED", "CANCELLED"} => ~dispatch
       /\ campaign.status \in {"SCHEDULED", "ACTIVE"} => announced # {} \/ primed
===============================================================================
