-------------------------------- MODULE Imports --------------------------------
(***************************************************************************)
(* Imports of a file of clients (apps/api/src/modules/importer); contacts  *)
(* have an e-mail where clients have a phone.  upload stores the file,     *)
(* inserts an ImportJob and adds a BullMQ job; a worker walks the rows, and*)
(* inserts those it finds no client for.  The job has one attempt, but one *)
(* that stalls is taken once more, from the first row, while the worker    *)
(* that lost it may still be alive.                                        *)
(***************************************************************************)
EXTENDS Naturals, Sequences

CONSTANTS
    Imports,      \* ids of ImportJob rows
    Keys,         \* the people rows are about, each a name and a phone
    Phones,
    NameOf,
    PhoneOf,      \* as it is written in the file, and stored
    Compact,      \* a phone without its spaces
    NoPhone,
    File,         \* the rows of the file, each the key it maps to
    NoKey,        \* a row the mapper refuses
    Workers,
    MaxUpsets,    \* bound on crashes, stalls and failing queries
    NoImport

ASSUME ImportAssumption ==
    /\ File \in Seq(Keys \cup {NoKey}) /\ NoKey \notin Keys
    /\ NoImport \notin Imports
    /\ Compact \in [Phones -> Phones] /\ NoPhone \notin Phones
    /\ PhoneOf \in [Keys -> Phones \cup {NoPhone}]

VARIABLES
    import,     \* ImportJob.status; NONE: no row
    upload,     \* stage of enqueue: idle, add, done
    task,       \* the BullMQ job: state and number of stalls
    worker,     \* local state of each execution
    count,      \* number of clients with each key
    upsets,
    together,   \* history: two workers were at it at the same time
    inserted,       \* history: <<j, k>>: j inserted a client for k
    refused,    \* history: <<j, k>>: an insert of j for k failed
    broken      \* history: imports hit by a failure that no code repairs

importVars == <<import, upload, task, worker, count, upsets, together, inserted, refused, broken>>

-----------------------------------------------------------------------------
NoTask == [state |-> "none", stalls |-> 0]
OffDuty == [at |-> "idle", job |-> NoImport, row |-> 0, ok |-> 0, bad |-> 0, lost |-> FALSE]

WorkerAt(w, pc) == worker[w].at = pc
TurnWorker(w, d) == worker' = [worker EXCEPT ![w] = d]
Upset == upsets < MaxUpsets /\ upsets' = upsets + 1
Settle(j, status) == import' = [import EXCEPT ![j] = status]
TaskBecomes(j, s) == task' = [task EXCEPT ![j].state = s]

\* An execution ends; the queue ignores one that has lost its lock.
EndTask(w, s) == IF worker[w].lost THEN UNCHANGED task ELSE TaskBecomes(worker[w].job, s)

clients == <<count, inserted, refused>>

ImportInit ==
    /\ import = [j \in Imports |-> "NONE"]
    /\ upload = [j \in Imports |-> "idle"]
    /\ task = [j \in Imports |-> NoTask]
    /\ worker = [w \in Workers |-> OffDuty]
    /\ count = [k \in Keys |-> 0]
    /\ upsets = 0
    /\ together = FALSE
    /\ inserted = {} /\ refused = {} /\ broken = {}

-----------------------------------------------------------------------------
(* enqueue; the file is stored before.                                     *)

CreateImport(j) ==
    /\ upload[j] = "idle"
    /\ Settle(j, "PENDING")
    /\ upload' = [upload EXCEPT ![j] = "add"]
    /\ UNCHANGED <<task, worker, clients, upsets, together, broken>>

AddTask(j) ==
    /\ upload[j] = "add"
    /\ TaskBecomes(j, "waiting")
    /\ upload' = [upload EXCEPT ![j] = "done"]
    /\ UNCHANGED <<import, worker, clients, upsets, together, broken>>

\* The process dies, or Redis refuses the job.
AddFails(j) ==
    /\ upload[j] = "add"
    /\ Upset
    /\ upload' = [upload EXCEPT ![j] = "done"]
    /\ broken' = broken \cup {j}
    /\ UNCHANGED <<import, task, worker, clients, together>>

-----------------------------------------------------------------------------
(* process.                                                                *)

TakeImport(w, j) ==
    /\ worker[w] = OffDuty
    /\ task[j].state = "waiting"
    /\ TaskBecomes(j, "active")
    /\ together' = (together \/ \E v \in Workers : worker[v] # OffDuty)
    /\ TurnWorker(w, [OffDuty EXCEPT !.at = "begin", !.job = j])
    /\ UNCHANGED <<import, upload, clients, upsets, broken>>

MarkRunning(w) ==
    /\ WorkerAt(w, "begin")
    /\ Settle(worker[w].job, "RUNNING")
    /\ TurnWorker(w, [worker[w] EXCEPT !.at = "parse"])
    /\ UNCHANGED <<upload, task, clients, upsets, together, broken>>

\* The file cannot be fetched or parsed.
ParseFails(w) ==
    /\ WorkerAt(w, "parse")
    /\ Upset
    /\ TurnWorker(w, [worker[w] EXCEPT !.at = "markFailed"])
    /\ UNCHANGED <<import, upload, task, clients, together, broken>>

MarkImportFailed(w) ==
    /\ WorkerAt(w, "markFailed")
    /\ Settle(worker[w].job, "FAILED")
    /\ TurnWorker(w, [worker[w] EXCEPT !.at = "return"])
    /\ UNCHANGED <<upload, task, clients, upsets, together, broken>>

Parse(w) ==
    /\ WorkerAt(w, "parse")
    /\ TurnWorker(w, [worker[w] EXCEPT !.at = "find", !.row = 1])
    /\ UNCHANGED <<import, upload, task, clients, upsets, together, broken>>

Past(d) == [d EXCEPT !.at = "find", !.row = @ + 1]
CurrentKey(w) == File[worker[w].row]

\* The clients that findFirst takes for k: those of its name with its phone
\* less the spaces, or with any phone when the row has none.
Alike(k) == {c \in Keys : /\ NameOf[c] = NameOf[k]
                          /\ PhoneOf[k] # NoPhone => PhoneOf[c] = Compact[PhoneOf[k]]}
Found(k) == \E c \in Alike(k) : count[c] > 0

\* Those that are not found again once they are clients.
Spaced == {k \in Keys : k \notin Alike(k)}

\* Faulty: nothing is looked for.
FindNever(w) ==
    /\ WorkerAt(w, "find")
    /\ worker[w].row \in DOMAIN File
    /\ TurnWorker(w, IF CurrentKey(w) = NoKey THEN [Past(worker[w]) EXCEPT !.bad = @ + 1]
               ELSE [worker[w] EXCEPT !.at = "insert"])
    /\ UNCHANGED <<import, upload, task, clients, upsets, together, broken>>

\* importRow: a row without a name fails, a client there is already is skipped.
Find(w) ==
    /\ WorkerAt(w, "find")
    /\ worker[w].row \in DOMAIN File
    /\ TurnWorker(w, IF CurrentKey(w) = NoKey THEN [Past(worker[w]) EXCEPT !.bad = @ + 1]
               ELSE IF Found(CurrentKey(w)) THEN Past(worker[w])
               ELSE [worker[w] EXCEPT !.at = "insert"])
    /\ UNCHANGED <<import, upload, task, clients, upsets, together, broken>>

Insert(w) ==
    /\ WorkerAt(w, "insert")
    /\ count' = [count EXCEPT ![CurrentKey(w)] = @ + 1]
    /\ inserted' = inserted \cup {<<worker[w].job, CurrentKey(w)>>}
    /\ TurnWorker(w, [Past(worker[w]) EXCEPT !.ok = @ + 1])
    /\ UNCHANGED <<import, upload, task, refused, upsets, together, broken>>

\* importRow throws: the row has failed.
RowFails(w) ==
    /\ worker[w].at \in {"find", "insert"}
    /\ worker[w].row \in DOMAIN File /\ CurrentKey(w) # NoKey
    /\ Upset
    /\ refused' = refused \cup {<<worker[w].job, CurrentKey(w)>>}
    /\ TurnWorker(w, [Past(worker[w]) EXCEPT !.bad = @ + 1])
    /\ UNCHANGED <<import, upload, task, count, inserted, together, broken>>

FinishImport(w) ==
    /\ WorkerAt(w, "find")
    /\ worker[w].row \notin DOMAIN File
    /\ Settle(worker[w].job, IF worker[w].bad > 0 /\ worker[w].ok = 0 THEN "FAILED"
                             ELSE "COMPLETED")
    /\ TurnWorker(w, [worker[w] EXCEPT !.at = "return"])
    /\ UNCHANGED <<upload, task, clients, upsets, together, broken>>

ReturnImport(w) ==
    /\ WorkerAt(w, "return")
    /\ EndTask(w, "completed")
    /\ TurnWorker(w, OffDuty)
    /\ UNCHANGED <<import, upload, clients, upsets, together, broken>>

\* The updates of the ImportJob are outside of the try: the only attempt fails.
ProcessThrows(w) ==
    /\ worker[w].at \in {"begin", "markFailed", "find"}
    /\ Upset
    /\ EndTask(w, "failed")
    /\ broken' = broken \cup {worker[w].job}
    /\ TurnWorker(w, OffDuty)
    /\ UNCHANGED <<import, upload, clients, together>>

\* The lock of a worker that is dead, or busy for too long, expires: the job
\* is handed out once more (maxStalledCount), or failed.
LosesLock(w, dead) ==
    /\ worker[w] # OffDuty
    /\ ~worker[w].lost
    /\ Upset
    /\ LET j == worker[w].job IN
         /\ task' = [task EXCEPT ![j] = [state |-> IF @.stalls = 0 THEN "waiting" ELSE "failed",
                                         stalls |-> @.stalls + 1]]
         /\ broken' = IF task[j].stalls = 0 THEN broken ELSE broken \cup {j}
    /\ TurnWorker(w, IF dead THEN OffDuty ELSE [worker[w] EXCEPT !.lost = TRUE])
    /\ UNCHANGED <<import, upload, clients, together>>

\* A worker that had lost its job dies later.
LostWorkerDies(w) ==
    /\ worker[w].lost
    /\ Upset
    /\ broken' = broken \cup {worker[w].job}
    /\ TurnWorker(w, OffDuty)
    /\ UNCHANGED <<import, upload, task, clients, together>>

ImportNext ==
    \/ \E j \in Imports : CreateImport(j) \/ AddTask(j) \/ AddFails(j)
    \/ \E w \in Workers, j \in Imports : TakeImport(w, j)
    \/ \E w \in Workers :
          \/ MarkRunning(w) \/ Parse(w) \/ ParseFails(w) \/ MarkImportFailed(w)
          \/ Find(w) \/ Insert(w) \/ RowFails(w) \/ FinishImport(w) \/ ReturnImport(w)
          \/ ProcessThrows(w) \/ LostWorkerDies(w)
    \/ \E w \in Workers, dead \in BOOLEAN : LosesLock(w, dead)

ImportSpec == ImportInit /\ [][ImportNext]_importVars

-----------------------------------------------------------------------------
ImportTypeOK ==
    /\ import \in [Imports -> {"NONE", "PENDING", "RUNNING", "COMPLETED", "FAILED"}]
    /\ count \in [Keys -> Nat]
    /\ \A k \in Keys : count[k] = 0 <=> inserted \cap (Imports \X {k}) = {}
    /\ \A w \in Workers : worker[w].job = NoImport <=> WorkerAt(w, "idle")

\* One client for each key, unless two workers looked for it at once, or its
\* phone has spaces.
NoDuplicates == \A k \in Keys \ Spaced : count[k] > 1 => together

\* What COMPLETED and FAILED tell the user: every row was inserted, refused, or
\* skipped for a client that is there.
VerdictHolds ==
    \A j \in Imports :
        /\ import[j] = "COMPLETED" =>
              \A i \in DOMAIN File : \/ File[i] = NoKey \/ count[File[i]] > 0 \/ Found(File[i])
                                     \/ <<j, File[i]>> \in refused
        /\ import[j] = "FAILED" => inserted \cap ({j} \X Keys) = {} \/ task[j].stalls > 0

\* An import that is not over has somebody who will get to it.
NoneForgotten ==
    \A j \in Imports \ broken : import[j] \in {"PENDING", "RUNNING"} =>
        \/ upload[j] = "add"
        \/ task[j].state \in {"waiting", "active"}
        \/ \E w \in Workers : worker[w].job = j

(* The same file may be uploaded twice and an execution be cut off and      *)
(* begun anew: no client is doubled as long as one worker runs at a time    *)
(* and its phone has no spaces, a COMPLETED import has for every row a      *)
(* client the lookup takes for it, a FAILED one that was not restarted has  *)
(* inserted none, and none waits for a job that is gone.                    *)
RerunIsSafe == NoDuplicates /\ VerdictHolds /\ NoneForgotten

(* "On duplicate we count it as `skipped`, not `failed` - re-running an     *)
(* import must be safe" (import.processor.ts:35): with one worker at a time *)
(* no client is there twice, however its phone is written.                  *)
RerunSkipsDuplicates == \A k \in Keys : count[k] > 1 => together
===============================================================================
