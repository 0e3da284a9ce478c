----------------------------- MODULE WorkflowRuns -----------------------------
(***************************************************************************)
(* Workflow runs for one subject (apps/api/src/modules/workflows).  A      *)
(* trigger walks through the active workflows; for each that has no RUNNING*)
(* run it creates one and executes its steps until a WAIT_DAYS step, which *)
(* leaves a delayed job behind.  The processor resumes the run from the    *)
(* index in that job.  Jobs have one attempt and may stall once.           *)
(***************************************************************************)
EXTENDS Naturals, FiniteSets

CONSTANTS
    Workflows,
    Runs,           \* ids of WorkflowRun rows
    ResumeJobs,     \* slots for jobs of the queue
    Triggers,       \* slots for calls of trigger
    Processors,     \* slots for executions of the processor
    StepCount,      \* steps of each workflow
    WaitsAt,        \* the indices of its WAIT_DAYS steps
    StepCap,        \* MAX_STEPS_PER_RUN
    MaxDisruptions, \* bound on crashes, stalls and failing calls
    NoRun, NoWorkflow, NoJob

ASSUME WorkflowAssumption ==
    /\ StepCount \in Nat \ {0}
    /\ NoRun \notin Runs
    /\ NoJob \notin ResumeJobs

VARIABLES
    run,        \* workflow, status and currentStep of each row
    resume,     \* run, index and state of each delayed job
    exec,       \* local state of each executor
    disruptions,
    acted,      \* history: how often each step of each run was executed
    raced,      \* history: workflows two triggers created a run of at once
    orphaned,   \* history: RUNNING runs that lost their executor and job
    redone,     \* history: runs whose job was handed out a second time
    pursued     \* history: runs cancelled while an executor had loaded them

wfVars == <<run, resume, exec, disruptions, acted, raced, orphaned, redone, pursued>>

-----------------------------------------------------------------------------
Executors == Triggers \cup Processors
Unengaged == [at |-> "idle", todo |-> {}, wf |-> NoWorkflow, run |-> NoRun,
            i |-> 0, job |-> NoJob, own |-> FALSE]
NoResume == [run |-> NoRun, from |-> 0, state |-> "none", stalls |-> 0]

ExecAt(x, pc) == exec[x].at = pc
Move(x, d) == exec' = [exec EXCEPT ![x] = d]
Running(w) == {r \in Runs : run[r].wf = w /\ run[r].status = "RUNNING"}
UnusedRuns == {r \in Runs : run[r].status = "NONE"}
NewRun == CHOOSE r \in UnusedRuns : TRUE

\* Ids that triggers in flight may still need (a bound of the model).
Pending ==
    Cardinality({p \in Triggers \X Workflows :
        p[2] \in exec[p[1]].todo \/ (ExecAt(p[1], "create") /\ exec[p[1]].wf = p[2])})
Disrupt == disruptions < MaxDisruptions /\ disruptions' = disruptions + 1

\* executeFromStep returned: a trigger goes on to the next workflow, a job is
\* completed unless the execution lost its lock.
Proceed(x) ==
    IF exec[x].job = NoJob
    THEN /\ Move(x, [exec[x] EXCEPT !.at = "check", !.run = NoRun, !.wf = NoWorkflow])
         /\ UNCHANGED resume
    ELSE /\ Move(x, Unengaged)
         /\ resume' = IF exec[x].own THEN [resume EXCEPT ![exec[x].job] = NoResume] ELSE resume

\* It threw: a trigger gives up the workflows left, a job has failed.
Abandon(x) ==
    /\ Move(x, Unengaged)
    /\ resume' = IF exec[x].own THEN [resume EXCEPT ![exec[x].job] = NoResume] ELSE resume

WfInit ==
    /\ run = [r \in Runs |-> [wf |-> NoWorkflow, status |-> "NONE", step |-> 0]]
    /\ resume = [j \in ResumeJobs |-> NoResume]
    /\ exec = [x \in Executors |-> Unengaged]
    /\ disruptions = 0
    /\ acted = [r \in Runs |-> [i \in 0..(StepCount - 1) |-> 0]]
    /\ raced = {}
    /\ orphaned = {}
    /\ redone = {}
    /\ pursued = {}

-----------------------------------------------------------------------------
(* trigger.                                                                 *)

Trigger(x) ==
    /\ ExecAt(x, "idle")
    /\ \E matching \in SUBSET Workflows :
          /\ Cardinality(UnusedRuns) >= Cardinality(matching) + Pending
          /\ matching # {}
          /\ Move(x, [Unengaged EXCEPT !.at = "check", !.todo = matching])
    /\ UNCHANGED <<run, resume, disruptions, acted, raced, orphaned, redone, pursued>>

\* Faulty: the RUNNING run is looked for and not acted on.
CheckTheatre(x) ==
    /\ ExecAt(x, "check")
    /\ \E w \in exec[x].todo :
          /\ Move(x, [exec[x] EXCEPT !.at = "create", !.wf = w, !.todo = @ \ {w}])
          /\ raced' = IF \E y \in Executors \ {x} : ExecAt(y, "create") /\ exec[y].wf = w
                      THEN raced \cup {w} ELSE raced
    /\ UNCHANGED <<run, resume, disruptions, acted, orphaned, redone, pursued>>

\* Skip the workflow if it is already running for this subject.
CheckRunning(x) ==
    /\ ExecAt(x, "check")
    /\ \E w \in exec[x].todo :
          IF Running(w) # {}
          THEN Move(x, [exec[x] EXCEPT !.todo = @ \ {w}]) /\ UNCHANGED raced
          ELSE /\ Move(x, [exec[x] EXCEPT !.at = "create", !.wf = w, !.todo = @ \ {w}])
               /\ raced' = IF \E y \in Executors \ {x} : ExecAt(y, "create") /\ exec[y].wf = w
                           THEN raced \cup {w} ELSE raced
    /\ UNCHANGED <<run, resume, disruptions, acted, orphaned, redone, pursued>>

TriggerEnds(x) ==
    /\ ExecAt(x, "check")
    /\ exec[x].todo = {}
    /\ Move(x, Unengaged)
    /\ UNCHANGED <<run, resume, disruptions, acted, raced, orphaned, redone, pursued>>

CreateRun(x) ==
    /\ ExecAt(x, "create")
    /\ UnusedRuns # {}
    /\ run' = [run EXCEPT ![NewRun] = [wf |-> exec[x].wf, status |-> "RUNNING", step |-> 0]]
    /\ Move(x, [exec[x] EXCEPT !.at = "load", !.run = NewRun, !.i = 0])
    /\ UNCHANGED <<resume, disruptions, acted, raced, orphaned, redone, pursued>>

-----------------------------------------------------------------------------
(* executeFromStep.                                                         *)

\* Faulty: the run is executed whatever its status.
LoadAnyRun(x) ==
    /\ ExecAt(x, "load")
    /\ Move(x, [exec[x] EXCEPT !.at = "mark"])
    /\ UNCHANGED <<run, resume, disruptions, acted, raced, orphaned, redone, pursued>>

LoadRun(x) ==
    /\ ExecAt(x, "load")
    /\ IF run[exec[x].run].status = "RUNNING"
       THEN Move(x, [exec[x] EXCEPT !.at = "mark"]) /\ UNCHANGED resume
       ELSE Proceed(x)
    /\ UNCHANGED <<run, disruptions, acted, raced, orphaned, redone, pursued>>

\* The head of the loop writes currentStep; the status is not read again.
MarkStep(x) ==
    /\ ExecAt(x, "mark")
    /\ IF exec[x].i < StepCount
       THEN /\ run' = [run EXCEPT ![exec[x].run].step = exec[x].i]
            /\ Move(x, [exec[x] EXCEPT
                        !.at = IF exec[x].i \in WaitsAt[run[exec[x].run].wf] THEN "wait" ELSE "act"])
       ELSE Move(x, [exec[x] EXCEPT !.at = "complete"]) /\ UNCHANGED run
    /\ UNCHANGED <<resume, disruptions, acted, raced, orphaned, redone, pursued>>

\* executeStep: a note, a task, an e-mail or the launch of a campaign.
Act(x) ==
    /\ ExecAt(x, "act")
    /\ acted' = [acted EXCEPT ![exec[x].run][exec[x].i] = @ + 1]
    /\ Move(x, [exec[x] EXCEPT !.at = "mark", !.i = @ + 1])
    /\ UNCHANGED <<run, resume, disruptions, raced, orphaned, redone, pursued>>

ActThrows(x) ==
    /\ ExecAt(x, "act")
    /\ Disrupt
    /\ Move(x, [exec[x] EXCEPT !.at = "fail"])
    /\ UNCHANGED <<run, resume, acted, raced, orphaned, redone, pursued>>

\* By id, whatever the status is by now.
FailRun(x) ==
    /\ ExecAt(x, "fail")
    /\ run' = [run EXCEPT ![exec[x].run].status = "FAILED"]
    /\ Abandon(x)
    /\ UNCHANGED <<disruptions, acted, raced, orphaned, redone, pursued>>

Payload(x, i) == [run |-> exec[x].run, from |-> i, state |-> "waiting", stalls |-> 0]

FreeSlot == CHOOSE j \in ResumeJobs : resume[j].state = "none"

\* queue.add; executeFromStep returns.
ProceedWith(x, p) ==
    /\ \E j \in ResumeJobs : resume[j].state = "none"
    /\ resume' = [resume EXCEPT ![FreeSlot] = p]
    /\ Move(x, [exec[x] EXCEPT !.at = "paused"])

\* Faulty: the job carries no index, the run starts over.
AddResumeFromStart(x) ==
    /\ ExecAt(x, "wait")
    /\ ProceedWith(x, Payload(x, 0))
    /\ UNCHANGED <<run, disruptions, acted, raced, orphaned, redone, pursued>>

\* Faulty: the run pauses and no job is added.
PauseOnly(x) ==
    /\ ExecAt(x, "wait")
    /\ Proceed(x)
    /\ UNCHANGED <<run, disruptions, acted, raced, orphaned, redone, pursued>>

AddResume(x) ==
    /\ ExecAt(x, "wait")
    /\ ProceedWith(x, Payload(x, exec[x].i + 1))
    /\ UNCHANGED <<run, disruptions, acted, raced, orphaned, redone, pursued>>

\* The execution that added the next job completes its own.
EndPaused(x) ==
    /\ ExecAt(x, "paused")
    /\ Proceed(x)
    /\ UNCHANGED <<run, disruptions, acted, raced, orphaned, redone, pursued>>

\* A query of the engine throws outside executeStep, or queue.add does: a
\* trigger stops, a job has failed for good, and nobody marks the run FAILED.
EngineThrows(x) ==
    /\ exec[x].at \notin {"idle", "act", "paused"}
    /\ Disrupt
    /\ orphaned' = orphaned \cup ({exec[x].run} \ {NoRun})
    /\ Abandon(x)
    /\ UNCHANGED <<run, acted, raced, redone, pursued>>

\* By id, whatever the status is by now.
CompleteRun(x) ==
    /\ ExecAt(x, "complete")
    /\ run' = [run EXCEPT ![exec[x].run].status = "COMPLETED"]
    /\ Proceed(x)
    /\ UNCHANGED <<disruptions, acted, raced, orphaned, redone, pursued>>

-----------------------------------------------------------------------------
(* The queue, its processor, and the user.                                  *)

TakeResume(x, j) ==
    /\ ExecAt(x, "idle")
    /\ resume[j].state = "waiting"
    /\ resume' = [resume EXCEPT ![j].state = "active"]
    /\ Move(x, [Unengaged EXCEPT !.at = IF resume[j].from >= StepCap THEN "cap" ELSE "load",
                               !.run = resume[j].run, !.i = resume[j].from,
                               !.job = j, !.own = TRUE])
    /\ UNCHANGED <<run, disruptions, acted, raced, orphaned, redone, pursued>>

\* markFailed: too many steps.
CapExceeded(x) ==
    /\ ExecAt(x, "cap")
    /\ run' = IF run[exec[x].run].status = "RUNNING"
              THEN [run EXCEPT ![exec[x].run].status = "FAILED"] ELSE run
    /\ Proceed(x)
    /\ UNCHANGED <<disruptions, acted, raced, orphaned, redone, pursued>>

\* The process dies.  A run that was being triggered has no job; a job is
\* redelivered once.
ExecutorDies(x) ==
    /\ ~ExecAt(x, "idle")
    /\ Disrupt
    /\ orphaned' = IF /\ exec[x].run # NoRun
                      /\ exec[x].job = NoJob \/ exec[x].run \in redone
                   THEN orphaned \cup {exec[x].run} ELSE orphaned
    /\ Move(x, Unengaged)
    /\ UNCHANGED <<run, resume, acted, raced, redone, pursued>>

WorkersOn(j) == {x \in Executors : exec[x].own /\ exec[x].job = j}

\* The lock of a job expired, under a dead worker or one that hangs.
ResumeStalls(j) ==
    /\ resume[j].state = "active"
    /\ IF WorkersOn(j) = {} THEN UNCHANGED disruptions ELSE Disrupt
    /\ exec' = [x \in Executors |->
                   IF x \in WorkersOn(j) THEN [exec[x] EXCEPT !.own = FALSE] ELSE exec[x]]
    /\ resume' = [resume EXCEPT ![j] = IF @.stalls = 1 THEN NoResume
                                       ELSE [@ EXCEPT !.state = "waiting", !.stalls = 1]]
    /\ redone' = redone \cup {resume[j].run}
    /\ UNCHANGED <<run, acted, raced, orphaned, pursued>>

CancelRun(r) ==
    /\ run[r].status = "RUNNING"
    /\ run' = [run EXCEPT ![r].status = "CANCELLED"]
    /\ pursued' = IF \E x \in Executors : exec[x].run = r /\ exec[x].at \notin {"load", "paused"}
                  THEN pursued \cup {r} ELSE pursued
    /\ UNCHANGED <<resume, exec, disruptions, acted, raced, orphaned, redone>>

-----------------------------------------------------------------------------
ExecStep(x) ==
    \/ CheckRunning(x) \/ TriggerEnds(x) \/ CreateRun(x)
    \/ LoadRun(x) \/ MarkStep(x) \/ Act(x) \/ FailRun(x) \/ AddResume(x) \/ EndPaused(x)
    \/ CompleteRun(x) \/ CapExceeded(x)
    \/ x \in Processors /\ \E j \in ResumeJobs : TakeResume(x, j)

WfNext ==
    \/ \E x \in Executors :
          (x \in Triggers /\ Trigger(x)) \/ ExecStep(x) \/ ActThrows(x) \/ EngineThrows(x) \/ ExecutorDies(x)
    \/ \E j \in ResumeJobs : ResumeStalls(j)
    \/ \E r \in Runs : CancelRun(r)

\* Executors that run go on, the processor polls, BullMQ checks for stalls.
WfFairness ==
    /\ \A x \in Executors : WF_wfVars(ExecStep(x))
    /\ \A j \in ResumeJobs : WF_wfVars(WorkersOn(j) = {} /\ ResumeStalls(j))

WfSpec == WfInit /\ [][WfNext]_wfVars /\ WfFairness

-----------------------------------------------------------------------------
WfTypeOK ==
    /\ run \in [Runs -> [wf : Workflows \cup {NoWorkflow},
                         status : {"NONE", "RUNNING", "COMPLETED", "FAILED", "CANCELLED"},
                         step : 0..(StepCount - 1)]]
    /\ \A j \in ResumeJobs : resume[j].state = "none" <=> resume[j].run = NoRun
    /\ \A x \in Executors : exec[x].own => resume[exec[x].job].state = "active"

(* "One workflow runs at most once per (subject, workflow) pair while       *)
(* RUNNING" (workflows.service.ts:14).  The check and the insert are two    *)
(* transactions: it holds of triggers that do not overlap.                  *)
OneRunPerPair ==
    \A w \in Workflows : Cardinality(Running(w)) > 1 => w \in raced

(* A RUNNING run ends.  While it does not, every later trigger of the pair  *)
(* is skipped; nothing but the user repairs a run that lost its executor or *)
(* its delayed job to a crash, or to a query that threw outside a step.     *)
RunEnds == \A r \in Runs : run[r].status = "RUNNING" ~> run[r].status # "RUNNING" \/ r \in orphaned

(* A step is executed again only when the job of the run was handed out     *)
(* again, and a run that COMPLETED has executed every step.                 *)
StepsOnceAndAll ==
    \A r \in Runs, i \in 0..(StepCount - 1) :
       /\ acted[r][i] > 1 => r \in redone
       /\ run[r].status = "COMPLETED" /\ i \notin WaitsAt[run[r].wf] => acted[r][i] > 0

(* A cancelled run stays so, and executes nothing more, unless an executor  *)
(* had loaded it before.                                                    *)
CancelledStaysCancelled ==
    [][\A r \in Runs :
          run[r].status = "CANCELLED" /\ r \notin pursued
             => run'[r].status = "CANCELLED" /\ acted'[r] = acted[r]]_wfVars
=============================================================================
