---------------------------- MODULE CircuitBreaker ----------------------------
(***************************************************************************)
(* One breaker of apps/api/src/common/resilience/circuit-breaker.ts, which *)
(* the whole process shares for one provider.  exec looks at the state,    *)
(* awaits the call, and counts its outcome into whatever the state is by   *)
(* then: calls that were admitted before the breaker opened settle after.  *)
(***************************************************************************)
EXTENDS Naturals, Sequences

CONSTANTS
    Callers,       \* slots for calls of exec
    Threshold,     \* failureThreshold
    MaxFailures    \* bound on the counter, which only a success resets

ASSUME BreakerAssumption == /\ Threshold \in Nat \ {0}
                            /\ MaxFailures \in Nat

VARIABLES
    breaker,    \* state: closed, open or halfOpen
    failures,
    cooled,     \* resetAfterMs have passed since openedAt
    caller,     \* idle, calling, or refused with CircuitBreakerOpenError
    streak      \* history: calls that failed since the last that succeeded

breakerVars == <<breaker, failures, cooled, caller, streak>>

-----------------------------------------------------------------------------
BreakerInit ==
    /\ breaker = "closed"
    /\ failures = 0
    /\ cooled = FALSE
    /\ caller = [c \in Callers |-> "idle"]
    /\ streak = 0

Cool ==
    /\ breaker = "open"
    /\ cooled' = TRUE
    /\ UNCHANGED <<breaker, failures, caller, streak>>

Refuse(c) ==
    /\ caller[c] # "calling"
    /\ breaker = "open" /\ ~cooled
    /\ caller' = [caller EXCEPT ![c] = "refused"]
    /\ UNCHANGED <<breaker, failures, cooled, streak>>

\* Any number of calls pass a breaker that is halfOpen.
Admit(c) ==
    /\ caller[c] # "calling"
    /\ breaker = "open" => cooled
    /\ breaker' = IF breaker = "open" THEN "halfOpen" ELSE breaker
    /\ caller' = [caller EXCEPT ![c] = "calling"]
    /\ UNCHANGED <<failures, cooled, streak>>

\* Faulty: a success closes the breaker and keeps the count.
CloseOnly ==
    /\ breaker' = "closed"
    /\ UNCHANGED failures

\* onSuccess: whatever the state.
Reset ==
    /\ breaker' = "closed"
    /\ failures' = 0

Succeed(c) ==
    /\ caller[c] = "calling"
    /\ Reset
    /\ cooled' = FALSE
    /\ caller' = [caller EXCEPT ![c] = "idle"]
    /\ streak' = 0

\* onFailure: a failure that settles late restarts the cooldown.
Fail(c) ==
    /\ caller[c] = "calling"
    /\ failures < MaxFailures
    /\ failures' = failures + 1
    /\ IF breaker = "halfOpen" \/ failures' >= Threshold
       THEN breaker' = "open" /\ cooled' = FALSE
       ELSE UNCHANGED <<breaker, cooled>>
    /\ caller' = [caller EXCEPT ![c] = "idle"]
    /\ streak' = streak + 1

BreakerNext ==
    \/ Cool
    \/ \E c \in Callers : Refuse(c) \/ Admit(c) \/ Succeed(c) \/ Fail(c)

BreakerSpec == BreakerInit /\ [][BreakerNext]_breakerVars

-----------------------------------------------------------------------------
BreakerTypeOK ==
    /\ breaker \in {"closed", "open", "halfOpen"}
    /\ failures \in 0..MaxFailures
    /\ cooled \in BOOLEAN
    /\ caller \in [Callers -> {"idle", "calling", "refused"}]
    /\ streak \in Nat

(* "Consecutive failures before opening" (circuit-breaker.ts:21): in        *)
(* whatever order overlapping calls settle, the breaker turns calls away or *)
(* tries the provider exactly when the last Threshold calls, or more, all   *)
(* failed.                                                                  *)
OpenForCause == breaker # "closed" <=> streak >= Threshold
===============================================================================
