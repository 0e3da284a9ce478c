------------------------------- MODULE Sessions -------------------------------
(***************************************************************************)
(* The refresh sessions and reset tokens of one user                       *)
(* (apps/api/src/modules/auth; deactivate and activate of users and scim). *)
(* login, refresh and confirm read the user first and write later, each    *)
(* statement on its own; refresh and confirm consume their token by an     *)
(* update that is conditional on its not having been consumed.             *)
(***************************************************************************)
EXTENDS Naturals, FiniteSets

CONSTANTS
    SessionIds,
    ResetTokens,
    Requests,     \* slots for requests in flight
    MaxChanges,   \* bound on deactivations and activations
    NoSession, NoToken

ASSUME SessionAssumption == NoSession \notin SessionIds

VARIABLES
    session,    \* state and predecessor of each row
    token,      \* none, usable, used or expired
    active,     \* isActive of the user
    request,    \* local state of each request
    changes,
    epoch,      \* history: how often all sessions were to be revoked
    born,       \* history: the epoch in which the session's request began
    late,       \* history: sessions issued after the epoch of their request
    resets      \* history: how often each reset token changed the password

sessVars == <<session, token, active, request, changes, epoch, born, late, resets>>

-----------------------------------------------------------------------------
Unsent == [at |-> "idle", s |-> NoSession, t |-> NoToken, began |-> 0]
ReqAt(q, pc) == request[q].at = pc
Ask(q, d) == request' = [request EXCEPT ![q] = d]
Unused == {s \in SessionIds : session[s].state = "none"}
NewSession == CHOOSE s \in Unused : TRUE

Revoke(S) == [s \in SessionIds |->
                 IF s \in S /\ session[s].state \in {"live", "expired"}
                 THEN [session[s] EXCEPT !.state = "revoked"] ELSE session[s]]

SessInit ==
    /\ session = [s \in SessionIds |-> [state |-> "none", from |-> NoSession]]
    /\ token = [t \in ResetTokens |-> "none"]
    /\ active = TRUE
    /\ request = [q \in Requests |-> Unsent]
    /\ changes = 0
    /\ epoch = 0
    /\ born = [s \in SessionIds |-> 0]
    /\ late = {}
    /\ resets = [t \in ResetTokens |-> 0]

-----------------------------------------------------------------------------
(* login, refresh, logout.                                                  *)

\* The user is active and the password right.
Login(q) ==
    /\ ReqAt(q, "idle")
    /\ active
    /\ Ask(q, [Unsent EXCEPT !.at = "issue", !.began = epoch])
    /\ UNCHANGED <<session, token, active, changes, epoch, born, late, resets>>

\* findUnique by the hash: a revoked session means reuse, an expired one ends.
Refresh(q, s) ==
    /\ ReqAt(q, "idle")
    /\ session[s].state \in {"live", "revoked"}
    /\ Ask(q, [Unsent EXCEPT !.at = IF session[s].state = "live" THEN "user" ELSE "revoke",
                             !.s = s, !.began = epoch])
    /\ UNCHANGED <<session, token, active, changes, epoch, born, late, resets>>

ReadUser(q) ==
    /\ ReqAt(q, "user")
    /\ Ask(q, IF active THEN [request[q] EXCEPT !.at = "consume"] ELSE Unsent)
    /\ UNCHANGED <<session, token, active, changes, epoch, born, late, resets>>

\* Faulty: a plain update by id.
ConsumeById(q) ==
    /\ ReqAt(q, "consume")
    /\ session' = Revoke({request[q].s})
    /\ Ask(q, [request[q] EXCEPT !.at = "issue"])
    /\ UNCHANGED <<token, active, changes, epoch, born, late, resets>>

\* updateMany where revokedAt is null and the session has not expired.
Consume(q) ==
    /\ ReqAt(q, "consume")
    /\ IF session[request[q].s].state = "live"
       THEN session' = Revoke({request[q].s}) /\ Ask(q, [request[q] EXCEPT !.at = "issue"])
       ELSE Ask(q, [request[q] EXCEPT !.at = "revoke"]) /\ UNCHANGED session
    /\ UNCHANGED <<token, active, changes, epoch, born, late, resets>>

\* Reuse, or a race lost: every session of the user.
RevokeFamily(q) ==
    /\ ReqAt(q, "revoke")
    /\ session' = Revoke(SessionIds)
    /\ Ask(q, Unsent)
    /\ UNCHANGED <<token, active, changes, epoch, born, late, resets>>

IssueTokens(q) ==
    /\ ReqAt(q, "issue")
    /\ Unused # {}
    /\ LET n == NewSession IN
          /\ session' = [session EXCEPT ![n] = [state |-> "live", from |-> request[q].s]]
          /\ born' = [born EXCEPT ![n] = request[q].began]
          /\ late' = IF request[q].began < epoch THEN late \cup {n} ELSE late
    /\ Ask(q, Unsent)
    /\ UNCHANGED <<token, active, changes, epoch, resets>>

Logout(s) ==
    /\ session[s].state \in {"live", "expired"}
    /\ session' = Revoke({s})
    /\ UNCHANGED <<token, active, request, changes, epoch, born, late, resets>>

\* expiresAt passes.
SessionExpires(s) ==
    /\ session[s].state = "live"
    /\ session' = [session EXCEPT ![s].state = "expired"]
    /\ UNCHANGED <<token, active, request, changes, epoch, born, late, resets>>

-----------------------------------------------------------------------------
(* PasswordResetService.                                                    *)

RequestReset(t) ==
    /\ active
    /\ token[t] = "none"
    /\ token' = [token EXCEPT ![t] = "usable"]
    /\ UNCHANGED <<session, active, request, changes, epoch, born, late, resets>>

TokenExpires(t) ==
    /\ token[t] = "usable"
    /\ token' = [token EXCEPT ![t] = "expired"]
    /\ UNCHANGED <<session, active, request, changes, epoch, born, late, resets>>

\* The token is usable and the user active; hashing comes next.
Confirm(q, t) ==
    /\ ReqAt(q, "idle")
    /\ token[t] = "usable"
    /\ active
    /\ Ask(q, [Unsent EXCEPT !.at = "reset", !.t = t, !.began = epoch])
    /\ UNCHANGED <<session, token, active, changes, epoch, born, late, resets>>

\* Faulty: the sessions are left alone.
ResetKeepsSessions(q) ==
    /\ ReqAt(q, "reset")
    /\ IF token[request[q].t] = "used"
       THEN UNCHANGED <<token, epoch, resets>>
       ELSE /\ token' = [token EXCEPT ![request[q].t] = "used"]
            /\ epoch' = epoch + 1
            /\ resets' = [resets EXCEPT ![request[q].t] = @ + 1]
    /\ Ask(q, Unsent)
    /\ UNCHANGED <<session, active, changes, born, late>>

\* One transaction: mark the token, set the password, revoke the sessions.
\* The token's expiry is not looked at again.
ResetPassword(q) ==
    /\ ReqAt(q, "reset")
    /\ IF token[request[q].t] = "used"
       THEN UNCHANGED <<session, token, epoch, resets>>
       ELSE /\ token' = [token EXCEPT ![request[q].t] = "used"]
            /\ session' = Revoke(SessionIds)
            /\ epoch' = epoch + 1
            /\ resets' = [resets EXCEPT ![request[q].t] = @ + 1]
    /\ Ask(q, Unsent)
    /\ UNCHANGED <<active, changes, born, late>>

-----------------------------------------------------------------------------
(* UsersService.                                                            *)

DeactivateUser ==
    /\ changes < MaxChanges
    /\ changes' = changes + 1
    /\ active' = FALSE
    /\ session' = Revoke(SessionIds)
    /\ epoch' = epoch + 1
    /\ UNCHANGED <<token, request, born, late, resets>>

ActivateUser ==
    /\ ~active
    /\ changes < MaxChanges
    /\ changes' = changes + 1
    /\ active' = TRUE
    /\ UNCHANGED <<session, token, request, epoch, born, late, resets>>

\* scim writes isActive and leaves the sessions alone.
Provision ==
    /\ changes < MaxChanges
    /\ changes' = changes + 1
    /\ active' = ~active
    /\ UNCHANGED <<session, token, request, epoch, born, late, resets>>

RequestDies(q) ==
    /\ ~ReqAt(q, "idle")
    /\ Ask(q, Unsent)
    /\ UNCHANGED <<session, token, active, changes, epoch, born, late, resets>>

SessNext ==
    \/ \E q \in Requests :
          \/ Login(q) \/ ReadUser(q) \/ Consume(q) \/ RevokeFamily(q) \/ IssueTokens(q)
          \/ ResetPassword(q) \/ RequestDies(q)
          \/ \E s \in SessionIds : Refresh(q, s)
          \/ \E t \in ResetTokens : Confirm(q, t)
    \/ \E s \in SessionIds : Logout(s) \/ SessionExpires(s)
    \/ \E t \in ResetTokens : RequestReset(t) \/ TokenExpires(t)
    \/ DeactivateUser
    \/ ActivateUser
    \/ Provision

SessSpec == SessInit /\ [][SessNext]_sessVars

-----------------------------------------------------------------------------
SessTypeOK ==
    /\ session \in [SessionIds -> [state : {"none", "live", "revoked", "expired"},
                                   from : SessionIds \cup {NoSession}]]
    /\ token \in [ResetTokens -> {"none", "usable", "used", "expired"}]
    /\ active \in BOOLEAN
    /\ \A q \in Requests : ReqAt(q, "idle") <=> request[q] = Unsent
    /\ \A s \in SessionIds : born[s] =< epoch

(* "Only one concurrent request may consume this refresh token"             *)
(* (auth.service.ts:438): a session has at most one successor, and the      *)
(* successor's predecessor is revoked.  A reset token changes the password  *)
(* at most once.                                                            *)
ConsumedOnce ==
    /\ \A c, d \in SessionIds :
          session[c].from # NoSession =>
             /\ session[c].from = session[d].from => c = d
             /\ session[session[c].from].state = "revoked"
    /\ \A t \in ResetTokens : resets[t] =< 1

(* A reset or a deactivation ends every session there is: a session that is *)
(* live was begun after the last of them, or it was issued late, by a       *)
(* request that had read the user before and wrote its row afterwards.      *)
LiveSessionsAreCurrent ==
    \A s \in SessionIds : session[s].state = "live" => born[s] = epoch \/ s \in late
===============================================================================
