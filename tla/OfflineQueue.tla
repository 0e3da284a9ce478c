----------------------------- MODULE OfflineQueue -----------------------------
(***************************************************************************)
(* The write buffer of the web application: rawFetch (lib/api.ts) stores a *)
(* mutation whose request failed in the network, in an IndexedDB store     *)
(* that all tabs of the browser share, and useOfflineQueue in each tab     *)
(* replays the store in ascending order of its keys.  Nothing keeps two    *)
(* tabs from replaying the same rows at once.                              *)
(***************************************************************************)
EXTENDS Naturals

CONSTANTS
    Edits,
    Tabs

VARIABLES
    made,      \* edits whose rawFetch has returned
    lastKey,   \* the key generator of the store
    key,       \* the key an edit was stored under, or 0
    stored,    \* edits in the store
    tried,     \* those with attempts > 0
    tab,       \* local state of the replay of each tab
    served,    \* edits the API carried out at least once
    reported,  \* edits whose failure the user was shown
    untold     \* history: refused edits whose tab was closed before it said so

offlineVars == <<made, lastKey, key, stored, tried, tab, served, reported, untold>>

-----------------------------------------------------------------------------
Resting == [at |-> "rest", rows |-> {}, held |-> {}, answer |-> "none"]
TabAt(t, pc) == tab[t].at = pc
TurnTab(t, d) == tab' = [tab EXCEPT ![t] = d]

\* A replay takes its rows in ascending order of their keys.
IsNext(e, t) == e \in tab[t].rows /\ \A f \in tab[t].rows : key[e] <= key[f]
\* The edit e was stored before f was.
Before(e, f) == 0 < key[e] /\ key[e] < key[f]

(* What becomes of a request: answered with success; refused with a 4xx;    *)
(* failed before the API carried it out (5xx, no network); or carried out   *)
(* and the answer lost.                                                     *)
Answers == {"ok", "refused", "failed", "lost"}
Carried(e, answer) ==
    served' = IF answer \in {"ok", "lost"} THEN served \cup {e} ELSE served

OfflineInit ==
    /\ made = {} /\ stored = {} /\ tried = {}
    /\ lastKey = 0 /\ key = [e \in Edits |-> 0]
    /\ tab = [t \in Tabs |-> Resting]
    /\ served = {} /\ reported = {} /\ untold = {}

-----------------------------------------------------------------------------
\* rawFetch: the API answers, with success or an error that is shown.
Mutate(e, answer) ==
    /\ e \notin made
    /\ answer \in Answers \ {"lost"}
    /\ made' = made \cup {e}
    /\ Carried(e, answer)
    /\ reported' = IF answer = "ok" THEN reported ELSE reported \cup {e}
    /\ UNCHANGED <<lastKey, key, stored, tried, tab, untold>>

\* rawFetch: the network fails and the mutation is stored.
Enqueue(e, answer) ==
    /\ e \notin made
    /\ answer \in {"failed", "lost"}
    /\ made' = made \cup {e}
    /\ Carried(e, answer)
    /\ lastKey' = lastKey + 1
    /\ key' = [key EXCEPT ![e] = lastKey + 1]
    /\ stored' = stored \cup {e}
    /\ UNCHANGED <<tried, tab, reported, untold>>

\* replay starts: peekAll; held are the rows with attempts > 0.
Peek(t) ==
    /\ TabAt(t, "rest")
    /\ TurnTab(t, [at |-> "next", rows |-> stored, held |-> tried, answer |-> "none"])
    /\ UNCHANGED <<made, lastKey, key, stored, tried, served, reported, untold>>

\* A row in its backoff window is passed over; the window ends with time.
PassOver(t, e) ==
    /\ TabAt(t, "next") /\ IsNext(e, t)
    /\ e \in tab[t].held
    /\ TurnTab(t, [tab[t] EXCEPT !.rows = @ \ {e}])
    /\ UNCHANGED <<made, lastKey, key, stored, tried, served, reported, untold>>

\* executeReplay: the row is that of the snapshot.
ExecuteReplay(t, e, answer) ==
    /\ TabAt(t, "next") /\ IsNext(e, t)
    /\ Carried(e, answer)
    /\ TurnTab(t, [tab[t] EXCEPT !.at = "answered", !.answer = answer])
    /\ UNCHANGED <<made, lastKey, key, stored, tried, reported, untold>>

\* Success, or a 4xx: the row is deleted; a refusal is still to be shown.
Dequeue(t, e) ==
    /\ TabAt(t, "answered") /\ IsNext(e, t)
    /\ tab[t].answer \in {"ok", "refused"}
    /\ stored' = stored \ {e}
    /\ tried' = tried \ {e}
    /\ TurnTab(t, IF tab[t].answer = "refused" THEN [tab[t] EXCEPT !.at = "tell"]
                  ELSE [tab[t] EXCEPT !.at = "next", !.rows = @ \ {e}, !.answer = "none"])
    /\ UNCHANGED <<made, lastKey, key, served, reported, untold>>

\* setLastError, after the await.
Tell(t, e) ==
    /\ TabAt(t, "tell") /\ IsNext(e, t)
    /\ reported' = reported \cup {e}
    /\ TurnTab(t, [tab[t] EXCEPT !.at = "next", !.rows = @ \ {e}, !.answer = "none"])
    /\ UNCHANGED <<made, lastKey, key, stored, tried, served, untold>>

\* Faulty: a failed row is dropped like a refused one.
GiveUp(t, e) ==
    /\ stored' = stored \ {e}
    /\ UNCHANGED tried
    /\ TurnTab(t, Resting)

\* Faulty: the loop goes on with the next row and does not count the attempt.
GoOn(t, e) ==
    /\ UNCHANGED <<stored, tried>>
    /\ TurnTab(t, [tab[t] EXCEPT !.at = "next", !.rows = @ \ {e}, !.answer = "none"])

\* incrementAttempt, if the row is still there, and break.
BackOff(t, e) ==
    /\ tried' = tried \cup ({e} \cap stored)
    /\ UNCHANGED stored
    /\ TurnTab(t, Resting)

Postpone(t, e) ==
    /\ TabAt(t, "answered") /\ IsNext(e, t)
    /\ tab[t].answer \in {"failed", "lost"}
    /\ BackOff(t, e)
    /\ UNCHANGED <<made, lastKey, key, served, reported, untold>>

Finish(t) ==
    /\ TabAt(t, "next") /\ tab[t].rows = {}
    /\ TurnTab(t, Resting)
    /\ UNCHANGED <<made, lastKey, key, stored, tried, served, reported, untold>>

\* The tab is closed or reloaded.
Close(t) ==
    /\ ~TabAt(t, "rest")
    /\ untold' = untold \cup {e \in Edits : TabAt(t, "tell") /\ IsNext(e, t)}
    /\ TurnTab(t, Resting)
    /\ UNCHANGED <<made, lastKey, key, stored, tried, served, reported>>

OfflineNext ==
    \/ \E e \in Edits, answer \in Answers : Mutate(e, answer) \/ Enqueue(e, answer)
    \/ \E t \in Tabs : Peek(t) \/ Finish(t) \/ Close(t)
    \/ \E t \in Tabs, e \in Edits :
          \/ PassOver(t, e) \/ Dequeue(t, e) \/ Tell(t, e) \/ Postpone(t, e)
          \/ \E answer \in Answers : ExecuteReplay(t, e, answer)

OfflineSpec == OfflineInit /\ [][OfflineNext]_offlineVars

-----------------------------------------------------------------------------
OfflineTypeOK ==
    /\ made \subseteq Edits
    /\ lastKey \in Nat
    /\ key \in [Edits -> 0..lastKey]
    /\ stored \subseteq {e \in made : key[e] > 0}
    /\ tried \subseteq stored
    /\ tab \in [Tabs -> [at : {"rest", "next", "answered", "tell"}, rows : SUBSET made,
                         held : SUBSET made, answer : Answers \cup {"none"}]]
    /\ served \subseteq made /\ reported \subseteq made /\ untold \subseteq made

(* "Keep the row" on 5xx and network errors (useOfflineQueue.ts:20): an     *)
(* edit is never lost, whatever tabs replay it at once or close half-way:   *)
(* it is stored, or was carried out, or the user was shown an error.  The   *)
(* one gap is between the delete of a refused edit and setLastError: a tab  *)
(* closed there (untold) takes the refusal with it.                         *)
NoEditLost ==
    \A e \in made :
       \/ e \in stored \cup served \cup reported \cup untold
       \/ \E t \in Tabs : TabAt(t, "tell") /\ IsNext(e, t)

(* "FIFO drain" (useOfflineQueue.ts:110): a replay carries out an edit for  *)
(* the first time only when every edit stored before it has left the store, *)
(* was carried out, or was tried and waits for its backoff to end.          *)
OvertakenOnlyAfterTry ==
    [][\A e, f \in Edits :
          Before(e, f) /\ f \in served' \ served /\ e \in stored =>
              e \in served \cup tried]_offlineVars
===============================================================================
