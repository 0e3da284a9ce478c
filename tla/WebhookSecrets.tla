---------------------------- MODULE WebhookSecrets ----------------------------
(***************************************************************************)
(* The secret of a webhook endpoint: rotation with a grace period          *)
(* (WebhooksService.rotateSecret) and the signatures of the delivery       *)
(* worker, which reads the endpoint anew for each attempt.  A subscriber   *)
(* verifies with the one secret it stores, and swaps it for one that an    *)
(* administrator was answered, when it pleases.                            *)
(*                                                                         *)
(* Secrets are numbered as they are generated; 0 is the one of create.     *)
(***************************************************************************)
EXTENDS Naturals

CONSTANTS
    Rotations,    \* calls of rotateSecret
    Deliveries,   \* jobs of the delivery queue
    Tries         \* attempts of a job

ASSUME SecretAssumption == Tries \in Nat \ {0}

VARIABLES
    endpoint,     \* its row: the active secret, the previous one, and whether
                  \* previousSecretValidUntil is in the future
    generated,    \* the last secret generated
    rotation,     \* local state of each call, and what it answers with
    parcel,       \* each delivery: its stage, its attempts, what signed it last
    held,       \* the subscriber's secret
    misplaced,   \* history: a rotation demoted a secret that was not active
    hurried,      \* history: one came before the subscriber had the last secret
    tardy          \* history: a grace period ended before the subscriber swapped

secretVars == <<endpoint, generated, rotation, parcel, held, misplaced, hurried, tardy>>

-----------------------------------------------------------------------------
RotationBecomes(r, at, old, new) ==
    rotation' = [rotation EXCEPT ![r] = [at |-> at, old |-> old, new |-> new]]

SecretInit ==
    /\ endpoint = [active |-> 0, previous |-> 0, grace |-> FALSE]
    /\ generated = 0
    /\ rotation = [r \in Rotations |-> [at |-> "idle", old |-> 0, new |-> 0]]
    /\ parcel = [d \in Deliveries |->
                    [at |-> "waiting", tries |-> 0, signers |-> {}, crossed |-> {}]]
    /\ held = 0
    /\ misplaced = FALSE /\ hurried = FALSE /\ tardy = FALSE

-----------------------------------------------------------------------------
(* rotateSecret: the row is read in one transaction and written in another. *)

ReadSecret(r) ==
    /\ rotation[r].at = "idle"
    /\ generated' = generated + 1
    /\ RotationBecomes(r, "write", endpoint.active, generated + 1)
    /\ UNCHANGED <<endpoint, parcel, held, misplaced, hurried, tardy>>

\* Faulty: the old secret is not kept.
ForgetSecret(r) ==
    /\ rotation[r].at = "write"
    /\ endpoint' = [endpoint EXCEPT !.active = rotation[r].new]
    /\ misplaced' = (misplaced \/ rotation[r].old # endpoint.active)
    /\ hurried' = (hurried \/ held # endpoint.active)
    /\ RotationBecomes(r, "answer", rotation[r].old, rotation[r].new)
    /\ UNCHANGED <<generated, parcel, held, tardy>>

WriteSecret(r) ==
    /\ rotation[r].at = "write"
    /\ endpoint' = [active |-> rotation[r].new, previous |-> rotation[r].old, grace |-> TRUE]
    /\ misplaced' = (misplaced \/ rotation[r].old # endpoint.active)
    /\ hurried' = (hurried \/ held # endpoint.active)
    /\ RotationBecomes(r, "answer", rotation[r].old, rotation[r].new)
    /\ UNCHANGED <<generated, parcel, held, tardy>>

\* The process dies, or a call rejects: before or after the write, the secret
\* is never answered.
RotationFails(r) ==
    /\ rotation[r].at \in {"write", "answer"}
    /\ RotationBecomes(r, "dead", rotation[r].old, rotation[r].new)
    /\ UNCHANGED <<endpoint, generated, parcel, held, misplaced, hurried, tardy>>

\* The subscriber stores what a rotation was answered; a signature on its way
\* then was made for the secret before.
SwapSecret(r) ==
    /\ rotation[r].at = "answer"
    /\ held' = rotation[r].new
    /\ parcel' = [d \in Deliveries |->
                     IF parcel[d].at = "sent" THEN [parcel[d] EXCEPT !.crossed = @ \cup {parcel[d].tries}]
                     ELSE parcel[d]]
    /\ RotationBecomes(r, "dead", rotation[r].old, rotation[r].new)
    /\ UNCHANGED <<endpoint, generated, misplaced, hurried, tardy>>

GraceEnds ==
    /\ endpoint.grace
    /\ endpoint' = [endpoint EXCEPT !.grace = FALSE]
    /\ tardy' = (tardy \/ held # endpoint.active)
    /\ UNCHANGED <<generated, rotation, parcel, held, misplaced, hurried>>

-----------------------------------------------------------------------------
(* The delivery worker and the subscriber.                                 *)

Signers == {endpoint.active} \cup (IF endpoint.grace THEN {endpoint.previous} ELSE {})

SignParcel(d) ==
    /\ parcel[d].at = "waiting"
    /\ parcel' = [parcel EXCEPT ![d].at = "sent", ![d].tries = @ + 1, ![d].signers = Signers]
    /\ UNCHANGED <<endpoint, generated, rotation, held, misplaced, hurried, tardy>>

\* A signature that does not verify is answered with an error, and the job
\* is retried.
ParcelArrives(d) ==
    /\ parcel[d].at = "sent"
    /\ parcel' = [parcel EXCEPT
                    ![d].at = IF held \in parcel[d].signers THEN "accepted"
                              ELSE IF parcel[d].tries < Tries THEN "waiting" ELSE "lost"]
    /\ UNCHANGED <<endpoint, generated, rotation, held, misplaced, hurried, tardy>>

SecretNext ==
    \/ \E r \in Rotations : ReadSecret(r) \/ WriteSecret(r) \/ RotationFails(r) \/ SwapSecret(r)
    \/ \E d \in Deliveries : SignParcel(d) \/ ParcelArrives(d)
    \/ GraceEnds

SecretSpec == SecretInit /\ [][SecretNext]_secretVars

-----------------------------------------------------------------------------
SecretTypeOK ==
    /\ endpoint.active \in 0..generated /\ endpoint.previous \in 0..generated
    /\ held \in 0..generated
    /\ \A r \in Rotations : rotation[r].at \in {"idle", "write", "answer", "dead"}
    /\ \A d \in Deliveries : /\ parcel[d].tries \in 0..Tries
                             /\ parcel[d].crossed \subseteq 1..Tries

Orderly == ~misplaced /\ ~hurried /\ ~tardy

(* "Subscribers can swap their held key without dropping events"          *)
(* (webhooks.service.ts:192): while rotations neither overlap nor come      *)
(* faster than the subscriber follows, the secret it stores signs whatever  *)
(* is signed now, and no delivery runs out of attempts, unless a swap       *)
(* overtook every one of them.                                              *)
SwapIsSafe ==
    Orderly => /\ held \in Signers
               /\ \A d \in Deliveries : parcel[d].at = "lost" => parcel[d].crossed = 1..Tries
===============================================================================
