---------------------------- MODULE Reservations ----------------------------
(***************************************************************************)
(* What an idempotency key promises (internal/server/api/idempotency.go),  *)
(* with every operation on its row as ONE atomic step: a request runs only *)
(* under a reservation it has made; a create takes effect and is stored as *)
(* the response in the same instant; a stored response stays until the     *)
(* retention is over.                                                      *)
(* Idempotency shows that the middleware with its statements, crashes and  *)
(* undecided commits implements this module; ClientRun has the client      *)
(* deal with every step that this module lets a create take on its key.    *)
(***************************************************************************)
EXTENDS Integers

CONSTANTS
    Keys,
    Attempts,       (* requests under a key *)
    None,
    Retention       (* IdempotencyRetentionHours, in ticks *)

VARIABLES
    now,
    state,          (* of a key: "free", "inflight", "done" or "uncacheable" *)
    response,       (* the attempt whose response is stored *)
    since,          (* idempotency_keys.created_at *)
    effects         (* the attempts that have created a tunnel *)

vars == <<now, state, response, since, effects>>

Init ==
    /\ now = 0
    /\ state = [k \in Keys |-> "free"]
    /\ response = [k \in Keys |-> None]
    /\ since = [k \in Keys |-> 0]
    /\ effects = {}

Reserve(k) ==
    /\ state[k] = "free"
    /\ state' = [state EXCEPT ![k] = "inflight"]
    /\ since' = [since EXCEPT ![k] = now]
    /\ UNCHANGED <<now, response, effects>>

Store(k, a, result) ==
    /\ state[k] = "inflight"
    /\ state' = [state EXCEPT ![k] = result]
    /\ response' = [response EXCEPT ![k] = a]
    /\ UNCHANGED <<now, since>>

(* A create, together with its response.                                   *)
Create(k, a) ==
    /\ a \notin effects
    /\ Store(k, a, "done")
    /\ effects' = effects \union {a}

(* Another mutation, which has had its effect elsewhere.                   *)
Complete(k, a) ==
    /\ Store(k, a, "done") \/ Store(k, a, "uncacheable")
    /\ UNCHANGED effects

Free(k) ==
    /\ state' = [state EXCEPT ![k] = "free"]
    /\ response' = [response EXCEPT ![k] = None]
    /\ since' = [since EXCEPT ![k] = 0]
    /\ UNCHANGED <<now, effects>>

(* The handler has failed.                                                 *)
Release(k) == state[k] = "inflight" /\ Free(k)

(* The retention is over.                                                  *)
Expire(k) ==
    /\ state[k] # "free"
    /\ since[k] + Retention < now
    /\ Free(k)

Tick ==
    /\ now' = now + 1
    /\ UNCHANGED <<state, response, since, effects>>

Next ==
    \/ \E k \in Keys : Reserve(k) \/ Release(k) \/ Expire(k)
    \/ \E k \in Keys, a \in Attempts : Create(k, a) \/ Complete(k, a)
    \/ Tick

Spec == Init /\ [][Next]_vars
=============================================================================
