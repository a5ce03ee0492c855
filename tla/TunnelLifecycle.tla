-------------------------- MODULE TunnelLifecycle --------------------------
(***************************************************************************)
(* What the tunnel store promises, with every operation of                 *)
(* internal/server/tunnels as ONE atomic step: the state machine of        *)
(* validTransitions, the per-user quota, and a runtime credential that     *)
(* dies with its tunnel when the tunnel is revoked.                        *)
(* TunnelStore shows that the concurrent PostgreSQL transactions of the    *)
(* server implement this module.                                           *)
(***************************************************************************)
EXTENDS Integers, FiniteSets

CONSTANTS
    Tunnels,        (* tunnel ids *)
    Users,          (* API users *)
    None,           (* no owner yet *)
    MaxConcurrent   (* Config.MaxConcurrent *)

VARIABLES
    status,     (* tunnels.status, "none" while there is no row *)
    owner,      (* tunnels.user_id *)
    token       (* the row of tunnel_runtime_tokens: "none", "live", "revoked" *)

vars == <<status, owner, token>>

NonTerminal == {"reserved", "active", "closed"}
Terminal == {"expired", "revoked"}
Status == NonTerminal \union Terminal

(* The triples <<from, event, to>> of the Go map validTransitions.         *)
validTransitions ==
    {<<"reserved", "NewProxy", "active">>, <<"closed", "NewProxy", "active">>,
     <<"active", "CloseProxy", "closed">>}
    \union {<<from, "Expire", "expired">> : from \in NonTerminal}
    \union {<<from, "Revoke", "revoked">> : from \in NonTerminal}

(* The tunnels that count against a user's quota.                          *)
Consuming(u) == {t \in Tunnels : owner[t] = u /\ status[t] \in NonTerminal}

TypeOK ==
    /\ status \in [Tunnels -> Status \union {"none"}]
    /\ owner \in [Tunnels -> Users \union {None}]
    /\ token \in [Tunnels -> {"none", "live", "revoked"}]

Init ==
    /\ status = [t \in Tunnels |-> "none"]
    /\ owner = [t \in Tunnels |-> None]
    /\ token = [t \in Tunnels |-> "none"]

Create(t, u) ==
    /\ status[t] = "none"
    /\ Cardinality(Consuming(u)) < MaxConcurrent
    /\ status' = [status EXCEPT ![t] = "reserved"]
    /\ owner' = [owner EXCEPT ![t] = u]
    /\ token' = [token EXCEPT ![t] = "live"]

(* A callback of frps: the proxy of the tunnel came up or went away.       *)
Callback(t, event) ==
    /\ \E to \in Status :
          /\ <<status[t], event, to>> \in validTransitions
          /\ status' = [status EXCEPT ![t] = to]
    /\ UNCHANGED <<owner, token>>

(* The reaper expires a batch; credentials die by their own expires_at.    *)
Expire(batch) ==
    /\ \A t \in batch : status[t] \in NonTerminal
    /\ status' = [t \in Tunnels |-> IF t \in batch THEN "expired" ELSE status[t]]
    /\ UNCHANGED <<owner, token>>

(* Terminal rows keep their status; their credential is revoked anyway.    *)
Revoke(t) ==
    /\ status[t] # "none"
    /\ status' = [status EXCEPT ![t] = IF @ \in NonTerminal THEN "revoked" ELSE @]
    /\ token' = [token EXCEPT ![t] = IF @ = "live" THEN "revoked" ELSE @]
    /\ UNCHANGED owner

Next ==
    \/ \E t \in Tunnels, u \in Users : Create(t, u)
    \/ \E t \in Tunnels, event \in {"NewProxy", "CloseProxy"} : Callback(t, event)
    \/ \E batch \in SUBSET Tunnels : Expire(batch)
    \/ \E t \in Tunnels : Revoke(t)

Spec == Init /\ [][Next]_vars
=============================================================================
