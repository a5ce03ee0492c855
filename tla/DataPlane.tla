----------------------------- MODULE DataPlane -----------------------------
(***************************************************************************)
(* The data plane of Hatchway: frpc sessions register their proxy at frps, *)
(* frps asks the plugin handler (internal/server/plugin/handler.go) and    *)
(* reports closed proxies to it later, and Caddy asks the request gate     *)
(* (authorize.go) before it forwards a visitor to frps.                    *)
(*                                                                         *)
(* The tunnel rows are those of TunnelLifecycle, which TunnelStore         *)
(* implements: Transition and Revoke are one step here. frps, frpc and     *)
(* Caddy are external: a route table, sessions that end at any time,       *)
(* notifications that are sent in the background, late or never.           *)
(***************************************************************************)
EXTENDS Integers, FiniteSets

CONSTANTS
    Tunnels, Users, None, MaxConcurrent,
    Sessions,   (* control connections of frpc, each with one proxy *)
    Visitors,   (* requests to a tunnel's host name, each made once *)
    MaxTTL,     (* Config.MaxTTL, in ticks *)
    MaxClock    (* bound: the clock stops here *)

ASSUME SessionsAreNew == None \notin Sessions \union Tunnels
ASSUME ClockAssumption == MaxTTL \in Nat \ {0} /\ MaxClock \in Nat

VARIABLES
    status, owner, token,               (* the rows, as in TunnelLifecycle *)
    expires, now,
    session, credential, name, subdomain, (* frpc and its session at frps *)
    ask,        (* the NewProxy callback of a session *)
    closing,    (* the CloseProxy callback of a session *)
    route,      (* frps: the session that serves a subdomain *)
    visit, target, tooLate

rows == <<status, owner, token, expires, now>>
frpc == <<session, credential, name, subdomain>>
visits == <<visit, target, tooLate>>
vars == <<rows, frpc, ask, closing, route, visits>>

Store == INSTANCE TunnelLifecycle

(* A tunnel that is terminal or past its expires_at.                       *)
Ended(t) ==
    \/ status[t] \in Store!Terminal
    \/ status[t] # "none" /\ expires[t] <= now

Init ==
    /\ Store!Init
    /\ expires = [t \in Tunnels |-> 0]
    /\ now = 0
    /\ session = [s \in Sessions |-> "off"]
    /\ credential = [s \in Sessions |-> None]
    /\ name = [s \in Sessions |-> None]
    /\ subdomain = [s \in Sessions |-> None]
    /\ ask = [s \in Sessions |-> "none"]
    /\ closing = [s \in Sessions |-> "none"]
    /\ route = [t \in Tunnels |-> None]
    /\ visit = [v \in Visitors |-> "idle"]
    /\ target = [v \in Visitors |-> None]
    /\ tooLate = [v \in Visitors |-> FALSE]

-----------------------------------------------------------------------------
(* The control plane, as TunnelLifecycle has it.                           *)

CreateTunnel(t) ==
    /\ \E u \in Users, ttl \in 1..MaxTTL :
          /\ Store!Create(t, u)
          /\ expires' = [expires EXCEPT ![t] = now + ttl]
    /\ UNCHANGED <<now, frpc, ask, closing, route, visits>>

DeleteTunnel(t) ==
    /\ Store!Revoke(t)
    /\ UNCHANGED <<expires, now, frpc, ask, closing, route, visits>>

Reap(t) ==
    /\ Store!Expire({t})
    /\ expires[t] < now
    /\ UNCHANGED <<expires, now, frpc, ask, closing, route, visits>>

Tick ==
    /\ now < MaxClock
    /\ now' = now + 1
    /\ UNCHANGED <<status, owner, token, expires, frpc, ask, closing, route, visits>>

-----------------------------------------------------------------------------
(* frpc and frps.                                                          *)

(* The WHERE of lookupRuntimeToken, for the credential of tunnel t.        *)
Live(t) == token[t] = "live" /\ expires[t] > now /\ status[t] \in Store!NonTerminal

(* frps opens a session if handleLogin allows its runtime token.           *)
Login(s) ==
    /\ session[s] = "off"
    /\ \E t \in Tunnels :
          /\ token[t] # "none"
          /\ credential' = [credential EXCEPT ![s] = t]
          /\ session' = [session EXCEPT ![s] = IF Live(t) THEN "on" ELSE "ended"]
    /\ UNCHANGED <<rows, name, subdomain, ask, closing, route, visits>>

(* frpc offers a proxy of whatever name and subdomain it is configured for.*)
OfferProxy(s) ==
    /\ session[s] = "on"
    /\ ask[s] = "none"
    /\ \E n \in Tunnels, d \in Tunnels :
          /\ name' = [name EXCEPT ![s] = n]
          /\ subdomain' = [subdomain EXCEPT ![s] = d]
    /\ ask' = [ask EXCEPT ![s] = "lookup"]
    /\ UNCHANGED <<rows, session, credential, closing, route, visits>>

Reject(s) == ask' = [ask EXCEPT ![s] = "none"]

(* A mutant: the subdomain is not compared with the token's tunnel.        *)
MutantLookupProxy(s) ==
    /\ ask[s] = "lookup"
    /\ \/ /\ Live(credential[s])
          /\ name[s] = credential[s]
          /\ ask' = [ask EXCEPT ![s] = "transition"]
       \/ Reject(s)
    /\ UNCHANGED <<rows, frpc, closing, route, visits>>

(* handleNewProxy up to its transition; its query may fail.                *)
LookupProxy(s) ==
    /\ ask[s] = "lookup"
    /\ \/ /\ Live(credential[s])
          /\ name[s] = credential[s]
          /\ subdomain[s] = credential[s]
          /\ ask' = [ask EXCEPT ![s] = "transition"]
       \/ Reject(s)
    /\ UNCHANGED <<rows, frpc, closing, route, visits>>

(* Transition(NewProxy): an active row is accepted as it is.               *)
AcceptProxy(s) ==
    /\ ask[s] = "transition"
    /\ expires[credential[s]] > now
    /\ \/ Store!Callback(credential[s], "NewProxy")
       \/ status[credential[s]] = "active" /\ UNCHANGED <<status, owner, token>>
    /\ ask' = [ask EXCEPT ![s] = "accepted"]
    /\ UNCHANGED <<expires, now, frpc, closing, route, visits>>

(* The transition is refused, or fails, or its COMMIT is too late for the  *)
(* PluginTimeout: the proxy is rejected although the row is active.        *)
RejectProxy(s) ==
    /\ ask[s] = "transition"
    /\ \/ UNCHANGED rows
       \/ /\ expires[credential[s]] > now
          /\ Store!Callback(credential[s], "NewProxy")
          /\ UNCHANGED <<expires, now>>
    /\ Reject(s)
    /\ UNCHANGED <<frpc, closing, route, visits>>

(* frps registers an accepted proxy of a session that is still there,      *)
(* unless the name is taken.                                               *)
Register(s) ==
    /\ ask[s] = "accepted"
    /\ \/ /\ session[s] = "on"
          /\ route[subdomain[s]] = None
          /\ route' = [route EXCEPT ![subdomain[s]] = s]
          /\ ask' = [ask EXCEPT ![s] = "registered"]
       \/ /\ session[s] # "on" \/ route[subdomain[s]] # None
          /\ Reject(s)
          /\ UNCHANGED route
    /\ UNCHANGED <<rows, frpc, closing, visits>>

Unroute(gone) == route' = [t \in Tunnels |-> IF route[t] \in gone THEN None ELSE route[t]]

(* The connection is lost or closed: frps removes the route and sends      *)
(* CloseProxy in the background.                                           *)
SessionEnds(s) ==
    /\ session[s] = "on"
    /\ session' = [session EXCEPT ![s] = "ended"]
    /\ Unroute({s})
    /\ closing' = [closing EXCEPT ![s] = IF ask[s] = "registered" THEN "sent" ELSE "none"]
    /\ UNCHANGED <<rows, credential, name, subdomain, ask, visits>>

(* All sessions and routes are lost, and what was not sent yet.            *)
FrpsRestarts ==
    /\ session' = [s \in Sessions |-> IF session[s] = "on" THEN "ended" ELSE session[s]]
    /\ Unroute(Sessions)
    /\ closing' = [s \in Sessions |-> IF closing[s] = "sent" THEN "none" ELSE closing[s]]
    /\ UNCHANGED <<rows, credential, name, subdomain, ask, visits>>

(* handleCloseProxy reads the status, and may fail to; it allows anyway.   *)
ReadStatus(s) ==
    /\ closing[s] = "sent"
    /\ \/ /\ status[name[s]] = "active"
          /\ closing' = [closing EXCEPT ![s] = "transition"]
       \/ closing' = [closing EXCEPT ![s] = "none"]
    /\ UNCHANGED <<rows, frpc, ask, route, visits>>

(* Transition(CloseProxy) from what the row has become, or its failure.    *)
CloseProxy(s) ==
    /\ closing[s] = "transition"
    /\ closing' = [closing EXCEPT ![s] = "none"]
    /\ Store!Callback(name[s], "CloseProxy") \/ UNCHANGED <<status, owner, token>>
    /\ UNCHANGED <<expires, now, frpc, ask, route, visits>>

-----------------------------------------------------------------------------
(* Visitors.                                                               *)

(* Caddy receives a request for the host of a tunnel and asks the gate.    *)
Arrive(v) ==
    /\ visit[v] = "idle"
    /\ \E t \in Tunnels :
          /\ target' = [target EXCEPT ![v] = t]
          /\ tooLate' = [tooLate EXCEPT ![v] = Ended(t)]
    /\ visit' = [visit EXCEPT ![v] = "gate"]
    /\ UNCHANGED <<rows, frpc, ask, closing, route>>

(* A mutant: only an active tunnel is let through.                         *)
MutantAcceptsTraffic(t) == status[t] = "active" /\ expires[t] > now

(* A mutant: the expiry is left to the reaper.                             *)
MutantIgnoresExpiry(t) == status[t] \in {"active", "closed"}

(* tunnelAcceptsTraffic, one statement.                                    *)
AcceptsTraffic(t) == status[t] \in {"active", "closed"} /\ expires[t] > now

(* TunnelAuthorizationHandler; an unknown row, an error or a timeout fails *)
(* closed.                                                                 *)
Gate(v) ==
    /\ visit[v] = "gate"
    /\ \/ AcceptsTraffic(target[v]) /\ visit' = [visit EXCEPT ![v] = "admitted"]
       \/ visit' = [visit EXCEPT ![v] = "denied"]
    /\ UNCHANGED <<rows, frpc, ask, closing, route, target, tooLate>>

(* frps forwards to the session that holds the route, if there is one.     *)
Forward(v) ==
    /\ visit[v] = "admitted"
    /\ visit' = [visit EXCEPT ![v] = IF route[target[v]] = None THEN "noroute" ELSE "served"]
    /\ UNCHANGED <<rows, frpc, ask, closing, route, target, tooLate>>

(* For some types of proxy frps asks handleNewUserConn first. It denies by *)
(* the same query, or because that fails; if it allows, nothing changes.   *)
NewUserConn(v) ==
    /\ visit[v] = "admitted"
    /\ visit' = [visit EXCEPT ![v] = "denied"]
    /\ UNCHANGED <<rows, frpc, ask, closing, route, target, tooLate>>

Next ==
    \/ \E t \in Tunnels : CreateTunnel(t) \/ DeleteTunnel(t) \/ Reap(t)
    \/ Tick
    \/ \E s \in Sessions :
          \/ Login(s) \/ OfferProxy(s)
          \/ LookupProxy(s) \/ AcceptProxy(s) \/ RejectProxy(s) \/ Register(s)
          \/ SessionEnds(s) \/ ReadStatus(s) \/ CloseProxy(s)
    \/ FrpsRestarts
    \/ \E v \in Visitors : Arrive(v) \/ Gate(v) \/ Forward(v) \/ NewUserConn(v)

Spec == Init /\ [][Next]_vars

-----------------------------------------------------------------------------
(* Every variable has the values its column or frps's table can take.      *)
TypeOK ==
    /\ Store!TypeOK
    /\ expires \in [Tunnels -> Nat]
    /\ now \in Nat
    /\ session \in [Sessions -> {"off", "on", "ended"}]
    /\ credential \in [Sessions -> Tunnels \union {None}]
    /\ name \in [Sessions -> Tunnels \union {None}]
    /\ subdomain \in [Sessions -> Tunnels \union {None}]
    /\ ask \in [Sessions -> {"none", "lookup", "transition", "accepted", "registered"}]
    /\ closing \in [Sessions -> {"none", "sent", "transition"}]
    /\ route \in [Tunnels -> Sessions \union {None}]
    /\ visit \in [Visitors -> {"idle", "gate", "admitted", "denied", "noroute", "served"}]
    /\ target \in [Visitors -> Tunnels \union {None}]
    /\ tooLate \in [Visitors -> BOOLEAN]

(* A request that arrives after the tunnel is terminal, or its time is     *)
(* over, reaches no client, although frps may hold the route for long      *)
(* (authorize.go, core invariant 9).                                       *)
NoVisitAfterTheEnd == \A v \in Visitors : visit[v] = "served" => ~tooLate[v]

(* As long as a tunnel has not ended, the gate lets visitors through to a  *)
(* registered client, also when late, stale or lost CloseProxy callbacks   *)
(* of earlier registrations have been applied to the row (authorize.go).   *)
RegisteredIsAdmitted ==
    \A t \in Tunnels : route[t] # None /\ ~Ended(t) => AcceptsTraffic(t)

(* A session serves and ends no tunnel but the one of its credential: the  *)
(* visitors of a tunnel never reach a client of another one, and the       *)
(* CloseProxy of an ended session, which handleCloseProxy believes without *)
(* a credential, names its own tunnel (handleNewProxy).                    *)
SessionsAreConfined ==
    /\ \A t \in Tunnels : route[t] # None => credential[route[t]] = t
    /\ \A s \in Sessions : closing[s] # "none" => name[s] = credential[s]
=============================================================================
