--------------------------- MODULE DataPlaneProofs ---------------------------
(***************************************************************************)
(* Proofs about DataPlane, for any number of tunnels, sessions, visitors,  *)
(* and any lifetimes.                                                      *)
(***************************************************************************)
EXTENDS DataPlane, TLAPS

(* The states of a tunnel that has been served at some time.               *)
Served == {"active", "closed", "expired", "revoked"}

(* A session keeps its credential; what frps has accepted for it, routes   *)
(* to it or reports of it is the tunnel of that credential.                *)
SessionInv ==
    \A s \in Sessions :
        /\ session[s] = "off" => ask[s] = "none"
        /\ session[s] # "off" => credential[s] \in Tunnels
        /\ session[s] # "ended" => closing[s] = "none"
        /\ ask[s] # "none" => name[s] \in Tunnels /\ subdomain[s] \in Tunnels
        /\ ask[s] \in {"transition", "accepted", "registered"} =>
              name[s] = credential[s] /\ subdomain[s] = credential[s]
        /\ ask[s] \in {"accepted", "registered"} => status[credential[s]] \in Served
        /\ closing[s] # "none" => name[s] = credential[s]

(* A route leads to the session that has registered it.                    *)
RouteInv ==
    \A t \in Tunnels :
        route[t] # None =>
            session[route[t]] = "on" /\ ask[route[t]] = "registered" /\ credential[route[t]] = t

(* What was too late when the visitor came is so for good.                 *)
VisitInv ==
    \A v \in Visitors :
        /\ visit[v] = "idle" => ~tooLate[v]
        /\ visit[v] # "idle" => target[v] \in Tunnels
        /\ tooLate[v] => Ended(target[v])
        /\ visit[v] \in {"admitted", "served"} => ~tooLate[v]

IInv == TypeOK /\ SessionInv /\ RouteInv /\ VisitInv

-----------------------------------------------------------------------------
(* The initial state.                                                      *)
LEMMA InitIInv == Init => IInv
<1> SUFFICES ASSUME Init PROVE IInv
  OBVIOUS
<1>1. TypeOK
  BY DEF Init, TypeOK, Store!Init, Store!TypeOK, Store!Status,
     Store!NonTerminal, Store!Terminal
<1>2. SessionInv /\ RouteInv /\ VisitInv
  BY DEF Init, SessionInv, RouteInv, VisitInv
<1> QED
  BY <1>1, <1>2 DEF IInv

-----------------------------------------------------------------------------
(* The rows.                                                               *)

(* What any step may do to the rows: nothing, or an atomic operation.      *)
RowStep ==
    \/ UNCHANGED <<status, owner, token, expires>> /\ now' \in {now, now + 1}
    \/ \E t \in Tunnels, u \in Users, ttl \in 1..MaxTTL :
          Store!Create(t, u) /\ expires' = [expires EXCEPT ![t] = now + ttl] /\ now' = now
    \/ \E t \in Tunnels : Store!Revoke(t) /\ UNCHANGED <<expires, now>>
    \/ \E t \in Tunnels : Store!Expire({t}) /\ UNCHANGED <<expires, now>>
    \/ \E t \in Tunnels, event \in {"NewProxy", "CloseProxy"} :
          Store!Callback(t, event) /\ UNCHANGED <<expires, now>>

(* Every step does one of them.                                            *)
LEMMA NextIsRowStep == IInv /\ [Next]_vars => RowStep
<1> SUFFICES ASSUME IInv, [Next]_vars PROVE RowStep
  OBVIOUS
<1> USE DEF rows
<1>1. ASSUME NEW t \in Tunnels, CreateTunnel(t) \/ DeleteTunnel(t) \/ Reap(t) PROVE RowStep
  BY <1>1 DEF CreateTunnel, DeleteTunnel, Reap, RowStep
<1>2. CASE Tick \/ FrpsRestarts \/ UNCHANGED vars
  BY <1>2 DEF Tick, FrpsRestarts, vars, RowStep
<1>3. ASSUME NEW s \in Sessions, \/ Login(s) \/ OfferProxy(s) \/ LookupProxy(s) \/ Register(s)
                                 \/ SessionEnds(s) \/ ReadStatus(s)
      PROVE  RowStep
  BY <1>3 DEF Login, OfferProxy, LookupProxy, Register, SessionEnds, ReadStatus, RowStep
<1>4. ASSUME NEW s \in Sessions, AcceptProxy(s) \/ RejectProxy(s) PROVE RowStep
  <2>1. credential[s] \in Tunnels
    BY <1>4 DEF AcceptProxy, RejectProxy, IInv, SessionInv
  <2> QED
    BY <1>4, <2>1 DEF AcceptProxy, RejectProxy, RowStep
<1>5. ASSUME NEW s \in Sessions, CloseProxy(s) PROVE RowStep
  <2>1. name[s] \in Tunnels
    BY <1>5 DEF CloseProxy, IInv, TypeOK, SessionInv
  <2> QED
    BY <1>5, <2>1 DEF CloseProxy, RowStep
<1>6. ASSUME NEW v \in Visitors, Arrive(v) \/ Gate(v) \/ Forward(v) \/ NewUserConn(v) PROVE RowStep
  BY <1>6 DEF Arrive, Gate, Forward, NewUserConn, RowStep
<1> QED
  BY <1>1, <1>2, <1>3, <1>4, <1>5, <1>6 DEF Next

(* The rows keep their types; a tunnel that was served stays so, and one   *)
(* that has ended never begins again.                                      *)
LEMMA RowsMoveOn ==
  ASSUME TypeOK, RowStep
  PROVE  /\ Store!TypeOK'
         /\ expires' \in [Tunnels -> Nat]
         /\ now' \in Nat
         /\ \A t \in Tunnels : status[t] \in Served => status'[t] \in Served
         /\ \A t \in Tunnels : Ended(t) => Ended(t)'
<1> USE DEF TypeOK, Store!TypeOK, Store!Status, Store!NonTerminal, Store!Terminal, Served, Ended
<1>1. CASE UNCHANGED <<status, owner, token, expires>> /\ now' \in {now, now + 1}
  BY <1>1
<1>2. ASSUME NEW t \in Tunnels, NEW u \in Users, NEW ttl \in 1..MaxTTL,
             Store!Create(t, u), expires' = [expires EXCEPT ![t] = now + ttl], now' = now
      PROVE  /\ Store!TypeOK'
             /\ expires' \in [Tunnels -> Nat]
             /\ now' \in Nat
             /\ \A x \in Tunnels : status[x] \in Served => status'[x] \in Served
             /\ \A x \in Tunnels : Ended(x) => Ended(x)'
  <2>1. now + ttl \in Nat
    BY <1>2, ClockAssumption
  <2> QED
    BY <1>2, <2>1 DEF Store!Create
<1>3. ASSUME NEW t \in Tunnels, Store!Revoke(t) \/ Store!Expire({t}), UNCHANGED <<expires, now>>
      PROVE  /\ Store!TypeOK'
             /\ \A x \in Tunnels : status[x] \in Served => status'[x] \in Served
             /\ \A x \in Tunnels : Ended(x) => Ended(x)'
  BY <1>3 DEF Store!Revoke, Store!Expire
<1>4. ASSUME NEW t \in Tunnels, NEW event \in {"NewProxy", "CloseProxy"},
             Store!Callback(t, event), UNCHANGED <<expires, now>>
      PROVE  /\ Store!TypeOK'
             /\ \A x \in Tunnels : status[x] \in Served => status'[x] \in Served
             /\ \A x \in Tunnels : Ended(x) => Ended(x)'
  <2>1. PICK to \in {"active", "closed"} :
           status[t] \in Store!NonTerminal /\ status' = [status EXCEPT ![t] = to]
    BY <1>4 DEF Store!Callback, Store!validTransitions
  <2> QED
    BY <1>4, <2>1 DEF Store!Callback
<1>5. ASSUME \/ \E t \in Tunnels : Store!Revoke(t) /\ UNCHANGED <<expires, now>>
             \/ \E t \in Tunnels : Store!Expire({t}) /\ UNCHANGED <<expires, now>>
      PROVE  /\ Store!TypeOK'
             /\ expires' \in [Tunnels -> Nat]
             /\ now' \in Nat
             /\ \A x \in Tunnels : status[x] \in Served => status'[x] \in Served
             /\ \A x \in Tunnels : Ended(x) => Ended(x)'
  <2>1. expires' = expires /\ now' = now
    BY <1>5
  <2> QED
    BY <1>3, <1>5, <2>1
<1>6. ASSUME NEW t \in Tunnels, NEW event \in {"NewProxy", "CloseProxy"},
             Store!Callback(t, event), UNCHANGED <<expires, now>>
      PROVE  expires' \in [Tunnels -> Nat] /\ now' \in Nat
  BY <1>6
<1> HIDE DEF TypeOK, Store!TypeOK, Served, Ended
<1> QED
  BY <1>1, <1>2, <1>4, <1>5, <1>6 DEF RowStep

-----------------------------------------------------------------------------
(* The other variables.                                                    *)

(* Every step keeps the types.                                             *)
LEMMA NextTypeOK == IInv /\ [Next]_vars => TypeOK'
<1> SUFFICES ASSUME IInv, [Next]_vars PROVE TypeOK'
  OBVIOUS
<1>1. TypeOK
  BY DEF IInv
<1>2. Store!TypeOK' /\ expires' \in [Tunnels -> Nat] /\ now' \in Nat
  BY <1>1, NextIsRowStep, RowsMoveOn
<1> USE <1>1, <1>2 DEF TypeOK, frpc, visits
<1>3. ASSUME NEW t \in Tunnels, CreateTunnel(t) \/ DeleteTunnel(t) \/ Reap(t) PROVE TypeOK'
  BY <1>3 DEF CreateTunnel, DeleteTunnel, Reap
<1>4. CASE Tick \/ UNCHANGED vars
  BY <1>4 DEF Tick, vars
<1>5. ASSUME NEW s \in Sessions, Login(s) \/ OfferProxy(s) PROVE TypeOK'
  BY <1>5 DEF Login, OfferProxy
<1>6. ASSUME NEW s \in Sessions, LookupProxy(s) \/ AcceptProxy(s) \/ RejectProxy(s) \/ Register(s)
      PROVE  TypeOK'
  BY <1>6 DEF LookupProxy, AcceptProxy, RejectProxy, Register, Reject
<1>7. ASSUME NEW s \in Sessions, SessionEnds(s) \/ ReadStatus(s) \/ CloseProxy(s) PROVE TypeOK'
  BY <1>7 DEF SessionEnds, ReadStatus, CloseProxy, Unroute
<1>8. CASE FrpsRestarts
  BY <1>8 DEF FrpsRestarts, Unroute
<1>9. ASSUME NEW v \in Visitors, Gate(v) \/ Forward(v) \/ NewUserConn(v) PROVE TypeOK'
  BY <1>9 DEF Gate, Forward, NewUserConn
<1>10. ASSUME NEW v \in Visitors, Arrive(v) PROVE TypeOK'
  <2>1. PICK t \in Tunnels : /\ target' = [target EXCEPT ![v] = t]
                             /\ tooLate' = [tooLate EXCEPT ![v] = Ended(t)]
    BY <1>10 DEF Arrive
  <2>2. Ended(t) \in BOOLEAN
    BY DEF Ended
  <2>3. tooLate' \in [Visitors -> BOOLEAN]
    BY <2>1, <2>2
  <2> QED
    BY <1>10, <2>1, <2>3 DEF Arrive
<1> QED
  BY <1>3, <1>4, <1>5, <1>6, <1>7, <1>8, <1>9, <1>10 DEF Next

(* Every step keeps the invariants of sessions and routes.                 *)
LEMMA NextSessionInv == IInv /\ [Next]_vars => SessionInv' /\ RouteInv'
<1> SUFFICES ASSUME IInv, [Next]_vars PROVE SessionInv' /\ RouteInv'
  OBVIOUS
<1>1. TypeOK /\ SessionInv /\ RouteInv
  BY DEF IInv
<1>2. \A t \in Tunnels : status[t] \in Served => status'[t] \in Served
  BY <1>1, NextIsRowStep, RowsMoveOn
<1> USE <1>1, <1>2, SessionsAreNew DEF TypeOK, frpc
<1>3. ASSUME UNCHANGED <<frpc, ask, closing, route>> PROVE SessionInv' /\ RouteInv'
  BY <1>3 DEF SessionInv, RouteInv
<1>4. ASSUME NEW t \in Tunnels, CreateTunnel(t) \/ DeleteTunnel(t) \/ Reap(t)
      PROVE  SessionInv' /\ RouteInv'
  BY <1>3, <1>4 DEF CreateTunnel, DeleteTunnel, Reap
<1>5. ASSUME NEW v \in Visitors, Arrive(v) \/ Gate(v) \/ Forward(v) \/ NewUserConn(v)
      PROVE  SessionInv' /\ RouteInv'
  BY <1>3, <1>5 DEF Arrive, Gate, Forward, NewUserConn
<1>6. ASSUME NEW s \in Sessions, Login(s) PROVE SessionInv' /\ RouteInv'
  BY <1>6 DEF Login, SessionInv, RouteInv
<1>7. ASSUME NEW s \in Sessions, OfferProxy(s) PROVE SessionInv' /\ RouteInv'
  BY <1>7 DEF OfferProxy, SessionInv, RouteInv
<1>8. ASSUME NEW s \in Sessions, LookupProxy(s) PROVE SessionInv' /\ RouteInv'
  BY <1>8 DEF LookupProxy, Reject, SessionInv, RouteInv
<1>9. ASSUME NEW s \in Sessions, AcceptProxy(s) PROVE SessionInv' /\ RouteInv'
  <2>1. credential[s] \in Tunnels
    BY <1>9 DEF AcceptProxy, SessionInv
  <2>2. status'[credential[s]] \in Served
    BY <1>9, <2>1 DEF AcceptProxy, Store!Callback, Store!validTransitions, Store!TypeOK,
                      Store!NonTerminal, Served
  <2> QED
    BY <1>9, <2>2 DEF AcceptProxy, SessionInv, RouteInv
<1>10. ASSUME NEW s \in Sessions, RejectProxy(s) PROVE SessionInv' /\ RouteInv'
  BY <1>10 DEF RejectProxy, Reject, SessionInv, RouteInv
<1>11. ASSUME NEW s \in Sessions, Register(s) PROVE SessionInv' /\ RouteInv'
  <2>1. CASE /\ session[s] = "on"
             /\ route' = [route EXCEPT ![subdomain[s]] = s]
             /\ ask' = [ask EXCEPT ![s] = "registered"]
    BY <1>11, <2>1 DEF Register, SessionInv, RouteInv
  <2>2. CASE Reject(s) /\ UNCHANGED route
    BY <1>11, <2>2 DEF Register, Reject, SessionInv, RouteInv
  <2> QED
    BY <1>11, <2>1, <2>2 DEF Register
<1>12. ASSUME NEW s \in Sessions, SessionEnds(s) PROVE SessionInv' /\ RouteInv'
  BY <1>12 DEF SessionEnds, Unroute, SessionInv, RouteInv
<1>13. ASSUME NEW s \in Sessions, ReadStatus(s) \/ CloseProxy(s) PROVE SessionInv' /\ RouteInv'
  BY <1>13 DEF ReadStatus, CloseProxy, SessionInv, RouteInv
<1>14. CASE FrpsRestarts
  BY <1>14 DEF FrpsRestarts, Unroute, SessionInv, RouteInv
<1>15. CASE Tick \/ UNCHANGED vars
  BY <1>3, <1>15 DEF Tick, vars
<1> QED
  BY <1>4, <1>5, <1>6, <1>7, <1>8, <1>9, <1>10, <1>11, <1>12, <1>13, <1>14,
     <1>15 DEF Next

(* Every step keeps the invariant of the visitors.                         *)
LEMMA NextVisitInv == IInv /\ [Next]_vars => VisitInv'
<1> SUFFICES ASSUME IInv, [Next]_vars PROVE VisitInv'
  OBVIOUS
<1>1. TypeOK /\ VisitInv
  BY DEF IInv
<1>2. \A t \in Tunnels : Ended(t) => Ended(t)'
  BY <1>1, NextIsRowStep, RowsMoveOn
<1>3. ASSUME UNCHANGED visits PROVE VisitInv'
  <2>1. \A v \in Visitors : tooLate[v] => target[v] \in Tunnels
    BY <1>1 DEF VisitInv
  <2> QED
    BY <1>1, <1>2, <1>3, <2>1 DEF VisitInv, visits
<1>4. ASSUME NEW v \in Visitors, Arrive(v) PROVE VisitInv'
  <2>1. PICK t \in Tunnels : /\ target' = [target EXCEPT ![v] = t]
                             /\ tooLate' = [tooLate EXCEPT ![v] = Ended(t)]
    BY <1>4 DEF Arrive
  <2>2. \A x \in Tunnels : Ended(x)' <=> Ended(x)
    BY <1>4 DEF Arrive, rows, Ended
  <2>3. tooLate'[v] <=> Ended(t)
    BY <1>1, <2>1 DEF TypeOK
  <2> QED
    BY <1>1, <1>4, <2>1, <2>2, <2>3 DEF Arrive, TypeOK, VisitInv
<1>5. ASSUME NEW v \in Visitors, Gate(v) PROVE VisitInv'
  <2>1. UNCHANGED <<target, tooLate>> /\ \A x \in Tunnels : Ended(x)' <=> Ended(x)
    BY <1>5 DEF Gate, rows, Ended
  <2>2. ASSUME AcceptsTraffic(target[v]) PROVE ~Ended(target[v])
    BY <1>1, <1>5, <2>2 DEF Gate, VisitInv, AcceptsTraffic, Ended,
       Store!Terminal, TypeOK
  <2> QED
    BY <1>1, <1>5, <2>1, <2>2 DEF Gate, TypeOK, VisitInv
<1>6. ASSUME NEW v \in Visitors, Forward(v) \/ NewUserConn(v) PROVE VisitInv'
  <2>1. UNCHANGED <<target, tooLate>> /\ \A x \in Tunnels : Ended(x)' <=> Ended(x)
    BY <1>6 DEF Forward, NewUserConn, rows, Ended
  <2> QED
    BY <1>1, <1>6, <2>1 DEF Forward, NewUserConn, TypeOK, VisitInv
<1>7. ASSUME NEW t \in Tunnels, CreateTunnel(t) \/ DeleteTunnel(t) \/ Reap(t) PROVE VisitInv'
  BY <1>3, <1>7 DEF CreateTunnel, DeleteTunnel, Reap
<1>8. ASSUME NEW s \in Sessions, \/ Login(s) \/ OfferProxy(s)
                                 \/ LookupProxy(s) \/ AcceptProxy(s) \/ RejectProxy(s)
                                 \/ Register(s) \/ SessionEnds(s) \/ ReadStatus(s) \/ CloseProxy(s)
      PROVE  VisitInv'
  BY <1>3, <1>8 DEF Login, OfferProxy, LookupProxy, AcceptProxy, RejectProxy, Register,
                    SessionEnds, ReadStatus, CloseProxy
<1>9. CASE Tick \/ FrpsRestarts \/ UNCHANGED vars
  BY <1>3, <1>9 DEF Tick, FrpsRestarts, vars
<1> QED
  BY <1>4, <1>5, <1>6, <1>7, <1>8, <1>9 DEF Next

(* The invariant holds in every behaviour.                                 *)
THEOREM Invariant == Spec => []IInv
<1>1. IInv /\ [Next]_vars => IInv'
  BY NextTypeOK, NextSessionInv, NextVisitInv DEF IInv
<1> QED
  BY InitIInv, <1>1, PTL DEF Spec

(* Every variable keeps its type.                                          *)
THEOREM TypeCorrect == Spec => []TypeOK
<1>1. IInv => TypeOK
  BY DEF IInv
<1> QED
  BY Invariant, <1>1, PTL

(* No visitor who comes after the end of a tunnel is served.               *)
THEOREM EndIsRespected == Spec => []NoVisitAfterTheEnd
<1>1. IInv => NoVisitAfterTheEnd
  BY DEF IInv, VisitInv, NoVisitAfterTheEnd
<1> QED
  BY Invariant, <1>1, PTL

(* The gate shuts out no registered client of a tunnel that has not ended. *)
THEOREM RoutesAreOpen == Spec => []RegisteredIsAdmitted
<1>1. ASSUME IInv PROVE RegisteredIsAdmitted
  <2> SUFFICES ASSUME NEW t \in Tunnels, route[t] # None, ~Ended(t) PROVE AcceptsTraffic(t)
    BY DEF RegisteredIsAdmitted
  <2>1. route[t] \in Sessions
    BY <1>1 DEF IInv, TypeOK
  <2>2. status[t] \in Served
    BY <1>1, <2>1 DEF IInv, RouteInv, SessionInv
  <2>3. expires[t] \in Nat /\ now \in Nat
    BY <1>1 DEF IInv, TypeOK
  <2> QED
    BY <2>2, <2>3 DEF Ended, Served, AcceptsTraffic, Store!Terminal
<1> QED
  BY Invariant, <1>1, PTL

(* A session serves and ends no tunnel but that of its credential.         *)
THEOREM Confinement == Spec => []SessionsAreConfined
<1>1. IInv => SessionsAreConfined
  BY DEF IInv, SessionInv, RouteInv, SessionsAreConfined
<1> QED
  BY Invariant, <1>1, PTL

(* Whatever frps, frpc and the visitors do, the rows go through the        *)
(* lifecycle that TunnelStore implements.                                  *)
THEOREM RowsFollowLifecycle == Spec => Store!Spec
<1>1. Init => Store!Init
  BY DEF Init
<1>2. IInv /\ [Next]_vars => [Store!Next]_(Store!vars)
  <2> SUFFICES ASSUME RowStep PROVE [Store!Next]_(Store!vars)
    BY NextIsRowStep
  <2>1. \A t \in Tunnels : Store!Expire({t}) => Store!Next
    BY DEF Store!Next
  <2> QED
    BY <2>1 DEF RowStep, Store!Next, Store!vars
<1> QED
  BY Invariant, <1>1, <1>2, PTL DEF Spec, Store!Spec
=============================================================================
