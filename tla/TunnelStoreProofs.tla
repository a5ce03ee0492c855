------------------------- MODULE TunnelStoreProofs -------------------------
(***************************************************************************)
(* Proofs about TunnelStore, for every number of tunnels, users and        *)
(* requests and every value of the limits.                                 *)
(***************************************************************************)
EXTENDS TunnelStore, TLAPS, FiniteSetTheorems

-----------------------------------------------------------------------------
(* Type correctness.                                                       *)

(* A request that works on a tunnel or for a user has one.                 *)
Addressed ==
    \A r \in Requests :
        /\ pc[r] \in CreateSteps => user[r] \in Users
        /\ pc[r] \in Steps \ {"quotaLock", "quotaCount", "candidate"} => tunnel[r] \in Tunnels

(* The initial state has the types.                                        *)
LEMMA InitTypeOK == Init => TypeOK
  BY BoundsAssumption, NamesAssumption
  DEF Init, TypeOK, Status, NonTerminal, Terminal, Steps, CreateSteps, Kind, Answers

(* A step of a request that ends without having written keeps the types.   *)
LEMMA EndWithoutTypeOK ==
  ASSUME TypeOK, NEW r \in Requests, NEW answer \in Answers, EndWithout(r, answer)
  PROVE  TypeOK'
  BY DEF EndWithout, Answer, Goto, Release, TypeOK, clock, table, call, reaper

(* The events that insertEvent may write.                                  *)
Events == {"created", "NewProxy", "CloseProxy", "Expire", "Revoke"}

(* Writing a status and its event keeps both types.                        *)
LEMMA WriteStatusTypes ==
  ASSUME TypeOK, NEW r \in Requests, NEW event \in Events, NEW to \in Status,
         WriteStatus(r, event, to)
  PROVE  /\ status' \in [Tunnels -> Status \union {"none"}]
         /\ trail' \in [Tunnels -> Seq(Events \X Status)]
<1>1. trail \in [Tunnels -> Seq(Events \X Status)]
  BY DEF TypeOK, Events
<1>2. <<event, to>> \in Events \X Status
  OBVIOUS
<1>3. \A t \in Tunnels : Append(trail[t], <<event, to>>) \in Seq(Events \X Status)
  BY <1>1, <1>2
<1>4. trail' = [trail EXCEPT ![tunnel[r]] = Append(@, <<event, to>>)]
  BY DEF WriteStatus
<1>5. trail' \in [Tunnels -> Seq(Events \X Status)]
  BY <1>1, <1>3, <1>4
<1> QED
  BY <1>5 DEF WriteStatus, TypeOK

(* The arrival of a request keeps the types of what it sets.               *)
LEMMA ArriveTypes ==
  ASSUME TypeOK, NEW r \in Requests, NEW kind \in Kind, NEW step \in Steps,
         Arrive(r, kind, step)
  PROVE  /\ pc' \in [Requests -> Steps \union {"idle", "done"}]
         /\ op' \in [Requests -> Kind \union {"none"}]
         /\ tunnel' \in [Requests -> Tunnels \union {None}]
  BY DEF Arrive, Goto, TypeOK

(* A step that commits keeps the types of what it does not write itself.   *)
LEMMA CommitTypeOK ==
  ASSUME TypeOK, NEW r \in Requests, Commit(r),
         status' \in [Tunnels -> Status \union {"none"}],
         owner' \in [Tunnels -> Users \union {None}],
         expires' \in [Tunnels -> Nat],
         token' \in [Tunnels -> {"none", "live", "revoked"}],
         trail' \in [Tunnels -> Seq(Events \X Status)]
  PROVE  TypeOK'
  BY DEF Commit, Answer, Goto, Release, TypeOK, clock, call, reaper, Steps,
     Answers, Events

(* Every step keeps the types.                                             *)
LEMMA NextTypeOK == TypeOK /\ Addressed /\ [Next]_vars => TypeOK'
<1> SUFFICES ASSUME TypeOK, Addressed, [Next]_vars PROVE TypeOK'
  OBVIOUS
<1> USE DEF clock, table, locks, call, reaper
<1>1. ASSUME NEW r \in Requests, CreateTunnel(r) PROVE TypeOK'
  <2>1. PICK u \in Users, requested \in 0..MaxTTL + 1 :
           /\ user' = [user EXCEPT ![r] = u]
           /\ ttl' = [ttl EXCEPT ![r] = EffectiveTTL(requested)]
    BY <1>1 DEF CreateTunnel
  <2>2. EffectiveTTL(requested) \in Nat
    BY BoundsAssumption DEF EffectiveTTL
  <2>3. pc' \in [Requests -> Steps \union {"idle", "done"}]
    BY <1>1 DEF CreateTunnel, Goto, TypeOK, Steps, CreateSteps
  <2>4. op' \in [Requests -> Kind \union {"none"}]
    BY <1>1 DEF CreateTunnel, TypeOK, Kind
  <2> QED
    BY <1>1, <2>1, <2>2, <2>3, <2>4 DEF CreateTunnel, TypeOK
<1>2. ASSUME NEW r \in Requests, NewProxy(r) PROVE TypeOK'
  BY <1>2, ArriveTypes DEF NewProxy, TypeOK, Kind, Steps
<1>20. ASSUME NEW r \in Requests, CloseProxy(r) PROVE TypeOK'
  BY <1>20, ArriveTypes DEF CloseProxy, TypeOK, Kind, Steps
<1>21. ASSUME NEW r \in Requests, Delete(r) PROVE TypeOK'
  BY <1>21, ArriveTypes DEF Delete, TypeOK, Kind, Steps
<1>3. ASSUME NEW r \in Requests, TakeQuotaLock(r) PROVE TypeOK'
  BY <1>3 DEF TakeQuotaLock, Goto, TypeOK, Steps, CreateSteps
<1>4. ASSUME NEW r \in Requests, CheckQuota(r) PROVE TypeOK'
  <2>1. CASE EndWithout(r, "denied")
    BY <2>1, EndWithoutTypeOK DEF Answers
  <2> QED
    BY <1>4, <2>1 DEF CheckQuota, Goto, TypeOK, Steps, CreateSteps
<1>5. ASSUME NEW r \in Requests, PickCandidate(r) PROVE TypeOK'
  BY <1>5 DEF PickCandidate, Goto, TypeOK, Steps, CreateSteps
<1>6. ASSUME NEW r \in Requests, InsertCandidate(r) PROVE TypeOK'
  <2>1. CASE EndWithout(r, "error")
    BY <2>1, EndWithoutTypeOK DEF Answers
  <2>2. CASE Goto(r, "candidate") /\ UNCHANGED <<clock, table, locks, call, reply, reaper>>
    BY <2>2 DEF Goto, TypeOK, Steps, CreateSteps
  <2>3. CASE /\ rowLock' = [rowLock EXCEPT ![tunnel[r]] = r]
             /\ Goto(r, "commitCreate")
             /\ UNCHANGED <<clock, table, userLock, call, reply, reaper>>
    BY <2>3 DEF Goto, TypeOK, Steps, CreateSteps
  <2> QED
    BY <1>6, <2>1, <2>2, <2>3 DEF InsertCandidate
<1>7. ASSUME NEW r \in Requests, CommitCreate(r) PROVE TypeOK'
  <2>1. /\ status' \in [Tunnels -> Status \union {"none"}]
        /\ trail' \in [Tunnels -> Seq(Events \X Status)]
    BY <1>7, WriteStatusTypes DEF CommitCreate, Events, Status, NonTerminal
  <2>2. /\ owner' \in [Tunnels -> Users \union {None}]
        /\ token' \in [Tunnels -> {"none", "live", "revoked"}]
    BY <1>7 DEF CommitCreate, TypeOK
  <2>3. expires' \in [Tunnels -> Nat]
    <3>1. stamp[r] + ttl[r] \in Nat
      BY DEF TypeOK
    <3> QED
      BY <1>7, <3>1 DEF CommitCreate, TypeOK
  <2>4. Commit(r)
    BY <1>7 DEF CommitCreate
  <2> QED
    BY <2>1, <2>2, <2>3, <2>4, CommitTypeOK
<1>8. ASSUME NEW r \in Requests, LookupRuntimeToken(r) PROVE TypeOK'
  <2>1. CASE EndWithout(r, "denied")
    BY <2>1, EndWithoutTypeOK DEF Answers
  <2> QED
    BY <1>8, <2>1 DEF LookupRuntimeToken, Goto, TypeOK, Steps
<1>9. ASSUME NEW r \in Requests, ReadStatus(r) PROVE TypeOK'
  <2>1. CASE EndWithout(r, "ok")
    BY <2>1, EndWithoutTypeOK DEF Answers
  <2> QED
    BY <1>9, <2>1 DEF ReadStatus, Goto, TypeOK, Steps
<1>10. ASSUME NEW r \in Requests, LockRow(r) PROVE TypeOK'
  <2>1. pc' \in [Requests -> Steps \union {"idle", "done"}]
    BY <1>10 DEF LockRow, Goto, TypeOK, Steps
  <2>2. tunnel[r] \in Tunnels
    BY <1>10 DEF LockRow, Addressed, Steps
  <2>3. seen' \in [Requests -> Status \union {"none"}]
    BY <1>10, <2>2 DEF LockRow, TypeOK
  <2>4. /\ stamp' \in [Requests -> Nat]
        /\ rowLock' \in [Tunnels -> Requests \union {Reaper, None}]
    BY <1>10 DEF LockRow, TypeOK
  <2> QED
    BY <1>10, <2>1, <2>3, <2>4 DEF LockRow, TypeOK
<1>11. ASSUME NEW r \in Requests, NotFound(r) PROVE TypeOK'
  BY <1>11, EndWithoutTypeOK DEF NotFound, Answers
<1>12. ASSUME NEW r \in Requests, CheckClock(r) PROVE TypeOK'
  <2>1. CASE EndWithout(r, "denied") \/ EndWithout(r, "ok")
    BY <2>1, EndWithoutTypeOK DEF Answers
  <2> QED
    BY <1>12, <2>1 DEF CheckClock, Goto, TypeOK, Steps
<1>13. ASSUME NEW r \in Requests, ApplyTransition(r) PROVE TypeOK'
  <2>1. CASE \E to \in Status : WriteStatus(r, EventOf(r), to) /\ Commit(r) /\ UNCHANGED <<owner, expires, token>>
    <3>1. EventOf(r) \in Events
      BY DEF EventOf, Events
    <3>2. /\ status' \in [Tunnels -> Status \union {"none"}]
          /\ trail' \in [Tunnels -> Seq(Events \X Status)]
      BY <2>1, <3>1, WriteStatusTypes
    <3> QED
      BY <2>1, <3>2, CommitTypeOK DEF TypeOK
  <2>2. CASE EndWithout(r, IF op[r] = "closeproxy" THEN "ok" ELSE "denied")
    BY <2>2, EndWithoutTypeOK DEF Answers
  <2> QED
    BY <1>13, <2>1, <2>2 DEF ApplyTransition
<1>14. ASSUME NEW r \in Requests, ApplyRevoke(r) PROVE TypeOK'
  <2>1. /\ status' \in [Tunnels -> Status \union {"none"}]
        /\ trail' \in [Tunnels -> Seq(Events \X Status)]
    <3>1. CASE WriteStatus(r, "Revoke", "revoked")
      BY <3>1, WriteStatusTypes DEF Events, Status, Terminal
    <3> QED
      BY <1>14, <3>1 DEF ApplyRevoke, TypeOK, Events
  <2>2. token' \in [Tunnels -> {"none", "live", "revoked"}]
    BY <1>14 DEF ApplyRevoke, TypeOK
  <2> QED
    BY <1>14, <2>1, <2>2, CommitTypeOK DEF ApplyRevoke, TypeOK
<1>15. ASSUME NEW r \in Requests, Fail(r) PROVE TypeOK'
  BY <1>15, EndWithoutTypeOK DEF Fail, Answers
<1>16. CASE ReapBegin \/ ReapScan
  BY <1>16 DEF ReapBegin, ReapScan, TypeOK
<1>17. ASSUME NEW t \in Tunnels, ReapRow(t) PROVE TypeOK'
  <2>1. rowLock' \in [Tunnels -> Requests \union {Reaper, None}]
    <3>1. rowLock \in [Tunnels -> Requests \union {Reaper, None}]
      BY DEF TypeOK
    <3>2. rowLock' = rowLock \/ rowLock' = [rowLock EXCEPT ![t] = Reaper]
      BY <1>17 DEF ReapRow
    <3> QED
      BY <3>1, <3>2
  <2>2. /\ reapDone' \in SUBSET Tunnels
        /\ reapTodo' \in SUBSET Tunnels
    BY <1>17 DEF ReapRow, TypeOK
  <2> QED
    BY <1>17, <2>1, <2>2 DEF ReapRow, TypeOK
<1>18. CASE ReapCommit
  <2>1. trail' \in [Tunnels -> Seq(Events \X Status)]
    <3>1. <<"Expire", "expired">> \in Events \X Status
      BY DEF Events, Status, Terminal
    <3>2. \A t \in Tunnels : trail[t] \in Seq(Events \X Status)
      BY DEF TypeOK, Events
    <3>3. \A t \in Tunnels : Append(trail[t], <<"Expire", "expired">>) \in Seq(Events \X Status)
      BY <3>1, <3>2
    <3> QED
      BY <1>18, <3>2, <3>3 DEF ReapCommit
  <2>2. status' \in [Tunnels -> Status \union {"none"}]
    BY <1>18 DEF ReapCommit, TypeOK, Status, Terminal
  <2> QED
    BY <1>18, <2>1, <2>2 DEF ReapCommit, Release, ReaperReset, TypeOK, Events
<1>19. CASE ReapFail \/ Crash
  BY <1>19 DEF ReapFail, Crash, Release, ReaperReset, TypeOK, Answers
<1>22. CASE Tick
  BY <1>22 DEF Tick, TypeOK
<1>23. CASE UNCHANGED vars
  BY <1>23 DEF vars, TypeOK
<1> QED
  BY <1>1, <1>2, <1>20, <1>21, <1>3, <1>4, <1>5, <1>6, <1>7, <1>8, <1>9, <1>10,
     <1>11, <1>12,
     <1>13, <1>14, <1>15, <1>16, <1>17, <1>18, <1>19, <1>22, <1>23
  DEF Next, RequestStep, ReaperStep

-----------------------------------------------------------------------------
(* The lock discipline, the inductive core of every safety proof below: a  *)
(* request that is past a lock still holds it, and what it has read under  *)
(* that lock still is what is stored.                                      *)
Locked(q) ==
    /\ pc[q] \in CreateSteps \ {"quotaLock"} => userLock[user[q]] = q
    /\ pc[q] \in Holding => rowLock[tunnel[q]] = q
    /\ pc[q] = "commitCreate" => status[tunnel[q]] = "none"
    /\ pc[q] \in {"checkClock", "apply", "revoke"} =>
          seen[q] = status[tunnel[q]] /\ seen[q] # "none"

ReaperLocked == \A t \in reapDone : rowLock[t] = Reaper /\ status[t] \in NonTerminal

LockInv ==
    /\ TypeOK
    /\ Addressed
    /\ \A q \in Requests : Locked(q)
    /\ ReaperLocked

(* What a step of somebody else leaves to the request q.                   *)
Undisturbed(q) ==
    /\ pc'[q] = pc[q] /\ user'[q] = user[q] /\ tunnel'[q] = tunnel[q] /\ seen'[q] = seen[q]
    /\ \A t \in Tunnels : rowLock[t] = q => rowLock'[t] = q /\ status'[t] = status[t]
    /\ \A u \in Users : userLock[u] = q => userLock'[u] = q

Good(q) ==
    /\ pc[q] \in CreateSteps => user[q] \in Users
    /\ pc[q] \in Steps \ {"quotaLock", "quotaCount", "candidate"} => tunnel[q] \in Tunnels
    /\ Locked(q)

(* An undisturbed request keeps what it holds and knows.                   *)
LEMMA UndisturbedGood ==
  ASSUME LockInv, NEW q \in Requests, Undisturbed(q)
  PROVE  Good(q)'
  BY DEF LockInv, Addressed, Locked, Undisturbed, Good, Steps, CreateSteps, Holding

(* A request that has been answered holds nothing.                         *)
LEMMA AnsweredGood ==
  ASSUME NEW q \in Requests, pc'[q] = "done"
  PROVE  Good(q)'
  BY DEF Locked, Good, Steps, CreateSteps, Holding

(* The row of a transaction that ends is changed by nobody else.           *)
LEMMA EndGood ==
  ASSUME LockInv, NEW r \in Requests, NEW answer, Answer(r, answer), Release({r}), UNCHANGED call,
         \A t \in Tunnels : rowLock[t] # r => status'[t] = status[t]
  PROVE  \A q \in Requests : Good(q)'
<1> SUFFICES ASSUME NEW q \in Requests PROVE Good(q)'
  OBVIOUS
<1>1. CASE q = r
  <2>1. pc'[q] = "done"
    BY <1>1 DEF Answer, Goto, LockInv, TypeOK
  <2> QED
    BY <2>1, AnsweredGood
<1>2. CASE q # r
  <2>1. Undisturbed(q)
    BY <1>2 DEF Undisturbed, Answer, Goto, Release, call, LockInv, TypeOK
  <2> QED
    BY <2>1, UndisturbedGood
<1> QED
  BY <1>1, <1>2

(* A step of r that writes no row and takes no lock of another leaves      *)
(* every other request undisturbed.                                        *)
LEMMA OthersGood ==
  ASSUME LockInv, NEW r \in Requests, UNCHANGED status,
         \A q \in Requests \ {r} :
            pc'[q] = pc[q] /\ user'[q] = user[q] /\ tunnel'[q] = tunnel[q] /\ seen'[q] = seen[q],
         \A t \in Tunnels : rowLock[t] # None => rowLock'[t] = rowLock[t],
         \A u \in Users : userLock[u] # None => userLock'[u] = userLock[u]
  PROVE  \A q \in Requests \ {r} : Good(q)'
<1> SUFFICES ASSUME NEW q \in Requests \ {r} PROVE Good(q)'
  OBVIOUS
<1>1. Undisturbed(q)
  BY NamesAssumption DEF Undisturbed
<1> QED
  BY <1>1, UndisturbedGood

(* Every step of a request keeps every request in good order.              *)
LEMMA RequestGood ==
  ASSUME LockInv, NEW r \in Requests,
         \/ CreateTunnel(r) \/ NewProxy(r) \/ CloseProxy(r) \/ Delete(r)
         \/ RequestStep(r) \/ Fail(r)
  PROVE  \A q \in Requests : Good(q)'
<1> USE DEF clock, table, locks, reaper
<1>1. ASSUME NEW answer, EndWithout(r, answer) PROVE \A q \in Requests : Good(q)'
  BY <1>1, EndGood DEF EndWithout
<1>2. ASSUME NEW event, NEW to, WriteStatus(r, event, to) \/ UNCHANGED status, Commit(r),
             rowLock[tunnel[r]] = r
      PROVE  \A q \in Requests : Good(q)'
  <2>1. \A t \in Tunnels : rowLock[t] # r => status'[t] = status[t]
    BY <1>2 DEF WriteStatus, LockInv, TypeOK
  <2>2. PICK answer \in {"ok", "unknown"} : Answer(r, answer)
    BY <1>2 DEF Commit
  <2> QED
    BY <1>2, <2>1, <2>2, EndGood DEF Commit
<1>3. CASE CreateTunnel(r)
  <2>1. \A q \in Requests \ {r} : Good(q)'
    BY <1>3, OthersGood DEF CreateTunnel, Goto, LockInv, TypeOK
  <2>2. Good(r)'
    BY <1>3 DEF CreateTunnel, Goto, LockInv, TypeOK, Good, Locked, Steps,
       CreateSteps, Holding
  <2> QED
    BY <2>1, <2>2
<1>4. CASE NewProxy(r) \/ CloseProxy(r) \/ Delete(r)
  <2>1. \A q \in Requests \ {r} : Good(q)'
    BY <1>4, OthersGood DEF NewProxy, CloseProxy, Delete, Arrive, Goto, LockInv, TypeOK
  <2>2. tunnel'[r] \in Tunnels
    BY <1>4 DEF NewProxy, CloseProxy, Delete, Arrive, LockInv, TypeOK
  <2>3. pc'[r] \in {"lookup", "readStatus", "lock"}
    BY <1>4 DEF NewProxy, CloseProxy, Delete, Arrive, Goto, LockInv, TypeOK
  <2>4. Good(r)'
    BY <2>2, <2>3 DEF Good, Locked, Steps, CreateSteps, Holding
  <2> QED
    BY <2>1, <2>4
<1>5. CASE TakeQuotaLock(r)
  <2>1. \A q \in Requests \ {r} : Good(q)'
    BY <1>5, OthersGood DEF TakeQuotaLock, Goto, call, LockInv, TypeOK
  <2>2. Good(r)'
    BY <1>5 DEF TakeQuotaLock, Goto, call, LockInv, TypeOK, Addressed, Good,
       Locked, Steps, CreateSteps, Holding
  <2> QED
    BY <2>1, <2>2
<1>6. ASSUME pc[r] \in {"quotaCount", "insert"}, Goto(r, "candidate"), UNCHANGED <<table, locks, call>>
      PROVE  \A q \in Requests : Good(q)'
  <2>1. \A q \in Requests \ {r} : Good(q)'
    BY <1>6, OthersGood DEF Goto, call, LockInv, TypeOK
  <2>2. Good(r)'
    BY <1>6 DEF Goto, call, LockInv, TypeOK, Addressed, Good, Locked, Steps,
       CreateSteps, Holding
  <2> QED
    BY <2>1, <2>2
<1>7. CASE CheckQuota(r)
  BY <1>7, <1>1, <1>6 DEF CheckQuota
<1>8. CASE PickCandidate(r)
  <2>1. \A q \in Requests \ {r} : Good(q)'
    BY <1>8, OthersGood DEF PickCandidate, Goto, LockInv, TypeOK
  <2>2. Good(r)'
    BY <1>8 DEF PickCandidate, Goto, LockInv, TypeOK, Addressed, Good, Locked,
       Steps, CreateSteps, Holding
  <2> QED
    BY <2>1, <2>2
<1>9. CASE InsertCandidate(r)
  <2>1. CASE /\ status[tunnel[r]] = "none"
             /\ rowLock[tunnel[r]] = None
             /\ rowLock' = [rowLock EXCEPT ![tunnel[r]] = r]
             /\ Goto(r, "commitCreate")
             /\ UNCHANGED <<clock, table, userLock, call, reply, reaper>>
    <3>1. \A q \in Requests \ {r} : Good(q)'
      BY <2>1, OthersGood DEF Goto, call, LockInv, TypeOK
    <3>2. tunnel[r] \in Tunnels /\ user[r] \in Users /\ userLock[user[r]] = r
      BY <1>9 DEF InsertCandidate, LockInv, Addressed, Locked, Steps, CreateSteps
    <3>3. pc'[r] = "commitCreate" /\ rowLock'[tunnel[r]] = r
      BY <2>1, <3>2 DEF Goto, LockInv, TypeOK
    <3>4. Good(r)'
      BY <2>1, <3>2, <3>3 DEF call, Good, Locked, Steps, CreateSteps, Holding
    <3> QED
      BY <3>1, <3>4
  <2> QED
    BY <1>9, <1>1, <1>6, <2>1 DEF InsertCandidate
<1>10. CASE CommitCreate(r)
  <2>1. rowLock[tunnel[r]] = r
    BY <1>10 DEF CommitCreate, LockInv, Locked, Holding
  <2> QED
    BY <1>10, <1>2, <2>1 DEF CommitCreate
<1>11. ASSUME pc[r] \in {"lookup", "readStatus"}, Goto(r, "lock"), UNCHANGED <<table, locks, call>>
       PROVE  \A q \in Requests : Good(q)'
  <2>1. \A q \in Requests \ {r} : Good(q)'
    BY <1>11, OthersGood DEF Goto, call, LockInv, TypeOK
  <2>2. tunnel[r] \in Tunnels /\ tunnel'[r] = tunnel[r]
    BY <1>11 DEF call, LockInv, Addressed, Steps, CreateSteps
  <2>3. pc'[r] = "lock"
    BY <1>11 DEF Goto, LockInv, TypeOK
  <2>4. Good(r)'
    BY <2>2, <2>3 DEF Good, Locked, Steps, CreateSteps, Holding
  <2> QED
    BY <2>1, <2>4
<1>12. CASE LookupRuntimeToken(r) \/ ReadStatus(r)
  BY <1>12, <1>1, <1>11 DEF LookupRuntimeToken, ReadStatus
<1>13. CASE LockRow(r)
  <2>1. \A q \in Requests \ {r} : Good(q)'
    BY <1>13, OthersGood DEF LockRow, Goto, LockInv, TypeOK
  <2>2. pc'[r] \in {"checkClock", "apply", "revoke"}
    BY <1>13 DEF LockRow, Goto, LockInv, TypeOK
  <2>3. tunnel[r] \in Tunnels /\ tunnel' = tunnel
    BY <1>13 DEF LockRow, LockInv, Addressed, Steps
  <2>4. rowLock'[tunnel[r]] = r /\ seen'[r] = status'[tunnel[r]] /\ seen'[r] # "none"
    BY <1>13, <2>3 DEF LockRow, LockInv, TypeOK, table
  <2>5. Good(r)'
    BY <2>2, <2>3, <2>4 DEF Good, Locked, Steps, CreateSteps, Holding
  <2> QED
    BY <2>1, <2>5
<1>14. CASE NotFound(r)
  BY <1>14, <1>1 DEF NotFound
<1>15. CASE CheckClock(r)
  <2>1. CASE Goto(r, "apply") /\ UNCHANGED <<clock, table, locks, call, reply, reaper>>
    <3>1. \A q \in Requests \ {r} : Good(q)'
      BY <2>1, OthersGood DEF Goto, call, LockInv, TypeOK
    <3>2. Good(r)'
      BY <1>15, <2>1 DEF CheckClock, Goto, call, LockInv, TypeOK, Addressed,
         Good, Locked, Steps, CreateSteps, Holding
    <3> QED
      BY <3>1, <3>2
  <2> QED
    BY <1>15, <1>1, <2>1 DEF CheckClock
<1>16. CASE ApplyTransition(r)
  <2>1. rowLock[tunnel[r]] = r
    BY <1>16 DEF ApplyTransition, LockInv, Locked, Holding
  <2> QED
    BY <1>16, <1>1, <1>2, <2>1 DEF ApplyTransition
<1>17. CASE ApplyRevoke(r)
  <2>1. rowLock[tunnel[r]] = r
    BY <1>17 DEF ApplyRevoke, LockInv, Locked, Holding
  <2> QED
    BY <1>17, <1>2, <2>1 DEF ApplyRevoke
<1>18. CASE Fail(r)
  BY <1>18, <1>1 DEF Fail
<1> QED
  BY <1>3, <1>4, <1>5, <1>7, <1>8, <1>9, <1>10, <1>12, <1>13, <1>14, <1>15,
     <1>16, <1>17, <1>18
  DEF RequestStep

(* The steps of the reaper keep every request in good order.               *)
LEMMA ReaperGood ==
  ASSUME LockInv, ReaperStep \/ ReapFail \/ Tick \/ UNCHANGED vars
  PROVE  \A q \in Requests : Good(q)'
<1> SUFFICES ASSUME NEW q \in Requests PROVE Undisturbed(q)
  BY UndisturbedGood
<1> USE NamesAssumption DEF Undisturbed, clock, table, locks, call, reaper
<1>1. CASE ReapBegin \/ ReapScan
  BY <1>1 DEF ReapBegin, ReapScan
<1>2. ASSUME NEW t \in Tunnels, ReapRow(t) PROVE Undisturbed(q)
  BY <1>2 DEF ReapRow, LockInv, TypeOK
<1>3. CASE ReapCommit
  BY <1>3 DEF ReapCommit, Release, LockInv, TypeOK, ReaperLocked
<1>4. CASE ReapFail
  BY <1>4 DEF ReapFail, Release, LockInv, TypeOK
<1>5. CASE Tick
  BY <1>5 DEF Tick
<1>6. CASE UNCHANGED vars
  BY <1>6 DEF vars
<1> QED
  BY <1>1, <1>2, <1>3, <1>4, <1>5, <1>6 DEF ReaperStep

(* A crash leaves no request with a lock.                                  *)
LEMMA CrashGood ==
  ASSUME LockInv, Crash
  PROVE  \A q \in Requests : Good(q)'
<1>1. \A q \in Requests : pc'[q] \notin Steps
  BY DEF Crash, LockInv, TypeOK, Steps, CreateSteps
<1> QED
  BY <1>1 DEF Good, Locked, Steps, CreateSteps, Holding

(* What the reaper has updated stays locked and non-terminal until its     *)
(* transaction ends.                                                       *)
LEMMA NextReaperLocked == LockInv /\ [Next]_vars => ReaperLocked'
<1> SUFFICES ASSUME LockInv, [Next]_vars PROVE ReaperLocked'
  OBVIOUS
<1> USE NamesAssumption DEF clock, table, locks, call, reaper, ReaperLocked
<1>1. ASSUME UNCHANGED <<reapDone, status>>,
             \A t \in Tunnels : rowLock[t] = Reaper => rowLock'[t] = Reaper
      PROVE  ReaperLocked'
  BY <1>1 DEF LockInv, TypeOK
<1>2. ASSUME NEW r \in Requests, NEW event, NEW to, WriteStatus(r, event, to) \/ UNCHANGED status,
             Commit(r), rowLock[tunnel[r]] = r
      PROVE  ReaperLocked'
  <2>1. \A t \in Tunnels : rowLock[t] = Reaper => status'[t] = status[t] /\ rowLock'[t] = Reaper
    BY <1>2 DEF WriteStatus, Commit, Release, LockInv, TypeOK
  <2> QED
    BY <1>2, <2>1 DEF Commit, LockInv, TypeOK
<1>3. ASSUME NEW r \in Requests, NEW answer, EndWithout(r, answer) PROVE ReaperLocked'
  BY <1>1, <1>3 DEF EndWithout, Release, LockInv, TypeOK
<1>4. ASSUME NEW r \in Requests,
             CreateTunnel(r) \/ NewProxy(r) \/ CloseProxy(r) \/ Delete(r)
      PROVE  ReaperLocked'
  BY <1>1, <1>4 DEF CreateTunnel, NewProxy, CloseProxy, Delete
<1>5. ASSUME NEW r \in Requests, RequestStep(r) \/ Fail(r) PROVE ReaperLocked'
  <2>1. CASE TakeQuotaLock(r) \/ PickCandidate(r)
    BY <1>1, <2>1 DEF TakeQuotaLock, PickCandidate
  <2>2. CASE CheckQuota(r) \/ LookupRuntimeToken(r) \/ ReadStatus(r) \/ NotFound(r) \/ CheckClock(r) \/ Fail(r)
    BY <1>1, <1>3, <2>2 DEF CheckQuota, LookupRuntimeToken, ReadStatus,
       NotFound, CheckClock, Fail
  <2>3. CASE InsertCandidate(r) \/ LockRow(r)
    BY <1>1, <1>3, <2>3 DEF InsertCandidate, LockRow, LockInv, TypeOK
  <2>4. CASE CommitCreate(r) \/ ApplyTransition(r) \/ ApplyRevoke(r)
    <3>1. rowLock[tunnel[r]] = r
      BY <2>4 DEF CommitCreate, ApplyTransition, ApplyRevoke, LockInv, Locked, Holding
    <3> QED
      BY <1>2, <1>3, <2>4, <3>1 DEF CommitCreate, ApplyTransition, ApplyRevoke
  <2> QED
    BY <1>5, <2>1, <2>2, <2>3, <2>4 DEF RequestStep
<1>6. CASE ReapBegin \/ ReapScan \/ Tick \/ UNCHANGED vars
  BY <1>1, <1>6 DEF ReapBegin, ReapScan, Tick, vars
<1>7. ASSUME NEW t \in Tunnels, ReapRow(t) PROVE ReaperLocked'
  BY <1>7 DEF ReapRow, LockInv, TypeOK
<1>8. CASE ReapCommit \/ ReapFail \/ Crash
  BY <1>8 DEF ReapCommit, ReapFail, Crash, ReaperReset
<1> QED
  BY <1>4, <1>5, <1>6, <1>7, <1>8 DEF Next, ReaperStep

(* The lock discipline is inductive.                                       *)
LEMMA NextLockInv == LockInv /\ [Next]_vars => LockInv'
<1> SUFFICES ASSUME LockInv, [Next]_vars PROVE LockInv'
  OBVIOUS
<1>1. TypeOK'
  BY NextTypeOK DEF LockInv
<1>2. \A q \in Requests : Good(q)'
  BY RequestGood, ReaperGood, CrashGood DEF Next
<1>3. ReaperLocked'
  BY NextReaperLocked
<1> QED
  BY <1>1, <1>2, <1>3 DEF LockInv, Good, Addressed

(* No transaction holds a lock before the first call.                      *)
LEMMA InitLockInv == Init => LockInv
  BY InitTypeOK DEF Init, LockInv, Addressed, Locked, ReaperLocked, Steps,
     CreateSteps, Holding

(* Every variable keeps its type, and every transaction its locks.         *)
THEOREM LockDiscipline == Spec => []LockInv
  BY InitLockInv, NextLockInv, PTL DEF Spec

(* A terminal status is never written again: whoever writes a status holds *)
(* the row, and has seen under that lock that it is not terminal.          *)
LEMMA NextTerminal == LockInv /\ [Next]_vars => TerminalStep
<1> SUFFICES ASSUME LockInv, [Next]_vars, NEW t \in Tunnels, status[t] \in Terminal
             PROVE  status'[t] = status[t]
  BY DEF TerminalStep
<1> USE DEF clock, table, locks, call, reaper
<1>1. ASSUME NEW r \in Requests, CommitCreate(r) PROVE status'[t] = status[t]
  BY <1>1 DEF CommitCreate, WriteStatus, LockInv, TypeOK, Locked, Terminal
<1>2. ASSUME NEW r \in Requests, ApplyTransition(r) PROVE status'[t] = status[t]
  <2>1. \A event, to : <<status[t], event, to>> \notin validTransitions
    BY DEF validTransitions, NonTerminal, Terminal
  <2> QED
    BY <1>2, <2>1 DEF ApplyTransition, EndWithout, WriteStatus, LockInv, TypeOK
<1>3. ASSUME NEW r \in Requests, ApplyRevoke(r) PROVE status'[t] = status[t]
  BY <1>3 DEF ApplyRevoke, WriteStatus, LockInv, TypeOK, Locked, Terminal, NonTerminal
<1>4. CASE ReapCommit
  BY <1>4 DEF ReapCommit, LockInv, TypeOK, ReaperLocked, Terminal, NonTerminal
<1>5. ASSUME NEW r \in Requests, CreateTunnel(r) \/ NewProxy(r) \/ CloseProxy(r) \/ Delete(r)
      PROVE  UNCHANGED status
  BY <1>5 DEF CreateTunnel, NewProxy, CloseProxy, Delete
<1>6. ASSUME NEW r \in Requests,
             \/ TakeQuotaLock(r) \/ CheckQuota(r) \/ PickCandidate(r) \/ InsertCandidate(r)
             \/ LookupRuntimeToken(r) \/ ReadStatus(r) \/ LockRow(r) \/ NotFound(r)
             \/ CheckClock(r) \/ Fail(r)
      PROVE  UNCHANGED status
  BY <1>6 DEF TakeQuotaLock, CheckQuota, PickCandidate, InsertCandidate,
     LookupRuntimeToken,
              ReadStatus, LockRow, NotFound, CheckClock, Fail, EndWithout
<1>7. ASSUME \/ ReapBegin \/ ReapScan \/ (\E x \in Tunnels : ReapRow(x))
             \/ ReapFail \/ Crash \/ Tick \/ UNCHANGED vars
      PROVE  UNCHANGED status
  BY <1>7 DEF ReapBegin, ReapScan, ReapRow, ReapFail, Crash, Tick, vars
<1> QED
  BY <1>1, <1>2, <1>3, <1>4, <1>5, <1>6, <1>7 DEF Next, RequestStep, ReaperStep

(* A status that is expired or revoked never changes again: guardTransition*)
(* refuses it and every writer holds the row lock (lifecycle.go:158-210,   *)
(* 300-345).                                                               *)
THEOREM TerminalIsAbsorbing == Spec => TerminalAbsorbing
  BY InitLockInv, NextLockInv, NextTerminal, PTL DEF Spec, TerminalAbsorbing

(* Every variable keeps its type, whatever the order of the statements.    *)
THEOREM TypeCorrect == Spec => []TypeOK
  BY LockDiscipline, PTL DEF LockInv

-----------------------------------------------------------------------------
(* The quota. A create that has counted holds the advisory lock of its     *)
(* user, so nobody adds a tunnel of that user before it commits.           *)
Counted(q) ==
    pc[q] \in {"candidate", "insert", "commitCreate"} =>
        Cardinality(Consuming(user[q])) < MaxConcurrent

QuotaInv == LockInv /\ QuotaRespected /\ \A q \in Requests : Counted(q)

(* No tunnel comes back: only a create adds a tunnel that counts.          *)
LEMMA NoNewConsumer ==
  ASSUME LockInv, [Next]_vars, ~ \E r \in Requests : CommitCreate(r)
  PROVE  UNCHANGED owner /\ \A t \in Tunnels : status'[t] \in NonTerminal => status[t] \in NonTerminal
<1> USE DEF clock, table, locks, call, reaper
<1>1. ASSUME NEW r \in Requests, ApplyTransition(r)
      PROVE  UNCHANGED owner /\ \A t \in Tunnels : status'[t] \in NonTerminal => status[t] \in NonTerminal
  <2>1. \A event, to : <<seen[r], event, to>> \in validTransitions => seen[r] \in NonTerminal
    BY DEF validTransitions, NonTerminal
  <2> QED
    BY <1>1, <2>1 DEF ApplyTransition, EndWithout, WriteStatus, LockInv, TypeOK
<1>2. ASSUME NEW r \in Requests, ApplyRevoke(r)
      PROVE  UNCHANGED owner /\ \A t \in Tunnels : status'[t] \in NonTerminal => status[t] \in NonTerminal
  BY <1>2 DEF ApplyRevoke, WriteStatus, LockInv, TypeOK, NonTerminal
<1>3. CASE ReapCommit
  BY <1>3 DEF ReapCommit, LockInv, TypeOK, NonTerminal
<1>4. ASSUME NEW r \in Requests, CreateTunnel(r) \/ NewProxy(r) \/ CloseProxy(r) \/ Delete(r)
      PROVE  UNCHANGED <<status, owner>>
  BY <1>4 DEF CreateTunnel, NewProxy, CloseProxy, Delete
<1>5. ASSUME NEW r \in Requests,
             \/ TakeQuotaLock(r) \/ CheckQuota(r) \/ PickCandidate(r) \/ InsertCandidate(r)
             \/ LookupRuntimeToken(r) \/ ReadStatus(r) \/ LockRow(r) \/ NotFound(r)
             \/ CheckClock(r) \/ Fail(r)
      PROVE  UNCHANGED <<status, owner>>
  BY <1>5 DEF TakeQuotaLock, CheckQuota, PickCandidate, InsertCandidate,
     LookupRuntimeToken,
              ReadStatus, LockRow, NotFound, CheckClock, Fail, EndWithout
<1>6. ASSUME \/ ReapBegin \/ ReapScan \/ (\E x \in Tunnels : ReapRow(x))
             \/ ReapFail \/ Crash \/ Tick \/ UNCHANGED vars
      PROVE  UNCHANGED <<status, owner>>
  BY <1>6 DEF ReapBegin, ReapScan, ReapRow, ReapFail, Crash, Tick, vars
<1> QED
  BY <1>1, <1>2, <1>3, <1>4, <1>5, <1>6 DEF Next, RequestStep, ReaperStep

(* The tunnels of a user are finitely many.                                *)
LEMMA ConsumingFinite ==
  ASSUME NEW u
  PROVE  IsFiniteSet(Consuming(u)) /\ Cardinality(Consuming(u)) \in Nat
<1>1. Consuming(u) \subseteq Tunnels
  BY DEF Consuming
<1> QED
  BY <1>1, SetsAssumption, FS_Subset, FS_CardinalityType

(* The count of a user does not grow while no create of theirs commits.    *)
LEMMA CountShrinks ==
  ASSUME NEW u, Consuming(u)' \subseteq Consuming(u)
  PROVE  Cardinality(Consuming(u))' <= Cardinality(Consuming(u)) /\ Cardinality(Consuming(u))' \in Nat
<1>1. Cardinality(Consuming(u)') <= Cardinality(Consuming(u))
  BY ConsumingFinite, FS_Subset
<1>2. IsFiniteSet(Consuming(u)')
  BY ConsumingFinite, FS_Subset
<1> QED
  BY <1>1, <1>2, FS_CardinalityType

(* A create adds one tunnel, to the count of its own user only.            *)
LEMMA CreateCounts ==
  ASSUME LockInv, NEW r \in Requests, CommitCreate(r)
  PROVE  /\ \A u \in Users \ {user[r]} : Consuming(u)' \subseteq Consuming(u)
         /\ Cardinality(Consuming(user[r])') = Cardinality(Consuming(user[r])) + 1
<1>1. /\ tunnel[r] \in Tunnels
      /\ status[tunnel[r]] = "none"
      /\ user[r] \in Users
  BY DEF CommitCreate, LockInv, Addressed, Locked, Steps, CreateSteps
<1>2. status' = [status EXCEPT ![tunnel[r]] = "reserved"] /\ owner' = [owner EXCEPT ![tunnel[r]] = user[r]]
  BY DEF CommitCreate, WriteStatus
<1>3. ASSUME NEW u \in Users \ {user[r]} PROVE Consuming(u)' \subseteq Consuming(u)
  BY <1>1, <1>2 DEF Consuming, LockInv, TypeOK
<1>4. Consuming(user[r])' = Consuming(user[r]) \union {tunnel[r]}
  <2>1. user' = user
    BY DEF CommitCreate, Commit, call
  <2> QED
    BY <1>1, <1>2, <2>1 DEF Consuming, LockInv, TypeOK, NonTerminal
<1>5. tunnel[r] \notin Consuming(user[r])
  BY <1>1 DEF Consuming, NonTerminal
<1> QED
  BY <1>3, <1>4, <1>5, ConsumingFinite, FS_AddElement

(* Only a successful count lets a create go on towards its commit.         *)
LEMMA CountedEntry ==
  ASSUME LockInv, [Next]_vars, NEW q \in Requests, pc'[q] \in {"candidate", "insert", "commitCreate"}
  PROVE  /\ user'[q] = user[q]
         /\ \/ pc[q] \in {"candidate", "insert", "commitCreate"}
            \/ Cardinality(Consuming(user[q])) < MaxConcurrent
<1> USE DEF clock, table, locks, call, reaper, LockInv, TypeOK
<1>1. ASSUME NEW r \in Requests, NEW answer, Answer(r, answer), UNCHANGED call
      PROVE  user'[q] = user[q] /\ pc[q] \in {"candidate", "insert", "commitCreate"}
  BY <1>1 DEF Answer, Goto
<1>2. ASSUME NEW r \in Requests, CreateTunnel(r) \/ NewProxy(r) \/ CloseProxy(r) \/ Delete(r)
      PROVE  user'[q] = user[q] /\ pc[q] \in {"candidate", "insert", "commitCreate"}
  <2>1. pc'[r] \notin {"candidate", "insert", "commitCreate"}
    BY <1>2 DEF CreateTunnel, NewProxy, CloseProxy, Delete, Arrive, Goto
  <2> QED
    BY <1>2, <2>1 DEF CreateTunnel, NewProxy, CloseProxy, Delete, Arrive, Goto
<1>3. ASSUME NEW r \in Requests,
             \/ TakeQuotaLock(r) \/ PickCandidate(r) \/ LockRow(r)
      PROVE  user'[q] = user[q] /\ pc[q] \in {"candidate", "insert", "commitCreate"}
  BY <1>3 DEF TakeQuotaLock, PickCandidate, LockRow, Goto
<1>4. ASSUME NEW r \in Requests, InsertCandidate(r)
      PROVE  user'[q] = user[q] /\ pc[q] \in {"candidate", "insert", "commitCreate"}
  BY <1>1, <1>4 DEF InsertCandidate, EndWithout, Goto
<1>5. ASSUME NEW r \in Requests,
             \/ LookupRuntimeToken(r) \/ ReadStatus(r) \/ NotFound(r) \/ CheckClock(r) \/ Fail(r)
      PROVE  user'[q] = user[q] /\ pc[q] \in {"candidate", "insert", "commitCreate"}
  BY <1>1, <1>5 DEF LookupRuntimeToken, ReadStatus, NotFound, CheckClock, Fail,
     EndWithout, Goto
<1>6. ASSUME NEW r \in Requests, CommitCreate(r) \/ ApplyTransition(r) \/ ApplyRevoke(r)
      PROVE  user'[q] = user[q] /\ pc[q] \in {"candidate", "insert", "commitCreate"}
  <2>1. CASE Commit(r)
    BY <1>1, <2>1 DEF Commit
  <2> QED
    BY <1>1, <1>6, <2>1 DEF CommitCreate, ApplyTransition, ApplyRevoke, EndWithout
<1>7. ASSUME NEW r \in Requests, CheckQuota(r)
      PROVE  /\ user'[q] = user[q]
             /\ \/ pc[q] \in {"candidate", "insert", "commitCreate"}
                \/ Cardinality(Consuming(user[q])) < MaxConcurrent
  BY <1>1, <1>7 DEF CheckQuota, EndWithout, Goto
<1>8. CASE Crash
  BY <1>8 DEF Crash, Steps, CreateSteps
<1>9. ASSUME \/ ReapBegin \/ ReapScan \/ (\E x \in Tunnels : ReapRow(x)) \/ ReapCommit
             \/ ReapFail \/ Tick \/ UNCHANGED vars
      PROVE  user'[q] = user[q] /\ pc[q] \in {"candidate", "insert", "commitCreate"}
  BY <1>9 DEF ReapBegin, ReapScan, ReapRow, ReapCommit, ReapFail, Tick, vars
<1> QED
  BY <1>2, <1>3, <1>4, <1>5, <1>6, <1>7, <1>8, <1>9 DEF Next, RequestStep, ReaperStep

(* The quota invariant is inductive.                                       *)
LEMMA NextQuotaInv == QuotaInv /\ [Next]_vars => QuotaInv'
<1> SUFFICES ASSUME QuotaInv, [Next]_vars PROVE QuotaInv'
  OBVIOUS
<1>1. LockInv /\ LockInv'
  BY NextLockInv DEF QuotaInv
<1>2. CASE \E r \in Requests : CommitCreate(r)
  <2>1. PICK r \in Requests : CommitCreate(r)
    BY <1>2
  <2>2. /\ user[r] \in Users
        /\ pc[r] = "commitCreate"
        /\ userLock[user[r]] = r
        /\ user' = user
        /\ Cardinality(Consuming(user[r])) < MaxConcurrent
    BY <1>1, <2>1
    DEF CommitCreate, Commit, call, LockInv, Addressed, Locked, Steps, CreateSteps, QuotaInv, Counted
  <2>3. ASSUME NEW u \in Users \ {user[r]}
        PROVE  Cardinality(Consuming(u)') <= Cardinality(Consuming(u)) /\ Cardinality(Consuming(u)') \in Nat
    BY <1>1, <2>1, CreateCounts, CountShrinks
  <2>4. Cardinality(Consuming(user[r])') <= MaxConcurrent
    BY <1>1, <2>1, <2>2, CreateCounts, ConsumingFinite, BoundsAssumption
  <2>5. QuotaRespected'
    <3> SUFFICES ASSUME NEW u \in Users PROVE Cardinality(Consuming(u)') <= MaxConcurrent
      BY DEF QuotaRespected
    <3>1. CASE u = user[r]
      BY <2>2, <2>4, <3>1
    <3>2. CASE u # user[r]
      BY <2>3, <3>2, ConsumingFinite, BoundsAssumption DEF QuotaInv, QuotaRespected
    <3> QED
      BY <3>1, <3>2
  <2>6. ASSUME NEW q \in Requests, pc'[q] \in {"candidate", "insert", "commitCreate"}
        PROVE  Cardinality(Consuming(user[q])') < MaxConcurrent
    <3>1. q # r /\ pc[q] = pc'[q]
      BY <1>1, <2>1, <2>6 DEF CommitCreate, Commit, Answer, Goto, LockInv, TypeOK
    <3>2. user[q] \in Users /\ userLock[user[q]] = q
      BY <1>1, <2>6, <3>1 DEF LockInv, Addressed, Locked, CreateSteps
    <3>3. Cardinality(Consuming(user[q])) < MaxConcurrent
      BY <2>6, <3>1 DEF QuotaInv, Counted
    <3>4. user[q] # user[r]
      BY <2>2, <3>1, <3>2
    <3> QED
      BY <2>2, <2>3, <3>2, <3>3, <3>4, ConsumingFinite, BoundsAssumption
  <2> QED
    BY <1>1, <2>5, <2>6, <2>2 DEF QuotaInv, Counted
<1>3. CASE ~ \E r \in Requests : CommitCreate(r)
  <2>1. ASSUME NEW u PROVE Consuming(u)' \subseteq Consuming(u)
    BY <1>1, <1>3, NoNewConsumer DEF Consuming
  <2>2. ASSUME NEW u
        PROVE  Cardinality(Consuming(u)') <= Cardinality(Consuming(u)) /\ Cardinality(Consuming(u)') \in Nat
    BY <2>1, CountShrinks
  <2>3. QuotaRespected'
    BY <2>2, ConsumingFinite, BoundsAssumption DEF QuotaInv, QuotaRespected
  <2>4. ASSUME NEW q \in Requests, pc'[q] \in {"candidate", "insert", "commitCreate"}
        PROVE  Cardinality(Consuming(user[q])') < MaxConcurrent
    <3>1. user'[q] = user[q] /\ Cardinality(Consuming(user[q])) < MaxConcurrent
      BY <1>1, <2>4, CountedEntry DEF QuotaInv, Counted
    <3>2. PICK u : u = user[q]
      OBVIOUS
    <3>3. Consuming(user[q])' = Consuming(u)'
      BY <3>1, <3>2 DEF Consuming
    <3>4. Cardinality(Consuming(u)') <= Cardinality(Consuming(u)) /\ Cardinality(Consuming(u)') \in Nat
      BY <2>2
    <3>5. Cardinality(Consuming(u)) < MaxConcurrent /\ Cardinality(Consuming(u)) \in Nat
      BY <3>1, <3>2, ConsumingFinite
    <3> QED
      BY <3>3, <3>4, <3>5, BoundsAssumption
  <2> QED
    BY <1>1, <2>3, <2>4 DEF QuotaInv, Counted
<1> QED
  BY <1>2, <1>3

(* Nobody has a tunnel yet.                                                *)
LEMMA InitQuotaInv == Init => QuotaInv
<1> SUFFICES ASSUME Init PROVE QuotaInv
  OBVIOUS
<1>1. \A u \in Users : Consuming(u) = {}
  BY DEF Init, Consuming, NonTerminal
<1>2. QuotaRespected
  BY <1>1, FS_EmptySet, BoundsAssumption DEF QuotaRespected
<1> QED
  BY <1>2, InitLockInv DEF QuotaInv, Counted, Init

(* No user is ever above the quota.                                        *)
THEOREM QuotaIsRespected == Spec => []QuotaRespected
<1>1. QuotaInv => QuotaRespected
  BY DEF QuotaInv
<1> QED
  BY <1>1, InitQuotaInv, NextQuotaInv, PTL DEF Spec

-----------------------------------------------------------------------------
(* Refinement: each transaction takes effect at its COMMIT, as one step of *)
(* the atomic lifecycle, and every other statement is a stutter.           *)
LEMMA NextImplements == QuotaInv /\ [Next]_vars => [Lifecycle!Next]_(Lifecycle!vars)
<1> SUFFICES ASSUME QuotaInv, [Next]_vars PROVE [Lifecycle!Next]_(Lifecycle!vars)
  OBVIOUS
<1> LockInv
  BY DEF QuotaInv
<1> USE DEF clock, table, locks, call, reaper, Lifecycle!vars
<1>1. ASSUME NEW r \in Requests, CommitCreate(r) PROVE Lifecycle!Next
  <2>1. tunnel[r] \in Tunnels /\ user[r] \in Users /\ status[tunnel[r]] = "none"
    BY <1>1 DEF CommitCreate, LockInv, Addressed, Locked, Steps, CreateSteps
  <2>2. Cardinality(Lifecycle!Consuming(user[r])) < MaxConcurrent
    <3>1. Lifecycle!Consuming(user[r]) = Consuming(user[r])
      BY DEF Consuming, Lifecycle!Consuming, NonTerminal, Lifecycle!NonTerminal
    <3>2. Cardinality(Consuming(user[r])) < MaxConcurrent
      BY <1>1 DEF CommitCreate, QuotaInv, Counted
    <3> QED
      BY <3>1, <3>2
  <2>3. Lifecycle!Create(tunnel[r], user[r])
    <3>1. \A S : Lifecycle!Cardinality(S) = Cardinality(S)
      BY DEF Lifecycle!Cardinality, Cardinality
    <3> QED
      BY <1>1, <2>1, <2>2, <3>1 DEF CommitCreate, WriteStatus, Lifecycle!Create
  <2> QED
    BY <2>1, <2>3 DEF Lifecycle!Next
<1>2. ASSUME NEW r \in Requests, ApplyTransition(r) PROVE [Lifecycle!Next]_(Lifecycle!vars)
  <2>1. tunnel[r] \in Tunnels
    BY <1>2 DEF ApplyTransition, LockInv, Addressed, Steps
  <2>2. CASE /\ status[tunnel[r]] = seen[r]
             /\ \E to \in Status :
                   /\ <<seen[r], EventOf(r), to>> \in validTransitions
                   /\ WriteStatus(r, EventOf(r), to)
             /\ UNCHANGED <<owner, expires, token>>
    <3>1. EventOf(r) \in {"NewProxy", "CloseProxy"}
      BY DEF EventOf
    <3>2. validTransitions = Lifecycle!validTransitions /\ Status = Lifecycle!Status
      BY DEF validTransitions, Lifecycle!validTransitions, Status, Lifecycle!Status,
             NonTerminal, Lifecycle!NonTerminal, Terminal, Lifecycle!Terminal
    <3>3. Lifecycle!Callback(tunnel[r], EventOf(r))
      BY <2>2, <3>2 DEF WriteStatus, Lifecycle!Callback
    <3> QED
      BY <2>1, <3>1, <3>3 DEF Lifecycle!Next
  <2> QED
    BY <1>2, <2>2 DEF ApplyTransition, EndWithout
<1>3. ASSUME NEW r \in Requests, ApplyRevoke(r) PROVE Lifecycle!Next
  <2>1. tunnel[r] \in Tunnels /\ seen[r] = status[tunnel[r]] /\ seen[r] # "none"
    BY <1>3 DEF ApplyRevoke, LockInv, Addressed, Locked, Steps
  <2>2. status' = [status EXCEPT ![tunnel[r]] = IF @ \in Lifecycle!NonTerminal THEN "revoked" ELSE @]
    BY <1>3, <2>1 DEF ApplyRevoke, WriteStatus, LockInv, TypeOK, NonTerminal,
       Lifecycle!NonTerminal
  <2>3. Lifecycle!Revoke(tunnel[r])
    BY <1>3, <2>1, <2>2 DEF ApplyRevoke, Lifecycle!Revoke
  <2> QED
    BY <2>1, <2>3 DEF Lifecycle!Next
<1>4. CASE ReapCommit
  <2>1. Lifecycle!Expire(reapDone)
    BY <1>4 DEF ReapCommit, Lifecycle!Expire, Lifecycle!NonTerminal,
       NonTerminal, LockInv, ReaperLocked
  <2>2. reapDone \in SUBSET Tunnels
    BY DEF LockInv, TypeOK
  <2> QED
    BY <2>1, <2>2 DEF Lifecycle!Next
<1>5. ASSUME NEW r \in Requests, CreateTunnel(r) \/ NewProxy(r) \/ CloseProxy(r) \/ Delete(r)
      PROVE  UNCHANGED <<status, owner, token>>
  BY <1>5 DEF CreateTunnel, NewProxy, CloseProxy, Delete
<1>6. ASSUME NEW r \in Requests,
             \/ TakeQuotaLock(r) \/ CheckQuota(r) \/ PickCandidate(r) \/ InsertCandidate(r)
             \/ LookupRuntimeToken(r) \/ ReadStatus(r) \/ LockRow(r) \/ NotFound(r)
             \/ CheckClock(r) \/ Fail(r)
      PROVE  UNCHANGED <<status, owner, token>>
  BY <1>6 DEF TakeQuotaLock, CheckQuota, PickCandidate, InsertCandidate,
     LookupRuntimeToken,
              ReadStatus, LockRow, NotFound, CheckClock, Fail, EndWithout
<1>7. ASSUME \/ ReapBegin \/ ReapScan \/ (\E x \in Tunnels : ReapRow(x))
             \/ ReapFail \/ Crash \/ Tick \/ UNCHANGED vars
      PROVE  UNCHANGED <<status, owner, token>>
  BY <1>7 DEF ReapBegin, ReapScan, ReapRow, ReapFail, Crash, Tick, vars
<1> QED
  BY <1>1, <1>2, <1>3, <1>4, <1>5, <1>6, <1>7 DEF Next, RequestStep, ReaperStep

(* The transactions of the server implement the atomic lifecycle.          *)
THEOREM StoreImplementsLifecycle == Spec => ImplementsLifecycle
<1>1. Init => Lifecycle!Init
  BY DEF Init, Lifecycle!Init
<1> QED
  BY <1>1, InitQuotaInv, NextQuotaInv, NextImplements, PTL DEF Spec,
     ImplementsLifecycle, Lifecycle!Spec

-----------------------------------------------------------------------------
(* What each step does to a row: nothing, create it, take it along a valid *)
(* transition with its event, or kill the credential of a terminal one.    *)
SameRow(t) ==
    /\ status'[t] = status[t] /\ owner'[t] = owner[t] /\ expires'[t] = expires[t]
    /\ token'[t] = token[t] /\ trail'[t] = trail[t]

NewRow(r, t) ==
    /\ tunnel[r] = t /\ status[t] = "none"
    /\ status'[t] = "reserved" /\ owner'[t] = user[r] /\ token'[t] = "live"
    /\ trail'[t] = Append(trail[t], <<"created", "reserved">>)

MovedRow(t, event, to) ==
    /\ <<status[t], event, to>> \in validTransitions
    /\ status'[t] = to /\ owner'[t] = owner[t] /\ expires'[t] = expires[t]
    /\ token'[t] = IF event = "Revoke" /\ token[t] = "live" THEN "revoked" ELSE token[t]
    /\ trail'[t] = Append(trail[t], <<event, to>>)

DeadRow(t) ==
    /\ status[t] \in Terminal
    /\ status'[t] = status[t] /\ owner'[t] = owner[t] /\ expires'[t] = expires[t]
    /\ token'[t] = IF token[t] = "live" THEN "revoked" ELSE token[t]
    /\ trail'[t] = trail[t]

(* What a step does to one tunnel: nothing, its insert, one transition with*)
(* its event, or the revocation of the credential of a tunnel already over.*)
LEMMA RowSteps ==
  ASSUME LockInv, [Next]_vars, NEW t \in Tunnels
  PROVE  \/ SameRow(t)
         \/ \E r \in Requests : CommitCreate(r) /\ NewRow(r, t)
         \/ \E event \in Events, to \in Status : MovedRow(t, event, to)
         \/ DeadRow(t)
<1> DEFINE Goal == \/ SameRow(t)
                   \/ \E r \in Requests : CommitCreate(r) /\ NewRow(r, t)
                   \/ \E event \in Events, to \in Status : MovedRow(t, event, to)
                   \/ DeadRow(t)
<1> USE DEF clock, table, locks, call, reaper
<1>0. ASSUME UNCHANGED table PROVE Goal
  BY <1>0 DEF SameRow
<1>1. ASSUME NEW r \in Requests, CommitCreate(r) PROVE Goal
  <2>1. CASE tunnel[r] = t
    <3>1. status[t] = "none"
      BY <1>1, <2>1 DEF CommitCreate, LockInv, Locked
    <3>2. NewRow(r, t)
      BY <1>1, <2>1, <3>1 DEF CommitCreate, WriteStatus, NewRow, LockInv, TypeOK
    <3> QED
      BY <1>1, <3>2
  <2>2. CASE tunnel[r] # t
    BY <1>1, <2>2 DEF CommitCreate, WriteStatus, SameRow, LockInv, TypeOK
  <2> QED
    BY <2>1, <2>2
<1>2. ASSUME NEW r \in Requests, ApplyTransition(r) PROVE Goal
  <2>1. CASE EndWithout(r, IF op[r] = "closeproxy" THEN "ok" ELSE "denied")
    BY <1>0, <2>1 DEF EndWithout
  <2>2. ASSUME NEW to \in Status, status[tunnel[r]] = seen[r],
               <<seen[r], EventOf(r), to>> \in validTransitions,
               WriteStatus(r, EventOf(r), to), UNCHANGED <<owner, expires, token>>
        PROVE  Goal
    <3>1. EventOf(r) \in Events /\ EventOf(r) # "Revoke"
      BY DEF EventOf, Events
    <3>2. CASE tunnel[r] = t
      <4>1. MovedRow(t, EventOf(r), to)
        BY <2>2, <3>1, <3>2 DEF WriteStatus, MovedRow, LockInv, TypeOK
      <4> QED
        BY <3>1, <4>1
    <3>3. CASE tunnel[r] # t
      BY <2>2, <3>3 DEF WriteStatus, SameRow, LockInv, TypeOK
    <3> QED
      BY <3>2, <3>3
  <2> QED
    BY <1>2, <2>1, <2>2 DEF ApplyTransition
<1>3. ASSUME NEW r \in Requests, ApplyRevoke(r) PROVE Goal
  <2>1. CASE tunnel[r] # t
    BY <1>3, <2>1 DEF ApplyRevoke, WriteStatus, SameRow, LockInv, TypeOK
  <2>2. CASE tunnel[r] = t
    <3>1. seen[r] = status[t] /\ status[t] \in Status
      BY <1>3, <2>2 DEF ApplyRevoke, LockInv, Locked, TypeOK
    <3>2. CASE seen[r] \in NonTerminal
      <4>1. <<status[t], "Revoke", "revoked">> \in validTransitions
        BY <3>1, <3>2 DEF validTransitions
      <4>2. "Revoke" \in Events /\ "revoked" \in Status
        BY DEF Events, Status, Terminal
      <4>3. MovedRow(t, "Revoke", "revoked")
        BY <1>3, <2>2, <3>2, <4>1 DEF ApplyRevoke, WriteStatus, MovedRow,
           LockInv, TypeOK
      <4> QED
        BY <4>2, <4>3
    <3>3. CASE seen[r] \notin NonTerminal
      BY <1>3, <2>2, <3>1, <3>3 DEF ApplyRevoke, DeadRow, LockInv, TypeOK, Status
    <3> QED
      BY <3>2, <3>3
  <2> QED
    BY <2>1, <2>2
<1>4. ASSUME ReapCommit PROVE Goal
  <2>1. CASE t \in reapDone
    <3>1. <<status[t], "Expire", "expired">> \in validTransitions
      BY <2>1 DEF LockInv, ReaperLocked, validTransitions
    <3>2. "Expire" \in Events /\ "expired" \in Status
      BY DEF Events, Status, Terminal
    <3>3. MovedRow(t, "Expire", "expired")
      BY <1>4, <2>1, <3>1 DEF ReapCommit, MovedRow
    <3> QED
      BY <3>2, <3>3
  <2>2. CASE t \notin reapDone
    BY <1>4, <2>2 DEF ReapCommit, SameRow
  <2> QED
    BY <2>1, <2>2
<1>5. ASSUME NEW r \in Requests, CreateTunnel(r) \/ NewProxy(r) \/ CloseProxy(r) \/ Delete(r)
      PROVE  Goal
  BY <1>0, <1>5 DEF CreateTunnel, NewProxy, CloseProxy, Delete
<1>6. ASSUME NEW r \in Requests,
             \/ TakeQuotaLock(r) \/ CheckQuota(r) \/ PickCandidate(r) \/ InsertCandidate(r)
             \/ LookupRuntimeToken(r) \/ ReadStatus(r) \/ LockRow(r) \/ NotFound(r)
             \/ CheckClock(r) \/ Fail(r)
      PROVE  Goal
  BY <1>0, <1>6 DEF TakeQuotaLock, CheckQuota, PickCandidate, InsertCandidate,
     LookupRuntimeToken,
              ReadStatus, LockRow, NotFound, CheckClock, Fail, EndWithout
<1>7. ASSUME \/ ReapBegin \/ ReapScan \/ (\E x \in Tunnels : ReapRow(x))
             \/ ReapFail \/ Crash \/ Tick \/ UNCHANGED vars
      PROVE  Goal
  BY <1>0, <1>7 DEF ReapBegin, ReapScan, ReapRow, ReapFail, Crash, Tick, vars
<1> HIDE DEF Goal
<1>8. Goal
  BY <1>1, <1>2, <1>3, <1>4, <1>5, <1>6, <1>7 DEF Next, RequestStep, ReaperStep
<1> QED
  BY <1>8 DEF Goal

-----------------------------------------------------------------------------
(* The trail of a row, and its credential.                                 *)

(* One more event along the table of transitions keeps the trail a path.   *)
LEMMA TrailGrows ==
  ASSUME TypeOK, NEW t \in Tunnels, NEW event \in Events, NEW to \in Status,
         MovedRow(t, event, to), TrailMatches(t)
  PROVE  TrailMatches(t)'
<1>1. trail[t] \in Seq(Events \X Status) /\ <<event, to>> \in Events \X Status
  BY DEF TypeOK, Events
<1> DEFINE old == trail[t]
           n == Len(old)
<1>2. status[t] \in NonTerminal /\ to # "none"
  BY DEF MovedRow, validTransitions, Status, NonTerminal, Terminal
<1>3. /\ old # <<>> /\ old[1] = <<"created", "reserved">> /\ old[n][2] = status[t]
      /\ \A i \in 1..n - 1 : <<old[i][2], old[i + 1][1], old[i + 1][2]>> \in validTransitions
  BY <1>2 DEF TrailMatches, NonTerminal
<1>4. /\ trail'[t] = Append(old, <<event, to>>) /\ status'[t] = to
      /\ <<status[t], event, to>> \in validTransitions
  BY DEF MovedRow
<1> DEFINE new == Append(old, <<event, to>>)
<1>5. n \in Nat /\ n >= 1 /\ Len(new) = n + 1 /\ new # <<>>
  BY <1>1, <1>3
<1>6. (\A i \in 1..n : new[i] = old[i]) /\ new[n + 1] = <<event, to>>
  BY <1>1
<1> HIDE DEF new, old, n
<1>7. ASSUME NEW i \in 1..Len(new) - 1
      PROVE  <<new[i][2], new[i + 1][1], new[i + 1][2]>> \in validTransitions
  <2>1. CASE i = n
    BY <1>3, <1>4, <1>5, <1>6, <2>1
  <2>2. CASE i # n
    <3>1. i \in 1..n - 1 /\ i \in 1..n /\ i + 1 \in 1..n
      BY <1>5, <2>2
    <3> QED
      BY <1>3, <1>6, <3>1
  <2> QED
    BY <2>1, <2>2
<1>8. new[1] = <<"created", "reserved">> /\ new[Len(new)][2] = to
  BY <1>3, <1>5, <1>6
<1> QED
  BY <1>2, <1>4, <1>5, <1>7, <1>8 DEF TrailMatches, new

(* The insert and its first event are one transaction                      *)
(* (lifecycle.go:107-141).                                                 *)
LEMMA TrailBegins ==
  ASSUME TypeOK, NEW t \in Tunnels, NEW r \in Requests, NewRow(r, t), TrailMatches(t)
  PROVE  TrailMatches(t)'
<1>1. trail'[t] = Append(<<>>, <<"created", "reserved">>) /\ status'[t] = "reserved"
  BY DEF NewRow, TrailMatches
<1>2. trail'[t] = << <<"created", "reserved">> >>
  BY <1>1
<1> QED
  BY <1>1, <1>2 DEF TrailMatches

(* A row has a credential, which is dead when the row is revoked.          *)
TokenInv ==
    \A t \in Tunnels :
        /\ status[t] # "none" => token[t] \in {"live", "revoked"}
        /\ status[t] = "revoked" => token[t] = "revoked"

HistoryInv == TrailIsTheHistory /\ TokenInv

(* No tunnel has a history yet.                                            *)
LEMMA InitHistoryInv == Init => HistoryInv
  BY DEF Init, HistoryInv, TrailIsTheHistory, TrailMatches, TokenInv

(* Every step that changes a status appends the event that explains it.    *)
LEMMA NextHistoryInv == LockInv /\ HistoryInv /\ [Next]_vars => HistoryInv'
<1> SUFFICES ASSUME LockInv, HistoryInv, [Next]_vars, NEW t \in Tunnels
             PROVE  /\ TrailMatches(t)'
                    /\ status'[t] # "none" => token'[t] \in {"live", "revoked"}
                    /\ status'[t] = "revoked" => token'[t] = "revoked"
  BY DEF HistoryInv, TrailIsTheHistory, TokenInv
<1>1. TypeOK /\ TrailMatches(t)
      /\ (status[t] # "none" => token[t] \in {"live", "revoked"})
      /\ (status[t] = "revoked" => token[t] = "revoked")
  BY DEF LockInv, HistoryInv, TrailIsTheHistory, TokenInv
<1>2. CASE SameRow(t) \/ DeadRow(t)
  <2>1. TrailMatches(t)'
    BY <1>1, <1>2 DEF SameRow, DeadRow, TrailMatches
  <2> QED
    BY <1>1, <1>2, <2>1 DEF SameRow, DeadRow, Terminal
<1>3. ASSUME NEW r \in Requests, NewRow(r, t)
      PROVE  /\ TrailMatches(t)'
             /\ status'[t] # "none" => token'[t] \in {"live", "revoked"}
             /\ status'[t] = "revoked" => token'[t] = "revoked"
  BY <1>1, <1>3, TrailBegins DEF NewRow
<1>4. ASSUME NEW event \in Events, NEW to \in Status, MovedRow(t, event, to)
      PROVE  /\ TrailMatches(t)'
             /\ status'[t] # "none" => token'[t] \in {"live", "revoked"}
             /\ status'[t] = "revoked" => token'[t] = "revoked"
  <2>1. status[t] \in NonTerminal /\ (to = "revoked" => event = "Revoke") /\ status'[t] = to
    <3>1. <<status[t], event, to>> \in validTransitions /\ status'[t] = to
      BY <1>4 DEF MovedRow
    <3>2. \A from, e, x : <<from, e, x>> \in validTransitions =>
             from \in NonTerminal /\ (x = "revoked" => e = "Revoke")
      BY DEF validTransitions, NonTerminal
    <3> QED
      BY <3>1, <3>2
  <2>2. token'[t] = IF event = "Revoke" /\ token[t] = "live" THEN "revoked" ELSE token[t]
    BY <1>4 DEF MovedRow
  <2> QED
    BY <1>1, <1>4, <2>1, <2>2, TrailGrows DEF NonTerminal
<1> QED
  BY <1>2, <1>3, <1>4, RowSteps

(* The events of every tunnel are a path of validTransitions from its      *)
(* creation to its status (lifecycle.go, insertEvent).                     *)
THEOREM TrailIsComplete == Spec => []TrailIsTheHistory
<1>1. LockInv /\ HistoryInv /\ [Next]_vars => (LockInv /\ HistoryInv)'
  BY NextLockInv, NextHistoryInv
<1>2. HistoryInv => TrailIsTheHistory
  BY DEF HistoryInv
<1> QED
  BY <1>1, <1>2, InitLockInv, InitHistoryInv, PTL DEF Spec

-----------------------------------------------------------------------------
(* What callers were told: an answer given stays true.                     *)

Accepted(q) == reply[q] \in {"ok", "unknown"}

CallSame(q) ==
    /\ pc'[q] = pc[q] /\ op'[q] = op[q] /\ user'[q] = user[q] /\ tunnel'[q] = tunnel[q]
    /\ stamp'[q] = stamp[q] /\ seen'[q] = seen[q] /\ reply'[q] = reply[q] /\ tries'[q] = tries[q]

(* A crash of the server, as q sees it.                                    *)
Crashed(q) ==
    /\ pc[q] \in Steps /\ pc'[q] = "done" /\ reply'[q] = "error"
    /\ op'[q] = op[q] /\ stamp'[q] = stamp[q]

CallStep(q) ==
    \/ CreateTunnel(q) \/ NewProxy(q) \/ CloseProxy(q) \/ Delete(q)
    \/ RequestStep(q) \/ Fail(q)

(* A step is one of the request q, or q does not notice it, or it dies.    *)
LEMMA StepsOfOne ==
  ASSUME TypeOK, [Next]_vars, NEW q \in Requests
  PROVE  CallSame(q) \/ Crashed(q) \/ CallStep(q)
<1> DEFINE Goal == CallSame(q) \/ Crashed(q) \/ CallStep(q)
<1> USE DEF call
<1>1. ASSUME NEW r \in Requests, CreateTunnel(r) PROVE Goal
  <2>1. CASE r = q
    BY <1>1, <2>1 DEF CallStep
  <2>2. CASE r # q
    BY <1>1, <2>2 DEF CallSame, TypeOK, CreateTunnel, Goto
  <2> QED
    BY <2>1, <2>2
<1>2. ASSUME NEW r \in Requests, NewProxy(r) PROVE Goal
  <2>1. CASE r = q
    BY <1>2, <2>1 DEF CallStep
  <2>2. CASE r # q
    BY <1>2, <2>2 DEF CallSame, TypeOK, NewProxy, Arrive, Goto
  <2> QED
    BY <2>1, <2>2
<1>3. ASSUME NEW r \in Requests, CloseProxy(r) PROVE Goal
  <2>1. CASE r = q
    BY <1>3, <2>1 DEF CallStep
  <2>2. CASE r # q
    BY <1>3, <2>2 DEF CallSame, TypeOK, CloseProxy, Arrive, Goto
  <2> QED
    BY <2>1, <2>2
<1>4. ASSUME NEW r \in Requests, Delete(r) PROVE Goal
  <2>1. CASE r = q
    BY <1>4, <2>1 DEF CallStep
  <2>2. CASE r # q
    BY <1>4, <2>2 DEF CallSame, TypeOK, Delete, Arrive, Goto
  <2> QED
    BY <2>1, <2>2
<1>5. ASSUME NEW r \in Requests, TakeQuotaLock(r) PROVE Goal
  <2>1. CASE r = q
    BY <1>5, <2>1 DEF CallStep, RequestStep
  <2>2. CASE r # q
    BY <1>5, <2>2 DEF CallSame, TypeOK, TakeQuotaLock, Goto
  <2> QED
    BY <2>1, <2>2
<1>6. ASSUME NEW r \in Requests, CheckQuota(r) PROVE Goal
  <2>1. CASE r = q
    BY <1>6, <2>1 DEF CallStep, RequestStep
  <2>2. CASE r # q
    BY <1>6, <2>2 DEF CallSame, TypeOK, CheckQuota, EndWithout, Answer, Goto
  <2> QED
    BY <2>1, <2>2
<1>7. ASSUME NEW r \in Requests, PickCandidate(r) PROVE Goal
  <2>1. CASE r = q
    BY <1>7, <2>1 DEF CallStep, RequestStep
  <2>2. CASE r # q
    BY <1>7, <2>2 DEF CallSame, TypeOK, PickCandidate, Goto
  <2> QED
    BY <2>1, <2>2
<1>8. ASSUME NEW r \in Requests, InsertCandidate(r) PROVE Goal
  <2>1. CASE r = q
    BY <1>8, <2>1 DEF CallStep, RequestStep
  <2>2. CASE r # q
    BY <1>8, <2>2 DEF CallSame, TypeOK, InsertCandidate, EndWithout, Answer,
       Goto
  <2> QED
    BY <2>1, <2>2
<1>9. ASSUME NEW r \in Requests, CommitCreate(r) PROVE Goal
  <2>1. CASE r = q
    BY <1>9, <2>1 DEF CallStep, RequestStep
  <2>2. CASE r # q
    BY <1>9, <2>2 DEF CallSame, TypeOK, CommitCreate, Commit, Answer, Goto
  <2> QED
    BY <2>1, <2>2
<1>10. ASSUME NEW r \in Requests, LookupRuntimeToken(r) PROVE Goal
  <2>1. CASE r = q
    BY <1>10, <2>1 DEF CallStep, RequestStep
  <2>2. CASE r # q
    BY <1>10, <2>2 DEF CallSame, TypeOK, LookupRuntimeToken, EndWithout,
       Answer, Goto
  <2> QED
    BY <2>1, <2>2
<1>11. ASSUME NEW r \in Requests, ReadStatus(r) PROVE Goal
  <2>1. CASE r = q
    BY <1>11, <2>1 DEF CallStep, RequestStep
  <2>2. CASE r # q
    BY <1>11, <2>2 DEF CallSame, TypeOK, ReadStatus, EndWithout, Answer, Goto
  <2> QED
    BY <2>1, <2>2
<1>12. ASSUME NEW r \in Requests, LockRow(r) PROVE Goal
  <2>1. CASE r = q
    BY <1>12, <2>1 DEF CallStep, RequestStep
  <2>2. CASE r # q
    BY <1>12, <2>2 DEF CallSame, TypeOK, LockRow, Goto
  <2> QED
    BY <2>1, <2>2
<1>13. ASSUME NEW r \in Requests, NotFound(r) PROVE Goal
  <2>1. CASE r = q
    BY <1>13, <2>1 DEF CallStep, RequestStep
  <2>2. CASE r # q
    BY <1>13, <2>2 DEF CallSame, TypeOK, NotFound, EndWithout, Answer, Goto
  <2> QED
    BY <2>1, <2>2
<1>14. ASSUME NEW r \in Requests, CheckClock(r) PROVE Goal
  <2>1. CASE r = q
    BY <1>14, <2>1 DEF CallStep, RequestStep
  <2>2. CASE r # q
    BY <1>14, <2>2 DEF CallSame, TypeOK, CheckClock, EndWithout, Answer, Goto
  <2> QED
    BY <2>1, <2>2
<1>15. ASSUME NEW r \in Requests, ApplyTransition(r) PROVE Goal
  <2>1. CASE r = q
    BY <1>15, <2>1 DEF CallStep, RequestStep
  <2>2. CASE r # q
    BY <1>15, <2>2 DEF CallSame, TypeOK, ApplyTransition, EndWithout, Commit,
       Answer, Goto
  <2> QED
    BY <2>1, <2>2
<1>16. ASSUME NEW r \in Requests, ApplyRevoke(r) PROVE Goal
  <2>1. CASE r = q
    BY <1>16, <2>1 DEF CallStep, RequestStep
  <2>2. CASE r # q
    BY <1>16, <2>2 DEF CallSame, TypeOK, ApplyRevoke, Commit, Answer, Goto
  <2> QED
    BY <2>1, <2>2
<1>17. ASSUME NEW r \in Requests, Fail(r) PROVE Goal
  <2>1. CASE r = q
    BY <1>17, <2>1 DEF CallStep
  <2>2. CASE r # q
    BY <1>17, <2>2 DEF CallSame, TypeOK, Fail, EndWithout, Answer, Goto
  <2> QED
    BY <2>1, <2>2
<1>18. ASSUME \/ ReapBegin \/ ReapScan \/ (\E t \in Tunnels : ReapRow(t))
             \/ ReapCommit \/ ReapFail \/ Tick \/ UNCHANGED vars
      PROVE  Goal
  BY <1>18 DEF ReapBegin, ReapScan, ReapRow, ReapCommit, ReapFail, Tick,
     CallSame, vars
<1>19. ASSUME Crash PROVE Goal
  BY <1>19 DEF Crash, CallSame, Crashed, TypeOK
<1> HIDE DEF Goal
<1>99. Goal
  BY <1>1, <1>2, <1>3, <1>4, <1>5, <1>6, <1>7, <1>8, <1>9, <1>10, <1>11, <1>12,
     <1>13, <1>14, <1>15, <1>16, <1>17, <1>18, <1>19 DEF Next, RequestStep,
     ReaperStep
<1> QED
  BY <1>99 DEF Goal

(* A request is where its operation takes it, and a proxy that is applied  *)
(* was checked against the clock.                                          *)
OpInvOf(q) ==
    /\ reply[q] # "none" => pc[q] = "done"
    /\ pc[q] \in CreateSteps => op[q] = "create"
    /\ pc[q] \in {"lookup", "checkClock"} => op[q] = "newproxy"
    /\ pc[q] = "readStatus" => op[q] = "closeproxy"
    /\ pc[q] = "revoke" => op[q] = "revoke"
    /\ pc[q] = "apply" => op[q] \in {"newproxy", "closeproxy"}
    /\ pc[q] = "lock" => op[q] \in {"newproxy", "closeproxy", "revoke"}
    /\ stamp[q] <= now
    /\ pc[q] = "apply" /\ op[q] = "newproxy" => expires[tunnel[q]] > stamp[q]

OpInv == \A q \in Requests : OpInvOf(q)

(* A row keeps its owner and its expiry; a terminal row stays terminal, and*)
(* a dead credential dead.                                                 *)
LEMMA RowsLast ==
  ASSUME LockInv, [Next]_vars, NEW t \in Tunnels, status[t] # "none"
  PROVE  /\ status'[t] # "none" /\ owner'[t] = owner[t] /\ expires'[t] = expires[t]
         /\ status[t] \in Terminal => status'[t] = status[t]
         /\ token[t] = "revoked" => token'[t] = "revoked"
<1>1. CASE SameRow(t) \/ DeadRow(t)
  BY <1>1 DEF SameRow, DeadRow
<1>2. ASSUME NEW r \in Requests, NewRow(r, t) PROVE FALSE
  BY <1>2 DEF NewRow
<1>3. ASSUME NEW event \in Events, NEW to \in Status, MovedRow(t, event, to)
      PROVE  /\ status'[t] # "none" /\ owner'[t] = owner[t] /\ expires'[t] = expires[t]
             /\ status[t] \notin Terminal
             /\ token[t] = "revoked" => token'[t] = "revoked"
  <2>1. status[t] \notin Terminal
    BY <1>3 DEF MovedRow, validTransitions, NonTerminal, Terminal
  <2> QED
    BY <1>3, <2>1 DEF MovedRow, Status, NonTerminal, Terminal
<1> QED
  BY <1>1, <1>2, <1>3, RowSteps

(* Time does not go back.                                                  *)
LEMMA TimeFlows == ASSUME TypeOK, [Next]_vars PROVE now \in Nat /\ now' \in Nat /\ now' >= now
<1> USE DEF clock, table, locks, call, reaper
<1>1. now \in Nat
  BY DEF TypeOK
<1>2. CASE Tick
  BY <1>1, <1>2 DEF Tick
<1>3. ASSUME NEW r \in Requests, CallStep(r) PROVE now' = now
  <2>1. CASE CreateTunnel(r)
    BY <2>1 DEF CreateTunnel, Goto
  <2>2. CASE NewProxy(r)
    BY <2>2 DEF NewProxy, Arrive, Goto
  <2>3. CASE CloseProxy(r)
    BY <2>3 DEF CloseProxy, Arrive, Goto
  <2>4. CASE Delete(r)
    BY <2>4 DEF Delete, Arrive, Goto
  <2>5. CASE TakeQuotaLock(r)
    BY <2>5 DEF TakeQuotaLock, Goto
  <2>6. CASE CheckQuota(r)
    BY <2>6 DEF CheckQuota, EndWithout, Answer, Goto
  <2>7. CASE PickCandidate(r)
    BY <2>7 DEF PickCandidate, Goto
  <2>8. CASE InsertCandidate(r)
    BY <2>8 DEF InsertCandidate, EndWithout, Answer, Goto
  <2>9. CASE CommitCreate(r)
    BY <2>9 DEF CommitCreate, Commit, Answer, Goto
  <2>10. CASE LookupRuntimeToken(r)
    BY <2>10 DEF LookupRuntimeToken, EndWithout, Answer, Goto
  <2>11. CASE ReadStatus(r)
    BY <2>11 DEF ReadStatus, EndWithout, Answer, Goto
  <2>12. CASE LockRow(r)
    BY <2>12 DEF LockRow, Goto
  <2>13. CASE NotFound(r)
    BY <2>13 DEF NotFound, EndWithout, Answer, Goto
  <2>14. CASE CheckClock(r)
    BY <2>14 DEF CheckClock, EndWithout, Answer, Goto
  <2>15. CASE ApplyTransition(r)
    BY <2>15 DEF ApplyTransition, EndWithout, Commit, Answer, Goto
  <2>16. CASE ApplyRevoke(r)
    BY <2>16 DEF ApplyRevoke, Commit, Answer, Goto
  <2>17. CASE Fail(r)
    BY <2>17 DEF Fail, EndWithout, Answer, Goto
  <2> QED
    BY <1>3, <2>1, <2>2, <2>3, <2>4, <2>5, <2>6, <2>7, <2>8, <2>9, <2>10,
       <2>11, <2>12, <2>13, <2>14, <2>15, <2>16, <2>17 DEF CallStep,
       RequestStep
<1>4. ASSUME \/ ReapBegin \/ ReapScan \/ (\E t \in Tunnels : ReapRow(t))
             \/ ReapCommit \/ ReapFail \/ Crash \/ UNCHANGED vars
      PROVE  now' = now
  BY <1>4 DEF ReapBegin, ReapScan, ReapRow, ReapCommit, ReapFail, Crash, vars
<1> QED
  BY <1>1, <1>2, <1>3, <1>4 DEF Next, ReaperStep, CallStep

(* Every step keeps where a request is and what it checked.                *)
LEMMA NextOpInv == LockInv /\ OpInv /\ [Next]_vars => OpInv'
<1> SUFFICES ASSUME LockInv, OpInv, [Next]_vars, NEW q \in Requests PROVE OpInvOf(q)'
  BY DEF OpInv
<1> USE DEF clock, table, locks, call, reaper
<1>1. TypeOK /\ TypeOK' /\ OpInvOf(q) /\ Locked(q)
  BY NextTypeOK DEF LockInv, OpInv
<1>2. now \in Nat /\ now' \in Nat /\ now' >= now /\ stamp[q] \in Nat
  BY <1>1, TimeFlows DEF TypeOK
<1>3. CASE CallSame(q)
  <2>1. pc[q] = "apply" => tunnel[q] \in Tunnels /\ status[tunnel[q]] # "none"
    BY <1>1 DEF Locked, LockInv, Addressed, Steps, CreateSteps
  <2>2. pc[q] = "apply" => expires'[tunnel[q]] = expires[tunnel[q]]
    BY <2>1, RowsLast
  <2> QED
    BY <1>1, <1>2, <1>3, <2>2 DEF CallSame, OpInvOf
<1>4. CASE Crashed(q)
  BY <1>1, <1>2, <1>4 DEF Crashed, OpInvOf, CreateSteps
<1>5. CASE CallStep(q)
  <2>1. CASE CreateTunnel(q)
    BY <1>1, <1>2, <2>1 DEF CreateTunnel, Goto, OpInvOf, TypeOK, Steps,
       CreateSteps
  <2>2. CASE NewProxy(q)
    BY <1>1, <1>2, <2>2 DEF NewProxy, Arrive, Goto, OpInvOf, TypeOK, Steps,
       CreateSteps
  <2>3. CASE CloseProxy(q)
    BY <1>1, <1>2, <2>3 DEF CloseProxy, Arrive, Goto, OpInvOf, TypeOK, Steps,
       CreateSteps
  <2>4. CASE Delete(q)
    BY <1>1, <1>2, <2>4 DEF Delete, Arrive, Goto, OpInvOf, TypeOK, Steps,
       CreateSteps
  <2>5. CASE TakeQuotaLock(q)
    BY <1>1, <1>2, <2>5 DEF TakeQuotaLock, Goto, OpInvOf, TypeOK, Steps,
       CreateSteps
  <2>6. CASE CheckQuota(q)
    BY <1>1, <1>2, <2>6 DEF CheckQuota, EndWithout, Answer, Goto, OpInvOf,
       TypeOK, Steps, CreateSteps
  <2>7. CASE PickCandidate(q)
    BY <1>1, <1>2, <2>7 DEF PickCandidate, Goto, OpInvOf, TypeOK, Steps,
       CreateSteps
  <2>8. CASE InsertCandidate(q)
    BY <1>1, <1>2, <2>8 DEF InsertCandidate, EndWithout, Answer, Goto, OpInvOf,
       TypeOK, Steps, CreateSteps
  <2>9. CASE CommitCreate(q)
    BY <1>1, <1>2, <2>9 DEF CommitCreate, Commit, Answer, Goto, OpInvOf,
       TypeOK, Steps, CreateSteps
  <2>10. CASE LookupRuntimeToken(q)
    BY <1>1, <1>2, <2>10 DEF LookupRuntimeToken, EndWithout, Answer, Goto,
       OpInvOf, TypeOK, Steps, CreateSteps
  <2>11. CASE ReadStatus(q)
    BY <1>1, <1>2, <2>11 DEF ReadStatus, EndWithout, Answer, Goto, OpInvOf,
       TypeOK, Steps, CreateSteps
  <2>12. CASE LockRow(q)
    BY <1>1, <1>2, <2>12 DEF LockRow, Goto, OpInvOf, TypeOK, Steps, CreateSteps
  <2>13. CASE NotFound(q)
    BY <1>1, <1>2, <2>13 DEF NotFound, EndWithout, Answer, Goto, OpInvOf,
       TypeOK, Steps, CreateSteps
  <2>14. CASE CheckClock(q)
    <3>1. tunnel[q] \in Tunnels /\ expires[tunnel[q]] \in Nat
      BY <1>1, <2>14 DEF CheckClock, LockInv, Addressed, TypeOK, Steps, CreateSteps
    <3>2. CASE EndWithout(q, "denied") \/ EndWithout(q, "ok")
      BY <1>1, <1>2, <2>14, <3>2
      DEF EndWithout, Answer, Goto, OpInvOf, TypeOK, Steps, CreateSteps
    <3>3. CASE expires[tunnel[q]] > now /\ Goto(q, "apply") /\ UNCHANGED <<now, expires, op, stamp, tunnel, reply>>
      BY <1>1, <1>2, <2>14, <3>1, <3>3
      DEF CheckClock, Goto, OpInvOf, TypeOK, Steps, CreateSteps
    <3> QED
      BY <2>14, <3>2, <3>3 DEF CheckClock
  <2>15. CASE ApplyTransition(q)
    BY <1>1, <1>2, <2>15 DEF ApplyTransition, EndWithout, Commit, Answer, Goto,
       OpInvOf, TypeOK, Steps, CreateSteps
  <2>16. CASE ApplyRevoke(q)
    BY <1>1, <1>2, <2>16 DEF ApplyRevoke, Commit, Answer, Goto, OpInvOf,
       TypeOK, Steps, CreateSteps
  <2>17. CASE Fail(q)
    BY <1>1, <1>2, <2>17 DEF Fail, EndWithout, Answer, Goto, OpInvOf, TypeOK,
       Steps, CreateSteps
  <2> QED
    BY <1>5, <2>1, <2>2, <2>3, <2>4, <2>5, <2>6, <2>7, <2>8, <2>9, <2>10,
       <2>11, <2>12, <2>13, <2>14, <2>15, <2>16, <2>17 DEF CallStep,
       RequestStep
<1> QED
  BY <1>3, <1>4, <1>5, <1>1, StepsOfOne

(* What an accepted call promised.                                         *)
Promise(q) ==
    /\ tunnel[q] \in Tunnels /\ status[tunnel[q]] # "none"
    /\ op[q] = "create" => owner[tunnel[q]] = user[q]
    /\ op[q] = "newproxy" => seen[q] \in NonTerminal /\ expires[tunnel[q]] > stamp[q]
    /\ op[q] = "revoke" => status[tunnel[q]] \in Terminal /\ token[tunnel[q]] = "revoked"

PromiseInv ==
    /\ \A q \in Requests : op[q] \in {"create", "newproxy", "revoke"} /\ Accepted(q) => Promise(q)
    /\ \A q, r \in Requests :
          op[q] = "create" /\ Accepted(q) /\ op[r] = "create" /\ Accepted(r) /\ q # r =>
             tunnel[q] # tunnel[r]

(* A call that becomes accepted in a step was accepted by a commit of its  *)
(* own, or by the check of an active tunnel; a create commits an unused id.*)
LEMMA NewPromise ==
  ASSUME LockInv, OpInv, HistoryInv, [Next]_vars, NEW q \in Requests, CallStep(q),
         op'[q] \in {"create", "newproxy", "revoke"}, Accepted(q)'
  PROVE  Promise(q)' /\ (op'[q] = "create" => CommitCreate(q) /\ status[tunnel'[q]] = "none")
<1> DEFINE Goal == Promise(q)' /\ (op'[q] = "create" => CommitCreate(q) /\ status[tunnel'[q]] = "none")
<1> USE DEF clock, table, locks, call, reaper
<1>1. TypeOK /\ OpInvOf(q) /\ Locked(q) /\ now \in Nat /\ stamp[q] \in Nat
  BY DEF LockInv, OpInv, TypeOK
<1>2. CASE CreateTunnel(q)
  BY <1>1, <1>2 DEF CreateTunnel, Goto, OpInvOf, TypeOK, Accepted, Steps,
     CreateSteps
<1>3. CASE NewProxy(q)
  BY <1>1, <1>3 DEF NewProxy, Arrive, Goto, OpInvOf, TypeOK, Accepted, Steps,
     CreateSteps
<1>4. CASE CloseProxy(q)
  BY <1>1, <1>4 DEF CloseProxy, Arrive, Goto, OpInvOf, TypeOK, Accepted, Steps,
     CreateSteps
<1>5. CASE Delete(q)
  BY <1>1, <1>5 DEF Delete, Arrive, Goto, OpInvOf, TypeOK, Accepted, Steps,
     CreateSteps
<1>6. CASE TakeQuotaLock(q)
  BY <1>1, <1>6 DEF TakeQuotaLock, Goto, OpInvOf, TypeOK, Accepted, Steps,
     CreateSteps
<1>7. CASE CheckQuota(q)
  BY <1>1, <1>7 DEF CheckQuota, EndWithout, Answer, Goto, OpInvOf, TypeOK,
     Accepted, Steps, CreateSteps
<1>8. CASE PickCandidate(q)
  BY <1>1, <1>8 DEF PickCandidate, Goto, OpInvOf, TypeOK, Accepted, Steps,
     CreateSteps
<1>9. CASE InsertCandidate(q)
  BY <1>1, <1>9 DEF InsertCandidate, EndWithout, Answer, Goto, OpInvOf, TypeOK,
     Accepted, Steps, CreateSteps
<1>10. CASE CommitCreate(q)
  <2>1. tunnel[q] \in Tunnels /\ status[tunnel[q]] = "none" /\ op[q] = "create"
    BY <1>1, <1>10 DEF CommitCreate, LockInv, Addressed, Locked, OpInvOf, Steps, CreateSteps
  <2>2. status'[tunnel[q]] = "reserved" /\ owner'[tunnel[q]] = user[q]
    BY <1>1, <1>10, <2>1 DEF CommitCreate, WriteStatus, TypeOK
  <2> QED
    BY <1>10, <2>1, <2>2 DEF CommitCreate, Commit, Promise
<1>11. CASE LookupRuntimeToken(q)
  BY <1>1, <1>11 DEF LookupRuntimeToken, EndWithout, Answer, Goto, OpInvOf,
     TypeOK, Accepted, Steps, CreateSteps
<1>12. CASE ReadStatus(q)
  BY <1>1, <1>12 DEF ReadStatus, EndWithout, Answer, Goto, OpInvOf, TypeOK,
     Accepted, Steps, CreateSteps
<1>13. CASE LockRow(q)
  BY <1>1, <1>13 DEF LockRow, Goto, OpInvOf, TypeOK, Accepted, Steps,
     CreateSteps
<1>14. CASE NotFound(q)
  BY <1>1, <1>14 DEF NotFound, EndWithout, Answer, Goto, OpInvOf, TypeOK,
     Accepted, Steps, CreateSteps
<1>15. CASE CheckClock(q)
  <2>1. tunnel[q] \in Tunnels /\ status[tunnel[q]] # "none" /\ op[q] = "newproxy"
    BY <1>1, <1>15 DEF CheckClock, LockInv, Addressed, Locked, OpInvOf, Steps, CreateSteps
  <2>2. /\ seen[q] = "active" /\ expires[tunnel[q]] > now /\ stamp[q] <= now
        /\ UNCHANGED <<table, call>> /\ expires[tunnel[q]] \in Nat
    BY <1>1, <1>15, <2>1 DEF CheckClock, EndWithout, Answer, Goto, TypeOK, OpInvOf, Accepted
  <2>3. seen[q] \in NonTerminal /\ expires[tunnel[q]] > stamp[q]
    BY <1>1, <2>2 DEF NonTerminal
  <2> QED
    BY <2>1, <2>2, <2>3 DEF Promise
<1>16. CASE ApplyTransition(q)
  <2>1. /\ tunnel[q] \in Tunnels /\ status[tunnel[q]] # "none"
        /\ op[q] \in {"newproxy", "closeproxy"}
    BY <1>1, <1>16 DEF ApplyTransition, LockInv, Addressed, Locked, OpInvOf, Steps, CreateSteps
  <2>2. op'[q] = op[q] /\ op[q] = "newproxy"
    BY <1>16, <2>1 DEF ApplyTransition, EndWithout, Commit
  <2>3. /\ UNCHANGED <<expires, call>>
        /\ \E to \in Status : <<seen[q], EventOf(q), to>> \in validTransitions
    BY <1>1, <1>16, <2>2 DEF ApplyTransition, EndWithout, Commit, Answer, TypeOK, Accepted
  <2>4. seen[q] \in NonTerminal
    BY <2>3 DEF validTransitions, NonTerminal
  <2>5. expires[tunnel[q]] > stamp[q]
    BY <1>1, <1>16, <2>2 DEF ApplyTransition, OpInvOf
  <2>6. status'[tunnel[q]] # "none"
    BY <2>1, RowsLast
  <2> QED
    BY <2>1, <2>2, <2>3, <2>4, <2>5, <2>6 DEF Promise
<1>17. CASE ApplyRevoke(q)
  <2>1. /\ tunnel[q] \in Tunnels /\ status[tunnel[q]] \in Status /\ op[q] = "revoke"
        /\ seen[q] = status[tunnel[q]]
    BY <1>1, <1>17 DEF ApplyRevoke, LockInv, Addressed, Locked, OpInvOf, Steps, CreateSteps, TypeOK
  <2>2. token[tunnel[q]] \in {"live", "revoked"}
    BY <2>1 DEF HistoryInv, TokenInv, Status, NonTerminal, Terminal
  <2>3. token'[tunnel[q]] = "revoked" /\ UNCHANGED call
    BY <1>1, <1>17, <2>1, <2>2 DEF ApplyRevoke, Commit, TypeOK
  <2>4. status'[tunnel[q]] \in Terminal /\ status'[tunnel[q]] # "none"
    BY <1>1, <1>17, <2>1 DEF ApplyRevoke, WriteStatus, TypeOK, Status, NonTerminal, Terminal
  <2> QED
    BY <2>1, <2>3, <2>4 DEF Promise
<1>18. CASE Fail(q)
  BY <1>1, <1>18 DEF Fail, EndWithout, Answer, Goto, OpInvOf, TypeOK, Accepted,
     Steps, CreateSteps
<1> QED
  BY <1>2, <1>3, <1>4, <1>5, <1>6, <1>7, <1>8, <1>9, <1>10, <1>11, <1>12,
     <1>13, <1>14, <1>15, <1>16, <1>17, <1>18 DEF CallStep, RequestStep

(* Every step keeps every promise.                                         *)
LEMMA NextPromiseInv ==
  LockInv /\ OpInv /\ HistoryInv /\ PromiseInv /\ [Next]_vars => PromiseInv'
<1> SUFFICES ASSUME LockInv, OpInv, HistoryInv, PromiseInv, [Next]_vars PROVE PromiseInv'
  OBVIOUS
<1>1. ASSUME NEW q \in Requests, Accepted(q)', ~CallStep(q)
      PROVE  CallSame(q) /\ Accepted(q)
  BY <1>1, StepsOfOne DEF LockInv, CallSame, Crashed, Accepted
<1>2. ASSUME NEW q \in Requests, op'[q] \in {"create", "newproxy", "revoke"}, Accepted(q)'
      PROVE  Promise(q)'
  <2>1. CASE CallStep(q)
    BY <1>2, <2>1, NewPromise
  <2>2. CASE ~CallStep(q)
    <3>1. CallSame(q) /\ Promise(q)
      BY <1>1, <1>2, <2>2 DEF PromiseInv, CallSame
    <3>2. /\ status'[tunnel[q]] # "none" /\ owner'[tunnel[q]] = owner[tunnel[q]]
          /\ expires'[tunnel[q]] = expires[tunnel[q]]
          /\ status[tunnel[q]] \in Terminal => status'[tunnel[q]] = status[tunnel[q]]
          /\ token[tunnel[q]] = "revoked" => token'[tunnel[q]] = "revoked"
      BY <3>1, RowsLast DEF Promise
    <3> QED
      BY <3>1, <3>2 DEF Promise, CallSame
  <2> QED
    BY <2>1, <2>2
<1>3. ASSUME NEW q \in Requests, NEW r \in Requests, q # r, ~CallStep(r),
             op'[q] = "create", Accepted(q)', op'[r] = "create", Accepted(r)'
      PROVE  tunnel'[q] # tunnel'[r]
  <2>1. CallSame(r) /\ Accepted(r) /\ op[r] = "create"
    BY <1>1, <1>3 DEF CallSame
  <2>2. status[tunnel[r]] # "none" /\ tunnel'[r] = tunnel[r]
    BY <2>1 DEF PromiseInv, Promise, CallSame
  <2>3. CASE CallStep(q)
    <3>1. status[tunnel'[q]] = "none"
      BY <1>3, <2>3, NewPromise
    <3> QED
      BY <2>2, <3>1
  <2>4. CASE ~CallStep(q)
    <3>1. CallSame(q) /\ Accepted(q) /\ op[q] = "create"
      BY <1>1, <1>3, <2>4 DEF CallSame
    <3> QED
      BY <1>3, <2>1, <2>2, <3>1 DEF PromiseInv, CallSame
  <2> QED
    BY <2>3, <2>4
<1>4. ASSUME NEW q \in Requests, NEW r \in Requests, q # r, CallStep(r), CallStep(q),
             op'[q] = "create", Accepted(q)', op'[r] = "create", Accepted(r)'
      PROVE  FALSE
  <2>1. CommitCreate(q) /\ CommitCreate(r)
    BY <1>4, NewPromise
  <2>2. pc' = [pc EXCEPT ![q] = "done"] /\ pc[r] = "commitCreate" /\ pc'[r] = "done"
    BY <2>1 DEF CommitCreate, Commit, Answer, Goto, LockInv, TypeOK
  <2> QED
    BY <1>4, <2>2 DEF LockInv, TypeOK
<1>5. ASSUME NEW q \in Requests, NEW r \in Requests, q # r,
             op'[q] = "create", Accepted(q)', op'[r] = "create", Accepted(r)'
      PROVE  tunnel'[q] # tunnel'[r]
  <2>1. CASE ~CallStep(r)
    BY <1>3, <1>5, <2>1
  <2>2. CASE ~CallStep(q)
    BY <1>3, <1>5, <2>2
  <2> QED
    BY <1>4, <1>5, <2>1, <2>2
<1> QED
  BY <1>2, <1>5 DEF PromiseInv

(* Nothing has been answered yet.                                          *)
LEMMA InitPromiseInv == Init => OpInv /\ PromiseInv
  BY DEF Init, OpInv, OpInvOf, PromiseInv, Accepted, CreateSteps

(* Locks, histories and promises together.                                 *)
THEOREM AnswersStayTrue == Spec => [](LockInv /\ HistoryInv /\ OpInv /\ PromiseInv)
<1> DEFINE All == LockInv /\ HistoryInv /\ OpInv /\ PromiseInv
<1>1. Init => All
  BY InitLockInv, InitHistoryInv, InitPromiseInv
<1>2. All /\ [Next]_vars => All'
  BY NextLockInv, NextHistoryInv, NextOpInv, NextPromiseInv
<1> QED
  BY <1>1, <1>2, PTL DEF Spec

(* A NewProxy callback is accepted only for a tunnel that had not ended    *)
(* when its row lock was taken (lifecycle.go:158-210, handlers.go).        *)
THEOREM ProxiesAreLive == Spec => []AcceptedProxyWasLive
<1>1. PromiseInv => AcceptedProxyWasLive
  BY DEF PromiseInv, AcceptedProxyWasLive, Accepted, Promise
<1> QED
  BY <1>1, AnswersStayTrue, PTL

(* An acknowledged delete is final, credential included.                   *)
THEOREM DeletesAreFinal == Spec => []DeleteIsFinal
<1>1. HistoryInv /\ PromiseInv => DeleteIsFinal
  BY DEF HistoryInv, TokenInv, PromiseInv, DeleteIsFinal, Accepted, Promise
<1> QED
  BY <1>1, AnswersStayTrue, PTL

(* No two acknowledged creates share an id, whatever ids are generated.    *)
THEOREM IdsAreDistinct == Spec => []CreatesAreDistinct
<1>1. PromiseInv => CreatesAreDistinct
  BY DEF PromiseInv, CreatesAreDistinct, Accepted, Promise
<1> QED
  BY <1>1, AnswersStayTrue, PTL

-----------------------------------------------------------------------------
(* Nobody waits for ever: no lock is left behind, no transactions wait for *)
(* each other in a cycle, and a request runs out of steps.                 *)

Transactions == Requests \union {Reaper}

(* A lock is held by a transaction that is under way, past the statement   *)
(* that takes it; the reaper awaits no row that it holds.                  *)
HoldersInv ==
    /\ \A t \in Tunnels :
          /\ rowLock[t] \in Requests => pc[rowLock[t]] \in Holding
          /\ rowLock[t] = Reaper => reaperPc = "update" /\ t \in reapDone
    /\ \A u \in Users : userLock[u] # None => pc[userLock[u]] \in CreateSteps \ {"quotaLock"}
    /\ reapTodo \intersect reapDone = {}

(* The transaction p waits for a lock of the transaction h.                *)
Waits(p, h) ==
    \/ /\ p \in Requests
       /\ \/ pc[p] = "quotaLock" /\ userLock[user[p]] = h
          \/ pc[p] \in {"lock", "insert"} /\ rowLock[tunnel[p]] = h
    \/ /\ p = Reaper
       /\ reaperPc = "update"
       /\ \E t \in reapTodo : rowLock[t] = h

(* Among any transactions there is one that waits for none of them.        *)
WaitsAreAcyclic ==
    \A ps \in SUBSET Transactions : ps # {} => \E p \in ps : \A h \in ps : ~Waits(p, h)

(* The order in which locks are taken: the advisory lock, a row that a     *)
(* request awaits, the rows of the reaper, nothing.                        *)
Rank(p) ==
    IF p = Reaper THEN 1
    ELSE IF pc[p] = "quotaLock" THEN 3
    ELSE IF pc[p] \in Holding THEN 0 ELSE 2

(* The steps a request has left at most, at a step and after n ids.        *)
StepsFrom(step, n) ==
    CASE step = "idle" -> 10
      [] step = "quotaLock" -> 9
      [] step = "quotaCount" -> 8
      [] step = "candidate" -> 2 * (3 - n) + 1
      [] step = "insert" -> 2 * (3 - n) + 2
      [] step \in {"lookup", "readStatus"} -> 4
      [] step = "lock" -> 3
      [] step = "checkClock" -> 2
      [] step \in {"commitCreate", "apply", "revoke"} -> 1
      [] step = "done" -> 0

Left(q) == StepsFrom(pc[q], tries[q])

(* An id is tried at most three times.                                     *)
TriesInv ==
    \A q \in Requests :
        /\ pc[q] \in {"idle", "quotaLock", "quotaCount"} => tries[q] = 0
        /\ pc[q] = "candidate" => tries[q] \in 0..2
        /\ pc[q] = "insert" => tries[q] \in 1..3

(* A step of a request leaves it fewer steps, and no step of another more. *)
StepsDescend ==
    \A q \in Requests :
        /\ Left(q) \in 0..10 /\ Left(q)' \in 0..10
        /\ Left(q)' <= Left(q)
        /\ RequestStep(q) => Left(q)' < Left(q)
StepsRunOut == [][StepsDescend]_vars

(* No transaction holds a lock before the first call.                      *)
LEMMA InitHoldersInv == Init => HoldersInv /\ TriesInv
  BY NamesAssumption DEF Init, HoldersInv, TriesInv

(* A step of r lets go of locks, or takes one for r at the right place.    *)
LEMMA HoldersKept ==
  ASSUME LockInv, HoldersInv, NEW r \in Requests, UNCHANGED <<reaperPc, reapTodo, reapDone>>,
         \A q \in Requests \ {r} : pc'[q] = pc[q],
         \A t \in Tunnels :
            \/ rowLock'[t] = None
            \/ rowLock'[t] = rowLock[t] /\ rowLock[t] # r
            \/ rowLock'[t] = r /\ pc'[r] \in Holding,
         \A u \in Users :
            \/ userLock'[u] = None
            \/ userLock'[u] = userLock[u] /\ userLock[u] # r
            \/ userLock'[u] = r /\ pc'[r] \in CreateSteps \ {"quotaLock"}
  PROVE  HoldersInv'
<1> USE NamesAssumption
<1>1. \A t \in Tunnels :
          /\ rowLock'[t] \in Requests => pc'[rowLock'[t]] \in Holding
          /\ rowLock'[t] = Reaper => reaperPc = "update" /\ t \in reapDone
  BY DEF HoldersInv
<1>2. ASSUME NEW u \in Users, userLock'[u] # None
      PROVE  pc'[userLock'[u]] \in CreateSteps \ {"quotaLock"}
  <2>1. CASE userLock'[u] = r /\ pc'[r] \in CreateSteps \ {"quotaLock"}
    BY <2>1
  <2>2. CASE userLock'[u] = userLock[u] /\ userLock[u] # r
    <3>1. userLock[u] \in Requests \ {r}
      BY <1>2, <2>2 DEF LockInv, TypeOK
    <3>2. pc[userLock[u]] \in CreateSteps \ {"quotaLock"}
      BY <1>2, <2>2 DEF HoldersInv
    <3> QED
      BY <2>2, <3>1, <3>2
  <2> QED
    BY <1>2, <2>1, <2>2
<1> QED
  BY <1>1, <1>2 DEF HoldersInv

(* A step of a request leaves no lock behind.                              *)
LEMMA RequestHolders ==
  ASSUME LockInv, HoldersInv, NEW r \in Requests, CallStep(r)
  PROVE  HoldersInv'
<1> USE NamesAssumption DEF clock, table, locks, call, reaper
<1>1. /\ pc \in [Requests -> Steps \union {"idle", "done"}]
      /\ rowLock \in [Tunnels -> Requests \union {Reaper, None}]
      /\ userLock \in [Users -> Requests \union {None}]
  BY DEF LockInv, TypeOK
<1>2. /\ \A t \in Tunnels : rowLock[t] = r => pc[r] \in Holding
      /\ \A u \in Users : userLock[u] = r => pc[r] \in CreateSteps \ {"quotaLock"}
  BY DEF HoldersInv
<1>3. ASSUME NEW answer, Answer(r, answer), Release({r}), UNCHANGED reaper PROVE HoldersInv'
  BY <1>1, <1>3, HoldersKept DEF Answer, Goto, Release
<1>4. ASSUME NEW answer, EndWithout(r, answer) PROVE HoldersInv'
  BY <1>3, <1>4 DEF EndWithout
<1>5. ASSUME Commit(r) PROVE HoldersInv'
  BY <1>3, <1>5 DEF Commit
<1>6. ASSUME NEW step, Goto(r, step), UNCHANGED <<locks, reaper>>,
             pc[r] \in Holding => step \in Holding,
             pc[r] \in CreateSteps \ {"quotaLock"} => step \in CreateSteps \ {"quotaLock"}
      PROVE  HoldersInv'
  BY <1>1, <1>2, <1>6, HoldersKept DEF Goto
<1>7. CASE CreateTunnel(r) \/ NewProxy(r) \/ CloseProxy(r) \/ Delete(r)
  BY <1>6, <1>7 DEF CreateTunnel, NewProxy, CloseProxy, Delete, Arrive, CreateSteps, Holding
<1>8. CASE TakeQuotaLock(r)
  <2>1. \A t \in Tunnels : rowLock[t] # r
    BY <1>2, <1>8 DEF TakeQuotaLock, Holding
  <2>2. pc'[r] \in CreateSteps \ {"quotaLock"} /\ \A q \in Requests \ {r} : pc'[q] = pc[q]
    BY <1>1, <1>8 DEF TakeQuotaLock, Goto, CreateSteps
  <2>3. \A u \in Users : userLock[u] # r
    BY <1>2, <1>8 DEF TakeQuotaLock, CreateSteps
  <2>4. \A u \in Users : userLock'[u] = userLock[u] \/ userLock'[u] = r
    BY <1>1, <1>8 DEF TakeQuotaLock
  <2>5. UNCHANGED <<rowLock, reaperPc, reapTodo, reapDone>>
    BY <1>8 DEF TakeQuotaLock
  <2> QED
    BY <2>1, <2>2, <2>3, <2>4, <2>5, HoldersKept
<1>9. CASE CheckQuota(r) \/ PickCandidate(r)
  BY <1>4, <1>6, <1>9 DEF CheckQuota, PickCandidate, CreateSteps, Holding
<1>10. CASE InsertCandidate(r)
  <2>1. CASE Goto(r, "candidate") /\ UNCHANGED <<locks, reaper>>
    BY <1>6, <1>10, <2>1 DEF InsertCandidate, CreateSteps, Holding
  <2>2. CASE EndWithout(r, "error")
    BY <1>4, <2>2
  <2>3. CASE /\ rowLock' = [rowLock EXCEPT ![tunnel[r]] = r]
             /\ Goto(r, "commitCreate")
             /\ UNCHANGED <<userLock, reaper>>
    <3>1. pc'[r] \in Holding /\ pc'[r] \in CreateSteps \ {"quotaLock"}
          /\ \A q \in Requests \ {r} : pc'[q] = pc[q]
      BY <1>1, <2>3 DEF Goto, Holding, CreateSteps
    <3>2. \A t \in Tunnels : rowLock'[t] = rowLock[t] \/ rowLock'[t] = r
      BY <1>1, <2>3
    <3> QED
      BY <2>3, <3>1, <3>2, HoldersKept
  <2> QED
    BY <1>10, <2>1, <2>2, <2>3 DEF InsertCandidate
<1>11. CASE CommitCreate(r) \/ ApplyRevoke(r)
  BY <1>5, <1>11 DEF CommitCreate, ApplyRevoke
<1>12. CASE LookupRuntimeToken(r) \/ ReadStatus(r)
  BY <1>4, <1>6, <1>12 DEF LookupRuntimeToken, ReadStatus, CreateSteps, Holding
<1>13. CASE LockRow(r)
  <2>1. pc'[r] \in Holding /\ \A q \in Requests \ {r} : pc'[q] = pc[q]
    BY <1>1, <1>13 DEF LockRow, Goto, Holding
  <2>2. \A t \in Tunnels : rowLock'[t] = rowLock[t] \/ rowLock'[t] = r
    BY <1>1, <1>13 DEF LockRow
  <2>3. \A u \in Users : userLock[u] # r
    BY <1>2, <1>13 DEF LockRow, CreateSteps
  <2>4. UNCHANGED <<userLock, reaperPc, reapTodo, reapDone>>
    BY <1>13 DEF LockRow
  <2> QED
    BY <2>1, <2>2, <2>3, <2>4, HoldersKept
<1>14. CASE NotFound(r) \/ Fail(r)
  BY <1>4, <1>14 DEF NotFound, Fail
<1>15. CASE CheckClock(r)
  BY <1>4, <1>6, <1>15 DEF CheckClock, CreateSteps, Holding
<1>16. CASE ApplyTransition(r)
  BY <1>4, <1>5, <1>16 DEF ApplyTransition
<1> QED
  BY <1>7, <1>8, <1>9, <1>10, <1>11, <1>12, <1>13, <1>14, <1>15, <1>16 DEF CallStep, RequestStep

(* Nor does the reaper, nor a crash.                                       *)
LEMMA NextHoldersInv == LockInv /\ HoldersInv /\ [Next]_vars => HoldersInv'
<1> SUFFICES ASSUME LockInv, HoldersInv, [Next]_vars PROVE HoldersInv'
  OBVIOUS
<1> USE NamesAssumption DEF clock, table, locks, call, reaper
<1>1. /\ pc \in [Requests -> Steps \union {"idle", "done"}]
      /\ rowLock \in [Tunnels -> Requests \union {Reaper, None}]
      /\ userLock \in [Users -> Requests \union {None}]
  BY DEF LockInv, TypeOK
<1>2. ASSUME NEW r \in Requests, CallStep(r) PROVE HoldersInv'
  BY <1>2, RequestHolders
<1>3. CASE ReapBegin \/ ReapScan
  <2>1. reapDone = {} \/ reaperPc = "update"
    BY DEF LockInv, ReaperLocked, HoldersInv, TypeOK
  <2> QED
    BY <1>3, <2>1 DEF ReapBegin, ReapScan, HoldersInv
<1>4. ASSUME NEW t \in Tunnels, ReapRow(t) PROVE HoldersInv'
  <2>1. \A s \in Tunnels : rowLock'[s] = rowLock[s] \/ (rowLock'[s] = Reaper /\ s \in reapDone')
    BY <1>1, <1>4 DEF ReapRow
  <2>2. reapDone \subseteq reapDone' /\ reapTodo' \intersect reapDone' = {}
    BY <1>4 DEF ReapRow, HoldersInv
  <2> QED
    BY <1>4, <2>1, <2>2 DEF ReapRow, HoldersInv
<1>5. CASE ReapCommit \/ ReapFail
  <2>1. \A t \in Tunnels : rowLock'[t] = IF rowLock[t] = Reaper THEN None ELSE rowLock[t]
    BY <1>5 DEF ReapCommit, ReapFail, Release
  <2>2. \A u \in Users : userLock'[u] = userLock[u]
    BY <1>1, <1>5 DEF ReapCommit, ReapFail, Release
  <2>3. pc' = pc /\ reapDone' = {} /\ reapTodo' = {}
    BY <1>5 DEF ReapCommit, ReapFail, ReaperReset
  <2> QED
    BY <2>1, <2>2, <2>3 DEF HoldersInv
<1>6. CASE Crash
  <2>1. \A t \in Tunnels : rowLock'[t] = None
    BY <1>1, <1>6 DEF Crash, Release
  <2>2. \A u \in Users : userLock'[u] = None
    BY <1>1, <1>6 DEF Crash, Release
  <2>3. reapDone' = {} /\ reapTodo' = {}
    BY <1>6 DEF Crash, ReaperReset
  <2> QED
    BY <2>1, <2>2, <2>3 DEF HoldersInv
<1>7. CASE Tick \/ UNCHANGED vars
  BY <1>7 DEF Tick, vars, HoldersInv
<1> QED
  BY <1>2, <1>3, <1>4, <1>5, <1>6, <1>7 DEF Next, ReaperStep, CallStep

(* Whoever waits ranks above whom it waits for.                            *)
LEMMA WaitsDescend ==
  ASSUME LockInv, HoldersInv, NEW p \in Transactions, NEW h \in Transactions, Waits(p, h)
  PROVE  Rank(h) < Rank(p)
<1> USE NamesAssumption
<1>1. CASE p = Reaper
  <2>1. PICK t \in reapTodo : rowLock[t] = h
    BY <1>1 DEF Waits
  <2>2. h # Reaper /\ pc[h] \in Holding
    BY <2>1 DEF HoldersInv, LockInv, TypeOK, Transactions
  <2> QED
    BY <1>1, <2>2 DEF Rank, Holding
<1>2. CASE p # Reaper /\ pc[p] = "quotaLock"
  <2>1. userLock[user[p]] = h /\ user[p] \in Users
    BY <1>2 DEF Waits, LockInv, Addressed, CreateSteps, Transactions
  <2>2. h # None /\ h \in Requests
    BY <2>1 DEF LockInv, TypeOK, Transactions
  <2>3. pc[h] # "quotaLock"
    BY <2>1, <2>2 DEF HoldersInv
  <2> QED
    BY <1>2, <2>2, <2>3 DEF Rank
<1>3. CASE p # Reaper /\ pc[p] \in {"lock", "insert"}
  <2>1. rowLock[tunnel[p]] = h /\ tunnel[p] \in Tunnels
    BY <1>3 DEF Waits, LockInv, Addressed, Steps, CreateSteps, Transactions
  <2>2. h = Reaper \/ pc[h] \in Holding
    BY <2>1 DEF HoldersInv, Transactions
  <2> QED
    BY <1>3, <2>2 DEF Rank, Holding
<1> QED
  BY <1>1, <1>2, <1>3 DEF Waits

(* A transaction of the least rank among any waits for none of them.       *)
LEMMA LeastRankWaitsForNone == LockInv /\ HoldersInv => WaitsAreAcyclic
<1> SUFFICES ASSUME LockInv, HoldersInv, NEW ps \in SUBSET Transactions, ps # {}
             PROVE  \E p \in ps : \A h \in ps : ~Waits(p, h)
  BY DEF WaitsAreAcyclic
<1>1. \A p : Rank(p) \in 0..3
  BY DEF Rank
<1>2. ASSUME NEW p \in ps, \A h \in ps : Rank(p) <= Rank(h)
      PROVE  \E q \in ps : \A h \in ps : ~Waits(q, h)
  <2>1. ASSUME NEW h \in ps, Waits(p, h) PROVE FALSE
    <3>1. Rank(h) < Rank(p)
      BY <2>1, WaitsDescend
    <3>2. Rank(p) <= Rank(h) /\ Rank(p) \in 0..3 /\ Rank(h) \in 0..3
      BY <1>1, <1>2
    <3> QED
      BY <3>1, <3>2
  <2> QED
    BY <2>1
<1>3. \E p \in ps : \A h \in ps : Rank(p) <= Rank(h)
  <2>1. CASE \E p \in ps : Rank(p) = 0
    BY <1>1, <2>1
  <2>2. CASE (\E p \in ps : Rank(p) = 1) /\ \A p \in ps : Rank(p) # 0
    BY <1>1, <2>2
  <2>3. CASE (\E p \in ps : Rank(p) = 2) /\ \A p \in ps : Rank(p) \notin {0, 1}
    BY <1>1, <2>3
  <2>4. CASE \A p \in ps : Rank(p) = 3
    BY <2>4
  <2> QED
    BY <1>1, <2>1, <2>2, <2>3, <2>4
<1> QED
  BY <1>2, <1>3

(* Every lock, at every instant, is that of a transaction under way, past  *)
(* the statement that takes it: no error path, lost commit or crash leaves *)
(* one behind (the deferred tx.Rollback of every handler).                 *)
THEOREM NoLockIsLeaked == Spec => []HoldersInv
<1> QED
  BY InitLockInv, NextLockInv, InitHoldersInv, NextHoldersInv, PTL DEF Spec

(* The advisory locks, the row locks and the waits of ON CONFLICT never    *)
(* close a cycle, for any number of requests and tunnels, although the     *)
(* reaper takes many rows in one statement.                                *)
THEOREM NoCyclicWait == Spec => []WaitsAreAcyclic
<1> QED
  BY LeastRankWaitsForNone, LockDiscipline, NoLockIsLeaked, PTL

(* The ids a create has tried are counted.                                 *)
LEMMA NextTriesInv == LockInv /\ TriesInv /\ [Next]_vars => TriesInv'
<1> SUFFICES ASSUME LockInv, TriesInv, [Next]_vars, NEW q \in Requests
             PROVE  /\ pc'[q] \in {"idle", "quotaLock", "quotaCount"} => tries'[q] = 0
                    /\ pc'[q] = "candidate" => tries'[q] \in 0..2
                    /\ pc'[q] = "insert" => tries'[q] \in 1..3
  BY DEF TriesInv
<1> DEFINE Goal == /\ pc'[q] \in {"idle", "quotaLock", "quotaCount"} => tries'[q] = 0
                   /\ pc'[q] = "candidate" => tries'[q] \in 0..2
                   /\ pc'[q] = "insert" => tries'[q] \in 1..3
<1> USE DEF call
<1>1. pc \in [Requests -> Steps \union {"idle", "done"}] /\ tries \in [Requests -> Nat]
  BY DEF LockInv, TypeOK
<1>2. /\ pc[q] \in {"idle", "quotaLock", "quotaCount"} => tries[q] = 0
      /\ pc[q] = "candidate" => tries[q] \in 0..2
      /\ pc[q] = "insert" => tries[q] \in 1..3
  BY DEF TriesInv
<1>3. ASSUME pc'[q] \notin {"idle", "quotaLock", "quotaCount", "candidate", "insert"} PROVE Goal
  BY <1>3
<1>4. ASSUME NEW answer, EndWithout(q, answer) \/ Commit(q) PROVE Goal
  BY <1>1, <1>3, <1>4 DEF EndWithout, Commit, Answer, Goto
<1>5. ASSUME CallSame(q) \/ Crashed(q) PROVE Goal
  BY <1>2, <1>3, <1>5 DEF CallSame, Crashed
<1>6. ASSUME CreateTunnel(q) \/ TakeQuotaLock(q) PROVE Goal
  BY <1>1, <1>2, <1>6 DEF CreateTunnel, TakeQuotaLock, Goto
<1>7. ASSUME NewProxy(q) \/ CloseProxy(q) \/ Delete(q) PROVE Goal
  BY <1>1, <1>3, <1>7 DEF NewProxy, CloseProxy, Delete, Arrive, Goto
<1>8. ASSUME CheckQuota(q) PROVE Goal
  BY <1>1, <1>2, <1>4, <1>8 DEF CheckQuota, Goto
<1>9. ASSUME PickCandidate(q) PROVE Goal
  BY <1>1, <1>2, <1>9 DEF PickCandidate, Goto
<1>10. ASSUME InsertCandidate(q) PROVE Goal
  BY <1>1, <1>2, <1>4, <1>10 DEF InsertCandidate, Goto
<1>11. ASSUME CommitCreate(q) \/ ApplyRevoke(q) \/ NotFound(q) \/ Fail(q) \/ ApplyTransition(q) PROVE Goal
  BY <1>4, <1>11 DEF CommitCreate, ApplyRevoke, NotFound, Fail, ApplyTransition
<1>12. ASSUME LookupRuntimeToken(q) \/ ReadStatus(q) \/ CheckClock(q) PROVE Goal
  BY <1>1, <1>3, <1>4, <1>12 DEF LookupRuntimeToken, ReadStatus, CheckClock, Goto
<1>13. ASSUME LockRow(q) PROVE Goal
  BY <1>1, <1>3, <1>13 DEF LockRow, Goto
<1> HIDE DEF Goal
<1>14. Goal
  BY <1>5, <1>6, <1>7, <1>8, <1>9, <1>10, <1>11, <1>12, <1>13, StepsOfOne
  DEF CallStep, RequestStep, LockInv
<1> QED
  BY <1>14 DEF Goal

(* The measure is a number, and not 0 before the end.                      *)
LEMMA StepsAreFew ==
  ASSUME NEW step \in Steps \union {"idle", "done"}, NEW n \in Nat,
         step = "candidate" => n \in 0..2,
         step = "insert" => n \in 1..3
  PROVE  StepsFrom(step, n) \in 0..10 /\ (step \in Steps => StepsFrom(step, n) > 0)
<1>1. CASE step = "candidate"
  BY <1>1 DEF StepsFrom
<1>2. CASE step = "insert"
  BY <1>2 DEF StepsFrom
<1> QED
  BY <1>1, <1>2 DEF StepsFrom, Steps, CreateSteps

(* The steps of a request lead forward.                                    *)
LEMMA LeftDescends ==
  ASSUME LockInv, TriesInv, LockInv', TriesInv', [Next]_vars, NEW q \in Requests
  PROVE  /\ Left(q) \in 0..10 /\ Left(q)' \in 0..10
         /\ Left(q)' <= Left(q)
         /\ (RequestStep(q) => Left(q)' < Left(q))
<1> USE DEF call
<1>1. pc \in [Requests -> Steps \union {"idle", "done"}] /\ tries \in [Requests -> Nat]
  BY DEF LockInv, TypeOK
<1>2. Left(q) \in 0..10 /\ Left(q)' \in 0..10
  <2>1. StepsFrom(pc[q], tries[q]) \in 0..10
    BY StepsAreFew DEF LockInv, TypeOK, TriesInv
  <2>2. StepsFrom(pc'[q], tries'[q]) \in 0..10
    BY StepsAreFew DEF LockInv, TypeOK, TriesInv
  <2> QED
    BY <2>1, <2>2 DEF Left
<1>3. ASSUME pc'[q] = "done" PROVE Left(q)' = 0
  BY <1>3 DEF Left, StepsFrom
<1>4. ASSUME pc[q] \in Steps PROVE Left(q) > 0
  BY <1>4, StepsAreFew DEF Left, LockInv, TypeOK, TriesInv
<1>5. ASSUME pc[q] \in Steps, NEW answer, EndWithout(q, answer) \/ Commit(q)
      PROVE  Left(q)' < Left(q)
  <2>1. pc'[q] = "done"
    BY <1>1, <1>5 DEF EndWithout, Commit, Answer, Goto
  <2> QED
    BY <1>2, <1>3, <1>4, <1>5, <2>1
<1>6. ASSUME RequestStep(q) PROVE Left(q)' < Left(q)
  <2>1. CASE TakeQuotaLock(q)
    BY <1>1, <2>1 DEF TakeQuotaLock, Goto, Left, StepsFrom
  <2>2. CASE CheckQuota(q)
    <3>1. CASE Goto(q, "candidate") /\ UNCHANGED call
      <4>1. tries'[q] = 0 /\ pc'[q] = "candidate" /\ pc[q] = "quotaCount"
        BY <1>1, <2>2, <3>1 DEF CheckQuota, Goto, TriesInv
      <4> QED
        BY <4>1 DEF Left, StepsFrom
    <3> QED
      BY <1>5, <2>2, <3>1 DEF CheckQuota, Steps, CreateSteps
  <2>3. CASE PickCandidate(q)
    <3>1. tries'[q] = tries[q] + 1 /\ pc'[q] = "insert" /\ pc[q] = "candidate" /\ tries[q] \in 0..2
      BY <1>1, <2>3 DEF PickCandidate, Goto, TriesInv
    <3> QED
      BY <3>1 DEF Left, StepsFrom
  <2>4. CASE InsertCandidate(q)
    <3>1. pc[q] = "insert" /\ tries[q] \in 1..3 /\ pc[q] \in Steps
      BY <2>4 DEF InsertCandidate, TriesInv, Steps, CreateSteps
    <3>2. CASE Goto(q, "commitCreate")
      <4>1. pc'[q] = "commitCreate"
        BY <1>1, <3>2 DEF Goto
      <4> QED
        BY <3>1, <4>1 DEF Left, StepsFrom
    <3>3. CASE Goto(q, "candidate") /\ UNCHANGED call
      <4>1. pc'[q] = "candidate" /\ tries'[q] = tries[q]
        BY <1>1, <3>3 DEF Goto
      <4> QED
        BY <3>1, <4>1 DEF Left, StepsFrom
    <3> QED
      BY <1>5, <2>4, <3>1, <3>2, <3>3 DEF InsertCandidate
  <2>5. CASE CommitCreate(q) \/ ApplyRevoke(q) \/ NotFound(q) \/ ApplyTransition(q)
    <3>1. pc[q] \in Steps
      BY <2>5 DEF CommitCreate, ApplyRevoke, NotFound, ApplyTransition, Steps, CreateSteps
    <3> QED
      BY <1>5, <2>5, <3>1 DEF CommitCreate, ApplyRevoke, NotFound, ApplyTransition
  <2>6. CASE LookupRuntimeToken(q) \/ ReadStatus(q)
    <3>1. pc[q] \in {"lookup", "readStatus"} /\ pc[q] \in Steps
      BY <2>6 DEF LookupRuntimeToken, ReadStatus, Steps
    <3>2. CASE Goto(q, "lock")
      BY <1>1, <3>1, <3>2 DEF Goto, Left, StepsFrom
    <3> QED
      BY <1>5, <2>6, <3>1, <3>2 DEF LookupRuntimeToken, ReadStatus
  <2>7. CASE LockRow(q)
    <3>1. pc[q] = "lock" /\ pc'[q] \in {"checkClock", "apply", "revoke"}
      BY <1>1, <2>7 DEF LockRow, Goto
    <3> QED
      BY <3>1 DEF Left, StepsFrom
  <2>8. CASE CheckClock(q)
    <3>1. pc[q] = "checkClock" /\ pc[q] \in Steps
      BY <2>8 DEF CheckClock, Steps
    <3>2. CASE Goto(q, "apply")
      BY <1>1, <3>1, <3>2 DEF Goto, Left, StepsFrom
    <3> QED
      BY <1>5, <2>8, <3>1, <3>2 DEF CheckClock
  <2> QED
    BY <1>6, <2>1, <2>2, <2>3, <2>4, <2>5, <2>6, <2>7, <2>8 DEF RequestStep
<1>7. ASSUME CallSame(q) PROVE Left(q)' = Left(q)
  BY <1>7 DEF CallSame, Left
<1>8. ASSUME CreateTunnel(q) \/ NewProxy(q) \/ CloseProxy(q) \/ Delete(q) PROVE Left(q)' <= Left(q)
  <2>1. pc[q] = "idle"
    BY <1>8 DEF CreateTunnel, NewProxy, CloseProxy, Delete, Arrive
  <2>2. Left(q) = 10
    BY <2>1 DEF Left, StepsFrom
  <2> QED
    BY <1>2, <2>2
<1>9. ASSUME Fail(q) \/ Crashed(q) PROVE Left(q)' <= Left(q)
  <2>1. pc'[q] = "done"
    BY <1>1, <1>9 DEF Fail, EndWithout, Answer, Goto, Crashed
  <2> QED
    BY <1>2, <1>3, <2>1
<1>10. Left(q)' <= Left(q)
  <2>1. Left(q)' < Left(q) \/ Left(q)' = Left(q) \/ Left(q)' <= Left(q)
    BY <1>6, <1>7, <1>8, <1>9, StepsOfOne DEF CallStep, LockInv
  <2> QED
    BY <1>2, <2>1
<1> QED
  BY <1>2, <1>6, <1>10

(* A request takes ten steps at most, whatever the others do: with         *)
(* NoCyclicWait, what EveryRequestIsAnswered needs besides fairness.       *)
THEOREM RequestsRunOutOfSteps == Spec => StepsRunOut
<1>1. LockInv /\ TriesInv /\ LockInv' /\ TriesInv' /\ [Next]_vars => [StepsDescend]_vars
  BY LeftDescends DEF StepsDescend
<1> QED
  BY <1>1, InitLockInv, NextLockInv, InitHoldersInv, NextTriesInv, PTL DEF Spec, StepsRunOut

-----------------------------------------------------------------------------
(* The end of tunnels: a lifetime is bounded and never put off, and a pass *)
(* of the reaper takes every tunnel that has elapsed.                      *)

(* No tunnel has more than MaxTTL ahead of it.                             *)
LifetimeInv ==
    /\ \A q \in Requests : ttl[q] <= MaxTTL
    /\ \A t \in Tunnels : status[t] # "none" => expires[t] <= now + MaxTTL

(* Those the pass is for, and those of them it will not end.               *)
Elapsed == {t \in Tunnels : status[t] \in NonTerminal /\ expires[t] < reapNow}
Missed == Elapsed \ (reapTodo \union reapDone)

(* The steps a pass of the reaper has left at most.                        *)
PassLeft ==
    CASE reaperPc = "idle" -> 0
      [] reaperPc = "scan" -> Cardinality(Tunnels) + 2
      [] reaperPc = "update" -> Cardinality(reapTodo) + 1

(* A scan misses none; after it, only a tunnel is missed whose create      *)
(* commits when it has elapsed already, which the next pass takes. All     *)
(* others are expired by the commit, and no lifetime has been extended. A  *)
(* pass gets nearer to its end by each of its steps, and no request, no    *)
(* crash and no failure puts it off.                                       *)
PassStep ==
    /\ \A t \in Tunnels : status[t] # "none" => expires'[t] = expires[t]
    /\ ReapScan => Missed' = {}
    /\ reaperPc = "update" /\ reaperPc' = "update" =>
          \A t \in Missed' \ Missed : \E r \in Requests : CommitCreate(r) /\ tunnel[r] = t
    /\ ReapCommit => \A t \in Elapsed \ Missed : status'[t] = "expired"
    /\ PassLeft \in 0..Cardinality(Tunnels) + 2
    /\ ReapScan \/ (\E t \in Tunnels : ReapRow(t)) \/ ReapCommit => PassLeft' < PassLeft
    /\ reaperPc # "idle" => PassLeft' <= PassLeft
ReaperTakesTheElapsed == [][PassStep]_vars

(* Nothing is elapsed in the beginning.                                    *)
LEMMA InitLifetimeInv == Init => LifetimeInv
  BY BoundsAssumption DEF Init, LifetimeInv

(* Only a create chooses a lifetime, and Config.MaxTTL caps it.            *)
LEMMA LifetimesCapped ==
  ASSUME LockInv, LifetimeInv, [Next]_vars, NEW q \in Requests
  PROVE  ttl'[q] <= MaxTTL
<1> USE BoundsAssumption DEF clock, table, locks, call, reaper
<1>1. ASSUME UNCHANGED ttl PROVE ttl'[q] <= MaxTTL
  BY <1>1 DEF LifetimeInv
<1>2. ASSUME NEW r \in Requests, CreateTunnel(r) PROVE ttl'[q] <= MaxTTL
  <2>1. PICK requested \in 0..MaxTTL + 1 :
           /\ EffectiveTTL(requested) <= MaxTTL
           /\ ttl' = [ttl EXCEPT ![r] = EffectiveTTL(requested)]
    BY <1>2 DEF CreateTunnel
  <2> QED
    BY <2>1 DEF LifetimeInv, LockInv, TypeOK
<1>3. ASSUME NEW r \in Requests, CallStep(r), ~CreateTunnel(r) PROVE UNCHANGED ttl
  BY <1>3 DEF CallStep, RequestStep, NewProxy, CloseProxy, Delete, Fail, EndWithout,
     TakeQuotaLock, CheckQuota, PickCandidate, InsertCandidate, CommitCreate, Commit,
     LookupRuntimeToken, ReadStatus, LockRow, NotFound, CheckClock, ApplyTransition, ApplyRevoke
<1>4. ASSUME ReaperStep \/ ReapFail \/ Crash \/ Tick \/ UNCHANGED vars PROVE UNCHANGED ttl
  BY <1>4 DEF ReaperStep, ReapBegin, ReapScan, ReapRow, ReapCommit, ReapFail, Crash, Tick, vars
<1> QED
  BY <1>1, <1>2, <1>3, <1>4 DEF Next, CallStep

(* A row that is inserted expires its ttl after its INSERT was sent.       *)
LEMMA NextLifetimeInv == LockInv /\ OpInv /\ LifetimeInv /\ [Next]_vars => LifetimeInv'
<1> SUFFICES ASSUME LockInv, OpInv, LifetimeInv, [Next]_vars PROVE LifetimeInv'
  OBVIOUS
<1> USE BoundsAssumption
<1>1. now \in Nat /\ now' \in Nat /\ now' >= now /\ LockInv'
  BY TimeFlows, NextLockInv DEF LockInv
<1>2. ASSUME NEW t \in Tunnels, status'[t] # "none" PROVE expires'[t] <= now' + MaxTTL
  <2>1. expires[t] \in Nat /\ expires'[t] \in Nat
    BY <1>1 DEF LockInv, TypeOK
  <2>2. CASE status[t] # "none"
    BY <1>1, <2>1, <2>2, RowsLast DEF LifetimeInv
  <2>3. CASE status[t] = "none"
    <3>1. PICK r \in Requests : CommitCreate(r) /\ tunnel[r] = t
      BY <1>2, <2>3, RowSteps DEF SameRow, NewRow, MovedRow, DeadRow, validTransitions,
         NonTerminal, Terminal
    <3>2. expires'[t] = stamp[r] + ttl[r]
      BY <3>1 DEF CommitCreate, LockInv, TypeOK
    <3>3. stamp[r] \in Nat /\ ttl[r] \in Nat /\ stamp[r] <= now /\ ttl[r] <= MaxTTL
      BY DEF LockInv, TypeOK, OpInv, OpInvOf, LifetimeInv
    <3> QED
      BY <1>1, <3>2, <3>3
  <2> QED
    BY <2>2, <2>3
<1> QED
  BY <1>2, LifetimesCapped DEF LifetimeInv

(* What a step does to a pass: nothing, its scan, one row, its end.        *)
LEMMA PassSteps ==
  ASSUME LockInv, [Next]_vars
  PROVE  \/ UNCHANGED reaper
         \/ reaperPc = "idle"
         \/ ReapScan
         \/ \E t \in Tunnels : ReapRow(t)
         \/ reaperPc' = "idle"
<1> USE DEF clock, table, locks, call, reaper
<1>1. ASSUME NEW r \in Requests, CallStep(r) PROVE UNCHANGED reaper
  BY <1>1 DEF CallStep, RequestStep, CreateTunnel, NewProxy, CloseProxy, Delete, Arrive, Fail,
     EndWithout, TakeQuotaLock, CheckQuota, PickCandidate, InsertCandidate, CommitCreate, Commit,
     LookupRuntimeToken, ReadStatus, LockRow, NotFound, CheckClock, ApplyTransition, ApplyRevoke
<1>2. CASE ReapBegin
  BY <1>2 DEF ReapBegin
<1>3. CASE ReapCommit \/ ReapFail \/ Crash
  BY <1>3 DEF ReapCommit, ReapFail, Crash, ReaperReset
<1>4. CASE Tick \/ UNCHANGED vars
  BY <1>4 DEF Tick, vars
<1> QED
  BY <1>1, <1>2, <1>3, <1>4 DEF Next, CallStep, ReaperStep

(* The rows a pass has to await are fewer after each of its steps.         *)
LEMMA PassDescends ==
  ASSUME LockInv, [Next]_vars
  PROVE  /\ PassLeft \in 0..Cardinality(Tunnels) + 2
         /\ ReapScan \/ (\E t \in Tunnels : ReapRow(t)) \/ ReapCommit => PassLeft' < PassLeft
         /\ reaperPc # "idle" => PassLeft' <= PassLeft
<1> USE SetsAssumption
<1>1. \A ts \in SUBSET Tunnels : Cardinality(ts) \in Nat /\ Cardinality(ts) <= Cardinality(Tunnels)
  BY FS_Subset, FS_CardinalityType
<1>2. Cardinality(Tunnels) \in Nat
  BY <1>1
<1>3. reaperPc \in {"idle", "scan", "update"} /\ reapTodo \in SUBSET Tunnels
  BY DEF LockInv, TypeOK
<1>4. PassLeft \in 0..Cardinality(Tunnels) + 2 /\ (reaperPc # "idle" => PassLeft > 0)
  BY <1>1, <1>2, <1>3 DEF PassLeft
<1>5. ASSUME reaperPc' = "idle" PROVE PassLeft' = 0
  BY <1>5 DEF PassLeft
<1>6. ASSUME ReapScan PROVE PassLeft' < PassLeft
  <2>1. reapTodo' \in SUBSET Tunnels /\ reaperPc = "scan" /\ reaperPc' = "update"
    BY <1>6 DEF ReapScan
  <2>2. PassLeft = Cardinality(Tunnels) + 2 /\ PassLeft' = Cardinality(reapTodo') + 1
    BY <2>1 DEF PassLeft
  <2> QED
    BY <1>1, <1>2, <2>1, <2>2
<1>7. ASSUME NEW t \in Tunnels, ReapRow(t) PROVE PassLeft' < PassLeft
  <2>1. t \in reapTodo /\ reapTodo' = reapTodo \ {t} /\ reaperPc = "update" /\ reaperPc' = "update"
    BY <1>7 DEF ReapRow
  <2>2. IsFiniteSet(reapTodo)
    BY <1>3, FS_Subset
  <2>3. Cardinality(reapTodo') = Cardinality(reapTodo) - 1
    BY <2>1, <2>2, FS_RemoveElement
  <2>4. PassLeft = Cardinality(reapTodo) + 1 /\ PassLeft' = Cardinality(reapTodo') + 1
    BY <2>1 DEF PassLeft
  <2> QED
    BY <1>1, <1>3, <2>3, <2>4
<1>8. ASSUME ReapCommit PROVE PassLeft' < PassLeft
  BY <1>4, <1>5, <1>8 DEF ReapCommit, ReaperReset
<1>9. ASSUME UNCHANGED reaper PROVE PassLeft' = PassLeft
  BY <1>9 DEF reaper, PassLeft
<1>10. PassLeft' \in Nat
  <2>1. reaperPc' \in {"idle", "scan", "update"} /\ reapTodo' \in SUBSET Tunnels
    BY NextLockInv DEF LockInv, TypeOK
  <2> QED
    BY <1>1, <1>2, <2>1 DEF PassLeft
<1>11. ASSUME reaperPc # "idle" PROVE PassLeft' <= PassLeft
  <2>1. PassLeft' < PassLeft \/ PassLeft' = PassLeft
    BY <1>4, <1>5, <1>6, <1>7, <1>9, <1>11, PassSteps
  <2> QED
    BY <1>2, <1>4, <1>10, <2>1
<1> QED
  BY <1>4, <1>6, <1>7, <1>8, <1>11

(* Which tunnels a step takes into a pass, or leaves out of it.            *)
LEMMA NextPassStep == LockInv /\ [Next]_vars => PassStep
<1> SUFFICES ASSUME LockInv, [Next]_vars PROVE PassStep
  OBVIOUS
<1>1. \A t \in Tunnels : status[t] # "none" => expires'[t] = expires[t]
  BY RowsLast
<1>2. ASSUME ReapScan PROVE Missed' = {}
  BY <1>2 DEF ReapScan, Missed, Elapsed, table
<1>3. ASSUME reaperPc = "update", reaperPc' = "update", NEW t \in Missed' \ Missed
      PROVE  \E r \in Requests : CommitCreate(r) /\ tunnel[r] = t
  <2>1. t \in Tunnels /\ t \notin reapTodo' \union reapDone' /\ status'[t] \in NonTerminal
        /\ expires'[t] < reapNow'
    BY <1>3 DEF Missed, Elapsed
  <2>2. reapNow' = reapNow
    BY <1>3, PassSteps DEF ReapScan, ReapRow, reaper
  <2>3. CASE status[t] = "none"
    BY <2>1, <2>3, RowSteps DEF SameRow, NewRow, MovedRow, DeadRow, validTransitions,
       NonTerminal, Terminal
  <2>4. CASE status[t] # "none"
    <3>1. expires'[t] = expires[t] /\ status[t] \in NonTerminal
      BY <2>1, <2>4, RowsLast DEF LockInv, TypeOK, Status, NonTerminal, Terminal
    <3>2. t \in reapTodo \union reapDone
      BY <1>3, <2>1, <2>2, <3>1 DEF Missed, Elapsed
    <3>3. ~UNCHANGED reaper
      BY <2>1, <3>2 DEF reaper
    <3>4. PICK s \in Tunnels : ReapRow(s)
      BY <1>3, <3>3, PassSteps DEF ReapScan
    <3>5. t = s /\ status[t] \notin NonTerminal
      BY <2>1, <3>2, <3>4 DEF ReapRow
    <3> QED
      BY <3>1, <3>5
  <2> QED
    BY <2>3, <2>4
<1>4. ASSUME ReapCommit, NEW t \in Elapsed \ Missed PROVE status'[t] = "expired"
  <2>1. t \in Tunnels /\ t \in reapDone
    BY <1>4 DEF ReapCommit, Missed, Elapsed
  <2> QED
    BY <1>4, <2>1 DEF ReapCommit
<1> QED
  BY <1>1, <1>2, <1>3, <1>4, PassDescends DEF PassStep

(* No tunnel ever has more than MaxTTL ahead (handlers.go:117-130).        *)
THEOREM LifetimesAreBounded == Spec => []LifetimeInv
<1>1. Init => OpInv
  BY InitPromiseInv
<1> QED
  BY <1>1, InitLockInv, NextLockInv, InitLifetimeInv, NextOpInv, NextLifetimeInv, PTL DEF Spec

(* A pass that commits has ended every tunnel that had elapsed when it     *)
(* scanned, for any number of tunnels, callbacks that move them meanwhile, *)
(* and locks it waits for: with LifetimesAreBounded and NoCyclicWait, what *)
(* EveryTunnelEnds needs besides fairness (lifecycle.go:210-262).          *)
THEOREM PassesAreThorough == Spec => ReaperTakesTheElapsed
<1> QED
  BY LockDiscipline, NextPassStep, PTL DEF Spec, ReaperTakesTheElapsed
=============================================================================
