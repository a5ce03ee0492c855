------------------------- MODULE IdempotencyProofs -------------------------
(***************************************************************************)
(* Proofs about Idempotency, for any number of attempts, keys and crashes, *)
(* and any retention.                                                      *)
(***************************************************************************)
EXTENDS Idempotency, TLAPS

(* An attempt that may still write: its handler runs, its completion is to *)
(* be persisted, or its COMMIT is undecided.                               *)
Active(a) == pc[a] \in Running \union {"persist"} \/ a \in limbo

(* An attempt under the key has outlived its retention.                    *)
Outlived(k) == \E c \in late : key[c] = k

(* What an attempt has where it stands.                                    *)
CallInv ==
    \A a \in Attempts :
        /\ began[a] <= now
        /\ pc[a] = "idle" => began[a] = 0 /\ a \notin late
        /\ pc[a] # "idle" => key[a] \in Keys /\ fp[a] \in Fingerprints
        /\ pc[a] \in Running \union {"idle", "reserve", "existing"} =>
              reply[a] = "none" /\ outcome[a] = "none" /\ a \notin limbo \union committed
        /\ pc[a] = "persist" => outcome[a] # "none"
        /\ pc[a] = "commit" \/ a \in limbo \union committed => fp[a] \in Creates
        /\ a \notin limbo \intersect committed

(* The row lock is held by the one create that has written the row, from   *)
(* its UPDATE until PostgreSQL has decided; nobody else changes the row.   *)
LockInv ==
    /\ \A k \in Keys : rowLock[k] # None =>
          /\ key[rowLock[k]] = k
          /\ InFlight(k)
          /\ pc[rowLock[k]] = "commit" \/ rowLock[k] \in limbo
    /\ \A a \in Attempts : pc[a] = "commit" \/ a \in limbo => rowLock[key[a]] = a

(* A row is no older than the attempts under its key.                      *)
AgeInv ==
    \A a \in Attempts : key[a] \in Keys =>
        (row[key[a]] # None => began[a] <= row[key[a]].created)

(* An attempt that begins after a commit under its key does so when that   *)
(* has expired; one that began before finds the reservation completed, for *)
(* as long as its own retention lasts.                                     *)
WindowInv ==
    /\ \A a \in Attempts : Active(a) /\ now > began[a] + Retention => a \in late
    /\ \A a \in Attempts, b \in committed :
          Active(a) /\ a # b /\ key[a] = key[b] =>
             \/ began[a] > began[b] + Retention
             \/ now > began[a] + Retention
             \/ row[key[a]] # None /\ row[key[a]].state = "done"

(* A reservation is the one of the attempt that is active under it.        *)
ExclusiveInv ==
    \A a \in Attempts : Active(a) =>
        \/ Outlived(key[a])
        \/ /\ row[key[a]] # None /\ row[key[a]].fp = fp[a]
           /\ \A b \in Attempts : Active(b) /\ key[b] = key[a] => a = b

(* What a row stores, and what has been answered.                          *)
Happened(a) == (outcome[a] = "ok" \/ a \in committed) /\ (fp[a] \in Creates => a \in committed)

ResponseInv ==
    /\ \A k \in Keys : row[k] # None /\ row[k].state = "done" =>
          /\ row[k].response \in Attempts
          /\ key[row[k].response] = k
          /\ fp[row[k].response] = row[k].fp \/ Outlived(k)
          /\ Happened(row[k].response)
    /\ \A a \in Attempts :
          /\ outcome[a] \in {"ok", "oversize"} \/ reply[a] = "ok" =>
                (fp[a] \in Creates => a \in committed /\ outcome[a] = "ok")
          /\ reply[a] \in Attempts =>
                Happened(reply[a]) /\ (fp[reply[a]] = fp[a] \/ Outlived(key[a]))

IInv ==
    /\ TypeOK
    /\ CallInv
    /\ LockInv
    /\ AgeInv
    /\ CommittedIsReplayable
    /\ WindowInv
    /\ OneTunnelPerKey
    /\ ExclusiveInv
    /\ ResponseInv

-----------------------------------------------------------------------------
(* The invariant holds before the first request.                           *)
LEMMA InitIInv == Init => IInv
<1> SUFFICES ASSUME Init PROVE IInv
  OBVIOUS
<1>1. TypeOK
  BY DEF Init, TypeOK, Serving, Outcomes, Replies, Verdicts
<1>2. \A a \in Attempts : ~Active(a)
  BY DEF Init, Active, Running
<1>3. CallInv /\ LockInv /\ AgeInv
  BY NoneIsNew DEF Init, CallInv, LockInv, AgeInv, Running
<1>4. CommittedIsReplayable /\ OneTunnelPerKey
  BY DEF Init, CommittedIsReplayable, OneTunnelPerKey
<1>5. WindowInv /\ ExclusiveInv
  BY <1>2 DEF Init, WindowInv, ExclusiveInv
<1>6. ResponseInv
  BY NoneIsNew DEF Init, ResponseInv, Verdicts
<1> QED
  BY <1>1, <1>3, <1>4, <1>5, <1>6 DEF IInv

(* The two statements that write a row keep its type.                      *)
LEMMA InsertedRow ==
  ASSUME TypeOK, NEW a \in Attempts, key[a] \in Keys, fp[a] \in Fingerprints, Insert(a)
  PROVE  /\ row' \in [Keys -> Row \union {None}]
         /\ \A k \in Keys \ {key[a]} : row'[k] = row[k]
         /\ row'[key[a]] # None
         /\ row'[key[a]].fp = fp[a] /\ row'[key[a]].state = "inflight"
         /\ row'[key[a]].created = now /\ row'[key[a]].response = None
<1>1. [fp |-> fp[a], state |-> "inflight", response |-> None, created |-> now] \in Row
  BY DEF TypeOK, Row, RowState
<1>2. row' \in [Keys -> Row \union {None}]
  BY <1>1 DEF TypeOK, Insert
<1>3. /\ \A k \in Keys \ {key[a]} : row'[k] = row[k]
      /\ row'[key[a]] = [fp |-> fp[a], state |-> "inflight", response |-> None, created |-> now]
  BY DEF TypeOK, Insert
<1> QED
  BY <1>1, <1>2, <1>3, NoneIsNew

(* Completing a reservation writes its state and response, and nothing     *)
(* else.                                                                   *)
LEMMA CompletedRow ==
  ASSUME TypeOK, NEW a \in Attempts, NEW k \in Keys, InFlight(k), NEW state \in RowState
  PROVE  /\ Completed(k, a, state) \in [Keys -> Row \union {None}]
         /\ \A l \in Keys \ {k} : Completed(k, a, state)[l] = row[l]
         /\ Completed(k, a, state)[k] # None
         /\ Completed(k, a, state)[k].fp = row[k].fp
         /\ Completed(k, a, state)[k].created = row[k].created
         /\ Completed(k, a, state)[k].state = state
         /\ Completed(k, a, state)[k].response = a
<1>1. row[k] \in Row /\ row \in [Keys -> Row \union {None}]
  BY DEF TypeOK, InFlight
<1> DEFINE new == [fp |-> row[k].fp, state |-> state, response |-> a, created |-> row[k].created]
<1>2. Completed(k, a, state) = [row EXCEPT ![k] = new]
  <2> DEFINE half == [row EXCEPT ![k].state = state]
  <2> DEFINE r == [row[k] EXCEPT !.state = state]
  <2>0. r = [fp |-> row[k].fp, state |-> state, response |-> row[k].response,
             created |-> row[k].created] /\ r \in Row
    BY <1>1 DEF Row
  <2>1. half = [row EXCEPT ![k] = r] /\ half \in [Keys -> Row \union {None}] /\ half[k] = r
    <3> HIDE DEF r
    <3>1. [row EXCEPT ![k] = r] \in [Keys -> Row \union {None}] /\ [row EXCEPT ![k] = r][k] = r
      BY <1>1, <2>0
    <3> QED
      BY <3>1 DEF r
  <2>2. Completed(k, a, state) = [half EXCEPT ![k] = [half[k] EXCEPT !.response = a]]
    BY <1>1, <2>1 DEF Completed
  <2>3. [half[k] EXCEPT !.response = a] = new
    <3>1. half[k] = [fp |-> row[k].fp, state |-> state, response |-> row[k].response,
                     created |-> row[k].created]
      <4> HIDE DEF half, r
      <4> QED
        BY <2>0, <2>1
    <3> HIDE DEF half, r
    <3> QED
      BY <3>1
  <2>4. \A l \in Keys \ {k} : half[l] = row[l]
    BY <1>1
  <2> HIDE DEF half, new
  <2> QED
    BY <1>1, <2>1, <2>2, <2>3, <2>4
<1>3. new \in Row
  BY <1>1 DEF Row
<1> QED
  BY <1>1, <1>2, <1>3, NoneIsNew

(* What a row says after an attempt has completed it.                      *)
LEMMA AppliedRow ==
  ASSUME IInv, NEW a \in Attempts, pc[a] = "commit" \/ a \in limbo
  PROVE  /\ key[a] \in Keys /\ fp[a] \in Creates /\ rowLock[key[a]] = a
         /\ InFlight(key[a])
         /\ a \notin committed
  BY NoneIsNew DEF IInv, TypeOK, CallInv, LockInv, Running

(* Every step keeps the types.                                             *)
LEMMA TypeOKKept == IInv /\ Next => TypeOK'
<1> SUFFICES ASSUME IInv, Next PROVE TypeOK'
  OBVIOUS
<1> USE RetentionAssumption DEF IInv, clock, call
<1>1. ASSUME NEW a \in Attempts, Receive(a) PROVE TypeOK'
  BY <1>1 DEF Receive, Goto, TypeOK, Serving, Running, Outcomes, Replies, Verdicts
<1>2. ASSUME NEW a \in Attempts, Reserve(a) PROVE TypeOK'
  <2>1. row' \in [Keys -> Row \union {None}]
    BY <1>2, InsertedRow DEF Reserve, TypeOK, CallInv, Running
  <2> QED
    BY <1>2, <2>1 DEF Reserve, Goto, TypeOK, Serving, Running
<1>3. ASSUME NEW a \in Attempts, QueryFails(a) PROVE TypeOK'
  <2>1. row' \in [Keys -> Row \union {None}]
    BY <1>3, InsertedRow DEF QueryFails, TypeOK, CallInv, Running
  <2> QED
    BY <1>3, <2>1 DEF QueryFails, Goto, TypeOK, Serving, Running, Replies, Verdicts
<1>4. ASSUME NEW a \in Attempts, ServeExisting(a) PROVE TypeOK'
  <2>1. key[a] \in Keys /\ fp[a] \in Fingerprints
    BY <1>4 DEF ServeExisting, CallInv
  <2>2. ExistingReply(key[a], fp[a]) \in Replies
    BY <2>1, NoneIsNew DEF TypeOK, ResponseInv, Row, RowState, ExistingReply,
       Replies, Verdicts
  <2> QED
    BY <1>4, <2>2 DEF ServeExisting, Goto, TypeOK, Serving
<1>5. ASSUME NEW a \in Attempts, HandlerFails(a) PROVE TypeOK'
  BY <1>5 DEF HandlerFails, HandlerReturns, Goto, TypeOK, Serving, Running,
     Outcomes, Replies, Verdicts
<1>6. ASSUME NEW a \in Attempts, OtherHandler(a) PROVE TypeOK'
  BY <1>6 DEF OtherHandler, HandlerReturns, Goto, TypeOK, Serving, Running,
     Outcomes, Replies, Verdicts
<1>7. ASSUME NEW a \in Attempts, CompleteInTransaction(a) PROVE TypeOK'
  BY <1>7 DEF CompleteInTransaction, Goto, TypeOK, Serving, Running, Outcomes,
     Replies, Verdicts
<1>8. ASSUME NEW a \in Attempts, CommitTunnel(a) PROVE TypeOK'
  <2>1. key[a] \in Keys /\ InFlight(key[a]) /\ "done" \in RowState
    BY <1>8, AppliedRow DEF CommitTunnel, RowState
  <2>2. row' \in [Keys -> Row \union {None}]
    BY <1>8, <2>1, CompletedRow DEF CommitTunnel, Apply
  <2> QED
    BY <1>8, <2>2 DEF CommitTunnel, Apply, Unlock, HandlerReturns, Goto,
       TypeOK, Serving, Running,
       Outcomes, Replies, Verdicts
<1>9. ASSUME NEW a \in Attempts, CommitUnknown(a) PROVE TypeOK'
  BY <1>9 DEF CommitUnknown, HandlerReturns, Goto, TypeOK, Serving, Running,
     Outcomes, Replies, Verdicts
<1>10. ASSUME NEW a \in Attempts, PersistCompletion(a) PROVE TypeOK'
  <2>1. key[a] \in Keys
    BY <1>10 DEF PersistCompletion, CallInv
  <2>2. row' \in [Keys -> Row \union {None}]
    <3>1. CASE InFlight(key[a]) /\ outcome[a] # "failed"
      BY <1>10, <2>1, <3>1, CompletedRow DEF PersistCompletion, RowState
    <3>2. CASE ~(InFlight(key[a]) /\ outcome[a] # "failed")
      BY <1>10, <2>1, <3>2 DEF PersistCompletion, TypeOK
    <3> QED
      BY <3>1, <3>2
  <2> QED
    BY <1>10, <2>2 DEF PersistCompletion, Goto, TypeOK, Serving
<1>11. ASSUME NEW a \in Attempts, PersistFails(a) PROVE TypeOK'
  BY <1>11 DEF PersistFails, Goto, TypeOK, Serving, Running, Outcomes, Replies, Verdicts
<1>12. ASSUME NEW a \in Attempts, ResolveLimbo(a) PROVE TypeOK'
  <2>1. key[a] \in Keys /\ InFlight(key[a]) /\ "done" \in RowState
    BY <1>12, AppliedRow DEF ResolveLimbo, RowState
  <2>2. row' \in [Keys -> Row \union {None}]
    BY <1>12, <2>1, CompletedRow DEF ResolveLimbo, Apply, TypeOK
  <2> QED
    BY <1>12, <2>2 DEF ResolveLimbo, Apply, Unlock, TypeOK
<1>13. ASSUME NEW k \in Keys, Sweep(k) PROVE TypeOK'
  BY <1>13 DEF Sweep, TypeOK, Serving, Running, Outcomes, Replies, Verdicts
<1>14. CASE Crash
  <2>1. pc' \in [Attempts -> Serving \union {"idle", "done"}] /\ reply' \in [Attempts -> Replies]
    BY <1>14 DEF Crash, TypeOK, Replies, Verdicts
  <2>2. rowLock' \in [Keys -> Attempts \union {None}] /\ crashes' \in Nat
    BY <1>14 DEF Crash, TypeOK
  <2> QED
    BY <1>14, <2>1, <2>2 DEF Crash, TypeOK
<1>15. CASE Tick
  BY <1>15 DEF Tick, TypeOK, Serving, Running, Outcomes, Replies, Verdicts
<1> QED
  BY <1>1, <1>2, <1>3, <1>4, <1>5, <1>6, <1>7, <1>8, <1>9, <1>10, <1>11, <1>12,
     <1>13, <1>14, <1>15 DEF Next, ServerStep

(* Every step keeps what an attempt has where it stands.                   *)
LEMMA CallInvKept == IInv /\ Next => CallInv'
<1> SUFFICES ASSUME IInv, Next PROVE CallInv'
  OBVIOUS
<1>1. ASSUME NEW a \in Attempts, Receive(a) PROVE CallInv'
  BY <1>1, NoneIsNew DEF Receive, IInv, TypeOK, CallInv, LockInv, Serving,
     Running, Goto, clock, call
<1>2. ASSUME NEW a \in Attempts, Reserve(a) PROVE CallInv'
  BY <1>2, NoneIsNew DEF Reserve, IInv, TypeOK, CallInv, LockInv, Serving,
     Running, Insert, Goto, clock, call
<1>3. ASSUME NEW a \in Attempts, QueryFails(a) PROVE CallInv'
  BY <1>3, NoneIsNew DEF QueryFails, IInv, TypeOK, CallInv, LockInv, Serving,
     Running, Insert, Goto, clock, call
<1>4. ASSUME NEW a \in Attempts, ServeExisting(a) PROVE CallInv'
  BY <1>4, NoneIsNew DEF ServeExisting, IInv, TypeOK, CallInv, LockInv,
     Serving, Running, Goto, ExistingReply, clock, call
<1>5. ASSUME NEW a \in Attempts, HandlerFails(a) PROVE CallInv'
  BY <1>5, NoneIsNew DEF HandlerFails, IInv, TypeOK, CallInv, LockInv, Serving,
     Running, HandlerReturns, Goto, clock, call
<1>6. ASSUME NEW a \in Attempts, OtherHandler(a) PROVE CallInv'
  BY <1>6, NoneIsNew DEF OtherHandler, IInv, TypeOK, CallInv, LockInv, Serving,
     Running, HandlerReturns, Goto, clock, call
<1>7. ASSUME NEW a \in Attempts, CompleteInTransaction(a) PROVE CallInv'
  BY <1>7, NoneIsNew DEF CompleteInTransaction, IInv, TypeOK, CallInv, LockInv,
     Serving, Running, Goto, clock, call
<1>8. ASSUME NEW a \in Attempts, CommitTunnel(a) PROVE CallInv'
  BY <1>8, NoneIsNew DEF CommitTunnel, IInv, TypeOK, CallInv, LockInv, Serving,
     Running, Apply, Unlock, HandlerReturns, Goto, Completed, clock, call
<1>9. ASSUME NEW a \in Attempts, CommitUnknown(a) PROVE CallInv'
  BY <1>9, NoneIsNew DEF CommitUnknown, IInv, TypeOK, CallInv, LockInv,
     Serving, Running, HandlerReturns, Goto, clock, call
<1>10. ASSUME NEW a \in Attempts, PersistCompletion(a) PROVE CallInv'
  BY <1>10, NoneIsNew DEF PersistCompletion, IInv, TypeOK, CallInv, LockInv,
     Serving, Running, Goto, Completed, clock, call
<1>11. ASSUME NEW a \in Attempts, PersistFails(a) PROVE CallInv'
  BY <1>11, NoneIsNew DEF PersistFails, IInv, TypeOK, CallInv, LockInv,
     Serving, Running, Goto, clock, call
<1>12. ASSUME NEW a \in Attempts, ResolveLimbo(a) PROVE CallInv'
  BY <1>12, NoneIsNew DEF ResolveLimbo, IInv, TypeOK, CallInv, LockInv,
     Serving, Running, Apply, Unlock, Completed, clock, call
<1>13. ASSUME NEW k \in Keys, Sweep(k) PROVE CallInv'
  BY <1>13, NoneIsNew DEF Sweep, IInv, TypeOK, CallInv, LockInv, Serving,
     Running, clock, call
<1>14. CASE Crash
  BY <1>14, NoneIsNew DEF Crash, IInv, TypeOK, CallInv, LockInv, Serving,
     Running, clock, call
<1>15. CASE Tick
  BY <1>15, NoneIsNew DEF Tick, IInv, TypeOK, CallInv, LockInv, Serving,
     Running, clock, call
<1> QED
  BY <1>1, <1>2, <1>3, <1>4, <1>5, <1>6, <1>7, <1>8, <1>9, <1>10, <1>11, <1>12,
     <1>13, <1>14, <1>15 DEF Next, ServerStep

(* Only the create that holds a row lock, and PostgreSQL for it, releases  *)
(* it.                                                                     *)
LEMMA LockInvKept == IInv /\ Next => LockInv'
<1> SUFFICES ASSUME IInv, Next PROVE LockInv'
  OBVIOUS
<1>1. ASSUME NEW a \in Attempts, Receive(a) PROVE LockInv'
  BY <1>1, NoneIsNew DEF Receive, IInv, TypeOK, CallInv, LockInv, InFlight,
     Serving, Running, Goto, clock, call
<1>2. ASSUME NEW a \in Attempts, Reserve(a) PROVE LockInv'
  BY <1>2, NoneIsNew DEF Reserve, IInv, TypeOK, CallInv, LockInv, InFlight,
     Serving, Running, Insert, Goto, clock, call
<1>3. ASSUME NEW a \in Attempts, QueryFails(a) PROVE LockInv'
  BY <1>3, NoneIsNew DEF QueryFails, IInv, TypeOK, CallInv, LockInv, InFlight,
     Serving, Running, Insert, Goto, clock, call
<1>4. ASSUME NEW a \in Attempts, ServeExisting(a) PROVE LockInv'
  BY <1>4, NoneIsNew DEF ServeExisting, IInv, TypeOK, CallInv, LockInv,
     InFlight, Serving, Running, Goto, ExistingReply, clock, call
<1>5. ASSUME NEW a \in Attempts, HandlerFails(a) PROVE LockInv'
  BY <1>5, NoneIsNew DEF HandlerFails, IInv, TypeOK, CallInv, LockInv,
     InFlight, Serving, Running, HandlerReturns, Goto, clock, call
<1>6. ASSUME NEW a \in Attempts, OtherHandler(a) PROVE LockInv'
  BY <1>6, NoneIsNew DEF OtherHandler, IInv, TypeOK, CallInv, LockInv,
     InFlight, Serving, Running, HandlerReturns, Goto, clock, call
<1>7. ASSUME NEW a \in Attempts, CompleteInTransaction(a) PROVE LockInv'
  BY <1>7, NoneIsNew DEF CompleteInTransaction, IInv, TypeOK, CallInv, LockInv,
     InFlight, Serving, Running, Goto, clock, call
<1>8. ASSUME NEW a \in Attempts, CommitTunnel(a) PROVE LockInv'
  BY <1>8, NoneIsNew DEF CommitTunnel, IInv, TypeOK, CallInv, LockInv,
     InFlight, Serving, Running, Apply, Unlock, HandlerReturns, Goto,
     Completed, clock, call
<1>9. ASSUME NEW a \in Attempts, CommitUnknown(a) PROVE LockInv'
  BY <1>9, NoneIsNew DEF CommitUnknown, IInv, TypeOK, CallInv, LockInv,
     InFlight, Serving, Running, HandlerReturns, Goto, clock, call
<1>10. ASSUME NEW a \in Attempts, PersistCompletion(a) PROVE LockInv'
  BY <1>10, NoneIsNew DEF PersistCompletion, IInv, TypeOK, CallInv, LockInv,
     InFlight, Serving, Running, Goto, Completed, clock, call
<1>11. ASSUME NEW a \in Attempts, PersistFails(a) PROVE LockInv'
  BY <1>11, NoneIsNew DEF PersistFails, IInv, TypeOK, CallInv, LockInv,
     InFlight, Serving, Running, Goto, clock, call
<1>12. ASSUME NEW a \in Attempts, ResolveLimbo(a) PROVE LockInv'
  BY <1>12, NoneIsNew DEF ResolveLimbo, IInv, TypeOK, CallInv, LockInv,
     InFlight, Serving, Running, Apply, Unlock, Completed, clock, call
<1>13. ASSUME NEW k \in Keys, Sweep(k) PROVE LockInv'
  BY <1>13, NoneIsNew DEF Sweep, IInv, TypeOK, CallInv, LockInv, InFlight,
     Serving, Running, clock, call
<1>14. CASE Crash
  BY <1>14, NoneIsNew DEF Crash, IInv, TypeOK, CallInv, LockInv, InFlight,
     Serving, Running, clock, call
<1>15. CASE Tick
  BY <1>15, NoneIsNew DEF Tick, IInv, TypeOK, CallInv, LockInv, InFlight,
     Serving, Running, clock, call
<1> QED
  BY <1>1, <1>2, <1>3, <1>4, <1>5, <1>6, <1>7, <1>8, <1>9, <1>10, <1>11, <1>12,
     <1>13, <1>14, <1>15 DEF Next, ServerStep

(* What the writers of a row do to it, in the terms of the invariants.     *)
LEMMA CommitRow ==
  ASSUME IInv, NEW a \in Attempts, CommitTunnel(a) \/ (ResolveLimbo(a) /\ Apply(a))
  PROVE  /\ key[a] \in Keys /\ fp[a] \in Creates /\ InFlight(key[a])
         /\ a \notin committed /\ committed' = committed \union {a}
         /\ \A k \in Keys \ {key[a]} : row'[k] = row[k]
         /\ row'[key[a]] # None
         /\ row'[key[a]].fp = row[key[a]].fp /\ row'[key[a]].created = row[key[a]].created
         /\ row'[key[a]].state = "done" /\ row'[key[a]].response = a
<1>1. (pc[a] = "commit" \/ a \in limbo) /\ Apply(a)
  BY DEF CommitTunnel, ResolveLimbo
<1>2. key[a] \in Keys /\ fp[a] \in Creates /\ InFlight(key[a]) /\ a \notin committed
  BY <1>1, AppliedRow
<1>3. row' = Completed(key[a], a, "done") /\ committed' = committed \union {a} /\ "done" \in RowState
  BY <1>1 DEF Apply, RowState
<1> QED
  BY <1>2, <1>3, CompletedRow DEF IInv

(* What persistCompletion writes (middleware.go:135-194): the reservation  *)
(* still in flight is completed, or deleted after a failure; otherwise     *)
(* nothing.                                                                *)
LEMMA PersistRow ==
  ASSUME IInv, NEW a \in Attempts, PersistCompletion(a)
  PROVE  /\ key[a] \in Keys
         /\ \A k \in Keys \ {key[a]} : row'[k] = row[k]
         /\ ~InFlight(key[a]) => row' = row
         /\ InFlight(key[a]) /\ outcome[a] = "failed" => row'[key[a]] = None
         /\ InFlight(key[a]) /\ outcome[a] # "failed" =>
               /\ row'[key[a]] # None
               /\ row'[key[a]].fp = row[key[a]].fp /\ row'[key[a]].created = row[key[a]].created
               /\ row'[key[a]].response = a
               /\ row'[key[a]].state = IF outcome[a] = "oversize" THEN "uncacheable" ELSE "done"
<1>1. key[a] \in Keys
  BY DEF PersistCompletion, IInv, CallInv
<1>2. CASE InFlight(key[a]) /\ outcome[a] # "failed"
  <2> DEFINE state == IF outcome[a] = "oversize" THEN "uncacheable" ELSE "done"
  <2>1. row' = Completed(key[a], a, state) /\ state \in RowState
    BY <1>2 DEF PersistCompletion, RowState
  <2> HIDE DEF state
  <2>2. /\ \A k \in Keys \ {key[a]} : row'[k] = row[k]
        /\ row'[key[a]] # None
        /\ row'[key[a]].fp = row[key[a]].fp /\ row'[key[a]].created = row[key[a]].created
        /\ row'[key[a]].response = a /\ row'[key[a]].state = state
    BY <1>1, <1>2, <2>1, CompletedRow DEF IInv
  <2> QED
    BY <1>1, <1>2, <2>2 DEF state
<1>3. CASE ~(InFlight(key[a]) /\ outcome[a] # "failed")
  BY <1>1, <1>3 DEF PersistCompletion, IInv, TypeOK
<1> QED
  BY <1>2, <1>3

(* The cleanup deletes one row, whose retention is over.                   *)
LEMMA SweptRow ==
  ASSUME IInv, NEW k \in Keys, Sweep(k)
  PROVE  /\ row[k] # None /\ row[k].created \in Nat /\ row[k].created + Retention < now
         /\ row'[k] = None /\ \A l \in Keys \ {k} : row'[l] = row[l]
  BY DEF Sweep, IInv, TypeOK, Row

(* A row is inserted after its attempt began, and never grows older.       *)
LEMMA AgeInvKept == IInv /\ Next => AgeInv'
<1> SUFFICES ASSUME IInv, Next PROVE AgeInv'
  OBVIOUS
<1> USE NoneIsNew, RetentionAssumption DEF IInv, clock, call
<1>1. ASSUME NEW a \in Attempts, Receive(a) PROVE AgeInv'
  <2>1. \A k \in Keys : row[k] # None => row[k].created \in Nat
    BY DEF TypeOK, Row
  <2>2. pc[a] = "idle" /\ began[a] = 0 /\ UNCHANGED <<row, began>>
    BY <1>1 DEF Receive, CallInv
  <2>3. \A b \in Attempts \ {a} : key'[b] = key[b]
    BY <1>1 DEF Receive, TypeOK
  <2> QED
    BY <2>1, <2>2, <2>3 DEF AgeInv
<1>2. ASSUME NEW a \in Attempts, Reserve(a) PROVE AgeInv'
  <2>1. key[a] \in Keys /\ fp[a] \in Fingerprints
    BY <1>2 DEF Reserve, CallInv
  <2> QED
    BY <1>2, <2>1, InsertedRow DEF Reserve, TypeOK, CallInv, AgeInv
<1>3. ASSUME NEW a \in Attempts, QueryFails(a) PROVE AgeInv'
  <2>1. key[a] \in Keys /\ fp[a] \in Fingerprints
    BY <1>3 DEF QueryFails, CallInv
  <2> QED
    BY <1>3, <2>1, InsertedRow DEF QueryFails, TypeOK, CallInv, AgeInv
<1>4. ASSUME NEW a \in Attempts, ServeExisting(a) PROVE AgeInv'
  BY <1>4 DEF ServeExisting, Goto, TypeOK, CallInv, AgeInv, Row, InFlight
<1>5. ASSUME NEW a \in Attempts, HandlerFails(a) PROVE AgeInv'
  BY <1>5 DEF HandlerFails, HandlerReturns, Goto, TypeOK, CallInv, AgeInv, Row, InFlight
<1>6. ASSUME NEW a \in Attempts, OtherHandler(a) PROVE AgeInv'
  BY <1>6 DEF OtherHandler, HandlerReturns, Goto, TypeOK, CallInv, AgeInv, Row, InFlight
<1>7. ASSUME NEW a \in Attempts, CompleteInTransaction(a) PROVE AgeInv'
  BY <1>7 DEF CompleteInTransaction, Goto, TypeOK, CallInv, AgeInv, Row, InFlight
<1>8. ASSUME NEW a \in Attempts, CommitTunnel(a) PROVE AgeInv'
  BY <1>8, CommitRow DEF CommitTunnel, AgeInv, InFlight
<1>9. ASSUME NEW a \in Attempts, CommitUnknown(a) PROVE AgeInv'
  BY <1>9 DEF CommitUnknown, HandlerReturns, Goto, TypeOK, CallInv, AgeInv,
     Row, InFlight
<1>10. ASSUME NEW a \in Attempts, PersistCompletion(a) PROVE AgeInv'
  BY <1>10, PersistRow DEF PersistCompletion, AgeInv, InFlight
<1>11. ASSUME NEW a \in Attempts, PersistFails(a) PROVE AgeInv'
  BY <1>11 DEF PersistFails, Goto, TypeOK, CallInv, AgeInv, Row, InFlight
<1>12. ASSUME NEW a \in Attempts, ResolveLimbo(a) PROVE AgeInv'
  <2>1. CASE Apply(a)
    BY <1>12, <2>1, CommitRow DEF ResolveLimbo, AgeInv, InFlight
  <2>2. CASE UNCHANGED <<row, committed>>
    BY <1>12, <2>2 DEF ResolveLimbo, AgeInv
  <2> QED
    BY <1>12, <2>1, <2>2 DEF ResolveLimbo
<1>13. ASSUME NEW k \in Keys, Sweep(k) PROVE AgeInv'
  BY <1>13 DEF Sweep, TypeOK, CallInv, AgeInv, Row, InFlight
<1>14. CASE Crash
  BY <1>14 DEF Crash, TypeOK, CallInv, AgeInv, Row, InFlight
<1>15. CASE Tick
  BY <1>15 DEF Tick, TypeOK, CallInv, AgeInv, Row, InFlight
<1> QED
  BY <1>1, <1>2, <1>3, <1>4, <1>5, <1>6, <1>7, <1>8, <1>9, <1>10, <1>11, <1>12,
     <1>13, <1>14, <1>15 DEF Next, ServerStep

(* Nobody changes a completed row but the sweeper, when it has expired.    *)
LEMMA CommittedIsReplayableKept == IInv /\ Next => CommittedIsReplayable'
<1> SUFFICES ASSUME IInv, Next PROVE CommittedIsReplayable'
  OBVIOUS
<1> USE NoneIsNew, RetentionAssumption DEF IInv, clock, call
<1>1. ASSUME NEW a \in Attempts, Receive(a) PROVE CommittedIsReplayable'
  <2>1. \A b \in committed : b # a /\ key'[b] = key[b] /\ b \in Attempts
    BY <1>1 DEF Receive, TypeOK, CallInv
  <2> QED
    BY <1>1, <2>1 DEF Receive, CommittedIsReplayable
<1>2. ASSUME NEW a \in Attempts, Reserve(a) PROVE CommittedIsReplayable'
  <2>1. key[a] \in Keys /\ fp[a] \in Fingerprints /\ a \notin committed
    BY <1>2 DEF Reserve, CallInv
  <2>2. \A b \in committed : b \in Attempts /\ began'[b] = began[b] /\ key[b] \in Keys
    BY <1>2, <2>1 DEF Reserve, TypeOK, CallInv
  <2>3. \A k \in Keys : row[k] # None => row'[k] = row[k]
    BY <1>2, <2>1, InsertedRow DEF Reserve
  <2> QED
    BY <1>2, <2>2, <2>3 DEF Reserve, CommittedIsReplayable
<1>3. ASSUME NEW a \in Attempts, QueryFails(a) PROVE CommittedIsReplayable'
  <2>1. key[a] \in Keys /\ fp[a] \in Fingerprints /\ a \notin committed
    BY <1>3 DEF QueryFails, CallInv
  <2>2. \A b \in committed : b \in Attempts /\ key[b] \in Keys
    BY DEF TypeOK, CallInv
  <2>3. \A k \in Keys : row[k] # None => row'[k] = row[k]
    BY <1>3, <2>1, InsertedRow DEF QueryFails
  <2> QED
    BY <1>3, <2>2, <2>3 DEF QueryFails, CommittedIsReplayable
<1>4. ASSUME NEW a \in Attempts, ServeExisting(a) PROVE CommittedIsReplayable'
  BY <1>4 DEF ServeExisting, Goto, TypeOK, CallInv, CommittedIsReplayable
<1>5. ASSUME NEW a \in Attempts, HandlerFails(a) PROVE CommittedIsReplayable'
  BY <1>5 DEF HandlerFails, HandlerReturns, Goto, TypeOK, CallInv, CommittedIsReplayable
<1>6. ASSUME NEW a \in Attempts, OtherHandler(a) PROVE CommittedIsReplayable'
  BY <1>6 DEF OtherHandler, HandlerReturns, Goto, TypeOK, CallInv, CommittedIsReplayable
<1>7. ASSUME NEW a \in Attempts, CompleteInTransaction(a) PROVE CommittedIsReplayable'
  BY <1>7 DEF CompleteInTransaction, Goto, TypeOK, CallInv, CommittedIsReplayable
<1>8. ASSUME NEW a \in Attempts, CommitTunnel(a) PROVE CommittedIsReplayable'
  <2>1. \A b \in committed : b \in Attempts /\ key[b] \in Keys
    BY DEF TypeOK, CallInv
  <2> QED
    BY <1>8, <2>1, CommitRow DEF CommitTunnel, CommittedIsReplayable, InFlight
<1>9. ASSUME NEW a \in Attempts, CommitUnknown(a) PROVE CommittedIsReplayable'
  BY <1>9 DEF CommitUnknown, HandlerReturns, Goto, TypeOK, CallInv,
     CommittedIsReplayable
<1>10. ASSUME NEW a \in Attempts, PersistCompletion(a) PROVE CommittedIsReplayable'
  <2>1. \A b \in committed : b \in Attempts /\ key[b] \in Keys
    BY DEF TypeOK, CallInv
  <2> QED
    BY <1>10, <2>1, PersistRow DEF PersistCompletion, CommittedIsReplayable, InFlight
<1>11. ASSUME NEW a \in Attempts, PersistFails(a) PROVE CommittedIsReplayable'
  BY <1>11 DEF PersistFails, Goto, TypeOK, CallInv, CommittedIsReplayable
<1>12. ASSUME NEW a \in Attempts, ResolveLimbo(a) PROVE CommittedIsReplayable'
  <2>1. \A b \in committed : b \in Attempts /\ key[b] \in Keys
    BY DEF TypeOK, CallInv
  <2>2. CASE Apply(a)
    BY <1>12, <2>1, <2>2, CommitRow DEF ResolveLimbo, CommittedIsReplayable, InFlight
  <2>3. CASE UNCHANGED <<row, committed>>
    BY <1>12, <2>3 DEF ResolveLimbo, CommittedIsReplayable
  <2> QED
    BY <1>12, <2>2, <2>3 DEF ResolveLimbo
<1>13. ASSUME NEW k \in Keys, Sweep(k) PROVE CommittedIsReplayable'
  <2>1. \A b \in committed : b \in Attempts /\ key[b] \in Keys /\ began[b] \in Nat /\ now \in Nat
    BY DEF TypeOK, CallInv
  <2> QED
    <3>1. \A b \in committed : key[b] = k => ~(now <= began[b] + Retention)
      BY <2>1, SweptRow, <1>13 DEF AgeInv
    <3> QED
      BY <1>13, <2>1, <3>1, SweptRow DEF Sweep, CommittedIsReplayable
<1>14. CASE Crash
  BY <1>14 DEF Crash, TypeOK, CallInv, CommittedIsReplayable
<1>15. CASE Tick
  <2>1. \A b \in committed : began[b] \in Nat /\ now \in Nat
    BY DEF TypeOK
  <2> QED
    BY <1>15, <2>1 DEF Tick, CommittedIsReplayable
<1> QED
  BY <1>1, <1>2, <1>3, <1>4, <1>5, <1>6, <1>7, <1>8, <1>9, <1>10, <1>11, <1>12,
     <1>13, <1>14, <1>15 DEF Next, ServerStep

-----------------------------------------------------------------------------
(* Frames: what no step changes.                                           *)

(* A request that has been received keeps its key and its body, and stays  *)
(* late when it is; it begins when it reserves.                            *)
LEMMA CallStays ==
  ASSUME IInv, Next, NEW a \in Attempts, pc[a] # "idle"
  PROVE  /\ pc'[a] # "idle" /\ key'[a] = key[a] /\ fp'[a] = fp[a]
         /\ began'[a] = began[a] \/ Reserve(a)
<1> DEFINE Goal == /\ pc'[a] # "idle" /\ key'[a] = key[a] /\ fp'[a] = fp[a]
                   /\ began'[a] = began[a] \/ Reserve(a)
<1> USE NoneIsNew DEF IInv, clock, call
<1>1. ASSUME NEW c \in Attempts, Receive(c) PROVE Goal
  BY <1>1 DEF Receive, Goto, TypeOK
<1>2. ASSUME NEW c \in Attempts, Reserve(c) PROVE Goal
  BY <1>2 DEF Reserve, Goto, TypeOK
<1>3. ASSUME NEW c \in Attempts, QueryFails(c) PROVE Goal
  BY <1>3 DEF QueryFails, Goto, TypeOK
<1>4. ASSUME NEW c \in Attempts, ServeExisting(c) PROVE Goal
  BY <1>4 DEF ServeExisting, Goto, TypeOK
<1>5. ASSUME NEW c \in Attempts, HandlerFails(c) PROVE Goal
  BY <1>5 DEF HandlerFails, HandlerReturns, Goto, TypeOK
<1>6. ASSUME NEW c \in Attempts, OtherHandler(c) PROVE Goal
  BY <1>6 DEF OtherHandler, HandlerReturns, Goto, TypeOK
<1>7. ASSUME NEW c \in Attempts, CompleteInTransaction(c) PROVE Goal
  BY <1>7 DEF CompleteInTransaction, Goto, TypeOK
<1>8. ASSUME NEW c \in Attempts, CommitTunnel(c) PROVE Goal
  BY <1>8 DEF CommitTunnel, Apply, Unlock, HandlerReturns, Goto, TypeOK
<1>9. ASSUME NEW c \in Attempts, CommitUnknown(c) PROVE Goal
  BY <1>9 DEF CommitUnknown, HandlerReturns, Goto, TypeOK
<1>10. ASSUME NEW c \in Attempts, PersistCompletion(c) PROVE Goal
  BY <1>10 DEF PersistCompletion, Goto, TypeOK
<1>11. ASSUME NEW c \in Attempts, PersistFails(c) PROVE Goal
  BY <1>11 DEF PersistFails, Goto, TypeOK
<1>12. ASSUME NEW c \in Attempts, ResolveLimbo(c) PROVE Goal
  BY <1>12 DEF ResolveLimbo, Apply, Unlock, TypeOK
<1>13. ASSUME NEW l \in Keys, Sweep(l) PROVE Goal
  BY <1>13 DEF Sweep, TypeOK
<1>14. CASE Crash
  BY <1>14 DEF Crash, TypeOK
<1>15. CASE Tick
  BY <1>15 DEF Tick, TypeOK
<1> QED
  BY <1>1, <1>2, <1>3, <1>4, <1>5, <1>6, <1>7, <1>8, <1>9, <1>10, <1>11, <1>12,
     <1>13, <1>14, <1>15 DEF Next, ServerStep

(* Only a reservation makes an attempt active.                             *)
LEMMA ActiveBefore ==
  ASSUME IInv, Next, NEW a \in Attempts, Active(a)'
  PROVE  Active(a) \/ Reserve(a)
<1> DEFINE Goal == Active(a) \/ Reserve(a)
<1> USE NoneIsNew DEF IInv, clock, call
<1>1. ASSUME NEW c \in Attempts, Receive(c) PROVE Goal
  BY <1>1 DEF Receive, Goto, TypeOK, Active, Running, Serving
<1>2. ASSUME NEW c \in Attempts, Reserve(c) PROVE Goal
  BY <1>2 DEF Reserve, Goto, TypeOK, Active, Running, Serving
<1>3. ASSUME NEW c \in Attempts, QueryFails(c) PROVE Goal
  BY <1>3 DEF QueryFails, Goto, TypeOK, Active, Running, Serving
<1>4. ASSUME NEW c \in Attempts, ServeExisting(c) PROVE Goal
  BY <1>4 DEF ServeExisting, Goto, TypeOK, Active, Running, Serving
<1>5. ASSUME NEW c \in Attempts, HandlerFails(c) PROVE Goal
  BY <1>5 DEF HandlerFails, HandlerReturns, Goto, TypeOK, Active, Running, Serving
<1>6. ASSUME NEW c \in Attempts, OtherHandler(c) PROVE Goal
  BY <1>6 DEF OtherHandler, HandlerReturns, Goto, TypeOK, Active, Running, Serving
<1>7. ASSUME NEW c \in Attempts, CompleteInTransaction(c) PROVE Goal
  BY <1>7 DEF CompleteInTransaction, Goto, TypeOK, Active, Running, Serving
<1>8. ASSUME NEW c \in Attempts, CommitTunnel(c) PROVE Goal
  BY <1>8 DEF CommitTunnel, Apply, Unlock, HandlerReturns, Goto, TypeOK,
     Active, Running, Serving
<1>9. ASSUME NEW c \in Attempts, CommitUnknown(c) PROVE Goal
  BY <1>9 DEF CommitUnknown, HandlerReturns, Goto, TypeOK, Active, Running, Serving
<1>10. ASSUME NEW c \in Attempts, PersistCompletion(c) PROVE Goal
  BY <1>10 DEF PersistCompletion, Goto, TypeOK, Active, Running, Serving
<1>11. ASSUME NEW c \in Attempts, PersistFails(c) PROVE Goal
  BY <1>11 DEF PersistFails, Goto, TypeOK, Active, Running, Serving
<1>12. ASSUME NEW c \in Attempts, ResolveLimbo(c) PROVE Goal
  BY <1>12 DEF ResolveLimbo, Apply, Unlock, TypeOK, Active, Running, Serving
<1>13. ASSUME NEW l \in Keys, Sweep(l) PROVE Goal
  BY <1>13 DEF Sweep, TypeOK, Active, Running, Serving
<1>14. CASE Crash
  BY <1>14 DEF Crash, TypeOK, Active, Running, Serving
<1>15. CASE Tick
  BY <1>15 DEF Tick, TypeOK, Active, Running, Serving
<1> QED
  BY <1>1, <1>2, <1>3, <1>4, <1>5, <1>6, <1>7, <1>8, <1>9, <1>10, <1>11, <1>12,
     <1>13, <1>14, <1>15 DEF Next, ServerStep

(* Only a COMMIT that takes effect adds a tunnel.                          *)
LEMMA CommittedBefore ==
  ASSUME IInv, Next, NEW b \in committed'
  PROVE  b \in committed \/ (b \in Attempts /\ (CommitTunnel(b) \/ (ResolveLimbo(b) /\ Apply(b))))
<1> DEFINE Goal == b \in committed \/ (b \in Attempts /\ (CommitTunnel(b) \/ (ResolveLimbo(b) /\ Apply(b))))
<1> USE NoneIsNew DEF IInv, clock, call
<1>1. ASSUME NEW c \in Attempts, Receive(c) PROVE Goal
  BY <1>1 DEF Receive, Goto, TypeOK
<1>2. ASSUME NEW c \in Attempts, Reserve(c) PROVE Goal
  BY <1>2 DEF Reserve, Goto, TypeOK
<1>3. ASSUME NEW c \in Attempts, QueryFails(c) PROVE Goal
  BY <1>3 DEF QueryFails, Goto, TypeOK
<1>4. ASSUME NEW c \in Attempts, ServeExisting(c) PROVE Goal
  BY <1>4 DEF ServeExisting, Goto, TypeOK
<1>5. ASSUME NEW c \in Attempts, HandlerFails(c) PROVE Goal
  BY <1>5 DEF HandlerFails, HandlerReturns, Goto, TypeOK
<1>6. ASSUME NEW c \in Attempts, OtherHandler(c) PROVE Goal
  BY <1>6 DEF OtherHandler, HandlerReturns, Goto, TypeOK
<1>7. ASSUME NEW c \in Attempts, CompleteInTransaction(c) PROVE Goal
  BY <1>7 DEF CompleteInTransaction, Goto, TypeOK
<1>8. ASSUME NEW c \in Attempts, CommitTunnel(c) PROVE Goal
  BY <1>8 DEF CommitTunnel, Apply, Unlock, HandlerReturns, Goto, TypeOK
<1>9. ASSUME NEW c \in Attempts, CommitUnknown(c) PROVE Goal
  BY <1>9 DEF CommitUnknown, HandlerReturns, Goto, TypeOK
<1>10. ASSUME NEW c \in Attempts, PersistCompletion(c) PROVE Goal
  BY <1>10 DEF PersistCompletion, Goto, TypeOK
<1>11. ASSUME NEW c \in Attempts, PersistFails(c) PROVE Goal
  BY <1>11 DEF PersistFails, Goto, TypeOK
<1>12. ASSUME NEW c \in Attempts, ResolveLimbo(c) PROVE Goal
  BY <1>12 DEF ResolveLimbo, Apply, Unlock, TypeOK
<1>13. ASSUME NEW l \in Keys, Sweep(l) PROVE Goal
  BY <1>13 DEF Sweep, TypeOK
<1>14. CASE Crash
  BY <1>14 DEF Crash, TypeOK
<1>15. CASE Tick
  BY <1>15 DEF Tick, TypeOK
<1> QED
  BY <1>1, <1>2, <1>3, <1>4, <1>5, <1>6, <1>7, <1>8, <1>9, <1>10, <1>11, <1>12,
     <1>13, <1>14, <1>15 DEF Next, ServerStep

(* A row that is there goes only when it has expired, or is released, and  *)
(* its body stays the same.                                                *)
LEMMA RowStays ==
  ASSUME IInv, Next, NEW k \in Keys, row[k] # None
  PROVE  \/ row'[k] # None /\ row'[k].fp = row[k].fp
         \/ Sweep(k)
         \/ \E b \in Attempts : key[b] = k /\ PersistCompletion(b)
<1> DEFINE Goal == \/ row'[k] # None /\ row'[k].fp = row[k].fp
                   \/ Sweep(k)
                   \/ \E b \in Attempts : key[b] = k /\ PersistCompletion(b)
<1> USE NoneIsNew DEF IInv, clock, call
<1>1. ASSUME NEW c \in Attempts, Receive(c) PROVE Goal
  BY <1>1 DEF Receive, Goto, TypeOK
<1>2. ASSUME NEW c \in Attempts, Reserve(c) PROVE Goal
  <2>1. key[c] \in Keys /\ fp[c] \in Fingerprints
    BY <1>2 DEF Reserve, CallInv
  <2> QED
    BY <1>2, <2>1, InsertedRow DEF Reserve
<1>3. ASSUME NEW c \in Attempts, QueryFails(c) PROVE Goal
  <2>1. key[c] \in Keys /\ fp[c] \in Fingerprints
    BY <1>3 DEF QueryFails, CallInv
  <2> QED
    BY <1>3, <2>1, InsertedRow DEF QueryFails
<1>4. ASSUME NEW c \in Attempts, ServeExisting(c) PROVE Goal
  BY <1>4 DEF ServeExisting, Goto, TypeOK
<1>5. ASSUME NEW c \in Attempts, HandlerFails(c) PROVE Goal
  BY <1>5 DEF HandlerFails, HandlerReturns, Goto, TypeOK
<1>6. ASSUME NEW c \in Attempts, OtherHandler(c) PROVE Goal
  BY <1>6 DEF OtherHandler, HandlerReturns, Goto, TypeOK
<1>7. ASSUME NEW c \in Attempts, CompleteInTransaction(c) PROVE Goal
  BY <1>7 DEF CompleteInTransaction, Goto, TypeOK
<1>8. ASSUME NEW c \in Attempts, CommitTunnel(c) PROVE Goal
  BY <1>8, CommitRow
<1>9. ASSUME NEW c \in Attempts, CommitUnknown(c) PROVE Goal
  BY <1>9 DEF CommitUnknown, HandlerReturns, Goto, TypeOK
<1>10. ASSUME NEW c \in Attempts, PersistCompletion(c) PROVE Goal
  BY <1>10, PersistRow
<1>11. ASSUME NEW c \in Attempts, PersistFails(c) PROVE Goal
  BY <1>11 DEF PersistFails, Goto, TypeOK
<1>12. ASSUME NEW c \in Attempts, ResolveLimbo(c) PROVE Goal
  <2>1. CASE Apply(c)
    BY <1>12, <2>1, CommitRow
  <2>2. CASE UNCHANGED <<row, committed>>
    BY <2>2
  <2> QED
    BY <1>12, <2>1, <2>2 DEF ResolveLimbo
<1>13. ASSUME NEW l \in Keys, Sweep(l) PROVE Goal
  BY <1>13, SweptRow
<1>14. CASE Crash
  BY <1>14 DEF Crash, TypeOK
<1>15. CASE Tick
  BY <1>15 DEF Tick, TypeOK
<1> QED
  BY <1>1, <1>2, <1>3, <1>4, <1>5, <1>6, <1>7, <1>8, <1>9, <1>10, <1>11, <1>12,
     <1>13, <1>14, <1>15 DEF Next, ServerStep

(* A completed row stays as it is until it has expired.                    *)
LEMMA DoneStays ==
  ASSUME IInv, Next, NEW k \in Keys, row[k] # None, row[k].state = "done"
  PROVE  row'[k] = row[k] \/ Sweep(k)
<1> DEFINE Goal == row'[k] = row[k] \/ Sweep(k)
<1> USE NoneIsNew DEF IInv, clock, call
<1>1. ASSUME NEW c \in Attempts, Receive(c) PROVE Goal
  BY <1>1 DEF Receive, Goto, TypeOK
<1>2. ASSUME NEW c \in Attempts, Reserve(c) PROVE Goal
  <2>1. key[c] \in Keys /\ fp[c] \in Fingerprints
    BY <1>2 DEF Reserve, CallInv
  <2> QED
    BY <1>2, <2>1, InsertedRow DEF Reserve
<1>3. ASSUME NEW c \in Attempts, QueryFails(c) PROVE Goal
  <2>1. key[c] \in Keys /\ fp[c] \in Fingerprints
    BY <1>3 DEF QueryFails, CallInv
  <2> QED
    BY <1>3, <2>1, InsertedRow DEF QueryFails
<1>4. ASSUME NEW c \in Attempts, ServeExisting(c) PROVE Goal
  BY <1>4 DEF ServeExisting, Goto, TypeOK
<1>5. ASSUME NEW c \in Attempts, HandlerFails(c) PROVE Goal
  BY <1>5 DEF HandlerFails, HandlerReturns, Goto, TypeOK
<1>6. ASSUME NEW c \in Attempts, OtherHandler(c) PROVE Goal
  BY <1>6 DEF OtherHandler, HandlerReturns, Goto, TypeOK
<1>7. ASSUME NEW c \in Attempts, CompleteInTransaction(c) PROVE Goal
  BY <1>7 DEF CompleteInTransaction, Goto, TypeOK
<1>8. ASSUME NEW c \in Attempts, CommitTunnel(c) PROVE Goal
  BY <1>8, CommitRow DEF InFlight
<1>9. ASSUME NEW c \in Attempts, CommitUnknown(c) PROVE Goal
  BY <1>9 DEF CommitUnknown, HandlerReturns, Goto, TypeOK
<1>10. ASSUME NEW c \in Attempts, PersistCompletion(c) PROVE Goal
  BY <1>10, PersistRow DEF InFlight
<1>11. ASSUME NEW c \in Attempts, PersistFails(c) PROVE Goal
  BY <1>11 DEF PersistFails, Goto, TypeOK
<1>12. ASSUME NEW c \in Attempts, ResolveLimbo(c) PROVE Goal
  <2>1. CASE Apply(c)
    BY <1>12, <2>1, CommitRow DEF InFlight
  <2>2. CASE UNCHANGED <<row, committed>>
    BY <2>2
  <2> QED
    BY <1>12, <2>1, <2>2 DEF ResolveLimbo
<1>13. ASSUME NEW l \in Keys, Sweep(l) PROVE Goal
  BY <1>13, SweptRow
<1>14. CASE Crash
  BY <1>14 DEF Crash, TypeOK
<1>15. CASE Tick
  BY <1>15 DEF Tick, TypeOK
<1> QED
  BY <1>1, <1>2, <1>3, <1>4, <1>5, <1>6, <1>7, <1>8, <1>9, <1>10, <1>11, <1>12,
     <1>13, <1>14, <1>15 DEF Next, ServerStep

(* A row becomes completed by the one attempt that completes it.           *)
LEMMA DoneBefore ==
  ASSUME IInv, Next, NEW k \in Keys, row'[k] # None, row'[k].state = "done"
  PROVE  \/ row'[k] = row[k]
         \/ \E b \in Attempts :
               /\ key[b] = k /\ InFlight(k)
               /\ row'[k].fp = row[k].fp /\ row'[k].response = b
               /\ \/ CommitTunnel(b) \/ (ResolveLimbo(b) /\ Apply(b))
                  \/ PersistCompletion(b) /\ outcome[b] \notin {"failed", "oversize"}
<1> DEFINE Goal == \/ row'[k] = row[k]
                   \/ \E b \in Attempts :
                         /\ key[b] = k /\ InFlight(k)
                         /\ row'[k].fp = row[k].fp /\ row'[k].response = b
                         /\ \/ CommitTunnel(b) \/ (ResolveLimbo(b) /\ Apply(b))
                            \/ PersistCompletion(b) /\ outcome[b] \notin {"failed", "oversize"}
<1> USE NoneIsNew DEF IInv, clock, call
<1>1. ASSUME NEW c \in Attempts, Receive(c) PROVE Goal
  BY <1>1 DEF Receive, Goto, TypeOK
<1>2. ASSUME NEW c \in Attempts, Reserve(c) PROVE Goal
  <2>1. key[c] \in Keys /\ fp[c] \in Fingerprints
    BY <1>2 DEF Reserve, CallInv
  <2> QED
    BY <1>2, <2>1, InsertedRow DEF Reserve
<1>3. ASSUME NEW c \in Attempts, QueryFails(c) PROVE Goal
  <2>1. key[c] \in Keys /\ fp[c] \in Fingerprints
    BY <1>3 DEF QueryFails, CallInv
  <2> QED
    BY <1>3, <2>1, InsertedRow DEF QueryFails
<1>4. ASSUME NEW c \in Attempts, ServeExisting(c) PROVE Goal
  BY <1>4 DEF ServeExisting, Goto, TypeOK
<1>5. ASSUME NEW c \in Attempts, HandlerFails(c) PROVE Goal
  BY <1>5 DEF HandlerFails, HandlerReturns, Goto, TypeOK
<1>6. ASSUME NEW c \in Attempts, OtherHandler(c) PROVE Goal
  BY <1>6 DEF OtherHandler, HandlerReturns, Goto, TypeOK
<1>7. ASSUME NEW c \in Attempts, CompleteInTransaction(c) PROVE Goal
  BY <1>7 DEF CompleteInTransaction, Goto, TypeOK
<1>8. ASSUME NEW c \in Attempts, CommitTunnel(c) PROVE Goal
  BY <1>8, CommitRow
<1>9. ASSUME NEW c \in Attempts, CommitUnknown(c) PROVE Goal
  BY <1>9 DEF CommitUnknown, HandlerReturns, Goto, TypeOK
<1>10. ASSUME NEW c \in Attempts, PersistCompletion(c) PROVE Goal
  BY <1>10, PersistRow
<1>11. ASSUME NEW c \in Attempts, PersistFails(c) PROVE Goal
  BY <1>11 DEF PersistFails, Goto, TypeOK
<1>12. ASSUME NEW c \in Attempts, ResolveLimbo(c) PROVE Goal
  <2>1. CASE Apply(c)
    BY <1>12, <2>1, CommitRow
  <2>2. CASE UNCHANGED <<row, committed>>
    BY <2>2
  <2> QED
    BY <1>12, <2>1, <2>2 DEF ResolveLimbo
<1>13. ASSUME NEW l \in Keys, Sweep(l) PROVE Goal
  BY <1>13, SweptRow
<1>14. CASE Crash
  BY <1>14 DEF Crash, TypeOK
<1>15. CASE Tick
  BY <1>15 DEF Tick, TypeOK
<1> QED
  BY <1>1, <1>2, <1>3, <1>4, <1>5, <1>6, <1>7, <1>8, <1>9, <1>10, <1>11, <1>12,
     <1>13, <1>14, <1>15 DEF Next, ServerStep

(* The clock moves only in Tick, which makes late who has become so.       *)
LEMMA ClockSteps ==
  ASSUME IInv, Next
  PROVE  /\ now \in Nat /\ now' \in Nat /\ now' >= now
         /\ late \subseteq late' /\ committed \subseteq committed'
         /\ now' = now \/ Tick
<1>1. now \in Nat /\ (Tick => now' = now + 1 /\ late \subseteq late' /\ committed' = committed)
  BY DEF IInv, TypeOK, Tick
<1>2. committed \subseteq committed'
  BY <1>1 DEF Next, ServerStep, Receive, Reserve, QueryFails, ServeExisting,
     HandlerFails, OtherHandler,
     CompleteInTransaction, CommitTunnel, CommitUnknown, PersistCompletion, PersistFails, ResolveLimbo,
     Apply, Sweep, Crash
<1>3. Tick \/ (now' = now /\ late' = late)
  BY DEF Next, ServerStep, Receive, Reserve, QueryFails, ServeExisting,
     HandlerFails, OtherHandler,
     CompleteInTransaction, CommitTunnel, CommitUnknown, PersistCompletion, PersistFails, ResolveLimbo,
     Sweep, Crash, clock
<1> QED
  BY <1>1, <1>2, <1>3

(* A key some attempt has outlived stays so.                               *)
LEMMA OutlivedStays == ASSUME IInv, Next, NEW k, Outlived(k) PROVE Outlived(k)'
<1>1. PICK a \in late : key[a] = k
  BY DEF Outlived
<1>2. a \in Attempts /\ pc[a] # "idle"
  BY <1>1 DEF IInv, TypeOK, CallInv
<1> QED
  BY <1>1, <1>2, CallStays, ClockSteps DEF Outlived

-----------------------------------------------------------------------------
(* The invariants that relate the attempts under a key to each other.      *)

(* An attempt that reserves finds no row, and starts the retention anew.   *)
LEMMA Reserved ==
  ASSUME IInv, NEW a \in Attempts, Reserve(a), Active(a)'
  PROVE  /\ key[a] \in Keys /\ key'[a] = key[a] /\ fp'[a] = fp[a]
         /\ row[key[a]] = None /\ ~Active(a)
         /\ began'[a] = now /\ now' = now /\ committed' = committed
         /\ row'[key[a]] # None /\ row'[key[a]].fp = fp[a]
         /\ \A b \in Attempts \ {a} : ~Reserve(b)
<1>1. key[a] \in Keys /\ fp[a] \in Fingerprints /\ ~Active(a)
  BY DEF IInv, CallInv, Reserve, Active, Running
<1>2. row[key[a]] = None /\ Insert(a) /\ began'[a] = now /\ pc' = [pc EXCEPT ![a] = "handler"]
  BY DEF IInv, TypeOK, CallInv, Reserve, Active, Running, Goto
<1>3. \A b \in Attempts \ {a} : ~Reserve(b)
  <2> SUFFICES ASSUME NEW b \in Attempts \ {a}, Reserve(b) PROVE FALSE
    OBVIOUS
  <2>1. pc[b] = "reserve" /\ pc'[b] \in {"handler", "existing"}
    BY DEF IInv, TypeOK, Reserve, Goto
  <2> QED
    BY <1>2, <2>1 DEF IInv, TypeOK
<1> QED
  BY <1>1, <1>2, <1>3, InsertedRow DEF Reserve, IInv, clock

(* An attempt that could commit again still finds the completed            *)
(* reservation.                                                            *)
LEMMA WindowInvKept == IInv /\ Next => WindowInv'
<1> SUFFICES ASSUME IInv, Next PROVE WindowInv'
  OBVIOUS
<1> USE RetentionAssumption
<1>1. ASSUME NEW a \in Attempts, Active(a)', now' > began'[a] + Retention PROVE a \in late'
  <2>1. CASE Reserve(a)
    BY <1>1, <2>1, Reserved, ClockSteps
  <2>2. CASE Active(a) /\ ~Reserve(a)
    <3>1. began'[a] = began[a]
      BY <2>2, CallStays DEF Active, Running, IInv, CallInv
    <3>2. CASE now' = now
      BY <1>1, <2>2, <3>1, <3>2, ClockSteps DEF IInv, WindowInv
    <3>3. CASE Tick
      BY <1>1, <2>2, <3>1, <3>3 DEF Tick, Active
    <3> QED
      BY <3>2, <3>3, ClockSteps
  <2> QED
    BY <1>1, <2>1, <2>2, ActiveBefore
<1>2. ASSUME NEW a \in Attempts, NEW b \in committed', Active(a)', a # b, key'[a] = key'[b]
      PROVE  \/ began'[a] > began'[b] + Retention
             \/ now' > began'[a] + Retention
             \/ row'[key'[a]] # None /\ row'[key'[a]].state = "done"
  <2>1. /\ b \in Attempts /\ key'[b] = key[b] /\ began'[b] = began[b]
        /\ b \in committed \/ CommitTunnel(b) \/ (ResolveLimbo(b) /\ Apply(b))
    <3>1. b \in Attempts /\ (b \in committed \/ CommitTunnel(b) \/ (ResolveLimbo(b) /\ Apply(b)))
      BY CommittedBefore DEF IInv, TypeOK
    <3>2. pc[b] # "idle" /\ pc[b] # "reserve"
      BY <3>1 DEF IInv, CallInv, CommitTunnel, ResolveLimbo
    <3> QED
      BY <3>1, <3>2, CallStays DEF Reserve
  <2>2. CASE Reserve(a)
    <3>1. b \in committed /\ key[b] = key[a] /\ row[key[a]] = None /\ began'[a] = now
      BY <1>2, <2>1, <2>2, Reserved
    <3>2. ~(now <= began[b] + Retention)
      BY <3>1 DEF IInv, CommittedIsReplayable
    <3>3. now \in Nat /\ began[b] \in Nat
      BY <2>1 DEF IInv, TypeOK
    <3> QED
      BY <2>1, <3>1, <3>2, <3>3
  <2>3. CASE Active(a) /\ ~Reserve(a)
    <3>1. pc[a] # "idle" /\ began'[a] = began[a] /\ key'[a] = key[a] /\ key[a] \in Keys
      BY <2>3, CallStays DEF Active, Running, IInv, CallInv
    <3>2. CASE b \notin committed
      BY <1>2, <2>1, <3>1, <3>2, CommitRow
    <3>3. CASE b \in committed
      <4>1. \/ began[a] > began[b] + Retention
            \/ now > began[a] + Retention
            \/ row[key[a]] # None /\ row[key[a]].state = "done"
        BY <1>2, <2>1, <2>3, <3>1, <3>3 DEF IInv, WindowInv
      <4>2. now > began[a] + Retention => now' > began'[a] + Retention
        BY <3>1, ClockSteps DEF IInv, TypeOK
      <4>3. ASSUME row[key[a]] # None, row[key[a]].state = "done"
            PROVE  row'[key[a]] = row[key[a]] \/ now > began[a] + Retention
        <5>1. CASE Sweep(key[a])
          <6>1. /\ row[key[a]].created \in Nat /\ row[key[a]].created + Retention < now
                /\ began[a] <= row[key[a]].created
            BY <3>1, <4>3, <5>1, SweptRow DEF IInv, AgeInv
          <6> QED
            BY <6>1 DEF IInv, TypeOK
        <5> QED
          BY <3>1, <4>3, <5>1, DoneStays
      <4> QED
        BY <2>1, <3>1, <4>1, <4>2, <4>3
    <3> QED
      BY <3>2, <3>3
  <2> QED
    BY <1>2, <2>2, <2>3, ActiveBefore
<1> QED
  BY <1>1, <1>2 DEF WindowInv

(* A second commit under a key is one after the retention.                 *)
LEMMA OneTunnelPerKeyKept == IInv /\ Next => OneTunnelPerKey'
<1> SUFFICES ASSUME IInv, Next, NEW a \in (committed \ late)', NEW b \in (committed \ late)',
                    a # b, key'[a] = key'[b]
             PROVE  began'[a] > began'[b] + Retention \/ began'[b] > began'[a] + Retention
  BY DEF OneTunnelPerKey
<1> DEFINE New(c) == CommitTunnel(c) \/ (ResolveLimbo(c) /\ Apply(c))
<1>1. ASSUME NEW c \in (committed \ late)'
      PROVE  /\ c \in Attempts /\ c \notin late
             /\ c \in committed \/ New(c)
             /\ key'[c] = key[c] /\ began'[c] = began[c]
  <2>1. c \in Attempts /\ c \notin late /\ (c \in committed \/ New(c))
    BY CommittedBefore, ClockSteps DEF IInv, TypeOK
  <2>2. pc[c] # "idle" /\ pc[c] # "reserve"
    BY <2>1 DEF IInv, CallInv, CommitTunnel, ResolveLimbo
  <2> QED
    BY <2>1, <2>2, CallStays DEF Reserve
<1>2. ASSUME NEW c \in Attempts \ late, New(c), NEW d \in committed, key[c] = key[d], c # d
      PROVE  began[c] > began[d] + Retention
  <2>1. InFlight(key[c])
    BY <1>2, CommitRow
  <2>2. Active(c)
    BY <1>2 DEF CommitTunnel, ResolveLimbo, Active, Running
  <2>3. ~(now > began[c] + Retention)
    BY <1>2, <2>2 DEF IInv, WindowInv
  <2> QED
    BY <1>2, <2>1, <2>2, <2>3 DEF IInv, WindowInv, InFlight
<1>3. CASE a \in committed /\ b \in committed
  BY <1>1, <1>3 DEF IInv, OneTunnelPerKey
<1>4. CASE a \notin committed /\ b \in committed
  BY <1>1, <1>2, <1>4
<1>5. CASE a \in committed /\ b \notin committed
  BY <1>1, <1>2, <1>5
<1>6. CASE a \notin committed /\ b \notin committed
  <2>1. New(a) /\ a \in Attempts
    BY <1>1, <1>6
  <2>2. committed' = committed \union {a}
    BY <2>1, CommitRow
  <2> QED
    BY <1>6, <2>2
<1> QED
  BY <1>3, <1>4, <1>5, <1>6

(* Two attempts are active under a key only when one outlived its          *)
(* retention.                                                              *)
LEMMA ExclusiveInvKept == IInv /\ Next => ExclusiveInv'
<1> SUFFICES ASSUME IInv, Next PROVE ExclusiveInv'
  OBVIOUS
<1>0. ASSUME NEW a \in Attempts, Active(a)'
      PROVE  key'[a] = key[a]
  <2>1. Active(a) \/ Reserve(a)
    BY <1>0, ActiveBefore
  <2>2. pc[a] # "idle"
    BY <2>1 DEF Active, Running, Reserve, IInv, CallInv
  <2> QED
    BY <2>2, CallStays
<1>00. \A k : (\E c \in late : key[c] = k) => \E c \in late' : key'[c] = k
  BY OutlivedStays DEF Outlived
<1> SUFFICES ASSUME NEW a \in Attempts, Active(a)', ~Outlived(key[a])
             PROVE  /\ row'[key[a]] # None /\ row'[key[a]].fp = fp[a]
                    /\ key'[a] = key[a] /\ fp'[a] = fp[a]
                    /\ \A b \in Attempts : Active(b)' /\ key'[b] = key[a] => a = b
  <2>1. ASSUME NEW a \in Attempts, Active(a)', ~Outlived(key[a])'
        PROVE  ~Outlived(key[a]) /\ key'[a] = key[a]
    BY <1>0, <1>00, <2>1 DEF Outlived
  <2>2. SUFFICES ASSUME NEW a \in Attempts, Active(a)', ~Outlived(key[a])'
                 PROVE  /\ row'[key'[a]] # None /\ row'[key'[a]].fp = fp'[a]
                        /\ \A b \in Attempts : Active(b)' /\ key'[b] = key'[a] => a = b
    BY DEF ExclusiveInv
  <2>3. ~Outlived(key[a]) /\ key'[a] = key[a]
    BY <2>1, <2>2
  <2> QED
    BY <2>2, <2>3
<1> USE RetentionAssumption
<1>1. CASE Reserve(a)
  <2>1. /\ key'[a] = key[a] /\ fp'[a] = fp[a] /\ row[key[a]] = None
        /\ row'[key[a]] # None /\ row'[key[a]].fp = fp[a]
        /\ \A b \in Attempts \ {a} : ~Reserve(b)
    BY <1>1, Reserved
  <2>2. ASSUME NEW b \in Attempts, Active(b)', key'[b] = key[a], a # b PROVE FALSE
    <3>1. Active(b)
      BY <2>1, <2>2, ActiveBefore
    <3>2. key[b] = key[a]
      BY <2>2, <3>1, CallStays DEF Active, Running, IInv, CallInv
    <3> QED
      BY <2>1, <3>1, <3>2 DEF IInv, ExclusiveInv
  <2> QED
    BY <2>1, <2>2
<1>2. CASE Active(a) /\ ~Reserve(a)
  <2>1. key'[a] = key[a] /\ fp'[a] = fp[a] /\ key[a] \in Keys
    BY <1>2, CallStays DEF Active, Running, IInv, CallInv
  <2>2. /\ row[key[a]] # None /\ row[key[a]].fp = fp[a]
        /\ \A b \in Attempts : Active(b) /\ key[b] = key[a] => a = b
    BY <1>2 DEF IInv, ExclusiveInv
  <2>3. ASSUME NEW b \in Attempts, Active(b)', key'[b] = key[a] PROVE a = b
    <3>1. CASE Active(b)
      BY <2>2, <2>3, <3>1, CallStays DEF Active, Running, IInv, CallInv
    <3>2. CASE Reserve(b)
      BY <2>2, <2>3, <3>2, Reserved
    <3> QED
      BY <2>3, <3>1, <3>2, ActiveBefore
  <2>4. ~Sweep(key[a])
    <3> SUFFICES ASSUME Sweep(key[a]) PROVE FALSE
      OBVIOUS
    <3>1. /\ row[key[a]].created \in Nat /\ row[key[a]].created + Retention < now
          /\ began[a] <= row[key[a]].created
      BY <2>1, <2>2, SweptRow DEF IInv, AgeInv
    <3>2. now > began[a] + Retention
      BY <3>1 DEF IInv, TypeOK
    <3> QED
      BY <1>2, <3>2 DEF IInv, WindowInv, Outlived
  <2>5. ASSUME NEW b \in Attempts, PersistCompletion(b), key[b] = key[a] PROVE FALSE
    <3>1. a = b
      BY <2>2, <2>5 DEF PersistCompletion, Active
    <3>2. rowLock[key[a]] = None /\ pc'[a] = "done" /\ limbo' = limbo
      BY <2>5, <3>1 DEF PersistCompletion, Goto, IInv, TypeOK
    <3>3. a \in limbo
      BY <3>2 DEF Active, Running
    <3> QED
      BY <3>2, <3>3, NoneIsNew DEF IInv, LockInv
  <2>6. row'[key[a]] # None /\ row'[key[a]].fp = row[key[a]].fp
    BY <2>1, <2>2, <2>4, <2>5, RowStays
  <2> QED
    BY <2>1, <2>2, <2>3, <2>6
<1> QED
  BY <1>1, <1>2, ActiveBefore

(* An outcome stays as it is.                                              *)
LEMMA OutcomeStays ==
  ASSUME IInv, Next, NEW a \in Attempts
  PROVE  \/ outcome'[a] = outcome[a]
         \/ outcome[a] = "none" /\ outcome'[a] = "failed"
         \/ outcome[a] = "none" /\ (OtherHandler(a) \/ CommitTunnel(a))
<1> DEFINE Goal == \/ outcome'[a] = outcome[a]
                   \/ outcome[a] = "none" /\ outcome'[a] = "failed"
                   \/ outcome[a] = "none" /\ (OtherHandler(a) \/ CommitTunnel(a))
<1> USE NoneIsNew DEF IInv, clock, call
<1>1. ASSUME NEW c \in Attempts, Receive(c) PROVE Goal
  BY <1>1 DEF Receive, Goto, TypeOK, CallInv, Running
<1>2. ASSUME NEW c \in Attempts, Reserve(c) PROVE Goal
  BY <1>2 DEF Reserve, Goto, TypeOK, CallInv, Running
<1>3. ASSUME NEW c \in Attempts, QueryFails(c) PROVE Goal
  BY <1>3 DEF QueryFails, Goto, TypeOK, CallInv, Running
<1>4. ASSUME NEW c \in Attempts, ServeExisting(c) PROVE Goal
  BY <1>4 DEF ServeExisting, Goto, TypeOK, CallInv, Running
<1>5. ASSUME NEW c \in Attempts, HandlerFails(c) PROVE Goal
  BY <1>5 DEF HandlerFails, HandlerReturns, Goto, TypeOK, CallInv, Running
<1>6. ASSUME NEW c \in Attempts, OtherHandler(c) PROVE Goal
  BY <1>6 DEF OtherHandler, HandlerReturns, Goto, TypeOK, CallInv, Running
<1>7. ASSUME NEW c \in Attempts, CompleteInTransaction(c) PROVE Goal
  BY <1>7 DEF CompleteInTransaction, Goto, TypeOK, CallInv, Running
<1>8. ASSUME NEW c \in Attempts, CommitTunnel(c) PROVE Goal
  BY <1>8 DEF CommitTunnel, Apply, Unlock, HandlerReturns, Goto, TypeOK,
     CallInv, Running
<1>9. ASSUME NEW c \in Attempts, CommitUnknown(c) PROVE Goal
  BY <1>9 DEF CommitUnknown, HandlerReturns, Goto, TypeOK, CallInv, Running
<1>10. ASSUME NEW c \in Attempts, PersistCompletion(c) PROVE Goal
  BY <1>10 DEF PersistCompletion, Goto, TypeOK, CallInv, Running
<1>11. ASSUME NEW c \in Attempts, PersistFails(c) PROVE Goal
  BY <1>11 DEF PersistFails, Goto, TypeOK, CallInv, Running
<1>12. ASSUME NEW c \in Attempts, ResolveLimbo(c) PROVE Goal
  BY <1>12 DEF ResolveLimbo, Apply, Unlock, TypeOK, CallInv, Running
<1>13. ASSUME NEW l \in Keys, Sweep(l) PROVE Goal
  BY <1>13 DEF Sweep, TypeOK, CallInv, Running
<1>14. CASE Crash
  BY <1>14 DEF Crash, TypeOK, CallInv, Running
<1>15. CASE Tick
  BY <1>15 DEF Tick, TypeOK, CallInv, Running
<1> QED
  BY <1>1, <1>2, <1>3, <1>4, <1>5, <1>6, <1>7, <1>8, <1>9, <1>10, <1>11, <1>12,
     <1>13, <1>14, <1>15 DEF Next, ServerStep

(* An answer is that of the handler, a stored one, or tells of a failure.  *)
LEMMA ReplySteps ==
  ASSUME IInv, Next, NEW a \in Attempts
  PROVE  \/ reply'[a] = reply[a]
         \/ reply'[a] \in Verdicts \ {"ok"}
         \/ ServeExisting(a) \/ OtherHandler(a) \/ CommitTunnel(a)
<1> DEFINE Goal == \/ reply'[a] = reply[a]
                   \/ reply'[a] \in Verdicts \ {"ok"}
                   \/ ServeExisting(a) \/ OtherHandler(a) \/ CommitTunnel(a)
<1> USE NoneIsNew DEF IInv, clock, call
<1>1. ASSUME NEW c \in Attempts, Receive(c) PROVE Goal
  BY <1>1 DEF Receive, Goto, TypeOK, CallInv, Running, Verdicts
<1>2. ASSUME NEW c \in Attempts, Reserve(c) PROVE Goal
  BY <1>2 DEF Reserve, Goto, TypeOK, CallInv, Running, Verdicts
<1>3. ASSUME NEW c \in Attempts, QueryFails(c) PROVE Goal
  BY <1>3 DEF QueryFails, Goto, TypeOK, CallInv, Running, Verdicts
<1>4. ASSUME NEW c \in Attempts, ServeExisting(c) PROVE Goal
  BY <1>4 DEF ServeExisting, Goto, TypeOK, CallInv, Running, Verdicts
<1>5. ASSUME NEW c \in Attempts, HandlerFails(c) PROVE Goal
  BY <1>5 DEF HandlerFails, HandlerReturns, Goto, TypeOK, CallInv, Running, Verdicts
<1>6. ASSUME NEW c \in Attempts, OtherHandler(c) PROVE Goal
  BY <1>6 DEF OtherHandler, HandlerReturns, Goto, TypeOK, CallInv, Running, Verdicts
<1>7. ASSUME NEW c \in Attempts, CompleteInTransaction(c) PROVE Goal
  BY <1>7 DEF CompleteInTransaction, Goto, TypeOK, CallInv, Running, Verdicts
<1>8. ASSUME NEW c \in Attempts, CommitTunnel(c) PROVE Goal
  BY <1>8 DEF CommitTunnel, Apply, Unlock, HandlerReturns, Goto, TypeOK,
     CallInv, Running, Verdicts
<1>9. ASSUME NEW c \in Attempts, CommitUnknown(c) PROVE Goal
  BY <1>9 DEF CommitUnknown, HandlerReturns, Goto, TypeOK, CallInv, Running, Verdicts
<1>10. ASSUME NEW c \in Attempts, PersistCompletion(c) PROVE Goal
  BY <1>10 DEF PersistCompletion, Goto, TypeOK, CallInv, Running, Verdicts
<1>11. ASSUME NEW c \in Attempts, PersistFails(c) PROVE Goal
  BY <1>11 DEF PersistFails, Goto, TypeOK, CallInv, Running, Verdicts
<1>12. ASSUME NEW c \in Attempts, ResolveLimbo(c) PROVE Goal
  BY <1>12 DEF ResolveLimbo, Apply, Unlock, TypeOK, CallInv, Running, Verdicts
<1>13. ASSUME NEW l \in Keys, Sweep(l) PROVE Goal
  BY <1>13 DEF Sweep, TypeOK, CallInv, Running, Verdicts
<1>14. CASE Crash
  BY <1>14 DEF Crash, TypeOK, CallInv, Running, Verdicts
<1>15. CASE Tick
  BY <1>15 DEF Tick, TypeOK, CallInv, Running, Verdicts
<1> QED
  BY <1>1, <1>2, <1>3, <1>4, <1>5, <1>6, <1>7, <1>8, <1>9, <1>10, <1>11, <1>12,
     <1>13, <1>14, <1>15 DEF Next, ServerStep

(* What a response stands for stays committed.                             *)
LEMMA HappenedStays ==
  ASSUME IInv, Next, NEW a \in Attempts, Happened(a)
  PROVE  /\ fp'[a] = fp[a] /\ key'[a] = key[a]
         /\ outcome'[a] = "ok" \/ a \in committed'
         /\ fp'[a] \in Creates => a \in committed'
<1>1. pc[a] # "idle"
  BY DEF Happened, IInv, CallInv
<1>2. fp'[a] = fp[a] /\ key'[a] = key[a]
  BY <1>1, CallStays
<1> QED
  BY <1>2, OutcomeStays, ClockSteps DEF Happened

(* A stored response is one that happened, for the same request.           *)
LEMMA ResponseInvKept == IInv /\ Next => ResponseInv'
<1> SUFFICES ASSUME IInv, Next PROVE ResponseInv'
  OBVIOUS
<1>1. \A k : (\E c \in late : key[c] = k) => \E c \in late' : key'[c] = k
  BY OutlivedStays DEF Outlived
<1>2. ASSUME NEW k \in Keys, row'[k] # None, row'[k].state = "done"
      PROVE  /\ row'[k].response \in Attempts
             /\ key'[row'[k].response] = k
             /\ fp'[row'[k].response] = row'[k].fp \/ (\E c \in late' : key'[c] = k)
             /\ outcome'[row'[k].response] = "ok" \/ row'[k].response \in committed'
             /\ fp'[row'[k].response] \in Creates => row'[k].response \in committed'
  <2>1. CASE row'[k] = row[k]
    <3>1. /\ row[k].response \in Attempts /\ key[row[k].response] = k
          /\ fp[row[k].response] = row[k].fp \/ (\E c \in late : key[c] = k)
          /\ Happened(row[k].response)
      BY <1>2, <2>1 DEF IInv, ResponseInv, Outlived
    <3>2. \A b \in Attempts : Happened(b) =>
             /\ fp'[b] = fp[b] /\ key'[b] = key[b]
             /\ outcome'[b] = "ok" \/ b \in committed'
             /\ fp'[b] \in Creates => b \in committed'
      BY HappenedStays
    <3> QED
      BY <1>1, <2>1, <3>1, <3>2
  <2>2. ASSUME NEW b \in Attempts, key[b] = k, InFlight(k),
               row'[k].fp = row[k].fp, row'[k].response = b,
               \/ CommitTunnel(b) \/ (ResolveLimbo(b) /\ Apply(b))
               \/ PersistCompletion(b) /\ outcome[b] \notin {"failed", "oversize"}
        PROVE  /\ key'[b] = k
               /\ fp'[b] = row[k].fp \/ (\E c \in late' : key'[c] = k)
               /\ outcome'[b] = "ok" \/ b \in committed'
               /\ fp'[b] \in Creates => b \in committed'
    <3>1. Active(b)
      BY <2>2 DEF CommitTunnel, ResolveLimbo, PersistCompletion, Active, Running
    <3>2. key'[b] = k /\ fp'[b] = fp[b]
      BY <2>2, <3>1, CallStays DEF Active, Running, IInv, CallInv
    <3>3. fp[b] = row[k].fp \/ (\E c \in late : key[c] = k)
      BY <2>2, <3>1 DEF IInv, ExclusiveInv, Outlived
    <3>4. CASE CommitTunnel(b) \/ (ResolveLimbo(b) /\ Apply(b))
      BY <1>1, <3>2, <3>3, <3>4, CommitRow
    <3>5. CASE PersistCompletion(b) /\ outcome[b] \notin {"failed", "oversize"}
      <4>1. outcome[b] = "ok"
        BY <3>5 DEF PersistCompletion, IInv, TypeOK, CallInv, Outcomes
      <4>2. Happened(b)
        BY <4>1 DEF IInv, ResponseInv, Happened
      <4> QED
        BY <1>1, <3>2, <3>3, <4>2, HappenedStays
    <3> QED
      BY <2>2, <3>4, <3>5
  <2> QED
    BY <1>2, <2>1, <2>2, DoneBefore
<1>3. ASSUME NEW a \in Attempts, outcome'[a] \in {"ok", "oversize"} \/ reply'[a] = "ok", fp'[a] \in Creates
      PROVE  a \in committed' /\ outcome'[a] = "ok"
  <2>1. CASE OtherHandler(a)
    BY <1>3, <2>1, KindsAssumption DEF OtherHandler, call
  <2>2. CASE CommitTunnel(a)
    BY <2>2 DEF CommitTunnel, Apply, HandlerReturns, IInv, TypeOK
  <2>3. CASE ServeExisting(a)
    <3>1. outcome' = outcome /\ outcome[a] = "none"
      BY <2>3 DEF ServeExisting, IInv, CallInv
    <3>2. key[a] \in Keys /\ reply'[a] = ExistingReply(key[a], fp[a])
      BY <2>3 DEF ServeExisting, IInv, TypeOK, CallInv
    <3>3. ExistingReply(key[a], fp[a]) \in {"retry", "mismatch", "uncacheable"} \union Attempts
      BY <3>2 DEF ExistingReply, IInv, TypeOK, ResponseInv, Row, RowState
    <3> QED
      BY <1>3, <3>1, <3>2, <3>3, NoneIsNew DEF Verdicts
  <2>4. CASE ~(OtherHandler(a) \/ CommitTunnel(a) \/ ServeExisting(a))
    <3>1. outcome[a] \in {"ok", "oversize"} \/ reply[a] = "ok"
      BY <1>3, <2>4, OutcomeStays, ReplySteps
    <3>2. (pc[a] # "idle" /\ outcome[a] # "none") \/ reply[a] = "ok"
      BY <3>1 DEF IInv, CallInv
    <3>3. pc[a] # "idle" /\ fp'[a] = fp[a]
      BY <3>2, CallStays DEF IInv, CallInv
    <3>4. a \in committed /\ outcome[a] = "ok"
      BY <1>3, <3>1, <3>3 DEF IInv, ResponseInv
    <3> QED
      BY <3>4, OutcomeStays, ClockSteps
  <2> QED
    BY <2>1, <2>2, <2>3, <2>4
<1>4. ASSUME NEW a \in Attempts, reply'[a] \in Attempts
      PROVE  /\ outcome'[reply'[a]] = "ok" \/ reply'[a] \in committed'
             /\ fp'[reply'[a]] \in Creates => reply'[a] \in committed'
             /\ fp'[reply'[a]] = fp'[a] \/ (\E c \in late' : key'[c] = key'[a])
  <2>1. pc[a] # "idle" /\ key[a] \in Keys /\ reply'[a] \in Attempts
           /\ Happened(reply'[a]) /\ (fp[reply'[a]] = fp[a] \/ (\E c \in late : key[c] = key[a]))
    <3>1. CASE ServeExisting(a)
      <4>1. pc[a] # "idle" /\ key[a] \in Keys /\ reply'[a] = ExistingReply(key[a], fp[a])
        BY <3>1 DEF ServeExisting, IInv, TypeOK, CallInv
      <4>2. /\ row[key[a]] # None /\ row[key[a]].fp = fp[a] /\ row[key[a]].state = "done"
            /\ reply'[a] = row[key[a]].response
        BY <1>4, <4>1, NoneIsNew DEF ExistingReply, IInv, TypeOK, Row,
           RowState, Verdicts
      <4> QED
        BY <1>4, <4>1, <4>2 DEF IInv, ResponseInv, Outlived
    <3>2. CASE reply'[a] = reply[a]
      BY <1>4, <3>2, NoneIsNew DEF IInv, CallInv, ResponseInv, Outlived, Verdicts
    <3>3. CASE OtherHandler(a) \/ CommitTunnel(a)
      <4>1. reply'[a] \in {"ok", "failed"}
        BY <3>3 DEF OtherHandler, CommitTunnel, HandlerReturns, IInv, TypeOK
      <4> QED
        BY <1>4, <4>1, NoneIsNew DEF Verdicts
    <3> QED
      BY <1>4, <3>1, <3>2, <3>3, ReplySteps, NoneIsNew
  <2>2. key'[a] = key[a] /\ fp'[a] = fp[a]
    BY <2>1, CallStays
  <2>3. \A b \in Attempts : Happened(b) =>
           /\ fp'[b] = fp[b] /\ key'[b] = key[b]
           /\ outcome'[b] = "ok" \/ b \in committed'
           /\ fp'[b] \in Creates => b \in committed'
    BY HappenedStays
  <2> QED
    BY <1>1, <2>1, <2>2, <2>3
<1> QED
  BY <1>2, <1>3, <1>4 DEF ResponseInv, Happened, Outlived

-----------------------------------------------------------------------------
(* Every step keeps the whole invariant.                                   *)
LEMMA NextIInv == IInv /\ [Next]_vars => IInv'
<1> SUFFICES ASSUME IInv, [Next]_vars PROVE IInv'
  OBVIOUS
<1>1. CASE Next
  BY <1>1, TypeOKKept, CallInvKept, LockInvKept, AgeInvKept,
     CommittedIsReplayableKept, WindowInvKept,
     OneTunnelPerKeyKept, ExclusiveInvKept, ResponseInvKept DEF IInv
<1>2. CASE UNCHANGED vars
  <2>1. TypeOK' /\ CallInv' /\ LockInv' /\ AgeInv'
    BY <1>2 DEF vars, clock, call, IInv, TypeOK, CallInv, LockInv, AgeInv, InFlight
  <2>2. CommittedIsReplayable' /\ WindowInv' /\ OneTunnelPerKey' /\ ExclusiveInv'
    BY <1>2 DEF vars, clock, call, IInv, CommittedIsReplayable, WindowInv,
       OneTunnelPerKey,
       ExclusiveInv, Active, Outlived
  <2>3. ResponseInv'
    BY <1>2 DEF vars, clock, call, IInv, ResponseInv, Happened, Outlived
  <2> QED
    BY <2>1, <2>2, <2>3 DEF IInv
<1> QED
  BY <1>1, <1>2

(* The invariant holds in every behaviour of the middleware.               *)
THEOREM Invariant == Spec => []IInv
<1> QED
  BY InitIInv, NextIInv, PTL DEF Spec

(* Every variable has its type.                                            *)
THEOREM TypeCorrect == Spec => []TypeOK
<1>1. IInv => TypeOK
  BY DEF IInv
<1> QED
  BY <1>1, Invariant, PTL

(* Two attempts under one key whose tunnels are committed lie a retention  *)
(* window apart, whatever crashes, is lost or is retried, unless one has   *)
(* outlived its own retention (idempotency.go:85-134, 136-175).            *)
THEOREM KeysAreHonoured == Spec => []OneTunnelPerKey
<1>1. IInv => OneTunnelPerKey
  BY DEF IInv
<1> QED
  BY <1>1, Invariant, PTL

(* A committed create can be replayed until its key expires, with no       *)
(* exception (lifecycle.go:317-333).                                       *)
THEOREM CommitsAreReplayable == Spec => []CommittedIsReplayable
<1>1. IInv => CommittedIsReplayable
  BY DEF IInv
<1> QED
  BY <1>1, Invariant, PTL

(* Two attempts with the same key never run the handler together, unless   *)
(* one has outlived the retention (idempotency.go:85-108, 207-209).        *)
THEOREM HandlersAreExclusive == Spec => []NeverBothRun
<1>1. IInv => NeverBothRun
  BY DEF IInv, ExclusiveInv, NeverBothRun, Active, Outlived
<1> QED
  BY <1>1, Invariant, PTL

(* A replay repeats a response that happened, to the same request          *)
(* (idempotency.go:177-225).                                               *)
THEOREM ReplaysAreFaithful == Spec => []ReplayMatchesRequest
<1>1. IInv => ReplayMatchesRequest
  BY DEF IInv, ResponseInv, ReplayMatchesRequest, Happened, Outlived
<1> QED
  BY <1>1, Invariant, PTL

(* Who is told that the tunnel is created has it (handlers.go:222-265).    *)
THEOREM SuccessIsCommitted == Spec => []CreatedIsCommitted
<1>1. IInv => CreatedIsCommitted
  <2> SUFFICES ASSUME IInv, NEW a \in Attempts, reply[a] \in {"ok"} \union Attempts
               PROVE  LET source == IF reply[a] = "ok" THEN a ELSE reply[a]
                      IN  fp[source] \in Creates => source \in committed
    BY DEF CreatedIsCommitted
  <2>1. CASE reply[a] = "ok"
    BY <2>1 DEF IInv, ResponseInv
  <2>2. CASE reply[a] # "ok"
    BY <2>2 DEF IInv, ResponseInv, Happened
  <2> QED
    BY <2>1, <2>2
<1> QED
  BY <1>1, Invariant, PTL

-----------------------------------------------------------------------------
(* Refinement: each statement that writes a row, and each COMMIT when      *)
(* PostgreSQL has decided it, is one step of the atomic reservations;      *)
(* everything else is a stutter.                                           *)

(* A step that writes the row of one key changes its reservation alone.    *)
LEMMA OneReservation ==
  ASSUME NEW k \in Keys, NEW s, NEW p, NEW c,
         \A l \in Keys \ {k} : row'[l] = row[l],
         StateOf(k)' = s, ResponseOf(k)' = p, SinceOf(k)' = c
  PROVE  /\ [l \in Keys |-> StateOf(l)]' = [[l \in Keys |-> StateOf(l)] EXCEPT ![k] = s]
         /\ [l \in Keys |-> ResponseOf(l)]' = [[l \in Keys |-> ResponseOf(l)] EXCEPT ![k] = p]
         /\ [l \in Keys |-> SinceOf(l)]' = [[l \in Keys |-> SinceOf(l)] EXCEPT ![k] = c]
<1>1. \A l \in Keys \ {k} :
         StateOf(l)' = StateOf(l) /\ ResponseOf(l)' = ResponseOf(l) /\ SinceOf(l)' = SinceOf(l)
  BY DEF StateOf, ResponseOf, SinceOf
<1> QED
  BY <1>1

(* A step that keeps the age of every row keeps that of the reservations.  *)
LEMMA SinceStays ==
  ASSUME NEW k \in Keys, \A l \in Keys \ {k} : row'[l] = row[l], SinceOf(k)' = SinceOf(k)
  PROVE  [l \in Keys |-> SinceOf(l)]' = [l \in Keys |-> SinceOf(l)]
<1>1. \A l \in Keys : SinceOf(l)' = SinceOf(l)
  BY DEF SinceOf
<1> QED
  BY <1>1

(* The insert of a row is the reservation of its key.                      *)
LEMMA InsertReserves ==
  ASSUME IInv, NEW a \in Attempts, pc[a] = "reserve", row[key[a]] = None, Insert(a),
         UNCHANGED <<now, committed>>
  PROVE  Promised!Next
<1>1. key[a] \in Keys /\ fp[a] \in Fingerprints
  BY DEF IInv, CallInv
<1>2. PICK k \in Keys : k = key[a]
  BY <1>1
<1>3. /\ \A l \in Keys \ {k} : row'[l] = row[l]
      /\ row'[k] # None
      /\ row'[k].state = "inflight" /\ row'[k].response = None /\ row'[k].created = now
  BY <1>1, <1>2, InsertedRow DEF IInv
<1>4. StateOf(k)' = "inflight" /\ ResponseOf(k)' = None /\ SinceOf(k)' = now
  BY <1>3 DEF StateOf, ResponseOf, SinceOf
<1>5. StateOf(k) = "free" /\ ResponseOf(k) = None
  BY <1>2 DEF StateOf, ResponseOf
<1>6. [l \in Keys |-> ResponseOf(l)]' = [l \in Keys |-> ResponseOf(l)]
  BY <1>3, <1>4, <1>5 DEF ResponseOf
<1>7. /\ [l \in Keys |-> StateOf(l)]' = [[l \in Keys |-> StateOf(l)] EXCEPT ![k] = "inflight"]
      /\ [l \in Keys |-> SinceOf(l)]' = [[l \in Keys |-> SinceOf(l)] EXCEPT ![k] = now]
  BY <1>3, <1>4, OneReservation
<1>8. Promised!Reserve(k)
  BY <1>5, <1>6, <1>7 DEF Promised!Reserve
<1> QED
  BY <1>8 DEF Promised!Next

(* A COMMIT that takes effect creates the tunnel and stores the response.  *)
LEMMA CommitCreates ==
  ASSUME IInv, NEW a \in Attempts, CommitTunnel(a) \/ (ResolveLimbo(a) /\ Apply(a))
  PROVE  Promised!Next
<1>0. PICK k \in Keys : k = key[a]
  BY CommitRow
<1>1. /\ k \in Keys /\ InFlight(k)
      /\ a \notin committed /\ committed' = committed \union {a}
      /\ \A l \in Keys \ {k} : row'[l] = row[l]
      /\ row'[k] # None /\ row'[k].created = row[k].created
      /\ row'[k].state = "done" /\ row'[k].response = a
  BY <1>0, CommitRow
<1>2. now' = now
  BY DEF CommitTunnel, ResolveLimbo, clock
<1>3. StateOf(k) = "inflight" /\ SinceOf(k) = row[k].created
  BY <1>1 DEF StateOf, SinceOf, InFlight
<1>4. StateOf(k)' = "done" /\ ResponseOf(k)' = a /\ SinceOf(k)' = SinceOf(k)
  BY <1>1, <1>2, <1>3 DEF StateOf, ResponseOf, SinceOf
<1>5. [l \in Keys |-> SinceOf(l)]' = [l \in Keys |-> SinceOf(l)]
  BY <1>1, <1>4, SinceStays
<1>6. /\ [l \in Keys |-> StateOf(l)]' = [[l \in Keys |-> StateOf(l)] EXCEPT ![k] = "done"]
      /\ [l \in Keys |-> ResponseOf(l)]' = [[l \in Keys |-> ResponseOf(l)] EXCEPT ![k] = a]
  <2>1. \A l \in Keys \ {k} : row'[l] = row[l]
    BY <1>1
  <2> QED
    BY <1>4, <2>1, OneReservation
<1>7. [l \in Keys |-> StateOf(l)][k] = "inflight"
  BY <1>1, <1>3
<1>8. Promised!Create(k, a)
  BY <1>1, <1>2, <1>5, <1>6, <1>7 DEF Promised!Create, Promised!Store
<1> QED
  BY <1>1, <1>8 DEF Promised!Next

(* A row that is gone is a reservation that is free.                       *)
LEMMA FreedReservation ==
  ASSUME NEW k \in Keys, \A l \in Keys \ {k} : row'[l] = row[l],
         StateOf(k)' = "free", ResponseOf(k)' = None, SinceOf(k)' = 0,
         UNCHANGED <<now, committed>>
  PROVE  Promised!Free(k)
<1>1. /\ [l \in Keys |-> StateOf(l)]' = [[l \in Keys |-> StateOf(l)] EXCEPT ![k] = "free"]
      /\ [l \in Keys |-> ResponseOf(l)]' = [[l \in Keys |-> ResponseOf(l)] EXCEPT ![k] = None]
      /\ [l \in Keys |-> SinceOf(l)]' = [[l \in Keys |-> SinceOf(l)] EXCEPT ![k] = 0]
  BY OneReservation
<1> QED
  BY <1>1 DEF Promised!Free

(* What the middleware persists releases or completes an open reservation. *)
LEMMA PersistStores ==
  ASSUME IInv, NEW a \in Attempts, PersistCompletion(a)
  PROVE  Promised!Next \/ UNCHANGED row
<1>0. PICK k \in Keys : k = key[a]
  BY PersistRow
<1>1. /\ k \in Keys
      /\ \A l \in Keys \ {k} : row'[l] = row[l]
      /\ ~InFlight(k) => row' = row
      /\ InFlight(k) /\ outcome[a] = "failed" => row'[k] = None
      /\ InFlight(k) /\ outcome[a] # "failed" =>
            /\ row'[k] # None
            /\ row'[k].created = row[k].created
            /\ row'[k].response = a
            /\ row'[k].state = IF outcome[a] = "oversize" THEN "uncacheable" ELSE "done"
  BY <1>0, PersistRow
<1>2. now' = now /\ committed' = committed
  BY DEF PersistCompletion, clock
<1>3. CASE InFlight(k) /\ outcome[a] = "failed"
  <2>1. StateOf(k) = "inflight"
    BY <1>3 DEF StateOf, InFlight
  <2>2. StateOf(k)' = "free" /\ ResponseOf(k)' = None /\ SinceOf(k)' = 0
    BY <1>1, <1>3 DEF StateOf, ResponseOf, SinceOf
  <2>3. Promised!Free(k)
    BY <1>1, <1>2, <2>2, FreedReservation
  <2>4. Promised!Release(k)
    BY <1>1, <2>1, <2>3 DEF Promised!Release
  <2> QED
    BY <1>1, <2>4 DEF Promised!Next
<1>4. CASE InFlight(k) /\ outcome[a] # "failed"
  <2>1. StateOf(k) = "inflight" /\ SinceOf(k) = row[k].created
    BY <1>4 DEF StateOf, SinceOf, InFlight
  <2>2. StateOf(k)' \in {"done", "uncacheable"} /\ ResponseOf(k)' = a /\ SinceOf(k)' = SinceOf(k)
    BY <1>1, <1>4, <2>1 DEF StateOf, ResponseOf, SinceOf
  <2>3. [l \in Keys |-> SinceOf(l)]' = [l \in Keys |-> SinceOf(l)]
    BY <1>1, <2>2, SinceStays
  <2>4. PICK result \in {"done", "uncacheable"} : StateOf(k)' = result
    BY <2>2
  <2>5. /\ [l \in Keys |-> StateOf(l)]' = [[l \in Keys |-> StateOf(l)] EXCEPT ![k] = result]
        /\ [l \in Keys |-> ResponseOf(l)]' = [[l \in Keys |-> ResponseOf(l)] EXCEPT ![k] = a]
    BY <1>1, <2>2, <2>4, OneReservation
  <2>6. [l \in Keys |-> StateOf(l)][k] = "inflight"
    BY <1>1, <2>1
  <2>7. Promised!Store(k, a, result)
    BY <1>2, <2>3, <2>5, <2>6 DEF Promised!Store
  <2>8. Promised!Complete(k, a)
    BY <1>2, <2>4, <2>7 DEF Promised!Complete
  <2> QED
    BY <1>1, <2>8 DEF Promised!Next
<1> QED
  BY <1>1, <1>3, <1>4

(* The sweeper frees a key whose retention is over.                        *)
LEMMA SweepExpires ==
  ASSUME IInv, NEW k \in Keys, Sweep(k)
  PROVE  Promised!Next
<1>1. /\ row[k] # None /\ row[k].created + Retention < now
      /\ row'[k] = None /\ \A l \in Keys \ {k} : row'[l] = row[l]
  BY SweptRow
<1>2. StateOf(k) # "free" /\ SinceOf(k) = row[k].created
  <2>1. row[k].state \in RowState
    BY <1>1 DEF IInv, TypeOK, Row
  <2> QED
    BY <1>1, <2>1 DEF StateOf, SinceOf, RowState
<1>3. StateOf(k)' = "free" /\ ResponseOf(k)' = None /\ SinceOf(k)' = 0
  BY <1>1 DEF StateOf, ResponseOf, SinceOf
<1>4. Promised!Free(k)
  BY <1>1, <1>3, FreedReservation DEF Sweep, clock
<1>5. Promised!Expire(k)
  BY <1>1, <1>2, <1>4 DEF Promised!Expire
<1> QED
  BY <1>5 DEF Promised!Next

(* Every step is one of the reservations, or changes none.                 *)
LEMMA NextPromised == IInv /\ [Next]_vars => [Promised!Next]_(Promised!vars)
<1> SUFFICES ASSUME IInv, [Next]_vars PROVE [Promised!Next]_(Promised!vars)
  OBVIOUS
<1> USE DEF clock, call
<1>1. ASSUME UNCHANGED <<now, row, committed>> PROVE UNCHANGED Promised!vars
  BY <1>1 DEF Promised!vars, StateOf, ResponseOf, SinceOf
<1>2. ASSUME NEW a \in Attempts, Reserve(a) PROVE [Promised!Next]_(Promised!vars)
  BY <1>1, <1>2, InsertReserves DEF Reserve
<1>3. ASSUME NEW a \in Attempts, QueryFails(a) PROVE [Promised!Next]_(Promised!vars)
  BY <1>1, <1>3, InsertReserves DEF QueryFails
<1>4. ASSUME NEW a \in Attempts, CommitTunnel(a) \/ ResolveLimbo(a)
      PROVE  [Promised!Next]_(Promised!vars)
  BY <1>1, <1>4, CommitCreates DEF ResolveLimbo
<1>5. ASSUME NEW a \in Attempts, PersistCompletion(a) PROVE [Promised!Next]_(Promised!vars)
  BY <1>1, <1>5, PersistStores DEF PersistCompletion
<1>6. ASSUME NEW k \in Keys, Sweep(k) PROVE [Promised!Next]_(Promised!vars)
  BY <1>6, SweepExpires
<1>7. CASE Tick
  <2>1. Promised!Tick
    BY <1>7 DEF Tick, Promised!Tick, StateOf, ResponseOf, SinceOf
  <2> QED
    BY <2>1 DEF Promised!Next
<1>8. ASSUME NEW a \in Attempts,
             \/ Receive(a) \/ ServeExisting(a) \/ HandlerFails(a) \/ OtherHandler(a)
             \/ CompleteInTransaction(a) \/ CommitUnknown(a) \/ PersistFails(a)
      PROVE  UNCHANGED <<now, row, committed>>
  BY <1>8 DEF Receive, ServeExisting, HandlerFails, OtherHandler, CompleteInTransaction,
     CommitUnknown, PersistFails
<1>9. CASE Crash \/ UNCHANGED vars
  BY <1>1, <1>9 DEF Crash, vars
<1> QED
  BY <1>1, <1>2, <1>3, <1>4, <1>5, <1>6, <1>7, <1>8, <1>9 DEF Next, ServerStep

(* The middleware implements the atomic reservations: a create and its     *)
(* stored response are one step, which happens under a reservation only,   *)
(* and nothing but the end of the retention takes a stored response away,  *)
(* whatever overlaps, crashes or is left undecided.                        *)
THEOREM MiddlewareKeepsReservations == Spec => ImplementsReservations
<1>1. Init => Promised!Init
  BY DEF Init, Promised!Init, StateOf, ResponseOf, SinceOf
<1> QED
  BY <1>1, InitIInv, NextIInv, NextPromised, PTL DEF Spec, ImplementsReservations, Promised!Spec

-----------------------------------------------------------------------------
(* What NoKeyIsStranded needs besides fairness.                            *)

(* The steps an attempt has left at most.                                  *)
StepsFrom == [idle |-> 5, reserve |-> 4, handler |-> 3, commit |-> 2,
              persist |-> 1, existing |-> 1, done |-> 0]

(* A row is locked only by a transaction that PostgreSQL has yet to decide,*)
(* so neither the sweeper nor a release waits for nobody.                  *)
LocksAreHeld ==
    \A k \in Keys : rowLock[k] # None => pc[rowLock[k]] = "commit" \/ rowLock[k] \in limbo

(* A reservation in flight is ended or left as it is: no retry renews it,  *)
(* which would put off the end of its retention. A lock is taken by a step *)
(* of its own attempt, and every step of an attempt, as well as a crash,   *)
(* brings it nearer to its end, so that the lock of a row changes hands a  *)
(* bounded number of times. An attempt leaves a commit undecided only once.*)
ReservationStep ==
    /\ \A k \in Keys : InFlight(k) /\ InFlight(k)' => row'[k] = row[k]
    /\ \A k \in Keys : rowLock'[k] \notin {None, rowLock[k]} =>
          pc[rowLock'[k]] = "handler" /\ pc'[rowLock'[k]] = "commit"
    /\ \A a \in Attempts : pc'[a] # pc[a] => StepsFrom[pc'[a]] < StepsFrom[pc[a]]
    /\ \A a \in Attempts : a \in limbo' \ limbo => pc[a] = "commit" /\ pc'[a] = "persist"

ReservationsRunOut == [](LocksAreHeld) /\ [][ReservationStep]_vars

(* A reservation in flight is not written but to end it.                   *)
LEMMA InFlightStays ==
  ASSUME IInv, Next, NEW k \in Keys, InFlight(k), InFlight(k)'
  PROVE  row'[k] = row[k]
<1> DEFINE Goal == row'[k] = row[k]
<1> USE DEF IInv, clock, call
<1>1. ASSUME NEW c \in Attempts, Reserve(c) \/ QueryFails(c) PROVE Goal
  <2>1. key[c] \in Keys /\ fp[c] \in Fingerprints
    BY <1>1 DEF Reserve, QueryFails, CallInv
  <2>2. CASE Insert(c) /\ row[key[c]] = None
    BY <2>1, <2>2, InsertedRow DEF InFlight
  <2> QED
    BY <1>1, <2>2 DEF Reserve, QueryFails
<1>2. ASSUME NEW c \in Attempts, CommitTunnel(c) \/ ResolveLimbo(c) PROVE Goal
  <2>1. CASE Apply(c)
    BY <1>2, <2>1, CommitRow DEF InFlight
  <2> QED
    BY <1>2, <2>1 DEF CommitTunnel, ResolveLimbo
<1>3. ASSUME NEW c \in Attempts, PersistCompletion(c) PROVE Goal
  <2>1. CASE key[c] = k /\ InFlight(key[c])
    BY <1>3, <2>1, PersistRow DEF InFlight
  <2> QED
    BY <1>3, <2>1, PersistRow
<1>4. ASSUME NEW l \in Keys, Sweep(l) PROVE Goal
  BY <1>4, SweptRow DEF InFlight
<1>5. ASSUME NEW c \in Attempts,
             \/ Receive(c) \/ ServeExisting(c) \/ HandlerFails(c) \/ OtherHandler(c)
             \/ CompleteInTransaction(c) \/ CommitUnknown(c) \/ PersistFails(c)
      PROVE  Goal
  BY <1>5 DEF Receive, ServeExisting, HandlerFails, OtherHandler, CompleteInTransaction,
     CommitUnknown, PersistFails
<1>6. CASE Crash \/ Tick
  BY <1>6 DEF Crash, Tick
<1> QED
  BY <1>1, <1>2, <1>3, <1>4, <1>5, <1>6 DEF Next, ServerStep

(* An attempt only goes on, and its own step takes it further.             *)
LEMMA AttemptsGoOn ==
  ASSUME IInv, Next, NEW a \in Attempts, pc'[a] # pc[a]
  PROVE  StepsFrom[pc'[a]] < StepsFrom[pc[a]]
<1> DEFINE Goal == StepsFrom[pc'[a]] < StepsFrom[pc[a]]
<1> USE DEF IInv, TypeOK, Goto, HandlerReturns, StepsFrom
<1>1. ASSUME NEW c \in Attempts, Receive(c) PROVE Goal
  BY <1>1 DEF Receive
<1>2. ASSUME NEW c \in Attempts, Reserve(c) PROVE Goal
  BY <1>2 DEF Reserve
<1>3. ASSUME NEW c \in Attempts, QueryFails(c) PROVE Goal
  BY <1>3 DEF QueryFails
<1>4. ASSUME NEW c \in Attempts, ServeExisting(c) PROVE Goal
  BY <1>4 DEF ServeExisting
<1>5. ASSUME NEW c \in Attempts, HandlerFails(c) \/ OtherHandler(c) PROVE Goal
  BY <1>5 DEF HandlerFails, OtherHandler, Running
<1>6. ASSUME NEW c \in Attempts, CompleteInTransaction(c) PROVE Goal
  BY <1>6 DEF CompleteInTransaction
<1>7. ASSUME NEW c \in Attempts, CommitTunnel(c) \/ CommitUnknown(c) PROVE Goal
  BY <1>7 DEF CommitTunnel, CommitUnknown
<1>8. ASSUME NEW c \in Attempts, PersistCompletion(c) \/ PersistFails(c) PROVE Goal
  BY <1>8 DEF PersistCompletion, PersistFails
<1>9. CASE Crash
  BY <1>9 DEF Crash, Serving, Running
<1>10. ASSUME NEW c \in Attempts, ResolveLimbo(c) PROVE UNCHANGED pc
  BY <1>10 DEF ResolveLimbo
<1>11. CASE Tick \/ \E l \in Keys : Sweep(l)
  BY <1>11 DEF Tick, Sweep
<1> QED
  BY <1>1, <1>2, <1>3, <1>4, <1>5, <1>6, <1>7, <1>8, <1>9, <1>10, <1>11 DEF Next, ServerStep

(* Locks and undecided commits come from the attempt's own step only.      *)
LEMMA LocksAreTakenOnce ==
  ASSUME IInv, Next
  PROVE  /\ \A k \in Keys : rowLock'[k] \notin {None, rowLock[k]} =>
               pc[rowLock'[k]] = "handler" /\ pc'[rowLock'[k]] = "commit"
         /\ \A a \in Attempts : a \in limbo' \ limbo => pc[a] = "commit" /\ pc'[a] = "persist"
<1> USE DEF IInv, TypeOK, Goto, HandlerReturns, clock, call
<1>1. ASSUME NEW c \in Attempts, CompleteInTransaction(c)
      PROVE  /\ limbo' = limbo
             /\ \A k \in Keys : rowLock'[k] \notin {None, rowLock[k]} =>
                   pc[rowLock'[k]] = "handler" /\ pc'[rowLock'[k]] = "commit"
  BY <1>1 DEF CompleteInTransaction
<1>2. ASSUME NEW c \in Attempts, CommitUnknown(c)
      PROVE  /\ rowLock' = rowLock
             /\ \A a \in Attempts : a \in limbo' \ limbo => pc[a] = "commit" /\ pc'[a] = "persist"
  BY <1>2 DEF CommitUnknown
<1>3. ASSUME NEW c \in Attempts, HandlerFails(c) \/ CommitTunnel(c) \/ ResolveLimbo(c)
      PROVE  limbo' \subseteq limbo /\ \A k \in Keys : rowLock'[k] \in {None, rowLock[k]}
  BY <1>3 DEF HandlerFails, CommitTunnel, ResolveLimbo, Unlock
<1>4. CASE Crash
  BY <1>4 DEF Crash
<1>5. ASSUME NEW c \in Attempts,
             \/ Receive(c) \/ Reserve(c) \/ QueryFails(c) \/ ServeExisting(c)
             \/ OtherHandler(c) \/ PersistCompletion(c) \/ PersistFails(c)
      PROVE  rowLock' = rowLock /\ limbo' = limbo
  BY <1>5 DEF Receive, Reserve, QueryFails, ServeExisting, OtherHandler, PersistCompletion,
     PersistFails
<1>6. CASE Tick \/ \E l \in Keys : Sweep(l)
  BY <1>6 DEF Tick, Sweep
<1> QED
  BY <1>1, <1>2, <1>3, <1>4, <1>5, <1>6 DEF Next, ServerStep

(* A reservation in flight keeps its age until it is ended, and the lock   *)
(* that the sweeper may find on its row is that of a commit which          *)
(* PostgreSQL is about to decide; an attempt has at most five steps        *)
(* (idempotency.go:85-134, lifecycle.go:317-333).                          *)
THEOREM ReservationsCannotLast == Spec => ReservationsRunOut
<1>1. IInv => LocksAreHeld
  BY DEF IInv, LockInv, LocksAreHeld
<1>2. IInv /\ [Next]_vars => [ReservationStep]_vars
  BY InFlightStays, AttemptsGoOn, LocksAreTakenOnce DEF ReservationStep
<1> QED
  BY <1>1, <1>2, InitIInv, NextIInv, PTL DEF Spec, ReservationsRunOut
=============================================================================
