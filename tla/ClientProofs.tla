---------------------------- MODULE ClientProofs ----------------------------
(***************************************************************************)
(* Proofs about the commands of the client: ClientRun, for any number of   *)
(* attempts, of restarts and of signals; CredentialFile, for any number of *)
(* commands and of power cuts; Listing, for any number of tunnels and      *)
(* users and any size of a page.                                           *)
(***************************************************************************)
EXTENDS ClientRun, CredentialFile, Listing, TLAPS, FiniteSetTheorems, SequenceTheorems

-----------------------------------------------------------------------------
(* "hatchway http".                                                        *)

(* The requests are numbered through both loops of the create.             *)
CountInv == request <= (decode - 1) * MaxAttempts + attempt

(* The reservation stands between two runs of the handler: at most one is  *)
(* at work, or undecided, and only under a reservation in flight; a tunnel *)
(* is there, and only one, exactly when the reservation is completed.      *)
KeyInv ==
    /\ \A i \in Creates :
          /\ server[i] \in AtWork => key = "inflight"
          /\ server[i] = "created" => key = "done"
          /\ \A j \in Creates : server[i] \in AtWork /\ server[j] \in AtWork => i = j
    /\ live \subseteq tunnels
    /\ key # "done" => tunnels = {}
    /\ key = "done" => \E i \in Creates : tunnels = {i}

(* What the client has seen of the create, and done about it.              *)
SeenInv ==
    /\ answer \in {"created", "truncated"} => key = "done"
    /\ pc \in AfterCreate => answer = "created"
    /\ pc = "exited" /\ answer = "created" =>
          deleted # "none" /\ (deleted = "ok" => live = {})

IInv == TypeOK /\ CountInv /\ KeyInv /\ SeenInv

(* The bounds are numbers.                                                 *)
LEMMA Bounds == /\ MaxAttempts \in Nat \ {0} /\ MaxDecodes \in Nat \ {0}
                /\ MaxRestarts \in Nat /\ MaxSignals \in Nat
  BY BoundsAssumption

(* The invariant holds before the client starts.                           *)
LEMMA InitIInv == Init => IInv
<1> SUFFICES ASSUME Init PROVE IInv
  OBVIOUS
<1> USE Bounds
<1>1. 1 \in Creates
  <2>1. MaxAttempts * MaxDecodes \in Nat /\ MaxAttempts * MaxDecodes >= 1
    OBVIOUS
  <2> QED
    BY <2>1 DEF Creates
<1>2. TypeOK
  <2>1. server \in [Creates -> Answers \union AtWork \union {"none", "sent"}]
    BY DEF Init
  <2>2. /\ attempt \in 1..MaxAttempts /\ decode \in 1..MaxDecodes
        /\ signals \in 0..MaxSignals /\ restarts \in 0..MaxRestarts
    BY DEF Init
  <2>3. tunnels \in SUBSET Creates /\ live \in SUBSET Creates
    BY DEF Init
  <2> QED
    BY <1>1, <2>1, <2>2, <2>3, Zenon DEF Init, TypeOK
<1>3. CountInv
  BY DEF Init, CountInv
<1>4. KeyInv
  BY DEF Init, KeyInv, AtWork
<1>5. SeenInv
  BY DEF Init, SeenInv, AfterCreate
<1> QED
  BY <1>2, <1>3, <1>4, <1>5 DEF IInv

-----------------------------------------------------------------------------
(* The two loops of the create stay within the bound on the requests.      *)

(* A row of the table of attempts by decodes is followed by the next one,  *)
(* and the last one ends at the bound.                                     *)
LEMMA RowsOfAttempts ==
  ASSUME NEW d \in 1..MaxDecodes
  PROVE  /\ (d - 1) * MaxAttempts \in Nat
         /\ d * MaxAttempts = (d - 1) * MaxAttempts + MaxAttempts
         /\ d * MaxAttempts <= MaxAttempts * MaxDecodes
<1> USE Bounds
<1>1. d - 1 \in Nat /\ MaxDecodes - d \in Nat
  OBVIOUS
<1>2. (d - 1) * MaxAttempts \in Nat /\ (MaxDecodes - d) * MaxAttempts \in Nat
  BY <1>1
<1>3. d * MaxAttempts = (d - 1) * MaxAttempts + MaxAttempts
  BY <1>1
<1>4. MaxAttempts * MaxDecodes = d * MaxAttempts + (MaxDecodes - d) * MaxAttempts
  BY <1>1
<1> QED
  BY <1>2, <1>3, <1>4

(* A retry keeps the count, and there is a request for it.                 *)
LEMMA RetryCounts == IInv /\ Retry => CountInv' /\ request' \in Creates
<1> SUFFICES ASSUME IInv, Retry PROVE CountInv' /\ request' \in Creates
  OBVIOUS
<1> USE Bounds
<1>1. request \in Nat /\ request >= 1 /\ attempt \in 1..MaxAttempts /\ decode \in 1..MaxDecodes
  BY DEF IInv, TypeOK, Creates
<1> DEFINE before == (decode - 1) * MaxAttempts
           bound == MaxAttempts * MaxDecodes
<1>2. /\ before \in Nat
      /\ decode * MaxAttempts = before + MaxAttempts
      /\ decode * MaxAttempts <= bound
      /\ bound \in Nat
  BY <1>1, RowsOfAttempts
<1>3. request <= before + attempt
  BY DEF IInv, CountInv
<1>4. CASE ShouldRetry /\ attempt < MaxAttempts /\ Again(attempt + 1, decode)
  <2>1. request' = request + 1 /\ attempt' = attempt + 1 /\ decode' = decode
    BY <1>4 DEF Again
  <2>2. request' <= before + attempt' /\ request' <= bound
    <3> HIDE DEF before, bound
    <3> QED
      BY <1>1, <1>2, <1>3, <1>4, <2>1
  <2> QED
    BY <1>1, <2>1, <2>2 DEF CountInv, Creates
<1>5. CASE answer = "truncated" /\ decode < MaxDecodes /\ Again(1, decode + 1)
  <2>1. request' = request + 1 /\ attempt' = 1 /\ decode' = decode + 1
    BY <1>5 DEF Again
  <2>2. decode + 1 \in 1..MaxDecodes
    BY <1>1, <1>5
  <2>3. /\ (decode + 1) - 1 = decode
        /\ (decode + 1) * MaxAttempts = decode * MaxAttempts + MaxAttempts
        /\ (decode + 1) * MaxAttempts <= bound
    BY <1>1, <2>2, RowsOfAttempts
  <2>4. request' <= decode * MaxAttempts + 1 /\ request' <= bound
    <3> DEFINE row == decode * MaxAttempts
               next == (decode + 1) * MaxAttempts
    <3>1. row = before + MaxAttempts /\ next = row + MaxAttempts /\ next <= bound
      BY <1>2, <2>3
    <3> HIDE DEF before, bound, row, next
    <3>2. request' <= row + 1 /\ request' <= bound
      BY <1>1, <1>2, <1>3, <2>1, <3>1
    <3> QED
      BY <3>2 DEF row
  <2> QED
    BY <1>1, <2>1, <2>3, <2>4 DEF CountInv, Creates
<1> QED
  BY <1>4, <1>5 DEF Retry

-----------------------------------------------------------------------------
(* Every step keeps the invariant.                                         *)
LEMMA ServerIInv ==
  ASSUME IInv, NEW i \in Creates, ServerStep(i)
  PROVE  IInv'
<1> USE DEF AtWork, Answers
<1>1. CASE Reserve(i)
  <2>1. TypeOK' /\ CountInv'
    BY <1>1 DEF Reserve, Replies, IInv, TypeOK, CountInv, client, signal, child
  <2>2. KeyInv'
    BY <1>1 DEF Reserve, Replies, IInv, TypeOK, KeyInv
  <2>3. SeenInv'
    BY <1>1 DEF Reserve, IInv, KeyInv, SeenInv, client
  <2> QED
    BY <2>1, <2>2, <2>3 DEF IInv
<1>2. CASE Run(i) \/ Decide(i)
  <2>1. /\ key = "inflight" /\ tunnels = {} /\ live = {} /\ server[i] \in AtWork
        /\ answer \notin {"created", "truncated"}
    BY <1>2 DEF Run, Decide, IInv, KeyInv, SeenInv
  <2>2. TypeOK' /\ CountInv'
    BY <1>2 DEF Run, Decide, Commit, RollBack, Replies, IInv, TypeOK, CountInv, client, signal, child
  <2>3. ASSUME Commit(i), Replies(i, "created") \/ Replies(i, "refused") PROVE KeyInv'
    BY <2>1, <2>3 DEF Commit, Replies, IInv, TypeOK, KeyInv
  <2>4. ASSUME RollBack(i) PROVE KeyInv'
    BY <2>1, <2>4 DEF RollBack, Replies, IInv, TypeOK, KeyInv
  <2>5. ASSUME Replies(i, "undecided"), UNCHANGED <<key, tunnels, live>> PROVE KeyInv'
    BY <2>1, <2>5 DEF Replies, IInv, TypeOK, KeyInv
  <2>6. SeenInv'
    BY <1>2, <2>1 DEF Run, Decide, IInv, SeenInv, client
  <2> QED
    BY <1>2, <2>2, <2>3, <2>4, <2>5, <2>6 DEF Run, Decide, IInv
<1>3. CASE Unavailable(i)
  BY <1>3 DEF Unavailable, Replies, IInv, TypeOK, CountInv, KeyInv, SeenInv, client, signal, child,
     AfterCreate
<1> QED
  BY <1>1, <1>2, <1>3 DEF ServerStep

(* What the delete is told to delete is the only tunnel there is.          *)
LEMMA StoredIsAll == IInv /\ key = "done" => tunnels = {Stored} /\ live \ {Stored} = {}
<1> SUFFICES ASSUME IInv, key = "done" PROVE tunnels = {Stored} /\ live \ {Stored} = {}
  OBVIOUS
<1>1. PICK i \in Creates : tunnels = {i}
  BY DEF IInv, KeyInv
<1>2. Stored = i
  BY <1>1 DEF Stored
<1> QED
  BY <1>1, <1>2 DEF IInv, KeyInv

(* Every step of the client, the server and the signals keeps it.          *)
LEMMA NextIInv == IInv /\ [Next]_vars => IInv'
<1> SUFFICES ASSUME IInv, [Next]_vars PROVE IInv'
  OBVIOUS
<1> USE Bounds DEF IInv, AtWork
<1>1. CASE Send
  BY <1>1 DEF Send, TypeOK, CountInv, KeyInv, SeenInv, signal, child, Answers,
     AfterCreate
<1>2. CASE Receive
  BY <1>2 DEF Receive, TypeOK, CountInv, KeyInv, SeenInv, signal, child, store,
              Answers, AfterCreate
<1>3. CASE Retry
  <2>1. CountInv' /\ request' \in Creates
    BY <1>3, RetryCounts
  <2>2. TypeOK' /\ KeyInv'
    BY <1>3, <2>1 DEF Retry, Again, TypeOK, KeyInv, signal, child, store, Answers
  <2>3. SeenInv'
    BY <1>3 DEF Retry, Again, SeenInv, store, AfterCreate
  <2> QED
    BY <2>1, <2>2, <2>3
<1>4. CASE GiveUp
  BY <1>4 DEF GiveUp, TypeOK, CountInv, KeyInv, SeenInv, signal, child, store,
     AfterCreate
<1>5. CASE Created
  BY <1>5 DEF Created, TypeOK, CountInv, KeyInv, SeenInv, signal, child, store,
     AfterCreate
<1>6. CASE pc \in AfterCreate /\ Return
  BY <1>6 DEF Return, TypeOK, CountInv, KeyInv, SeenInv, store, AfterCreate
<1>7. CASE Configure
  BY <1>6, <1>7 DEF Configure, TypeOK, CountInv, KeyInv, SeenInv, child, store,
     AfterCreate
<1>8. CASE Start
  BY <1>6, <1>8 DEF Start, TypeOK, CountInv, KeyInv, SeenInv, signal, store, AfterCreate
<1>9. CASE OnSignal
  BY <1>6, <1>9 DEF OnSignal, AfterCreate
<1>10. CASE OnExit
  BY <1>6, <1>10 DEF OnExit, TypeOK, CountInv, KeyInv, SeenInv, signal, store,
     AfterCreate
<1>11. CASE BackoffEnds
  BY <1>11 DEF BackoffEnds, TypeOK, CountInv, KeyInv, SeenInv, signal, child,
     store, AfterCreate
<1>12. CASE Cleanup
  <2>1. key = "done" /\ live \ {Stored} = {}
    BY <1>12, StoredIsAll DEF Cleanup, SeenInv, AfterCreate
  <2>2. live' \subseteq live
    BY <1>12 DEF Cleanup
  <2> QED
    BY <1>12, <2>1, <2>2 DEF Cleanup, TypeOK, CountInv, KeyInv, SeenInv, signal, child, AfterCreate
<1>13. CASE FrpcExits
  BY <1>13 DEF FrpcExits, TypeOK, CountInv, KeyInv, SeenInv, client, signal, store
<1>14. CASE Signal
  <2>1. TypeOK'
    <3>1. CASE notified
      BY <1>14, <3>1 DEF Signal, TypeOK, child, store
    <3>2. CASE ~notified
      BY <1>14, <3>2 DEF Signal, TypeOK, child, store
    <3> QED
      BY <3>1, <3>2
  <2>2. CountInv' /\ KeyInv' /\ SeenInv'
    BY <1>14 DEF Signal, CountInv, KeyInv, SeenInv, store, AfterCreate
  <2> QED
    BY <2>1, <2>2
<1>15. CASE \E i \in Creates : ServerStep(i)
  BY <1>15, ServerIInv
<1>16. CASE UNCHANGED vars
  BY <1>16 DEF TypeOK, CountInv, KeyInv, SeenInv, vars, client, signal, child, store
<1> QED
  BY <1>1, <1>2, <1>3, <1>4, <1>5, <1>7, <1>8, <1>9, <1>10, <1>11, <1>12, <1>13, <1>14,
     <1>15, <1>16 DEF Next, ClientStep

-----------------------------------------------------------------------------
(* The invariant holds in every run of the command.                        *)
THEOREM Invariant == Spec => []IInv
<1> QED
  BY InitIInv, NextIInv, PTL DEF Spec

(* Every variable has its type; doCtx and CreateTunnelCtx together send no *)
(* more than MaxAttempts * MaxDecodes requests.                            *)
THEOREM TypeCorrect == Spec => []TypeOK
<1>1. IInv => TypeOK
  BY DEF IInv
<1> QED
  BY <1>1, Invariant, PTL

(* However many attempts the client makes, one tunnel at most comes of     *)
(* them (client.go:82).                                                    *)
THEOREM RetriesAreIdempotent == Spec => []AtMostOneTunnel
<1>1. IInv => AtMostOneTunnel
  <2> SUFFICES ASSUME IInv PROVE AtMostOneTunnel
    OBVIOUS
  <2>1. CASE tunnels = {}
    BY <2>1, FS_EmptySet DEF AtMostOneTunnel
  <2>2. CASE \E i \in Creates : tunnels = {i}
    <3>1. PICK i \in Creates : tunnels = {i}
      BY <2>2
    <3>2. Cardinality({i}) = 1
      BY FS_Singleton
    <3> QED
      BY <3>1, <3>2 DEF AtMostOneTunnel
  <2> QED
    BY <2>1, <2>2 DEF IInv, KeyInv
<1> QED
  BY <1>1, Invariant, PTL

(* A command that ends by itself after its create has tried the delete,    *)
(* and when that was answered it leaves no tunnel.                         *)
THEOREM ExitIsClean == Spec => []ExitCleansUp
<1>1. IInv => ExitCleansUp
  BY DEF IInv, SeenInv, ExitCleansUp
<1> QED
  BY <1>1, Invariant, PTL

-----------------------------------------------------------------------------
(* The server of this module and the promise of an idempotency key.        *)

(* What a step of Reservations is for the one key of a command.            *)
LEMMA KeySteps ==
  ASSUME NEW i \in Creates
  PROVE  /\ Presumed!Reserve("key") <=> key = "free" /\ key' = "inflight" /\ tunnels' = tunnels
         /\ Presumed!Release("key") <=> key = "inflight" /\ key' = "free" /\ tunnels' = tunnels
         /\ Presumed!Create("key", i) =>
               /\ key = "inflight" /\ key' = "done"
               /\ tunnels' = tunnels \union {i}
         /\ key = "inflight" /\ key' = "done" /\ tunnels = {} /\ tunnels' = {i}
               => Presumed!Create("key", i)
<1> DEFINE keyState == [k \in {"key"} |-> key]
<1>1. ASSUME NEW step PROVE keyState' = [keyState EXCEPT !["key"] = step] <=> key' = step
  OBVIOUS
<1>2. ASSUME NEW j PROVE (CHOOSE x \in {j} : TRUE) = j
  OBVIOUS
<1>3. Presumed!Reserve("key") <=> key = "free" /\ key' = "inflight" /\ tunnels' = tunnels
  BY <1>1 DEF Presumed!Reserve
<1>4. Presumed!Release("key") <=> key = "inflight" /\ key' = "free" /\ tunnels' = tunnels
  BY <1>1 DEF Presumed!Release, Presumed!Free
<1>5. Presumed!Create("key", i) => key = "inflight" /\ key' = "done" /\ tunnels' = tunnels \union {i}
  BY <1>1 DEF Presumed!Create, Presumed!Store
<1>6. ASSUME key = "inflight", key' = "done", tunnels = {}, tunnels' = {i}
      PROVE  Presumed!Create("key", i)
  <2>1. Stored' = i
    BY <1>2, <1>6 DEF Stored
  <2> QED
    BY <1>1, <1>6, <2>1 DEF Presumed!Create, Presumed!Store
<1> QED
  BY <1>3, <1>4, <1>5, <1>6

(* In every reachable state the server of this module can take each step   *)
(* that Reservations lets a create in flight take on its key, and changes  *)
(* the key and the tunnels by no other step. So nothing that               *)
(* MiddlewareKeepsReservations allows a create to do to its key before the *)
(* retention is over is missing from what the client is checked, and       *)
(* proved, against: the server may always refuse, and may always succeed.  *)
THEOREM ServerIsReservations ==
  ASSUME IInv, NEW i \in Creates
  PROVE  /\ Allowed(i) => ServerStep(i)
         /\ ServerStep(i) => Allowed(i) \/ UNCHANGED <<key, tunnels>>
<1> USE KeySteps DEF AtWork
<1>1. ASSUME Allowed(i) PROVE ServerStep(i)
  <2>1. CASE server[i] = "sent" /\ Presumed!Reserve("key")
    BY <1>1, <2>1 DEF Allowed, ServerStep, Reserve, Replies
  <2>2. CASE server[i] \in AtWork /\ Presumed!Create("key", i)
    BY <1>1, <2>2 DEF Allowed, ServerStep, Run, Decide, Commit, Replies
  <2>3. CASE server[i] \in AtWork /\ Presumed!Release("key")
    BY <1>1, <2>3 DEF Allowed, ServerStep, Run, Decide, RollBack, Replies
  <2> QED
    BY <1>1, <2>1, <2>2, <2>3 DEF Allowed
<1>2. ASSUME ServerStep(i) PROVE Allowed(i) \/ UNCHANGED <<key, tunnels>>
  <2>1. CASE Reserve(i)
    BY <2>1 DEF Reserve, Allowed
  <2>2. CASE Run(i) \/ Decide(i)
    <3>1. key = "inflight" /\ tunnels = {} /\ server[i] \in AtWork
      BY <2>2 DEF Run, Decide, IInv, KeyInv
    <3>2. ASSUME Commit(i) PROVE Presumed!Create("key", i)
      BY <3>1, <3>2 DEF Commit
    <3>3. ASSUME RollBack(i), key' # key PROVE Presumed!Release("key")
      BY <3>1, <3>3 DEF RollBack
    <3> QED
      BY <2>2, <3>1, <3>2, <3>3 DEF Run, Decide, Commit, RollBack, Allowed
  <2>3. CASE Unavailable(i)
    BY <2>3 DEF Unavailable
  <2> QED
    BY <1>2, <2>1, <2>2, <2>3 DEF ServerStep
<1> QED
  BY <1>1, <1>2

-----------------------------------------------------------------------------
(* The steps of a command are bounded, which is what TheRunEnds rests on.  *)

(* The creates that may follow the attempt a of the decode d.              *)
Behind(a, d) == MaxAttempts * MaxDecodes - ((d - 1) * MaxAttempts + a)

(* The steps a command has left at most: at a place of RunE, with what it  *)
(* has heard of its create, after so many restarts.                        *)
StepsFrom(place, a, d, heard, n) ==
    CASE place = "send" -> 3 * Behind(a, d) + 3 * MaxRestarts + 7
      [] place = "wait" /\ heard = "none" -> 3 * Behind(a, d) + 3 * MaxRestarts + 6
      [] place = "wait" /\ heard # "none" -> 3 * Behind(a, d) + 3 * MaxRestarts + 5
      [] place \in {"configure", "backoff"} -> 3 * (MaxRestarts - n) + 4
      [] place = "start" -> 3 * (MaxRestarts - n) + 3
      [] place = "supervise" -> 3 * (MaxRestarts - n) + 2
      [] place = "cleanup" -> 1
      [] place \in {"exited", "killed"} -> 0

StepsLeft == StepsFrom(pc, attempt, decode, answer, restarts)

(* A step of the command leaves it fewer, and no step of the server, of    *)
(* frpc or of a signal more.                                               *)
CommandDescends ==
    /\ StepsLeft \in 0..3 * (MaxAttempts * MaxDecodes) + 3 * MaxRestarts + 4
    /\ StepsLeft' <= StepsLeft
    /\ ClientStep => StepsLeft' < StepsLeft
CommandRunsOut == [][CommandDescends]_vars

(* A retry moves on in the table of the attempts by the decodes.           *)
LEMMA AttemptsRunOut ==
  ASSUME NEW a \in 1..MaxAttempts, NEW d \in 1..MaxDecodes
  PROVE  /\ Behind(a, d) \in 0..MaxAttempts * MaxDecodes - 1
         /\ Behind(a + 1, d) = Behind(a, d) - 1
         /\ d < MaxDecodes => Behind(1, d + 1) \in Int /\ Behind(1, d + 1) < Behind(a, d)
<1> USE Bounds
<1> DEFINE before == (d - 1) * MaxAttempts
           row == d * MaxAttempts
           bound == MaxAttempts * MaxDecodes
<1>1. before \in Nat /\ bound \in Nat /\ row = before + MaxAttempts /\ row <= bound
  BY RowsOfAttempts
<1>2. /\ Behind(a, d) = bound - (before + a)
      /\ Behind(a + 1, d) = bound - (before + (a + 1))
  BY DEF Behind
<1>3. Behind(1, d + 1) = bound - (row + 1)
  BY DEF Behind
<1> HIDE DEF before, row, bound
<1>4. Behind(a, d) \in 0..bound - 1 /\ Behind(a + 1, d) = Behind(a, d) - 1
  BY <1>1, <1>2
<1>5. Behind(1, d + 1) \in Int /\ Behind(1, d + 1) <= Behind(a, d) - 1
  BY <1>1, <1>2, <1>3
<1> QED
  BY <1>4, <1>5 DEF bound

(* The number of steps left is a number, and within the bound.             *)
LEMMA StepsAreBounded ==
  ASSUME NEW place \in AfterCreate \union {"send", "wait", "exited", "killed"},
         NEW a \in 1..MaxAttempts, NEW d \in 1..MaxDecodes, NEW heard,
         NEW n \in 0..MaxRestarts
  PROVE  /\ StepsFrom(place, a, d, heard, n) \in 0..3 * (MaxAttempts * MaxDecodes) + 3 * MaxRestarts + 4
         /\ place \in AfterCreate => StepsFrom(place, a, d, heard, n) > 0
<1> DEFINE bound == MaxAttempts * MaxDecodes
           behind == Behind(a, d)
<1>1. bound \in Nat /\ behind \in 0..bound - 1 /\ MaxRestarts \in Nat
  BY Bounds, AttemptsRunOut
<1>2. CASE place = "send"
  <2>1. StepsFrom(place, a, d, heard, n) = 3 * behind + 3 * MaxRestarts + 7
    BY <1>2 DEF StepsFrom
  <2> HIDE DEF bound, behind
  <2>2. 3 * behind + 3 * MaxRestarts + 7 \in 0..3 * bound + 3 * MaxRestarts + 4
    BY <1>1
  <2> QED
    BY <1>2, <2>1, <2>2 DEF bound, AfterCreate
<1>3. CASE place = "wait"
  <2>1. \/ StepsFrom(place, a, d, heard, n) = 3 * behind + 3 * MaxRestarts + 6
        \/ StepsFrom(place, a, d, heard, n) = 3 * behind + 3 * MaxRestarts + 5
    BY <1>3 DEF StepsFrom
  <2> HIDE DEF bound, behind
  <2>2. /\ 3 * behind + 3 * MaxRestarts + 6 \in 0..3 * bound + 3 * MaxRestarts + 4
        /\ 3 * behind + 3 * MaxRestarts + 5 \in 0..3 * bound + 3 * MaxRestarts + 4
    BY <1>1
  <2> QED
    BY <1>3, <2>1, <2>2 DEF bound, AfterCreate
<1>4. CASE place \in AfterCreate \union {"exited", "killed"}
  <2>1. /\ StepsFrom(place, a, d, heard, n) \in 0..3 * MaxRestarts + 4
        /\ place \in AfterCreate => StepsFrom(place, a, d, heard, n) > 0
    BY <1>1, <1>4 DEF StepsFrom, AfterCreate
  <2> HIDE DEF bound
  <2>2. 0..3 * MaxRestarts + 4 \subseteq 0..3 * bound + 3 * MaxRestarts + 4
    BY <1>1
  <2> QED
    BY <2>1, <2>2 DEF bound
<1> QED
  BY <1>2, <1>3, <1>4

(* Each step of the client goes down.                                      *)
LEMMA ClientStepDescends == IInv /\ IInv' /\ ClientStep => StepsLeft' < StepsLeft
<1> SUFFICES ASSUME IInv, IInv', ClientStep PROVE StepsLeft' < StepsLeft
  OBVIOUS
<1>1. /\ attempt \in 1..MaxAttempts /\ decode \in 1..MaxDecodes /\ restarts \in 0..MaxRestarts
      /\ MaxRestarts \in Nat
      /\ pc \in AfterCreate \union {"send", "wait", "exited", "killed"}
  BY Bounds DEF IInv, TypeOK
<1>2. Behind(attempt, decode) \in Nat
  BY <1>1, AttemptsRunOut, Bounds
<1>3. CASE Send
  BY <1>1, <1>2, <1>3 DEF Send, StepsLeft, StepsFrom
<1>4. CASE Receive
  <2>1. pc = "wait" /\ pc' = "wait" /\ answer = "none" /\ answer' # "none"
    BY <1>4 DEF Receive
  <2> QED
    BY <1>1, <1>2, <1>4, <2>1 DEF Receive, StepsLeft, StepsFrom
<1>5. CASE Retry
  <2>1. pc = "wait" /\ pc' = "send" /\ answer # "none"
    BY <1>5 DEF Retry, Again, ShouldRetry
  <2>2. Behind(attempt', decode') \in Int /\ Behind(attempt', decode') < Behind(attempt, decode)
    BY <1>1, <1>2, <1>5, AttemptsRunOut DEF Retry, Again
  <2>3. StepsLeft = 3 * Behind(attempt, decode) + 3 * MaxRestarts + 5
    BY <2>1 DEF StepsLeft, StepsFrom
  <2>4. StepsLeft' = 3 * Behind(attempt', decode') + 3 * MaxRestarts + 7
    BY <2>1 DEF StepsLeft, StepsFrom
  <2> QED
    BY <1>1, <1>2, <2>2, <2>3, <2>4
<1>6. CASE GiveUp \/ Created
  <2>1. pc = "wait" /\ answer # "none" /\ pc' \in {"exited", "configure"} /\ restarts' = restarts
    BY <1>6 DEF GiveUp, Created, child
  <2>2. StepsLeft = 3 * Behind(attempt, decode) + 3 * MaxRestarts + 5
    BY <2>1 DEF StepsLeft, StepsFrom
  <2>3. StepsLeft' = 0 \/ StepsLeft' = 3 * (MaxRestarts - restarts) + 4
    BY <2>1 DEF StepsLeft, StepsFrom
  <2> QED
    BY <1>1, <1>2, <2>2, <2>3
<1>7. CASE pc \in AfterCreate \ {"cleanup"} /\ Return
  <2>1. StepsLeft' = 1
    BY <1>7 DEF Return, StepsLeft, StepsFrom
  <2>2. StepsLeft >= 2
    BY <1>1, <1>7 DEF AfterCreate, StepsLeft, StepsFrom
  <2>3. StepsLeft \in Int
    BY <1>1, <1>7 DEF AfterCreate, StepsLeft, StepsFrom
  <2> QED
    BY <2>1, <2>2, <2>3
<1>8. CASE Configure \/ Start \/ OnSignal
  <2>1. \/ pc \in AfterCreate \ {"cleanup"} /\ Return
        \/ pc = "configure" /\ pc' = "start" /\ restarts' = restarts
        \/ pc = "start" /\ pc' = "supervise" /\ restarts' = restarts
    BY <1>8 DEF Configure, Start, OnSignal, child, AfterCreate
  <2>2. ASSUME pc = "configure", pc' = "start", restarts' = restarts
        PROVE  StepsLeft' < StepsLeft
    BY <1>1, <2>2 DEF StepsLeft, StepsFrom
  <2>3. ASSUME pc = "start", pc' = "supervise", restarts' = restarts
        PROVE  StepsLeft' < StepsLeft
    BY <1>1, <2>3 DEF StepsLeft, StepsFrom
  <2> QED
    BY <1>7, <2>1, <2>2, <2>3
<1>9. CASE OnExit
  <2>1. \/ pc \in AfterCreate \ {"cleanup"} /\ Return
        \/ pc = "supervise" /\ pc' = "backoff" /\ restarts' = restarts + 1
    BY <1>9 DEF OnExit, AfterCreate
  <2>2. ASSUME pc = "supervise", pc' = "backoff", restarts' = restarts + 1
        PROVE  StepsLeft' < StepsLeft
    <3>1. StepsLeft = 3 * (MaxRestarts - restarts) + 2
      BY <2>2 DEF StepsLeft, StepsFrom
    <3>2. StepsLeft' = 3 * (MaxRestarts - (restarts + 1)) + 4
      BY <2>2 DEF StepsLeft, StepsFrom
    <3> QED
      BY <1>1, <3>1, <3>2
  <2> QED
    BY <1>7, <2>1, <2>2
<1>10. CASE BackoffEnds \/ Cleanup
  BY <1>1, <1>10 DEF BackoffEnds, Cleanup, child, StepsLeft, StepsFrom
<1> QED
  BY <1>3, <1>4, <1>5, <1>6, <1>8, <1>9, <1>10 DEF ClientStep

(* No other step gives the client more to do.                              *)
LEMMA NextDescends == IInv /\ [Next]_vars => CommandDescends
<1> SUFFICES ASSUME IInv, [Next]_vars PROVE CommandDescends
  OBVIOUS
<1>1. IInv'
  BY NextIInv
<1> DEFINE bound == 3 * (MaxAttempts * MaxDecodes) + 3 * MaxRestarts + 4
<1>2. StepsLeft \in 0..bound
  BY StepsAreBounded DEF IInv, TypeOK, StepsLeft
<1>3. StepsLeft' \in 0..bound
  <2>1. StepsFrom(pc', attempt', decode', answer', restarts') \in 0..bound
    BY <1>1, StepsAreBounded DEF IInv, TypeOK
  <2> QED
    BY <2>1 DEF StepsLeft
<1>4. ClientStep => StepsLeft' < StepsLeft
  BY <1>1, ClientStepDescends
<1>5. ASSUME UNCHANGED <<client, restarts>> PROVE StepsLeft' = StepsLeft
  BY <1>5 DEF client, StepsLeft
<1>6. \/ ClientStep \/ Signal
      \/ UNCHANGED <<client, restarts>>
  BY DEF Next, ServerStep, Reserve, Run, Decide, Unavailable, FrpcExits, vars, child
<1>7. ClientStep \/ StepsLeft' = StepsLeft \/ StepsLeft' = 0
  <2>1. pc' = "killed" => StepsLeft' = 0
    BY DEF StepsLeft, StepsFrom
  <2>2. Signal => pc' = "killed" \/ StepsLeft' = StepsLeft
    BY DEF Signal, child, StepsLeft
  <2> QED
    BY <1>5, <1>6, <2>1, <2>2
<1>8. bound \in Nat
  BY Bounds
<1> HIDE DEF bound
<1>9. StepsLeft' <= StepsLeft
  BY <1>2, <1>3, <1>4, <1>7, <1>8
<1> QED
  BY <1>2, <1>4, <1>9 DEF CommandDescends, bound

(* "hatchway http" takes at most 3 * MaxAttempts * MaxDecodes plus         *)
(* 3 * MaxRestarts + 4 steps of its own, whatever the server, the network, *)
(* frpc and signals do (client.go:273-350, commands/client.go:228-282).    *)
THEOREM CommandRunsOutOfSteps == Spec => CommandRunsOut
<1> QED
  BY InitIInv, NextIInv, NextDescends, PTL DEF Spec, CommandRunsOut

-----------------------------------------------------------------------------
(* The credential file.                                                    *)

(* The values of the variables.                                            *)
FileTypeOK ==
    /\ path \in Files \union {NoFile}
    /\ disk \in Files \union {NoFile}
    /\ content \in [Files -> {"none", "torn", "whole"}]
    /\ synced \in SUBSET Files
    /\ writer \in [Writers -> {"idle", "write", "sync", "rename", "saved", "failed", "dead"}]
    /\ remover \in [Removers -> {"idle", "removed"}]
    /\ reader \in [Readers -> {"idle", "read", "resolved", "unauthenticated", "failed", "dead"}]
    /\ credential \in [Readers -> Files \union {NoFile}]
    /\ removals \in [Readers -> BOOLEAN]
    /\ powerCuts \in 0..MaxPowerCuts

(* A file that has a name, in memory or on the disk, is whole and synced,  *)
(* and its writer has nothing left to do to it.                            *)
NamedFile(f) ==
    /\ f \in synced
    /\ content[f] = "whole"
    /\ f \in Writers => writer[f] \in {"saved", "dead"}

(* What a writer has done to its file so far.                              *)
WriterInv ==
    /\ \A f \in {path, disk} \ {NoFile} : NamedFile(f)
    /\ \A w \in Writers :
          /\ writer[w] \in {"sync", "rename"} => content[w] = "whole"
          /\ writer[w] = "rename" => w \in synced

(* A reader that finds no file at its second look has met a logout.        *)
ReaderInv ==
    /\ \A r \in Readers : reader[r] = "read" /\ path = NoFile => removals[r]
    /\ OnlyLogoutFailsARead

FileInv == FileTypeOK /\ WriterInv /\ ReaderInv

(* The invariant holds with the credential that is there, or with none.    *)
LEMMA FileInitInv == FileInit => FileInv
<1> SUFFICES ASSUME FileInit PROVE FileInv
  OBVIOUS
<1>1. Old \in Files /\ NoFile \notin Files /\ Old \notin Writers /\ MaxPowerCuts \in Nat
  BY CredentialFileAssumption DEF Files
<1>2. FileTypeOK
  BY <1>1 DEF FileInit, FileTypeOK
<1>3. WriterInv /\ ReaderInv
  BY <1>1 DEF FileInit, WriterInv, ReaderInv, NamedFile, OnlyLogoutFailsARead
<1> QED
  BY <1>2, <1>3 DEF FileInv

(* The steps of "auth set-token": what it still works on has no name.      *)
LEMMA SetTokenInv ==
  ASSUME FileInv, NEW w \in Writers,
         CreateTemp(w) \/ Write(w) \/ Sync(w) \/ Rename(w) \/ GiveUpWrite(w)
  PROVE  FileInv'
<1>1. w \in Files /\ w # NoFile /\ NoFile \notin Files
  BY CredentialFileAssumption DEF Files
<1> USE DEF FileInv, Goto
<1>2. \A f \in {path, disk} \ {NoFile} : f \in Files /\ NamedFile(f)
  BY DEF FileTypeOK, WriterInv
<1>3. writer[w] \in {"idle", "write", "sync", "rename"} => w # path /\ w # disk
  BY <1>1, <1>2 DEF NamedFile
<1>4. CASE CreateTemp(w)
  BY <1>1, <1>2, <1>3, <1>4 DEF CreateTemp, FileTypeOK, WriterInv, NamedFile, ReaderInv,
     OnlyLogoutFailsARead
<1>5. CASE Write(w)
  BY <1>1, <1>2, <1>3, <1>5 DEF Write, FileTypeOK, WriterInv, NamedFile, ReaderInv,
     OnlyLogoutFailsARead
<1>6. CASE Sync(w)
  BY <1>1, <1>2, <1>3, <1>6 DEF Sync, FileTypeOK, WriterInv, NamedFile, ReaderInv,
     OnlyLogoutFailsARead
<1>7. CASE Rename(w)
  BY <1>1, <1>2, <1>3, <1>7 DEF Rename, FileTypeOK, WriterInv, NamedFile, ReaderInv,
     OnlyLogoutFailsARead
<1>8. CASE GiveUpWrite(w)
  <2>1. \A f \in Files \ {w} : content'[f] = content[f]
    BY <1>8 DEF GiveUpWrite, FileTypeOK
  <2>2. content' \in [Files -> {"none", "torn", "whole"}]
    BY <1>1, <1>8 DEF GiveUpWrite, FileTypeOK
  <2>3. \A v \in Writers : writer'[v] = IF v = w THEN "failed" ELSE writer[v]
    BY <1>8 DEF GiveUpWrite, FileTypeOK
  <2>4. FileTypeOK'
    BY <1>8, <2>2 DEF GiveUpWrite, FileTypeOK
  <2>5. WriterInv'
    BY <1>1, <1>2, <1>3, <1>8, <2>1, <2>3 DEF GiveUpWrite, WriterInv, NamedFile, Files
  <2>6. ReaderInv'
    BY <1>8 DEF GiveUpWrite, ReaderInv, OnlyLogoutFailsARead
  <2> QED
    BY <2>4, <2>5, <2>6
<1> QED
  BY <1>4, <1>5, <1>6, <1>7, <1>8

(* "auth logout", and the commands that read.                              *)
LEMMA LogoutAndReadInv ==
  ASSUME FileInv, (\E x \in Removers : Remove(x)) \/ (\E r \in Readers : Check(r) \/ Read(r))
  PROVE  FileInv'
<1> USE DEF FileInv
<1>1. \A f \in {path, disk} \ {NoFile} : f \in Files /\ NamedFile(f)
  BY DEF FileTypeOK, WriterInv
<1>2. ASSUME NEW x \in Removers, Remove(x) PROVE FileInv'
  BY <1>1, <1>2 DEF Remove, FileTypeOK, WriterInv, NamedFile, ReaderInv, OnlyLogoutFailsARead
<1>3. ASSUME NEW r \in Readers, Check(r) PROVE FileInv'
  BY <1>1, <1>3 DEF Check, Resolved, file, FileTypeOK, WriterInv, NamedFile, ReaderInv,
     OnlyLogoutFailsARead
<1>4. ASSUME NEW r \in Readers, Read(r) PROVE FileInv'
  <2>1. path # NoFile => path \in Files /\ content[path] = "whole"
    BY <1>1 DEF NamedFile
  <2> QED
    BY <1>1, <1>4, <2>1 DEF Read, Resolved, file, FileTypeOK, WriterInv, NamedFile, ReaderInv,
       OnlyLogoutFailsARead
<1> QED
  BY <1>2, <1>3, <1>4

(* The directory is written back, or the power is cut.                     *)
LEMMA DiskInv ==
  ASSUME FileInv, WriteBack \/ PowerCut
  PROVE  FileInv'
<1> USE DEF FileInv
<1>1. \A f \in {path, disk} \ {NoFile} : f \in Files /\ NamedFile(f)
  BY DEF FileTypeOK, WriterInv
<1>2. CASE WriteBack
  BY <1>1, <1>2 DEF WriteBack, commands, FileTypeOK, WriterInv, NamedFile, ReaderInv,
     OnlyLogoutFailsARead
<1>3. CASE PowerCut
  BY <1>1, <1>3, CredentialFileAssumption DEF PowerCut, FileTypeOK, WriterInv, NamedFile,
     ReaderInv, OnlyLogoutFailsARead
<1> QED
  BY <1>2, <1>3

(* Every step of every command and of the disk keeps the invariant.        *)
LEMMA FileNextInv == FileInv /\ [FileNext]_fileVars => FileInv'
<1>1. ASSUME FileInv, UNCHANGED fileVars PROVE FileInv'
  BY <1>1 DEF fileVars, file, commands, FileInv, FileTypeOK, WriterInv, NamedFile, ReaderInv,
     OnlyLogoutFailsARead
<1> QED
  BY <1>1, SetTokenInv, LogoutAndReadInv, DiskInv DEF FileNext

(* The invariant of the credential file holds in every run.                *)
THEOREM FileInvariant == FileSpec => []FileInv
<1> QED
  BY FileInitInv, FileNextInv, PTL DEF FileSpec

(* However many commands write, remove and read, whatever is killed, and   *)
(* through any number of power cuts, credentials.json is a whole           *)
(* credential or no file (credentials.go:122-151).                         *)
THEOREM TheFileIsWhole == FileSpec => []FileIsWhole
<1>1. FileInv => FileIsWhole
  BY DEF FileInv, WriterInv, NamedFile, FileIsWhole
<1> QED
  BY <1>1, FileInvariant, PTL

(* A read that fails between its two looks has met a logout, never a       *)
(* set-token.                                                              *)
THEOREM OnlyLogoutFails == FileSpec => []OnlyLogoutFailsARead
<1>1. FileInv => OnlyLogoutFailsARead
  BY DEF FileInv, ReaderInv
<1> QED
  BY <1>1, FileInvariant, PTL

-----------------------------------------------------------------------------
(* "hatchway list".                                                        *)

(* What the listing holds against the rows.                                *)
ListTypeOK ==
    /\ now \in Nat
    /\ state \in [Tunnels -> {"none", "open", "committed"}]
    /\ owner \in [Tunnels -> Users \union {None}]
    /\ created \in [Tunnels -> Nat]
    /\ lister \in {"idle", "asking", "listed", "failed"}
    /\ caller \in Users \union {None}
    /\ cursor \in Tunnels \union {None}
    /\ cursors \in SUBSET Tunnels
    /\ listed \in Seq(Tunnels)
    /\ attempts \in 0..MaxPageAttempts
    /\ repeated \in BOOLEAN
    /\ atStart \in SUBSET Tunnels

(* The rows before the cursor are listed, in order and once.               *)
ListedInv ==
    /\ \A i, j \in 1..Len(listed) : i < j => Newer(listed[i], listed[j])
    /\ \A i \in 1..Len(listed) : listed[i] \in Committed(caller)
    /\ atStart \subseteq Committed(caller)

(* While it pages: what is listed ends with the cursor, every cursor seen  *)
(* is that one or newer, and what was there at the start is listed or yet  *)
(* to come.                                                                *)
CursorInv ==
    /\ lister = "idle" => listed = <<>> /\ cursor = None /\ atStart = {}
    /\ cursor = None => cursors = {}
    /\ lister = "asking" /\ cursor = None => listed = <<>>
    /\ cursor # None =>
          /\ cursor \in Committed(caller)
          /\ cursors \subseteq Committed(caller)
          /\ \A c \in cursors : c = cursor \/ Newer(c, cursor)
    /\ lister = "asking" /\ cursor # None =>
          \A i \in 1..Len(listed) : listed[i] = cursor \/ Newer(listed[i], cursor)
    /\ ~repeated
    /\ lister = "asking" =>
          \A t \in atStart : t \in Beyond(caller, cursor) \/ \E i \in 1..Len(listed) : listed[i] = t
    /\ ListingIsComplete

ListInv == ListTypeOK /\ ListedInv /\ CursorInv

(* ORDER BY created_at, id is a strict total order of the rows.            *)
LEMMA NewerIsAnOrder ==
  ASSUME created \in [Tunnels -> Nat]
  PROVE  /\ \A a \in Tunnels : ~Newer(a, a)
         /\ \A a, b, c \in Tunnels : Newer(a, b) /\ Newer(b, c) => Newer(a, c)
         /\ \A a, b \in Tunnels : a = b \/ Newer(a, b) \/ Newer(b, a)
<1>1. \A a \in Tunnels : a \in Int /\ created[a] \in Nat
  BY ListingAssumption DEF Tunnels
<1> QED
  BY <1>1 DEF Newer

(* The invariant holds before the command starts.                          *)
LEMMA ListInitInv == ListInit => ListInv
<1> SUFFICES ASSUME ListInit PROVE ListInv
  OBVIOUS
<1>1. ListTypeOK
  <2>1. listed \in Seq(Tunnels) /\ attempts \in 0..MaxPageAttempts
    BY ListingAssumption DEF ListInit
  <2>2. /\ state \in [Tunnels -> {"none", "open", "committed"}]
        /\ owner \in [Tunnels -> Users \union {None}]
        /\ created \in [Tunnels -> Nat]
    BY DEF ListInit
  <2> QED
    BY <2>1, <2>2 DEF ListInit, ListTypeOK
<1>2. ListedInv /\ CursorInv
  BY DEF ListInit, ListedInv, CursorInv, ListingIsComplete
<1> QED
  BY <1>1, <1>2 DEF ListInv

(* What a create does leaves the rows that are committed as they are, so   *)
(* the invariant, which speaks of no others, is kept.                      *)
LEMMA RowsKeepInv ==
  ASSUME ListInv, ListTypeOK', UNCHANGED listing,
         \A t \in Tunnels : state[t] = "committed" =>
            state'[t] = "committed" /\ owner'[t] = owner[t] /\ created'[t] = created[t]
  PROVE  ListInv'
<1> USE DEF ListInv, listing
<1>1. Committed(caller) \subseteq Committed(caller)' /\ caller' = caller
  BY DEF Committed
<1>2. \A a, b \in Committed(caller) : Newer(a, b)' <=> Newer(a, b)
  BY DEF Committed, Newer
<1>3. ListedInv'
  BY <1>1, <1>2 DEF ListedInv
<1>4. \A t \in Committed(caller) : t \in Beyond(caller, cursor) =>
         t \in Beyond(caller, cursor)'
  BY <1>1, <1>2 DEF CursorInv, Beyond
<1>5. ListingIsComplete'
  BY DEF CursorInv, ListingIsComplete
<1>6. CursorInv'
  <2>1. \A c \in cursors : c \in Committed(caller)
    BY DEF CursorInv
  <2>2. \A i \in 1..Len(listed) : listed[i] \in Committed(caller)
    BY DEF ListedInv
  <2>3. atStart \subseteq Committed(caller)
    BY DEF ListedInv
  <2> QED
    BY <1>1, <1>2, <1>4, <1>5, <2>1, <2>2, <2>3 DEF CursorInv
<1> QED
  BY <1>3, <1>6

(* The creates and the clock.                                              *)
LEMMA CreatesKeepInv ==
  ASSUME ListInv, Tick \/ \E t \in Tunnels : BeginCreate(t) \/ CommitCreate(t)
  PROVE  ListInv'
<1> USE ListingAssumption DEF ListInv
<1>1. CASE Tick
  <2>1. ListTypeOK'
    BY <1>1 DEF Tick, listing, ListTypeOK
  <2> QED
    BY <1>1, <2>1, RowsKeepInv DEF Tick
<1>2. ASSUME NEW t \in Tunnels, BeginCreate(t) PROVE ListInv'
  <2>1. ListTypeOK'
    BY <1>2 DEF BeginCreate, listing, ListTypeOK
  <2>2. \A s \in Tunnels : state[s] = "committed" =>
            state'[s] = "committed" /\ owner'[s] = owner[s] /\ created'[s] = created[s]
    BY <1>2 DEF BeginCreate, ListTypeOK
  <2> QED
    BY <1>2, <2>1, <2>2, RowsKeepInv DEF BeginCreate
<1>3. ASSUME NEW t \in Tunnels, CommitCreate(t) PROVE ListInv'
  <2>1. ListTypeOK'
    BY <1>3 DEF CommitCreate, listing, ListTypeOK
  <2>2. \A s \in Tunnels : state[s] = "committed" =>
            state'[s] = "committed" /\ owner'[s] = owner[s] /\ created'[s] = created[s]
    BY <1>3 DEF CommitCreate, ListTypeOK
  <2> QED
    BY <1>3, <2>1, <2>2, RowsKeepInv DEF CommitCreate
<1> QED
  BY <1>1, <1>2, <1>3

(* What a page has of the rows beyond its cursor: the newest, in order; a  *)
(* row that it leaves out is older than the cursor it returns, and it      *)
(* leaves out none when it returns no cursor.                              *)
LEMMA PageOfRest ==
  ASSUME ListTypeOK, NEW u, NEW c, NEW entries \in Entries(u, c)
  PROVE  LET page == Page(entries)
             rest == Beyond(u, c)
         IN  /\ page.tunnels \in Seq(rest)
             /\ \A i, j \in 1..Len(page.tunnels) : i < j => Newer(page.tunnels[i], page.tunnels[j])
             /\ page.next = None => \A t \in rest : \E i \in 1..Len(page.tunnels) : page.tunnels[i] = t
             /\ page.next # None =>
                   /\ page.next \in rest
                   /\ \A i \in 1..Len(page.tunnels) :
                         page.tunnels[i] = page.next \/ Newer(page.tunnels[i], page.next)
                   /\ \A t \in rest :
                         \/ \E i \in 1..Len(page.tunnels) : page.tunnels[i] = t
                         \/ Newer(page.next, t)
<1> DEFINE page == Page(entries)
           rest == Beyond(u, c)
<1>1. rest \subseteq Tunnels /\ None \notin rest
  BY ListingAssumption DEF Beyond, Committed
<1>2. Limit \in Nat /\ Limit >= 1
  BY ListingAssumption
<1>3. PICK n \in 0..Limit + 1 : entries \in [1..n -> rest]
  BY DEF Entries
<1>4. entries \in Seq(rest) /\ Len(entries) = n /\ n \in Nat
  BY <1>2, <1>3
<1>5. /\ \A i, j \in 1..n : i < j => Newer(entries[i], entries[j])
      /\ \A t \in rest :
            \/ \E i \in 1..n : entries[i] = t
            \/ n = Limit + 1 /\ \A i \in 1..n : Newer(entries[i], t)
  BY <1>4 DEF Entries, IsPageOf
<1>6. CASE n <= Limit
  <2>1. page.tunnels = entries /\ page.next = None
    BY <1>2, <1>4, <1>6 DEF Page
  <2> HIDE DEF page, rest
  <2>2. \A t \in rest : \E i \in 1..n : entries[i] = t
    BY <1>2, <1>5, <1>6
  <2> QED
    BY <1>4, <1>5, <2>1, <2>2 DEF page, rest
<1>7. CASE n = Limit + 1
  <2>1. page.tunnels = SubSeq(entries, 1, Limit) /\ page.next = entries[Limit]
    BY <1>2, <1>4, <1>7 DEF Page
  <2>2. /\ SubSeq(entries, 1, Limit) \in Seq(rest)
        /\ Len(SubSeq(entries, 1, Limit)) = Limit
        /\ \A i \in 1..Limit : SubSeq(entries, 1, Limit)[i] = entries[i]
    <3> HIDE DEF rest
    <3> QED
      BY <1>2, <1>4, <1>7
  <2>3. entries[Limit] \in rest
    BY <1>2, <1>3, <1>7
  <2>4. \A i \in 1..Limit : i \in 1..n /\ (i = Limit \/ i < Limit)
    BY <1>2, <1>7
  <2>5. \A i \in 1..n : i \in 1..Limit \/ i = Limit + 1
    BY <1>2, <1>7
  <2>6. Newer(entries[Limit], entries[Limit + 1])
    BY <1>2, <1>5, <1>7
  <2> HIDE DEF page, rest
  <2>7. \A i \in 1..Limit : entries[i] = entries[Limit] \/ Newer(entries[i], entries[Limit])
    BY <1>2, <1>5, <2>4
  <2>8. \A t \in rest : (\E i \in 1..Limit : entries[i] = t) \/ Newer(entries[Limit], t)
    BY <1>2, <1>5, <2>4, <2>5, <2>6
  <2>9. \A i, j \in 1..Limit : i < j => Newer(entries[i], entries[j])
    BY <1>5, <2>4
  <2> QED
    BY <1>1, <2>1, <2>2, <2>3, <2>7, <2>8, <2>9 DEF page, rest
<1> QED
  BY <1>2, <1>6, <1>7

(* A page after the cursor continues the listing.                          *)
LEMMA ReceiveKeepsInv == ListInv /\ ReceivePage => ListInv'
<1> SUFFICES ASSUME ListInv, ReceivePage PROVE ListInv'
  OBVIOUS
<1> USE DEF ListInv
<1>1. PICK entries \in Entries(caller, cursor) :
        LET page == Page(entries)
        IN  /\ listed' = listed \o page.tunnels
            /\ \/ /\ page.next = None
                  /\ lister' = "listed"
                  /\ UNCHANGED <<cursor, cursors, repeated>>
               \/ /\ page.next \in cursors
                  /\ lister' = "failed"
                  /\ repeated' = TRUE
                  /\ UNCHANGED <<cursor, cursors>>
               \/ /\ page.next \notin cursors \union {None}
                  /\ cursor' = page.next
                  /\ cursors' = cursors \union {page.next}
                  /\ UNCHANGED <<lister, repeated>>
  BY DEF ReceivePage
<1> DEFINE more == Page(entries).tunnels
           next == Page(entries).next
           rest == Beyond(caller, cursor)
           len == Len(listed)
<1>2. /\ more \in Seq(rest)
      /\ \A i, j \in 1..Len(more) : i < j => Newer(more[i], more[j])
      /\ next = None => \A t \in rest : \E i \in 1..Len(more) : more[i] = t
      /\ next # None =>
            /\ next \in rest
            /\ \A i \in 1..Len(more) : more[i] = next \/ Newer(more[i], next)
            /\ \A t \in rest : (\E i \in 1..Len(more) : more[i] = t) \/ Newer(next, t)
  BY PageOfRest
<1>3. /\ rest \subseteq Committed(caller)
      /\ Committed(caller) \subseteq Tunnels
      /\ None \notin Tunnels
      /\ cursor # None => \A t \in rest : Newer(cursor, t)
      /\ \A t \in Committed(caller) : cursor # None /\ Newer(cursor, t) => t \in rest
  BY ListingAssumption DEF Beyond, Committed
<1>4. /\ \A u : Committed(u)' = Committed(u)
      /\ \A a, b : Newer(a, b)' <=> Newer(a, b)
      /\ caller' = caller /\ atStart' = atStart /\ lister = "asking"
  BY DEF ReceivePage, rows, Committed, Newer
<1>5. /\ listed' \in Seq(Tunnels)
      /\ Len(listed') = len + Len(more)
      /\ len \in Nat /\ Len(more) \in Nat
      /\ \A i \in 1..len : listed'[i] = listed[i]
      /\ \A i \in 1..Len(more) : listed'[len + i] = more[i] /\ len + i \in 1..Len(listed')
      /\ \A i \in 1..Len(listed') : i \in 1..len \/ i - len \in 1..Len(more)
  <2>1. listed' = listed \o more
    BY <1>1
  <2>2. listed \in Seq(Tunnels) /\ more \in Seq(Tunnels)
    <3>1. rest \subseteq Tunnels
      BY <1>3
    <3> HIDE DEF more, rest
    <3> QED
      BY <1>2, <3>1 DEF ListTypeOK
  <2> HIDE DEF more
  <2> QED
    BY <2>1, <2>2
<1>6. \A a, b, c \in Tunnels : Newer(a, b) /\ Newer(b, c) => Newer(a, c)
  BY NewerIsAnOrder DEF ListTypeOK
<1>7. \A a \in Tunnels : ~Newer(a, a)
  BY NewerIsAnOrder DEF ListTypeOK
<1> HIDE DEF more, next, rest
<1>8. \A i \in 1..len : listed[i] \in Committed(caller)
  BY DEF ListedInv
<1>9. \A i \in 1..Len(more) : more[i] \in rest
  BY <1>2
<1>10. \A i \in 1..len, j \in 1..Len(more) : Newer(listed[i], more[j])
  BY <1>3, <1>4, <1>6, <1>8, <1>9 DEF CursorInv
<1>11. ListedInv'
  <2>1. ASSUME NEW i \in 1..Len(listed'), NEW j \in 1..Len(listed'), i < j
        PROVE  Newer(listed'[i], listed'[j])
    <3>1. CASE j \in 1..len
      <4>1. i \in 1..len
        BY <1>5, <2>1, <3>1
      <4> QED
        BY <1>5, <2>1, <3>1, <4>1 DEF ListedInv
    <3>2. CASE j - len \in 1..Len(more) /\ i \in 1..len
      <4>1. listed'[j] = more[j - len]
        BY <1>5, <3>2
      <4> QED
        BY <1>5, <1>10, <3>2, <4>1
    <3>3. CASE j - len \in 1..Len(more) /\ i - len \in 1..Len(more)
      <4>1. listed'[j] = more[j - len] /\ listed'[i] = more[i - len] /\ i - len < j - len
        BY <1>5, <2>1, <3>3
      <4> QED
        BY <1>2, <3>3, <4>1
    <3> QED
      BY <1>5, <3>1, <3>2, <3>3
  <2>2. ASSUME NEW i \in 1..Len(listed') PROVE listed'[i] \in Committed(caller)
    <3>1. CASE i \in 1..len
      BY <1>5, <1>8, <3>1
    <3>2. CASE i - len \in 1..Len(more)
      <4>1. listed'[i] = more[i - len]
        BY <1>5, <3>2
      <4> QED
        BY <1>3, <1>9, <3>2, <4>1
    <3> QED
      BY <1>5, <3>1, <3>2
  <2> QED
    BY <1>4, <2>1, <2>2 DEF ListedInv
<1>12. \A t \in Tunnels :
          (\E i \in 1..len : listed[i] = t) \/ (\E i \in 1..Len(more) : more[i] = t)
             => \E i \in 1..Len(listed') : listed'[i] = t
  <2>1. \A i \in 1..len : i \in 1..Len(listed')
    BY <1>5
  <2> QED
    BY <1>5, <2>1
<1>13. \A t \in atStart : t \in Tunnels /\ (t \in rest \/ \E i \in 1..len : listed[i] = t)
  BY <1>4 DEF CursorInv, ListTypeOK, rest
<1>14. CASE next = None /\ lister' = "listed" /\ UNCHANGED <<cursor, cursors, repeated>>
  <2>1. ListTypeOK'
    BY <1>5, <1>14, ListingAssumption DEF ReceivePage, rows, ListTypeOK
  <2>2. ListingIsComplete'
    BY <1>2, <1>4, <1>12, <1>13, <1>14 DEF ListingIsComplete
  <2>3. CursorInv'
    BY <1>4, <1>14, <2>2 DEF CursorInv
  <2> QED
    BY <1>11, <2>1, <2>3
<1>15. next \notin cursors
  <2>1. SUFFICES ASSUME next \in cursors PROVE FALSE
    OBVIOUS
  <2>2. next # None /\ next \in rest /\ cursor # None
    BY <1>2, <1>3, <2>1 DEF CursorInv, ListTypeOK
  <2> QED
    BY <1>3, <1>6, <1>7, <2>1, <2>2 DEF CursorInv, ListTypeOK
<1>16. CASE /\ next \notin cursors \union {None}
            /\ cursor' = next
            /\ cursors' = cursors \union {next}
            /\ UNCHANGED <<lister, repeated>>
  <2>1. next \in rest /\ next \in Committed(caller) /\ next \in Tunnels /\ next # None
    BY <1>2, <1>3, <1>16
  <2>2. ListTypeOK'
    BY <1>5, <1>16, <2>1, ListingAssumption DEF ReceivePage, rows, ListTypeOK
  <2>3. \A i \in 1..Len(listed') : listed'[i] = next \/ Newer(listed'[i], next)
    <3>1. ASSUME NEW i \in 1..len PROVE Newer(listed[i], next)
      BY <1>3, <1>4, <1>6, <1>8, <2>1, <3>1 DEF CursorInv
    <3>2. ASSUME NEW i \in 1..Len(listed'), i - len \in 1..Len(more)
          PROVE  listed'[i] = next \/ Newer(listed'[i], next)
      <4>1. listed'[i] = more[i - len]
        BY <1>5, <3>2
      <4> QED
        BY <1>2, <2>1, <3>2, <4>1
    <3> QED
      BY <1>5, <3>1, <3>2
  <2>4. \A c \in cursors' : c = next \/ Newer(c, next)
    BY <1>3, <1>6, <1>16, <2>1 DEF CursorInv, ListTypeOK
  <2>5. cursors' \subseteq Committed(caller)
    BY <1>16, <2>1 DEF CursorInv
  <2>6. ASSUME NEW t \in atStart
        PROVE  t \in Beyond(caller, next) \/ \E i \in 1..Len(listed') : listed'[i] = t
    <3>1. t \in Committed(caller)
      BY DEF ListedInv
    <3> QED
      BY <1>2, <1>12, <1>13, <2>1, <2>6, <3>1 DEF Beyond
  <2>7. \A t : t \in Beyond(caller, cursor)' <=> t \in Beyond(caller, next)
    BY <1>4, <1>16 DEF Beyond
  <2>8. ListingIsComplete'
    BY <1>4, <1>16 DEF ListingIsComplete
  <2>9. CursorInv'
    BY <1>4, <1>16, <2>1, <2>3, <2>4, <2>5, <2>6, <2>7, <2>8 DEF CursorInv
  <2> QED
    BY <1>11, <2>2, <2>9
<1> QED
  BY <1>1, <1>14, <1>15, <1>16 DEF more, next

(* The command starts, asks again for a page, or gives up.                 *)
LEMMA ListerKeepsInv ==
  ASSUME ListInv, (\E u \in Users : StartListing(u)) \/ RetryPage \/ FailPage
  PROVE  ListInv'
<1> USE ListingAssumption DEF ListInv
<1>1. ASSUME NEW u \in Users, StartListing(u) PROVE ListInv'
  <2>1. ListTypeOK'
    BY <1>1 DEF StartListing, rows, ListTypeOK, Committed
  <2>2. Committed(u)' = Committed(u) /\ Beyond(u, None)' = Committed(u)
    BY <1>1 DEF StartListing, rows, Committed, Beyond
  <2>3. listed' = <<>> /\ cursor' = None /\ cursors' = {} /\ caller' = u /\ atStart' = Committed(u)
        /\ lister' = "asking" /\ repeated' = repeated
    BY <1>1 DEF StartListing, CursorInv
  <2>4. ListedInv'
    BY <2>2, <2>3 DEF ListedInv
  <2>5. CursorInv'
    BY <2>2, <2>3 DEF CursorInv, ListingIsComplete
  <2> QED
    BY <2>1, <2>4, <2>5
<1>2. CASE RetryPage
  BY <1>2 DEF RetryPage, rows, ListTypeOK, ListedInv, CursorInv, ListingIsComplete, Committed,
     Beyond, Newer
<1>3. CASE FailPage
  BY <1>3 DEF FailPage, rows, ListTypeOK, ListedInv, CursorInv, ListingIsComplete, Committed,
     Beyond, Newer
<1> QED
  BY <1>1, <1>2, <1>3

(* Every step of the command and of the creates keeps the invariant.       *)
LEMMA ListNextInv == ListInv /\ [ListNext]_listVars => ListInv'
<1>1. ASSUME ListInv, UNCHANGED listVars PROVE ListInv'
  BY <1>1 DEF listVars, rows, listing, ListInv, ListTypeOK, ListedInv, CursorInv,
     ListingIsComplete, Committed, Beyond, Newer
<1> QED
  BY <1>1, CreatesKeepInv, ReceiveKeepsInv, ListerKeepsInv DEF ListNext, ListerStep

(* The invariant of the listing holds in every run.                        *)
THEOREM ListInvariant == ListSpec => []ListInv
<1> QED
  BY ListInitInv, ListNextInv, PTL DEF ListSpec

(* For any number of tunnels and any size of a page: what is listed is     *)
(* strictly from new to old, of the caller only, and no page repeats a     *)
(* cursor (client.go:183-185).                                             *)
THEOREM ListedNewestFirst == ListSpec => []NewestFirst
<1>1. ListInv => NewestFirst
  BY DEF ListInv, ListedInv, CursorInv, NewestFirst
<1> QED
  BY <1>1, ListInvariant, PTL

(* A listing that succeeds has every tunnel its user had when it began,    *)
(* whatever is created and committed between its pages.                    *)
THEOREM ListedIsComplete == ListSpec => []ListingIsComplete
<1>1. ListInv => ListingIsComplete
  BY DEF ListInv, CursorInv
<1> QED
  BY <1>1, ListInvariant, PTL

(* Time, as the rows have it, and the attempts at a page.                  *)
PageInv ==
    /\ \A t \in Tunnels : state[t] # "none" => created[t] <= now
    /\ attempts < MaxPageAttempts

(* The tunnels a page may still show: those begun that are beyond the      *)
(* cursor, and those that may yet begin in the very instant of the cursor. *)
Ahead ==
    {t \in Tunnels :
        \/ cursor = None
        \/ state[t] = "none" /\ now = created[cursor] /\ t < cursor
        \/ state[t] # "none" /\ Newer(cursor, t)}

(* The requests a listing may still send.                                  *)
RequestsLeft ==
    IF lister = "asking" THEN Cardinality(Ahead) * MaxPageAttempts + (MaxPageAttempts - attempts)
    ELSE 0

(* Each answer, or want of one, leaves fewer requests; no create ever adds *)
(* to them, however many begin and commit while the listing pages.         *)
ListingDescends ==
    lister = "asking" =>
        /\ RequestsLeft \in 1..(MaxTunnel + 1) * MaxPageAttempts
        /\ Ahead' \subseteq Ahead
        /\ RequestsLeft' <= RequestsLeft
        /\ ListerStep => RequestsLeft' < RequestsLeft
ListingRunsOut == [][ListingDescends]_listVars

(* No row is ahead of its time, and the attempts at a page are limited.    *)
LEMMA NextPageInv == ListInv /\ PageInv /\ [ListNext]_listVars => PageInv'
<1> SUFFICES ASSUME ListInv, PageInv, [ListNext]_listVars PROVE PageInv'
  OBVIOUS
<1> USE ListingAssumption DEF PageInv, ListInv, ListTypeOK, rows, listing
<1>1. CASE Tick
  BY <1>1 DEF Tick
<1>2. ASSUME NEW t \in Tunnels, BeginCreate(t) PROVE PageInv'
  BY <1>2 DEF BeginCreate
<1>3. ASSUME NEW t \in Tunnels, CommitCreate(t) PROVE PageInv'
  BY <1>3 DEF CommitCreate
<1>4. CASE ListerStep \/ \E u \in Users : StartListing(u)
  <2>1. UNCHANGED rows
    BY <1>4 DEF ListerStep, ReceivePage, RetryPage, FailPage, StartListing
  <2>2. attempts' < MaxPageAttempts
    BY <1>4 DEF ListerStep, ReceivePage, RetryPage, FailPage, StartListing
  <2> QED
    BY <2>1, <2>2
<1>5. CASE UNCHANGED listVars
  BY <1>5 DEF listVars
<1> QED
  BY <1>1, <1>2, <1>3, <1>4, <1>5 DEF ListNext

(* Creates and the clock bring no tunnel before the lister.                *)
LEMMA CreatesStayBehind ==
  ASSUME ListInv, PageInv, Tick \/ \E t \in Tunnels : BeginCreate(t) \/ CommitCreate(t)
  PROVE  Ahead' \subseteq Ahead
<1> SUFFICES ASSUME NEW t \in Ahead', cursor # None PROVE t \in Ahead
  BY DEF Ahead, Tick, BeginCreate, CommitCreate, listing
<1> USE DEF ListInv, ListTypeOK, PageInv
<1>1. cursor' = cursor /\ cursor \in Tunnels /\ state[cursor] = "committed" /\ t \in Tunnels
      /\ cursor \in Int /\ t \in Int
  BY ListingAssumption DEF Tick, BeginCreate, CommitCreate, listing, CursorInv, Committed, Ahead, Tunnels
<1>2. created[cursor] \in Nat /\ created[cursor] <= now /\ now \in Nat
  BY <1>1
<1>3. CASE Tick
  BY <1>1, <1>2, <1>3 DEF Tick, Ahead, Newer
<1>4. ASSUME NEW s \in Tunnels, BeginCreate(s) PROVE t \in Ahead
  <2>1. created'[cursor] = created[cursor] /\ now' = now /\ s # cursor
    BY <1>1, <1>4 DEF BeginCreate
  <2>2. CASE t = s
    <3>1. state[t] = "none" /\ state'[t] = "open" /\ created'[t] = now
      BY <1>4, <2>2 DEF BeginCreate
    <3> QED
      BY <1>1, <1>2, <2>1, <3>1 DEF Ahead, Newer
  <2>3. CASE t # s
    <3>1. state'[t] = state[t] /\ created'[t] = created[t]
      BY <1>4, <2>3 DEF BeginCreate
    <3> QED
      BY <1>1, <2>1, <3>1 DEF Ahead, Newer
  <2> QED
    BY <2>2, <2>3
<1>5. ASSUME NEW s \in Tunnels, CommitCreate(s) PROVE t \in Ahead
  <2>1. created' = created /\ now' = now /\ (state'[t] = "none" <=> state[t] = "none")
    BY <1>1, <1>5 DEF CommitCreate
  <2> QED
    BY <1>1, <2>1 DEF Ahead, Newer
<1> QED
  BY <1>3, <1>4, <1>5

(* A further page leaves its cursor, and all before it, behind.            *)
LEMMA PagesMoveOn ==
  ASSUME ListInv, PageInv, ReceivePage, lister' = "asking"
  PROVE  /\ Ahead' \subseteq Ahead
         /\ \E t \in Ahead : t \notin Ahead'
<1> USE DEF ListInv
<1>1. PICK entries \in Entries(caller, cursor) :
         Page(entries).next # None /\ cursor' = Page(entries).next
  BY DEF ReceivePage
<1> DEFINE next == Page(entries).next
<1>2. next \in Beyond(caller, cursor)
  BY <1>1, PageOfRest
<1> HIDE DEF next
<1>3. /\ next \in Tunnels /\ state[next] = "committed" /\ next # None
      /\ cursor # None => Newer(cursor, next) /\ cursor \in Tunnels
  BY <1>1, <1>2 DEF Beyond, Committed, ListTypeOK, next
<1>4. cursor' = next /\ UNCHANGED <<now, state, created>>
  BY <1>1 DEF ReceivePage, rows, next
<1>5. next \in Ahead
  BY <1>3 DEF Ahead
<1>6. \A t : t \in Ahead' <=>
         t \in Tunnels /\ \/ state[t] = "none" /\ now = created[next] /\ t < next
                          \/ state[t] # "none" /\ Newer(next, t)
  BY <1>3, <1>4 DEF Ahead, Newer
<1>7. next \notin Ahead'
  BY <1>3, <1>6, NewerIsAnOrder DEF ListTypeOK
<1>8. ASSUME NEW t \in Ahead', cursor # None PROVE t \in Ahead
  <2>1. CASE state[t] # "none"
    BY <1>3, <1>6, <1>8, <2>1, NewerIsAnOrder DEF ListTypeOK, Ahead
  <2>2. CASE state[t] = "none"
    <3>1. /\ created[cursor] \in Nat /\ created[next] \in Nat /\ created[cursor] <= now
          /\ cursor \in Int /\ next \in Int /\ t \in Int
      BY <1>3, <1>6, <1>8, ListingAssumption DEF ListTypeOK, PageInv, CursorInv, Committed, Tunnels
    <3> QED
      BY <1>3, <1>6, <1>8, <2>2, <3>1 DEF Ahead, Newer
  <2> QED
    BY <2>1, <2>2
<1> QED
  BY <1>5, <1>6, <1>7, <1>8 DEF Ahead

(* The requests left are fewer with fewer tunnels ahead, or after one more *)
(* attempt with the same.                                                  *)
LEMMA FewerRequests ==
  ASSUME NEW m \in Nat, NEW n \in Nat, m < n, NEW limit \in Nat \ {0},
         NEW i \in 0..limit - 1, NEW j \in 0..limit - 1
  PROVE  m * limit + (limit - i) < n * limit + (limit - j)
<1>1. m * limit + limit <= n * limit
  <2>1. PICK d \in Nat : n = m + 1 + d
    <3>1. n - m - 1 \in Nat /\ n = m + 1 + (n - m - 1)
      OBVIOUS
    <3> QED
      BY <3>1
  <2>2. n * limit = m * limit + limit + d * limit
    BY <2>1
  <2>3. d * limit \in Nat /\ m * limit \in Nat
    OBVIOUS
  <2> QED
    BY <2>2, <2>3
<1>2. m * limit \in Nat /\ n * limit \in Nat
  OBVIOUS
<1> DEFINE p == m * limit
           q == n * limit
<1>3. p \in Nat /\ q \in Nat /\ p + limit <= q
  BY <1>1, <1>2
<1> HIDE DEF p, q
<1>4. p + (limit - i) < q + (limit - j)
  BY <1>3
<1> QED
  BY <1>4 DEF p, q

(* Every step of a listing under way.                                      *)
LEMMA NextListingDescends ==
  ListInv /\ PageInv /\ ListInv' /\ PageInv' /\ [ListNext]_listVars => ListingDescends
<1> SUFFICES ASSUME ListInv, PageInv, ListInv', PageInv', [ListNext]_listVars, lister = "asking"
             PROVE  /\ RequestsLeft \in 1..(MaxTunnel + 1) * MaxPageAttempts
                    /\ Ahead' \subseteq Ahead
                    /\ RequestsLeft' <= RequestsLeft
                    /\ ListerStep => RequestsLeft' < RequestsLeft
  BY DEF ListingDescends
<1> DEFINE limit == MaxPageAttempts
<1>1. /\ limit \in Nat \ {0}
      /\ attempts \in 0..limit - 1 /\ attempts' \in 0..limit - 1
  BY ListingAssumption DEF ListInv, ListTypeOK, PageInv
<1>2. IsFiniteSet(Tunnels) /\ Cardinality(Tunnels) = MaxTunnel /\ MaxTunnel \in Nat
  BY ListingAssumption, FS_Interval DEF Tunnels
<1>3. /\ IsFiniteSet(Ahead) /\ Cardinality(Ahead) \in Nat /\ Cardinality(Ahead) <= MaxTunnel
      /\ IsFiniteSet(Ahead') /\ Cardinality(Ahead') \in Nat
  <2>1. Ahead \subseteq Tunnels /\ Ahead' \subseteq Tunnels
    BY DEF Ahead
  <2> QED
    BY <1>2, <2>1, FS_Subset, FS_CardinalityType
<1> DEFINE n == Cardinality(Ahead)
           m == Cardinality(Ahead')
           left == n * limit + (limit - attempts)
           after == m * limit + (limit - attempts')
<1>4. RequestsLeft = left /\ (RequestsLeft' = after \/ (RequestsLeft' = 0 /\ lister' # "asking"))
  <2>1. RequestsLeft = left
    BY DEF RequestsLeft
  <2>2. CASE lister' = "asking"
    BY <2>2 DEF RequestsLeft
  <2>3. CASE lister' # "asking"
    BY <2>3 DEF RequestsLeft
  <2> QED
    BY <2>1, <2>2, <2>3
<1>5. left \in 1..(MaxTunnel + 1) * limit
  <2>1. n * limit \in Nat /\ n * limit <= MaxTunnel * limit /\ MaxTunnel * limit \in Nat
    <3>1. PICK d \in Nat : MaxTunnel = n + d
      <4>1. MaxTunnel - n \in Nat /\ MaxTunnel = n + (MaxTunnel - n)
        BY <1>2, <1>3
      <4> QED
        BY <4>1
    <3>2. d * limit \in Nat /\ n * limit \in Nat /\ MaxTunnel * limit = n * limit + d * limit
      BY <1>1, <1>3, <3>1
    <3> QED
      BY <3>2
  <2>2. (MaxTunnel + 1) * limit = MaxTunnel * limit + limit
    BY <1>1, <1>2
  <2> QED
    BY <1>1, <2>1, <2>2
<1>6. after \in Nat
  BY <1>1, <1>3
<1>7. ASSUME m < n PROVE after < left
  BY <1>1, <1>3, <1>7, FewerRequests
<1>8. ASSUME Ahead' = Ahead, attempts < attempts' PROVE after < left
  <2>1. n * limit \in Nat
    BY <1>1, <1>3
  <2> QED
    BY <1>1, <1>8, <2>1
<1>9. ASSUME Ahead' \subseteq Ahead, UNCHANGED attempts PROVE after <= left
  <2>1. m < n \/ Ahead' = Ahead
    BY <1>3, <1>9, FS_Subset
  <2>2. CASE Ahead' = Ahead
    BY <1>5, <1>9, <2>2
  <2> QED
    BY <1>5, <1>6, <1>7, <2>1, <2>2
<1> HIDE DEF left, after
<1>10. ASSUME ListerStep, UNCHANGED listing PROVE FALSE
  <2>1. ReceivePage
    BY <1>1, <1>10 DEF ListerStep, RetryPage, FailPage, listing
  <2>2. PICK entries \in Entries(caller, cursor) :
           Page(entries).next \notin cursors \union {None} /\ cursors' = cursors \union {Page(entries).next}
    BY <1>10, <2>1 DEF ReceivePage, listing
  <2> QED
    BY <1>10, <2>2 DEF listing
<1>11. CASE Tick \/ \E t \in Tunnels : BeginCreate(t) \/ CommitCreate(t)
  <2>1. UNCHANGED listing /\ Ahead' \subseteq Ahead /\ ~ListerStep
    BY <1>11, <1>10, CreatesStayBehind DEF Tick, BeginCreate, CommitCreate
  <2> QED
    BY <1>4, <1>5, <1>6, <1>9, <2>1 DEF listing
<1>12. CASE ReceivePage
  <2>1. CASE lister' = "asking"
    <3>1. Ahead' \subseteq Ahead /\ m < n
      BY <1>3, <1>12, <2>1, PagesMoveOn, FS_Subset
    <3> QED
      BY <1>4, <1>5, <1>6, <1>7, <2>1, <3>1
  <2>2. CASE lister' # "asking"
    <3>1. UNCHANGED <<now, state, created, cursor>>
      BY <1>12, <2>2 DEF ReceivePage, rows
    <3>2. Ahead' = Ahead
      BY <3>1 DEF Ahead, Newer
    <3>3. RequestsLeft' = 0
      BY <2>2 DEF RequestsLeft
    <3> QED
      BY <1>4, <1>5, <3>2, <3>3
  <2> QED
    BY <2>1, <2>2
<1>13. CASE RetryPage \/ FailPage
  <2>1. Ahead' = Ahead
    BY <1>13 DEF RetryPage, FailPage, rows, Ahead, Newer
  <2>2. (lister' = "asking" /\ attempts < attempts') \/ lister' = "failed"
    BY <1>1, <1>13 DEF RetryPage, FailPage
  <2>3. lister' = "failed" => RequestsLeft' = 0
    BY DEF RequestsLeft
  <2> QED
    BY <1>4, <1>5, <1>6, <1>8, <2>1, <2>2, <2>3
<1>14. CASE UNCHANGED listVars
  <2>1. Ahead' = Ahead /\ RequestsLeft' = RequestsLeft
    BY <1>14 DEF listVars, rows, listing, Ahead, Newer, RequestsLeft
  <2>2. ~ListerStep
    BY <1>14, <1>10 DEF listVars
  <2> QED
    BY <1>4, <1>5, <2>1, <2>2
<1>15. CASE \E u \in Users : StartListing(u)
  BY <1>15 DEF StartListing
<1> QED
  BY <1>4, <1>5, <1>11, <1>12, <1>13, <1>14, <1>15 DEF ListNext, ListerStep

(* A listing asks MaxPageAttempts times at most for each tunnel beyond its *)
(* cursor, those included that may yet begin in the cursor's own instant,  *)
(* and for one page more. Tunnels that begin later are behind it and add   *)
(* nothing (handlers.go:301-321, client.go:145-203).                       *)
THEOREM ListingsRunOutOfRequests == ListSpec => ListingRunsOut
<1>1. ListInit => PageInv
  BY ListingAssumption DEF ListInit, PageInv
<1> QED
  BY <1>1, ListInitInv, ListNextInv, NextPageInv, NextListingDescends, PTL
  DEF ListSpec, ListingRunsOut
=============================================================================
