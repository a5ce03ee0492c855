---------------------------- MODULE Idempotency ----------------------------
(***************************************************************************)
(* IdempotencyMiddleware (internal/server/api/idempotency.go) around the   *)
(* mutating handlers: the reservation row of a key, the create transaction *)
(* that completes it together with the tunnel, the release and completion  *)
(* after the handler, the retention sweeper, crashes, and commits whose    *)
(* outcome the server does not learn.                                      *)
(*                                                                         *)
(* An attempt is one HTTP request as the server sees it; the retry of a    *)
(* client is a further attempt with the same key and fingerprint, and may  *)
(* overlap the first. All attempts are of one API token, the scope of a    *)
(* key.                                                                    *)
(***************************************************************************)
EXTENDS Integers, FiniteSets

CONSTANTS
    Attempts,           (* HTTP requests, each served once *)
    Keys,               (* Idempotency-Key values of one API token *)
    Creates, Others,    (* request fingerprints: tunnel creates, other mutations *)
    None,
    Retention,          (* IdempotencyRetentionHours, in ticks *)
    MaxClock,           (* bound: the clock stops here *)
    MaxCrashes          (* bound *)

Fingerprints == Creates \union Others

(* completed_at IS NULL, a cached 2xx, and a 2xx with a NULL body.         *)
RowState == {"inflight", "done", "uncacheable"}
Row == [fp : Fingerprints, state : RowState, response : Attempts \union {None}, created : Nat]

(* What an attempt is told; a replay is told the attempt it repeats.       *)
Verdicts == {"none", "ok", "failed", "retry", "mismatch", "uncacheable", "lost"}
Replies == Verdicts \union Attempts

ASSUME RetentionAssumption == Retention \in Nat \ {0} /\ MaxClock \in Nat /\ MaxCrashes \in Nat
ASSUME NoneIsNew ==
    /\ None \notin Attempts \union Keys \union Fingerprints \union Row
    /\ Attempts \cap Verdicts = {}
ASSUME KindsAssumption == Creates \cap Others = {}

VARIABLES
    now, crashes,
    row,        (* idempotency_keys: None, or the row of the key *)
    rowLock,    (* the create transaction that has written the row of a key *)
    limbo,      (* transactions whose COMMIT is under way and whose server gave up *)
    committed,  (* attempts whose tunnel is committed *)
    late,       (* history: attempts still at work when their key had expired *)
    pc, key, fp, began, outcome, reply

clock == <<now, crashes, late>>
call == <<key, fp, began>>
vars == <<clock, row, rowLock, limbo, committed, pc, call, outcome, reply>>

Running == {"handler", "commit"}
Serving == Running \union {"reserve", "existing", "persist"}
Outcomes == {"none", "ok", "oversize", "failed"}

InFlight(k) == row[k] # None /\ row[k].state = "inflight"

(* The UPDATE ... WHERE completed_at IS NULL that stores a response.       *)
Completed(k, a, state) == [row EXCEPT ![k].state = state, ![k].response = a]

Init ==
    /\ now = 0
    /\ crashes = 0
    /\ row = [k \in Keys |-> None]
    /\ rowLock = [k \in Keys |-> None]
    /\ limbo = {}
    /\ committed = {}
    /\ late = {}
    /\ pc = [a \in Attempts |-> "idle"]
    /\ key = [a \in Attempts |-> None]
    /\ fp = [a \in Attempts |-> None]
    /\ began = [a \in Attempts |-> 0]
    /\ outcome = [a \in Attempts |-> "none"]
    /\ reply = [a \in Attempts |-> "none"]

Goto(a, step) == pc' = [pc EXCEPT ![a] = step]

Receive(a) ==
    /\ pc[a] = "idle"
    /\ \E k \in Keys, f \in Fingerprints :
          /\ key' = [key EXCEPT ![a] = k]
          /\ fp' = [fp EXCEPT ![a] = f]
    /\ Goto(a, "reserve")
    /\ UNCHANGED <<clock, row, rowLock, limbo, committed, began, outcome, reply>>

Insert(a) ==
    row' = [row EXCEPT ![key[a]] =
               [fp |-> fp[a], state |-> "inflight", response |-> None, created |-> now]]

(* A mutant: a retry takes over a reservation that is in flight.           *)
MutantReserve(a) ==
    /\ pc[a] = "reserve"
    /\ \/ /\ row[key[a]] = None \/ InFlight(key[a])
          /\ Insert(a)
          /\ began' = [began EXCEPT ![a] = now]
          /\ Goto(a, "handler")
       \/ /\ row[key[a]] # None
          /\ Goto(a, "existing")
          /\ UNCHANGED <<row, began>>
    /\ UNCHANGED <<clock, rowLock, limbo, committed, key, fp, outcome, reply>>

(* INSERT ... ON CONFLICT DO NOTHING. PostgreSQL lets it wait for a create *)
(* that has written the row; not to wait allows more.                      *)
Reserve(a) ==
    /\ pc[a] = "reserve"
    /\ \/ /\ row[key[a]] = None
          /\ Insert(a)
          /\ began' = [began EXCEPT ![a] = now]
          /\ Goto(a, "handler")
       \/ /\ row[key[a]] # None
          /\ Goto(a, "existing")
          /\ UNCHANGED <<row, began>>
    /\ UNCHANGED <<clock, rowLock, limbo, committed, key, fp, outcome, reply>>

(* The INSERT or the SELECT returns an error: 500, and nobody releases a   *)
(* row that the INSERT may have left behind.                               *)
QueryFails(a) ==
    /\ \/ pc[a] = "reserve" /\ row[key[a]] = None /\ Insert(a)
       \/ pc[a] \in {"reserve", "existing"} /\ UNCHANGED row
    /\ reply' = [reply EXCEPT ![a] = "failed"]
    /\ Goto(a, "done")
    /\ UNCHANGED <<clock, rowLock, limbo, committed, call, outcome>>

(* A mutant: the request hash is not compared.                             *)
MutantExistingReply(k, f) ==
    CASE row[k] = None -> "retry"
      [] InFlight(k) -> "retry"
      [] row[k] # None /\ row[k].state = "uncacheable" -> "uncacheable"
      [] row[k] # None /\ row[k].state = "done" -> row[k].response

(* What serveExistingIdempotent answers to a fingerprint, from the row as  *)
(* it is by then: 409 with Retry-After, 409 without, 500, or the replay.   *)
ExistingReply(k, f) ==
    CASE row[k] = None -> "retry"
      [] row[k] # None /\ row[k].fp # f -> "mismatch"
      [] row[k] # None /\ row[k].fp = f /\ row[k].state = "inflight" -> "retry"
      [] row[k] # None /\ row[k].fp = f /\ row[k].state = "uncacheable" -> "uncacheable"
      [] row[k] # None /\ row[k].fp = f /\ row[k].state = "done" -> row[k].response

ServeExisting(a) ==
    /\ pc[a] = "existing"
    /\ reply' = [reply EXCEPT ![a] = ExistingReply(key[a], fp[a])]
    /\ Goto(a, "done")
    /\ UNCHANGED <<clock, row, rowLock, limbo, committed, call, outcome>>

(* The handler has written its response; the middleware persists it next.  *)
HandlerReturns(a, result) ==
    /\ outcome' = [outcome EXCEPT ![a] = result]
    /\ reply' = [reply EXCEPT ![a] = IF result = "failed" THEN "failed" ELSE "ok"]
    /\ Goto(a, "persist")

(* Any handler may fail or panic before it has an effect; a create does    *)
(* also when its reservation is gone or completed, which rolls it back.    *)
HandlerFails(a) ==
    /\ pc[a] \in Running
    /\ HandlerReturns(a, "failed")
    /\ rowLock' = [k \in Keys |-> IF rowLock[k] = a THEN None ELSE rowLock[k]]
    /\ UNCHANGED <<clock, row, limbo, committed, call>>

(* Another mutation commits by itself and answers 2xx.                     *)
OtherHandler(a) ==
    /\ pc[a] = "handler"
    /\ fp[a] \in Others
    /\ \E result \in {"ok", "oversize"} : HandlerReturns(a, result)
    /\ UNCHANGED <<clock, row, rowLock, limbo, committed, call>>

(* CompleteIdempotentResponseInTransaction: the UPDATE waits for the row   *)
(* and must find the reservation still open, else the create fails.        *)
CompleteInTransaction(a) ==
    /\ pc[a] = "handler"
    /\ fp[a] \in Creates
    /\ rowLock[key[a]] = None
    /\ InFlight(key[a])
    /\ rowLock' = [rowLock EXCEPT ![key[a]] = a]
    /\ Goto(a, "commit")
    /\ UNCHANGED <<clock, row, limbo, committed, call, outcome, reply>>

(* A mutant: the response is left to the middleware, after the commit.     *)
MutantApply(a) ==
    /\ committed' = committed \union {a}
    /\ UNCHANGED row

(* COMMIT takes effect: the tunnel and the stored response, together.      *)
Apply(a) ==
    /\ committed' = committed \union {a}
    /\ row' = Completed(key[a], a, "done")

Unlock(a) == rowLock' = [rowLock EXCEPT ![key[a]] = None]

CommitTunnel(a) ==
    /\ pc[a] = "commit"
    /\ Apply(a)
    /\ Unlock(a)
    /\ HandlerReturns(a, "ok")
    /\ UNCHANGED <<clock, limbo, call>>

(* A mutant: the error of tx.Commit is not looked at.                      *)
MutantCommitUnknown(a) ==
    /\ pc[a] = "commit"
    /\ limbo' = limbo \union {a}
    /\ HandlerReturns(a, "ok")
    /\ UNCHANGED <<clock, row, rowLock, committed, call>>

(* tx.Commit returns an error while the COMMIT is under way: the handler   *)
(* answers 500, PostgreSQL decides later.                                  *)
CommitUnknown(a) ==
    /\ pc[a] = "commit"
    /\ limbo' = limbo \union {a}
    /\ HandlerReturns(a, "failed")
    /\ UNCHANGED <<clock, row, rowLock, committed, call>>

ResolveLimbo(a) ==
    /\ a \in limbo
    /\ limbo' = limbo \ {a}
    /\ Apply(a) \/ UNCHANGED <<row, committed>>
    /\ Unlock(a)
    /\ UNCHANGED <<clock, pc, call, outcome, reply>>

(* A mutant: the release does not ask for completed_at IS NULL.            *)
MutantPersistCompletion(a) ==
    /\ pc[a] = "persist"
    /\ rowLock[key[a]] = None
    /\ row' = IF outcome[a] = "failed" THEN [row EXCEPT ![key[a]] = None]
              ELSE IF ~InFlight(key[a]) THEN row
              ELSE Completed(key[a], a, IF outcome[a] = "oversize" THEN "uncacheable" ELSE "done")
    /\ Goto(a, "done")
    /\ UNCHANGED <<clock, rowLock, limbo, committed, call, outcome, reply>>

(* The release of a failed attempt, or the completion of a successful one: *)
(* one statement, which waits for the row and touches open rows only.      *)
PersistCompletion(a) ==
    /\ pc[a] = "persist"
    /\ rowLock[key[a]] = None
    /\ row' = IF ~InFlight(key[a]) THEN row
              ELSE IF outcome[a] = "failed" THEN [row EXCEPT ![key[a]] = None]
              ELSE Completed(key[a], a, IF outcome[a] = "oversize" THEN "uncacheable" ELSE "done")
    /\ Goto(a, "done")
    /\ UNCHANGED <<clock, rowLock, limbo, committed, call, outcome, reply>>

(* completionTimeout elapses first, or the statement fails.                *)
PersistFails(a) ==
    /\ pc[a] = "persist"
    /\ Goto(a, "done")
    /\ UNCHANGED <<clock, row, rowLock, limbo, committed, call, outcome, reply>>

(* A mutant: only completed rows are swept.                                *)
MutantSweep(k) ==
    /\ row[k] # None
    /\ row[k].state # "inflight"
    /\ row[k].created + Retention < now
    /\ rowLock[k] = None
    /\ row' = [row EXCEPT ![k] = None]
    /\ UNCHANGED <<clock, rowLock, limbo, committed, pc, call, outcome, reply>>

(* sweepIdempotencyKeys, by age alone: also a row that is still in flight. *)
Sweep(k) ==
    /\ row[k] # None
    /\ row[k].created + Retention < now
    /\ rowLock[k] = None
    /\ row' = [row EXCEPT ![k] = None]
    /\ UNCHANGED <<clock, rowLock, limbo, committed, pc, call, outcome, reply>>

(* The server dies; what PostgreSQL has not committed is rolled back, and  *)
(* a reservation stays as it is.                                           *)
Crash ==
    /\ crashes < MaxCrashes
    /\ crashes' = crashes + 1
    /\ pc' = [a \in Attempts |-> IF pc[a] \in Serving THEN "done" ELSE pc[a]]
    /\ reply' = [a \in Attempts |->
                    IF pc[a] \in Serving /\ reply[a] = "none" THEN "lost" ELSE reply[a]]
    /\ rowLock' = [k \in Keys |-> IF rowLock[k] \in limbo THEN rowLock[k] ELSE None]
    /\ UNCHANGED <<now, late, row, limbo, committed, call, outcome>>

(* Also while a handler runs, which may so outlive the retention of its    *)
(* key: the retention is hours, but nothing in the code relates the two.   *)
Tick ==
    /\ now < MaxClock
    /\ now' = now + 1
    /\ late' = late \union
          {a \in Attempts : (pc[a] \in Running \union {"persist"} \/ a \in limbo)
                            /\ now' > began[a] + Retention}
    /\ UNCHANGED <<crashes, row, rowLock, limbo, committed, pc, call, outcome, reply>>

ServerStep(a) ==
    \/ Reserve(a) \/ ServeExisting(a) \/ QueryFails(a)
    \/ HandlerFails(a) \/ OtherHandler(a)
    \/ CompleteInTransaction(a) \/ CommitTunnel(a) \/ CommitUnknown(a)
    \/ PersistCompletion(a) \/ PersistFails(a)

Next ==
    \/ \E a \in Attempts : Receive(a) \/ ServerStep(a) \/ ResolveLimbo(a)
    \/ \E k \in Keys : Sweep(k)
    \/ Crash
    \/ Tick

(* The server and PostgreSQL go on, the sweeper runs every hour.           *)
Fairness ==
    /\ \A a \in Attempts : WF_vars(ServerStep(a)) /\ WF_vars(ResolveLimbo(a))
    /\ \A k \in Keys : WF_vars(Sweep(k))
    /\ WF_vars(Tick)

Spec == Init /\ [][Next]_vars
FairSpec == Spec /\ Fairness

-----------------------------------------------------------------------------
(* Every variable has the values its column or Go variable can take.       *)
TypeOK ==
    /\ now \in Nat
    /\ crashes \in Nat
    /\ row \in [Keys -> Row \union {None}]
    /\ rowLock \in [Keys -> Attempts \union {None}]
    /\ limbo \in SUBSET Attempts
    /\ committed \in SUBSET Attempts
    /\ late \in SUBSET Attempts
    /\ pc \in [Attempts -> Serving \union {"idle", "done"}]
    /\ key \in [Attempts -> Keys \union {None}]
    /\ fp \in [Attempts -> Fingerprints \union {None}]
    /\ began \in [Attempts -> Nat]
    /\ outcome \in [Attempts -> Outcomes]
    /\ reply \in [Attempts -> Replies]

(* However attempts under a key overlap, are retried, crash or lose their  *)
(* commit, two of them create a tunnel only a retention window apart,      *)
(* unless one of the two has itself outlived its retention.                *)
OneTunnelPerKey ==
    \A a, b \in committed \ late :
        a # b /\ key[a] = key[b] => began[a] > began[b] + Retention \/ began[b] > began[a] + Retention

(* A create that is committed can be recovered by a replay until its key   *)
(* expires, also when the server died or saw an error instead of the       *)
(* commit, and whatever the attempts before and after it do.               *)
CommittedIsReplayable ==
    \A a \in committed :
        now <= began[a] + Retention =>
            row[key[a]] # None /\ row[key[a]].state = "done" /\ row[key[a]].response = a

(* Two attempts with the same key never both run the handler, unless one   *)
(* under that key has outlived its retention: the sweeper then takes the   *)
(* reservation away, and the late release may take the next one's as well, *)
(* since it is by key (idempotency.go:207-209, 239-247).                   *)
NeverBothRun ==
    \A a, b \in Attempts :
        /\ a # b /\ key[a] = key[b]
        /\ pc[a] \in Running /\ pc[b] \in Running
        => \E c \in late : key[c] = key[a]

(* A replay is the response to a request with this fingerprint, unless an  *)
(* attempt that outlived its retention has completed the reservation of    *)
(* another one, and always a response that really happened.                *)
ReplayMatchesRequest ==
    \A a \in Attempts : reply[a] \in Attempts =>
        /\ fp[reply[a]] = fp[a] \/ \E c \in late : key[c] = key[a]
        /\ outcome[reply[a]] = "ok" \/ reply[a] \in committed

(* The response of a create, its own or replayed, is given as a success    *)
(* only when the tunnel of that create is committed.                       *)
CreatedIsCommitted ==
    \A a \in Attempts : reply[a] \in {"ok"} \union Attempts =>
        LET source == IF reply[a] = "ok" THEN a ELSE reply[a]
        IN  fp[source] \in Creates => source \in committed

(* No key answers "in flight" for ever, also when the server died while it *)
(* held the reservation (reservations whose retention the clock reaches).  *)
NoKeyIsStranded ==
    \A k \in Keys :
        InFlight(k) /\ row[k].created + Retention < MaxClock ~> ~InFlight(k)

(* The rows, seen as reservations.                                         *)
StateOf(k) == IF row[k] = None THEN "free" ELSE row[k].state
ResponseOf(k) == IF row[k] = None THEN None ELSE row[k].response
SinceOf(k) == IF row[k] = None THEN 0 ELSE row[k].created

(* The middleware, its statements, the sweeper and the crashes implement   *)
(* the atomic reservations.                                                *)
Promised == INSTANCE Reservations WITH
    state <- [k \in Keys |-> StateOf(k)],
    response <- [k \in Keys |-> ResponseOf(k)],
    since <- [k \in Keys |-> SinceOf(k)],
    effects <- committed
ImplementsReservations == Promised!Spec
=============================================================================
