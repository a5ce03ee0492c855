----------------------------- MODULE ClientRun -----------------------------
(***************************************************************************)
(* One run of "hatchway http" (internal/cli/commands/client.go, httpCmd)   *)
(* with its API client (internal/cli/client.go): the create with its       *)
(* retries under one idempotency key, the supervision of frpc, signals,    *)
(* and the deferred delete.                                                *)
(*                                                                         *)
(* The server does with the key what Reservations lets it do before the    *)
(* retention is over (Allowed, below). It may be slow, so that an attempt  *)
(* the client has given up still takes effect, and its failures may leave  *)
(* the key reserved. The network loses answers and cuts them short.        *)
(***************************************************************************)
EXTENDS Integers, FiniteSets

CONSTANTS
    MaxAttempts,        (* maxAttempts of doCtx *)
    MaxDecodes,         (* maxDecodeAttempts of CreateTunnelCtx *)
    MaxRestarts,        (* maxFRPCRestarts *)
    MaxSignals          (* bound: SIGINT and SIGTERM that arrive *)

ASSUME BoundsAssumption ==
    {MaxAttempts, MaxDecodes, MaxRestarts, MaxSignals} \subseteq Nat \ {0}

Creates == 1..MaxAttempts * MaxDecodes      (* HTTP requests for the create *)

VARIABLES
    pc,             (* where RunE is *)
    request,        (* number of the create request under way *)
    attempt, decode, (* attempt of doCtx, attempt of CreateTunnelCtx *)
    answer,         (* of the request under way, "none" while it is out *)
    notified,       (* signal.Notify is in force *)
    sigCh,          (* a signal waits in the channel *)
    signals,
    frpc, restarts,
    deleted,        (* outcome of the deferred delete *)
    server,         (* the create requests at the server *)
    key,            (* the reservation of the idempotency key *)
    tunnels,        (* tunnels allocated *)
    live            (* those among them that are not revoked *)

client == <<pc, request, attempt, decode, answer>>
signal == <<notified, sigCh, signals>>
child == <<frpc, restarts>>
store == <<server, key, tunnels, live>>
vars == <<client, signal, child, deleted, store>>

Init ==
    /\ pc = "send"
    /\ request = 1
    /\ attempt = 1
    /\ decode = 1
    /\ answer = "none"
    /\ notified = FALSE
    /\ sigCh = FALSE
    /\ signals = 0
    /\ frpc = "none"
    /\ restarts = 0
    /\ deleted = "none"
    /\ server = [i \in Creates |-> "none"]
    /\ key = "free"
    /\ tunnels = {}
    /\ live = {}

-----------------------------------------------------------------------------
(* The create at the server.                                               *)

AtWork == {"running", "undecided"}
Replies(i, result) == server' = [server EXCEPT ![i] = result]
Stored == CHOOSE i \in tunnels : TRUE        (* the response under the key *)

(* A mutant: retries do not carry the key.                                 *)
MutantReserve(i) ==
    /\ server[i] = "sent"
    /\ Replies(i, "running")
    /\ UNCHANGED <<client, signal, child, deleted, key, tunnels, live>>

(* The first request to come reserves the key; others are told to retry,   *)
(* also when the row they met is gone by the time they read it, or get the *)
(* stored answer. A statement that fails is a 500, and may have made the   *)
(* reservation.                                                            *)
Reserve(i) ==
    /\ server[i] = "sent"
    /\ \/ key = "free" /\ key' = "inflight" /\ (Replies(i, "running") \/ Replies(i, "refused"))
       \/ key # "done" /\ UNCHANGED key /\ Replies(i, "conflict")
       \/ key = "done" /\ UNCHANGED key /\ Replies(i, "created")
       \/ UNCHANGED key /\ Replies(i, "refused")
    /\ UNCHANGED <<client, signal, child, deleted, tunnels, live>>

(* COMMIT takes effect: the tunnel and the stored response.                *)
Commit(i) ==
    /\ key' = "done"
    /\ tunnels' = tunnels \union {i}
    /\ live' = live \union {i}

(* Rolled back. The key is released, or that fails or the server dies      *)
(* before it.                                                              *)
RollBack(i) ==
    /\ key' \in {"free", key}
    /\ Replies(i, "refused")
    /\ UNCHANGED <<tunnels, live>>

(* CreateTunnel commits, or fails, or its COMMIT returns an error and is   *)
(* undecided: the client is told 500.                                      *)
Run(i) ==
    /\ server[i] = "running"
    /\ \/ Commit(i) /\ Replies(i, "created")
       \/ Replies(i, "undecided") /\ UNCHANGED <<key, tunnels, live>>
       \/ RollBack(i)
    /\ UNCHANGED <<client, signal, child, deleted>>

(* PostgreSQL decides.                                                     *)
Decide(i) ==
    /\ server[i] = "undecided"
    /\ \/ Commit(i) /\ Replies(i, "refused")
       \/ RollBack(i)
    /\ UNCHANGED <<client, signal, child, deleted>>

(* A proxy may answer 503 before the server sees the request.              *)
Unavailable(i) ==
    /\ server[i] = "sent"
    /\ Replies(i, "unavailable")
    /\ UNCHANGED <<client, signal, child, deleted, key, tunnels, live>>

-----------------------------------------------------------------------------
(* The create at the client.                                               *)

Send ==
    /\ pc = "send"
    /\ server' = [server EXCEPT ![request] = "sent"]
    /\ answer' = "none"
    /\ pc' = "wait"
    /\ UNCHANGED <<request, attempt, decode, signal, child, deleted, key, tunnels, live>>

(* The answer, whole or cut short; or none at all: the connection breaks,  *)
(* or the HTTP client's timeout elapses while the server is at work.       *)
Receive ==
    /\ pc = "wait"
    /\ answer = "none"
    /\ \/ /\ server[request] \in {"created", "conflict", "refused", "unavailable"}
          /\ answer' = server[request]
       \/ server[request] = "undecided" /\ answer' = "refused"
       \/ server[request] = "created" /\ answer' = "truncated"
       \/ answer' = "lost"
    /\ UNCHANGED <<pc, request, attempt, decode, signal, child, deleted, store>>

(* shouldRetry, for a request that carries a key.                          *)
ShouldRetry == answer \in {"lost", "unavailable", "conflict"}

Again(nextAttempt, nextDecode) ==
    /\ attempt' = nextAttempt
    /\ decode' = nextDecode
    /\ request' = request + 1
    /\ pc' = "send"

(* After waitForRetry: the loop of doCtx, or the one of CreateTunnelCtx.   *)
Retry ==
    /\ pc = "wait"
    /\ \/ ShouldRetry /\ attempt < MaxAttempts /\ Again(attempt + 1, decode)
       \/ answer = "truncated" /\ decode < MaxDecodes /\ Again(1, decode + 1)
    /\ UNCHANGED <<answer, signal, child, deleted, store>>

(* httpCmd returns "create tunnel: ..." and has nothing to clean up.       *)
GiveUp ==
    /\ pc = "wait"
    /\ \/ answer = "refused"
       \/ answer \in {"lost", "unavailable", "conflict"}
          /\ (~ShouldRetry \/ attempt = MaxAttempts)
       \/ answer = "truncated" /\ decode = MaxDecodes
    /\ pc' = "exited"
    /\ UNCHANGED <<request, attempt, decode, answer, signal, child, deleted, store>>

(* The delete is deferred from here on.                                    *)
Created ==
    /\ pc = "wait"
    /\ answer = "created"
    /\ pc' = "configure"
    /\ UNCHANGED <<request, attempt, decode, answer, signal, child, deleted, store>>

-----------------------------------------------------------------------------
(* The supervision of frpc.                                                *)

(* Every return of RunE runs the deferred calls: signal.Stop, cancel (which*)
(* kills frpc), and then the delete.                                       *)
Return ==
    /\ pc' = "cleanup"
    /\ notified' = FALSE
    /\ sigCh' = FALSE
    /\ frpc' = "none"
    /\ UNCHANGED <<request, attempt, decode, answer, signals, restarts, deleted, store>>

(* generateFRPCConfig, the temporary file, findFRPC; then signal.Notify.   *)
Configure ==
    /\ pc = "configure"
    /\ \/ Return
       \/ /\ pc' = "start"
          /\ notified' = TRUE
          /\ UNCHANGED <<request, attempt, decode, answer, sigCh, signals, child, deleted, store>>

(* frpcCmd.Start, the first or after a backoff.                            *)
Start ==
    /\ pc = "start"
    /\ \/ Return
       \/ /\ frpc' = "running"
          /\ pc' = "supervise"
          /\ UNCHANGED <<request, attempt, decode, answer, signal, restarts, deleted, store>>

(* frpc ends by itself, with an error or without.                          *)
FrpcExits ==
    /\ frpc = "running"
    /\ frpc' \in {"failed", "clean"}
    /\ UNCHANGED <<client, signal, restarts, deleted, store>>

(* select: a signal.                                                       *)
OnSignal ==
    /\ pc \in {"supervise", "backoff"}
    /\ sigCh
    /\ Return

(* A mutant: a clean exit is restarted like a failure, without a bound.    *)
MutantOnExit ==
    /\ pc = "supervise"
    /\ \/ frpc = "failed" /\ restarts >= MaxRestarts /\ Return
       \/ /\ frpc \in {"clean", "failed"}
          /\ frpc = "failed" => restarts < MaxRestarts
          /\ restarts' = IF frpc = "failed" THEN restarts + 1 ELSE restarts
          /\ pc' = "backoff"
          /\ UNCHANGED <<request, attempt, decode, answer, signal, frpc, deleted, store>>

(* select: frpc is gone.                                                   *)
OnExit ==
    /\ pc = "supervise"
    /\ \/ frpc = "clean" /\ Return
       \/ frpc = "failed" /\ restarts >= MaxRestarts /\ Return
       \/ /\ frpc = "failed"
          /\ restarts < MaxRestarts
          /\ restarts' = restarts + 1
          /\ pc' = "backoff"
          /\ UNCHANGED <<request, attempt, decode, answer, signal, frpc, deleted, store>>

(* time.After(backoff).                                                    *)
BackoffEnds ==
    /\ pc = "backoff"
    /\ pc' = "start"
    /\ UNCHANGED <<request, attempt, decode, answer, signal, child, deleted, store>>

(* A mutant: the deferred delete is skipped when frpc never ran.           *)
MutantCleanup ==
    /\ pc = "cleanup"
    /\ \/ restarts = 0 /\ UNCHANGED <<live, deleted>>
       \/ live' = live \ {Stored} /\ deleted' \in {"ok", "failed"}
    /\ pc' = "exited"
    /\ UNCHANGED <<request, attempt, decode, answer, signal, child, server, key, tunnels>>

(* The deferred DeleteTunnelCtx of the tunnel in the answer, all attempts  *)
(* within its three seconds: an answer; or none in time, whether or not    *)
(* the server has revoked.                                                 *)
Cleanup ==
    /\ pc = "cleanup"
    /\ \/ live' = live \ {Stored} /\ deleted' \in {"ok", "failed"}
       \/ live' = live /\ deleted' = "failed"
    /\ pc' = "exited"
    /\ UNCHANGED <<request, attempt, decode, answer, signal, child, server, key, tunnels>>

(* SIGINT or SIGTERM: into the channel while signal.Notify is in force,    *)
(* else the Go runtime ends the process, deferred calls and all.           *)
Signal ==
    /\ pc \notin {"exited", "killed"}
    /\ signals < MaxSignals
    /\ signals' = signals + 1
    /\ \/ /\ notified
          /\ sigCh' = TRUE
          /\ UNCHANGED pc
       \/ /\ ~notified
          /\ pc' = "killed"
          /\ UNCHANGED sigCh
    /\ UNCHANGED <<request, attempt, decode, answer, notified, child, deleted, store>>

ClientStep ==
    \/ Send \/ Receive \/ Retry \/ GiveUp \/ Created
    \/ Configure \/ Start \/ OnSignal \/ OnExit \/ BackoffEnds \/ Cleanup

ServerStep(i) == Reserve(i) \/ Run(i) \/ Decide(i) \/ Unavailable(i)

Next ==
    \/ ClientStep
    \/ \E i \in Creates : ServerStep(i)
    \/ FrpcExits
    \/ Signal

(* The command goes on; so does the server. frpc may run for ever.         *)
Fairness == WF_vars(ClientStep) /\ \A i \in Creates : WF_vars(ServerStep(i))

Spec == Init /\ [][Next]_vars
FairSpec == Spec /\ Fairness

-----------------------------------------------------------------------------
Answers == {"created", "conflict", "refused", "unavailable"}
AfterCreate == {"configure", "start", "supervise", "backoff", "cleanup"}

(* The values of the variables of RunE, doCtx and CreateTunnelCtx.         *)
TypeOK ==
    /\ pc \in AfterCreate \union {"send", "wait", "exited", "killed"}
    /\ request \in Creates
    /\ attempt \in 1..MaxAttempts
    /\ decode \in 1..MaxDecodes
    /\ answer \in Answers \union {"none", "truncated", "lost"}
    /\ notified \in BOOLEAN
    /\ sigCh \in BOOLEAN
    /\ signals \in 0..MaxSignals
    /\ frpc \in {"none", "running", "failed", "clean"}
    /\ restarts \in 0..MaxRestarts
    /\ deleted \in {"none", "ok", "failed"}
    /\ server \in [Creates -> Answers \union AtWork \union {"none", "sent"}]
    /\ key \in {"free", "inflight", "done"}
    /\ tunnels \in SUBSET Creates
    /\ live \in SUBSET Creates

(* A run allocates one tunnel at most, however often it retries, whatever  *)
(* is lost or cut short and however late the server is (client.go:82).     *)
AtMostOneTunnel == Cardinality(tunnels) <= 1

(* A run that ends by itself after the create has returned has tried the   *)
(* delete, and if that was answered no tunnel of the run is left - also    *)
(* none of an earlier attempt that the server was late with.               *)
ExitCleansUp ==
    pc = "exited" /\ answer = "created" =>
        deleted # "none" /\ (deleted = "ok" => live = {})

(* "This includes config/temp-file failures, clean frpc exits, signals,    *)
(* and exhausted restarts" (commands/client.go:184-186): once the create   *)
(* has returned, no end of the command leaves the delete untried.          *)
EveryExitCleansUp ==
    [][(pc \in AfterCreate /\ pc' \in {"exited", "killed"}) => deleted' # "none"]_vars

(* The command ends: after a signal it has asked for, also one that comes  *)
(* in a backoff, and when frpc keeps ending, however often it comes up.    *)
TheRunEnds ==
    /\ sigCh ~> pc \in {"exited", "killed"}
    /\ []<>(frpc # "running") => <>(pc \in {"exited", "killed"})

(* The key as Reservations has it, with a retention longer than the        *)
(* command (client.go:29, config.go:169): nothing expires.                 *)
NoAnswer == 0
Presumed == INSTANCE Reservations WITH
    Keys <- {"key"},
    Attempts <- Creates,
    None <- NoAnswer,
    Retention <- 1,
    now <- 0,
    state <- [k \in {"key"} |-> key],
    response <- [k \in {"key"} |-> IF key = "done" THEN Stored ELSE NoAnswer],
    since <- [k \in {"key"} |-> 0],
    effects <- tunnels

(* What Reservations lets happen to the key for a create that has reached  *)
(* the server, each step with the answers it may have: a reservation, the  *)
(* tunnel and its response in one, or a release, which ends the create it  *)
(* is for (persistCompletion runs last). Theorem ServerIsReservations      *)
(* compares it with ServerStep.                                            *)
Allowed(i) ==
    /\ \/ /\ server[i] = "sent"
          /\ Presumed!Reserve("key")
          /\ Replies(i, "running") \/ Replies(i, "refused")
          /\ UNCHANGED live
       \/ /\ server[i] \in AtWork
          /\ Presumed!Create("key", i)
          /\ Replies(i, IF server[i] = "running" THEN "created" ELSE "refused")
          /\ live' = live \union {i}
       \/ /\ server[i] \in AtWork
          /\ Presumed!Release("key")
          /\ Replies(i, "refused")
          /\ UNCHANGED live
    /\ UNCHANGED <<client, signal, child, deleted>>
=============================================================================
