----------------------------- MODULE TokenAuth -----------------------------
(***************************************************************************)
(* Verification of a bearer token: authenticateRequest of the API          *)
(* (internal/server/api/auth.go), lookupRuntimeToken of the plugin         *)
(* (plugin/handler.go), and the slots for legacy Argon2 hashes they share  *)
(* (internal/tokens/tokens.go).                                            *)
(*                                                                         *)
(* A request is one to the API, which looks among the API tokens, or a     *)
(* callback, which looks among the runtime tokens of tunnels. All tokens   *)
(* here have the same 12-character prefix, the case in which they can      *)
(* meet. A query is one step; the Argon2 worker of a request runs on when  *)
(* the request is gone. The two callers differ in what they make of an     *)
(* error that is neither a full house nor the end of the PluginTimeout.    *)
(***************************************************************************)
EXTENDS Integers, FiniteSets

CONSTANTS
    Current, Legacy,    (* token rows, by the format of their hash *)
    Runtime,            (* those of them that are of tunnels; the others are of the API *)
    Requests,
    Callbacks,          (* those of them that frps makes to the plugin *)
    None,               (* a token that has no row where it is looked for *)
    Slots               (* maxConcurrentLegacyVerifications *)

Tokens == Current \union Legacy

ASSUME TokensAssumption ==
    /\ {None, "invalid", "unavailable"} \cap Tokens = {}
    /\ None \notin {"invalid", "unavailable"}
    /\ Current \cap Legacy = {} /\ IsFiniteSet(Legacy)
    /\ Runtime \subseteq Tokens /\ Callbacks \subseteq Requests
ASSUME SlotsAssumption == Slots \in Nat \ {0} /\ IsFiniteSet(Requests)

VARIABLES
    revoked,    (* rows with a revoked_at, or whose tunnel has ended *)
    pc, raw, hopeless, todo, trying, answer,
    held,       (* legacyVerifySlots: messages in the channel *)
    workers     (* goroutines of withLegacyVerifySlot: request, row, sent its result *)

request == <<raw, hopeless>>
Ended == {"done", "aborted"}
vars == <<revoked, pc, request, todo, trying, answer, held, workers>>

Init ==
    /\ revoked = {}
    /\ pc = [r \in Requests |-> "idle"]
    /\ raw = [r \in Requests |-> None]
    /\ hopeless = [r \in Requests |-> FALSE]
    /\ todo = [r \in Requests |-> {}]
    /\ trying = [r \in Requests |-> None]
    /\ answer = [r \in Requests |-> None]
    /\ held = 0
    /\ workers = {}

Goto(r, step) == pc' = [pc EXCEPT ![r] = step]

(* The table of its kind of token.                                         *)
Rows(r) == IF r \in Callbacks THEN Runtime ELSE Tokens \ Runtime

Answer(r, result) ==
    /\ answer' = [answer EXCEPT ![r] = result]
    /\ Goto(r, "done")
    /\ UNCHANGED <<revoked, request, todo, trying>>

(* The answer to an error of the database or of a client that has gone:    *)
(* 503 of the API, but "invalid credentials" of the plugin                 *)
(* (runtimeTokenRejectReason).                                             *)
Abort(r) ==
    /\ answer' = [answer EXCEPT ![r] = IF r \in Callbacks THEN "invalid" ELSE "unavailable"]
    /\ Goto(r, "aborted")
    /\ UNCHANGED <<revoked, request, todo, trying, held, workers>>

(* "hatchway server token revoke", DELETE of a tunnel, or its end.         *)
Revoke(t) ==
    /\ t \notin revoked
    /\ revoked' = revoked \union {t}
    /\ UNCHANGED <<pc, request, todo, trying, answer, held, workers>>

Arrive(r) ==
    /\ pc[r] = "idle"
    /\ \E t \in Rows(r) \union {None} :
          /\ raw' = [raw EXCEPT ![r] = t]
          /\ hopeless' = [hopeless EXCEPT ![r] = t \in revoked \union {None}]
    /\ Goto(r, "query")
    /\ UNCHANGED <<revoked, todo, trying, answer, held, workers>>

(* A mutant: the query does not ask for revoked_at IS NULL.                *)
MutantQuery(r) ==
    /\ pc[r] = "query"
    /\ todo' = [todo EXCEPT ![r] = Rows(r)]
    /\ Goto(r, "current")
    /\ UNCHANGED <<revoked, request, trying, answer, held, workers>>

(* The candidates, read once: the live rows of the prefix.                 *)
Query(r) ==
    /\ pc[r] = "query"
    /\ todo' = [todo EXCEPT ![r] = Rows(r) \ revoked]
    /\ Goto(r, "current")
    /\ UNCHANGED <<revoked, request, trying, answer, held, workers>>

(* The query fails, or the client goes away during it.                     *)
QueryFails(r) ==
    /\ pc[r] = "query"
    /\ Abort(r)

(* The PluginTimeout of a callback elapses, in its query or at the slots:  *)
(* DeadlineExceeded, after which a worker goes on and keeps its slot.      *)
TimesOut(r) ==
    /\ r \in Callbacks
    /\ pc[r] \in {"query", "slot", "verify"}
    /\ Answer(r, "unavailable")
    /\ UNCHANGED <<held, workers>>

(* A mutant: one pass over the candidates, in the order of creation.       *)
MutantCurrentPass(r) ==
    /\ pc[r] = "current"
    /\ Goto(r, "legacy")
    /\ UNCHANGED <<revoked, request, todo, trying, answer, held, workers>>

(* The first pass, over the current hashes, takes constant time.           *)
CurrentPass(r) ==
    /\ pc[r] = "current"
    /\ \/ /\ raw[r] \in todo[r] \cap Current
          /\ Answer(r, raw[r])
       \/ /\ raw[r] \notin todo[r] \cap Current
          /\ Goto(r, "legacy")
          /\ UNCHANGED <<revoked, request, todo, trying, answer>>
    /\ UNCHANGED <<held, workers>>

(* The second pass: the next legacy candidate, or none is left.            *)
NextCandidate(r) ==
    /\ pc[r] = "legacy"
    /\ \/ /\ todo[r] \cap Legacy = {}
          /\ Answer(r, "invalid")
       \/ /\ \E c \in todo[r] \cap Legacy :
                /\ trying' = [trying EXCEPT ![r] = c]
                /\ todo' = [todo EXCEPT ![r] = @ \ {c}]
          /\ Goto(r, "slot")
          /\ UNCHANGED <<revoked, request, answer>>
    /\ UNCHANGED <<held, workers>>

(* select: a slot, and the worker is started.                              *)
TakeSlot(r) ==
    /\ pc[r] = "slot"
    /\ held < Slots
    /\ held' = held + 1
    /\ workers' = workers \union {[request |-> r, row |-> trying[r], sent |-> FALSE]}
    /\ Goto(r, "verify")
    /\ UNCHANGED <<revoked, request, todo, trying, answer>>

(* select: legacyVerificationWait elapses first, ErrLegacyVerificationBusy.*)
Busy(r) ==
    /\ pc[r] = "slot"
    /\ Answer(r, "unavailable")
    /\ UNCHANGED <<held, workers>>

(* A mutant: the request gives the slot back when it leaves.               *)
MutantCancelled(r) ==
    /\ pc[r] \in {"slot", "verify"}
    /\ answer' = [answer EXCEPT ![r] = IF r \in Callbacks THEN "invalid" ELSE "unavailable"]
    /\ Goto(r, "aborted")
    /\ held' = IF pc[r] = "verify" THEN held - 1 ELSE held
    /\ UNCHANGED <<revoked, request, todo, trying, workers>>

(* ctx.Done with Canceled: the client or frps has gone. A worker that was  *)
(* started goes on and keeps its slot.                                     *)
Cancelled(r) ==
    /\ pc[r] \in {"slot", "verify"}
    /\ Abort(r)

(* Argon2 is done; the result goes into the buffered channel.              *)
WorkerSends(w) ==
    /\ w \in workers
    /\ ~w.sent
    /\ workers' = (workers \ {w}) \union {[w EXCEPT !.sent = TRUE]}
    /\ UNCHANGED <<revoked, pc, request, todo, trying, answer, held>>

(* A mutant: the slot is freed by the request, when it reads the result.   *)
MutantWorkerEnds(w) ==
    /\ w \in workers
    /\ w.sent
    /\ pc[w.request] \notin Ended
    /\ workers' = workers \ {w}
    /\ held' = held - 1
    /\ UNCHANGED <<revoked, pc, request, todo, trying, answer>>

(* The deferred receive frees the slot, after the result was sent.         *)
WorkerEnds(w) ==
    /\ w \in workers
    /\ w.sent
    /\ workers' = workers \ {w}
    /\ held' = held - 1
    /\ UNCHANGED <<revoked, pc, request, todo, trying, answer>>

(* The request reads the result of its worker: a match, or the next one.   *)
(* Its buffered channel has it also after the worker has ended.            *)
Verified(r) ==
    /\ pc[r] = "verify"
    /\ [request |-> r, row |-> trying[r], sent |-> FALSE] \notin workers
    /\ \/ /\ trying[r] = raw[r]
          /\ Answer(r, raw[r])
       \/ /\ trying[r] # raw[r]
          /\ Goto(r, "legacy")
          /\ UNCHANGED <<revoked, request, todo, trying, answer>>
    /\ UNCHANGED <<held, workers>>

Worker == [request : Requests, row : Legacy, sent : BOOLEAN]

RequestStep(r) ==
    \/ Query(r) \/ QueryFails(r) \/ CurrentPass(r) \/ NextCandidate(r)
    \/ TakeSlot(r) \/ Busy(r) \/ TimesOut(r) \/ Cancelled(r) \/ Verified(r)

Next ==
    \/ \E t \in Tokens : Revoke(t)
    \/ \E r \in Requests : Arrive(r) \/ RequestStep(r)
    \/ \E w \in workers : WorkerSends(w) \/ WorkerEnds(w)

(* The Go scheduler runs every goroutine; Argon2 ends.                     *)
Fairness ==
    /\ \A r \in Requests : WF_vars(RequestStep(r))
    /\ \A w \in Worker : WF_vars(WorkerSends(w)) /\ WF_vars(WorkerEnds(w))

Spec == Init /\ [][Next]_vars
FairSpec == Spec /\ Fairness

-----------------------------------------------------------------------------
(* The channel never holds more than its capacity, and no less than none.  *)
TypeOK ==
    /\ revoked \in SUBSET Tokens
    /\ pc \in [Requests -> {"idle", "query", "current", "legacy", "slot", "verify"} \union Ended]
    /\ raw \in [Requests -> Tokens \union {None}]
    /\ hopeless \in [Requests -> BOOLEAN]
    /\ todo \in [Requests -> SUBSET Tokens]
    /\ trying \in [Requests -> Legacy \union {None}]
    /\ answer \in [Requests -> Tokens \union {None, "invalid", "unavailable"}]
    /\ held \in 0..Slots
    /\ workers \in SUBSET Worker

(* Argon2 never runs more than Slots times at once, also when the requests *)
(* that started it are long gone (tokens.go:145-148).                      *)
WorkersBounded == Cardinality(workers) <= Slots

(* A token that was revoked, or had no row, when the request came is never *)
(* accepted, and a request is never taken for the owner of another token   *)
(* with the same prefix. Nor is a valid token called invalid because the   *)
(* slots are taken, by the API or by the plugin, or because the            *)
(* PluginTimeout elapses: both then say that the service is unavailable    *)
(* (docs/security.md:58-62). Only a callback whose query fails, or whose   *)
(* frps has gone, hears "invalid credentials" all the same                 *)
(* (plugin/handler.go:426-432).                                            *)
AnswersAreRight ==
    \A r \in Requests :
        /\ answer[r] \in Tokens => answer[r] = raw[r] /\ ~hopeless[r]
        /\ answer[r] = "invalid" =>
              raw[r] \in revoked \union {None} \/ (r \in Callbacks /\ pc[r] = "aborted")

(* A token in the current format never waits for, nor fails by, the legacy *)
(* slots: a live one is accepted when its candidates are read, whatever    *)
(* legacy rows share its prefix (auth.go:78-81).                           *)
CurrentNeedsNoSlot ==
    \A r \in Requests : pc[r] \in {"legacy", "slot", "verify"} => raw[r] \notin Current \ revoked

(* The capacity for legacy tokens is never lost: when every slot is taken, *)
(* one comes back, also when nobody waits for its worker any more.         *)
SlotsComeBack == held = Slots ~> held < Slots
=============================================================================
