---------------------------- MODULE TunnelStore ----------------------------
(***************************************************************************)
(* The tunnel rows of PostgreSQL and everything that writes them: the      *)
(* create, delete and admin-revoke handlers, the NewProxy and CloseProxy   *)
(* callbacks of frps, and the reaper (internal/server/tunnels/lifecycle.go *)
(* and handlers.go, internal/server/plugin/handler.go).                    *)
(*                                                                         *)
(* Each request is a READ COMMITTED transaction that runs statement by     *)
(* statement: a statement sees what is committed when it runs, FOR UPDATE  *)
(* and UPDATE wait for the row, pg_advisory_xact_lock for the user.        *)
(* Writes of an open transaction are seen by nobody else, so they are made *)
(* in one step with its COMMIT; the locks are held from the statement that *)
(* takes them. A request is served once, which bounds a behaviour: a       *)
(* client that retries is a second request.                                *)
(***************************************************************************)
EXTENDS Integers, FiniteSets, Sequences

CONSTANTS
    Tunnels,        (* ids that GenerateTunnelID may produce *)
    Users,
    Requests,       (* HTTP requests and frps callbacks, each served once *)
    Reaper,         (* the reaper, as the holder of row locks *)
    None,
    Kinds,          (* the kinds of request that arrive, a subset of Kind *)
    MaxConcurrent,  (* Config.MaxConcurrent *)
    MaxTTL,         (* Config.MaxTTL, in ticks *)
    DefaultTTL,     (* time.Hour of CreateTunnel, in ticks *)
    MaxClock,       (* bound: the database clock stops here *)
    MaxFaults       (* bound: failed reaper passes and server crashes *)

Kind == {"create", "newproxy", "closeproxy", "revoke"}

ASSUME BoundsAssumption ==
    /\ MaxConcurrent \in Nat \ {0}
    /\ MaxTTL \in Nat \ {0}
    /\ DefaultTTL \in Nat \ {0}
    /\ MaxClock \in Nat
    /\ MaxFaults \in Nat
ASSUME SetsAssumption == IsFiniteSet(Tunnels) /\ Kinds \subseteq Kind
ASSUME NamesAssumption ==
    /\ None \notin Users \union Requests \union Tunnels \union {Reaper}
    /\ Reaper \notin Requests

VARIABLES
    now,        (* the clock of the database, clock_timestamp() *)
    status, owner, expires, token, trail,
    rowLock,    (* the transaction that holds the row of a tunnel *)
    userLock,   (* the transaction that holds the advisory lock of a user *)
    pc, op, user, tunnel, ttl, tries, stamp, seen, reply,
    reaperPc, reapNow, reapTodo, reapDone,
    faults

clock == <<now, faults>>
table == <<status, owner, expires, token, trail>>
locks == <<rowLock, userLock>>
call == <<op, user, tunnel, ttl, tries, stamp, seen>>
reaper == <<reaperPc, reapNow, reapTodo, reapDone>>
vars == <<clock, table, locks, pc, call, reply, reaper>>

NonTerminal == {"reserved", "active", "closed"}
Terminal == {"expired", "revoked"}
Status == NonTerminal \union Terminal

(* The triples <<from, event, to>> of the Go map validTransitions.         *)
validTransitions ==
    {<<"reserved", "NewProxy", "active">>, <<"closed", "NewProxy", "active">>,
     <<"active", "CloseProxy", "closed">>}
    \union {<<from, "Expire", "expired">> : from \in NonTerminal}
    \union {<<from, "Revoke", "revoked">> : from \in NonTerminal}

CreateSteps == {"quotaLock", "quotaCount", "candidate", "insert", "commitCreate"}
Steps == CreateSteps \union
    {"lookup", "readStatus", "lock", "checkClock", "apply", "revoke"}
Holding == {"checkClock", "apply", "revoke", "commitCreate"}
Answers == {"none", "ok", "denied", "notfound", "error", "unknown"}

(* CountNonTerminalTunnels counts these rows, seen as committed.           *)
Consuming(u) == {t \in Tunnels : owner[t] = u /\ status[t] \in NonTerminal}

(* Config.MaxTTL caps the default as well as the request.                  *)
EffectiveTTL(requested) ==
    IF requested # 0 THEN requested
    ELSE IF MaxTTL < DefaultTTL THEN MaxTTL ELSE DefaultTTL

-----------------------------------------------------------------------------
(* Steps of any request.                                                   *)

Goto(r, step) == pc' = [pc EXCEPT ![r] = step]

(* A mutant: the advisory lock belongs to the connection, not to the       *)
(* transaction (pg_advisory_lock), and outlives it.                        *)
MutantRelease(holders) ==
    /\ rowLock' = [t \in Tunnels |-> IF rowLock[t] \in holders THEN None ELSE rowLock[t]]
    /\ UNCHANGED userLock

(* COMMIT and ROLLBACK release what the transaction holds.                 *)
Release(holders) ==
    /\ rowLock' = [t \in Tunnels |-> IF rowLock[t] \in holders THEN None ELSE rowLock[t]]
    /\ userLock' = [u \in Users |-> IF userLock[u] \in holders THEN None ELSE userLock[u]]

Answer(r, answer) ==
    /\ Goto(r, "done")
    /\ reply' = [reply EXCEPT ![r] = answer]

(* The transaction is rolled back, or has written nothing: the deferred    *)
(* tx.Rollback of an early return.                                         *)
EndWithout(r, answer) ==
    /\ Answer(r, answer)
    /\ Release({r})
    /\ UNCHANGED <<clock, table, call, reaper>>

(* The COMMIT took effect: the caller learns it, or loses the connection   *)
(* and sees an error although it did.                                      *)
Commit(r) ==
    /\ \E answer \in {"ok", "unknown"} : Answer(r, answer)
    /\ Release({r})
    /\ UNCHANGED <<clock, call, reaper>>

(* A statement of r fails: SQL error, lost connection, PluginTimeout,      *)
(* client gone, or the token check of the callback. The callback of a      *)
(* CloseProxy allows even then.                                            *)
Fail(r) ==
    /\ pc[r] \in Steps
    /\ EndWithout(r, IF op[r] = "closeproxy" THEN "ok" ELSE "error")

(* UPDATE tunnels SET status, insertEvent, for the tunnel of r.            *)
WriteStatus(r, event, to) ==
    /\ status' = [status EXCEPT ![tunnel[r]] = to]
    /\ trail' = [trail EXCEPT ![tunnel[r]] = Append(@, <<event, to>>)]

(* The first statement that waits for the row lock; Scan of its status.    *)
LockRow(r) ==
    /\ pc[r] = "lock"
    /\ status[tunnel[r]] # "none"
    /\ op[r] = "revoke" => user[r] \in {None, owner[tunnel[r]]}
    /\ rowLock[tunnel[r]] = None
    /\ rowLock' = [rowLock EXCEPT ![tunnel[r]] = r]
    /\ seen' = [seen EXCEPT ![r] = status[tunnel[r]]]
    /\ stamp' = [stamp EXCEPT ![r] = now]
    /\ Goto(r, IF op[r] = "newproxy" THEN "checkClock"
               ELSE IF op[r] = "closeproxy" THEN "apply" ELSE "revoke")
    /\ UNCHANGED <<clock, table, userLock, op, user, tunnel, ttl, tries, reply, reaper>>

-----------------------------------------------------------------------------
(* CreateTunnel.                                                           *)

(* A validated body: 0 asks for the default ttl, more than Config.MaxTTL   *)
(* is a 400. The bound on the clock leaves room for the tunnel to elapse.  *)
CreateTunnel(r) ==
    /\ pc[r] = "idle"
    /\ "create" \in Kinds
    /\ \E u \in Users, requested \in 0..MaxTTL + 1 :
          /\ EffectiveTTL(requested) <= MaxTTL
          /\ now + EffectiveTTL(requested) < MaxClock
          /\ user' = [user EXCEPT ![r] = u]
          /\ ttl' = [ttl EXCEPT ![r] = EffectiveTTL(requested)]
    /\ op' = [op EXCEPT ![r] = "create"]
    /\ Goto(r, "quotaLock")
    /\ UNCHANGED <<clock, table, locks, tunnel, tries, stamp, seen, reply, reaper>>

(* A mutant: the count is not serialized.                                  *)
MutantTakeQuotaLock(r) ==
    /\ pc[r] = "quotaLock"
    /\ Goto(r, "quotaCount")
    /\ UNCHANGED <<clock, table, locks, call, reply, reaper>>

(* pg_advisory_xact_lock(hashtextextended(userID)).                        *)
TakeQuotaLock(r) ==
    /\ pc[r] = "quotaLock"
    /\ userLock[user[r]] = None
    /\ userLock' = [userLock EXCEPT ![user[r]] = r]
    /\ Goto(r, "quotaCount")
    /\ UNCHANGED <<clock, table, rowLock, call, reply, reaper>>

(* A mutant: the quota is compared with > for >=.                          *)
MutantCheckQuota(r) ==
    /\ pc[r] = "quotaCount"
    /\ \/ /\ Cardinality(Consuming(user[r])) > MaxConcurrent
          /\ EndWithout(r, "denied")
       \/ /\ Cardinality(Consuming(user[r])) <= MaxConcurrent
          /\ Goto(r, "candidate")
          /\ UNCHANGED <<clock, table, locks, call, reply, reaper>>

CheckQuota(r) ==
    /\ pc[r] = "quotaCount"
    /\ \/ /\ Cardinality(Consuming(user[r])) >= MaxConcurrent
          /\ EndWithout(r, "denied")
       \/ /\ Cardinality(Consuming(user[r])) < MaxConcurrent
          /\ Goto(r, "candidate")
          /\ UNCHANGED <<clock, table, locks, call, reply, reaper>>

(* GenerateTunnelID, and the INSERT is sent: its statement_timestamp().    *)
PickCandidate(r) ==
    /\ pc[r] = "candidate"
    /\ \E t \in Tunnels : tunnel' = [tunnel EXCEPT ![r] = t]
    /\ tries' = [tries EXCEPT ![r] = @ + 1]
    /\ stamp' = [stamp EXCEPT ![r] = now]
    /\ Goto(r, "insert")
    /\ UNCHANGED <<clock, table, locks, op, user, ttl, seen, reply, reaper>>

(* A mutant: ON CONFLICT DO UPDATE.                                        *)
MutantInsertCandidate(r) ==
    /\ pc[r] = "insert"
    /\ rowLock[tunnel[r]] = None
    /\ rowLock' = [rowLock EXCEPT ![tunnel[r]] = r]
    /\ Goto(r, "commitCreate")
    /\ UNCHANGED <<clock, table, userLock, call, reply, reaper>>

(* INSERT ... ON CONFLICT (id) DO NOTHING waits for another transaction    *)
(* that has inserted the id, and gives up after the third taken id.        *)
InsertCandidate(r) ==
    /\ pc[r] = "insert"
    /\ \/ /\ status[tunnel[r]] = "none"
          /\ rowLock[tunnel[r]] = None
          /\ rowLock' = [rowLock EXCEPT ![tunnel[r]] = r]
          /\ Goto(r, "commitCreate")
          /\ UNCHANGED <<clock, table, userLock, call, reply, reaper>>
       \/ /\ status[tunnel[r]] # "none"
          /\ tries[r] < 3
          /\ Goto(r, "candidate")
          /\ UNCHANGED <<clock, table, locks, call, reply, reaper>>
       \/ /\ status[tunnel[r]] # "none"
          /\ tries[r] = 3
          /\ EndWithout(r, "error")

(* The row, its runtime token with the same expires_at, the event, COMMIT. *)
CommitCreate(r) ==
    /\ pc[r] = "commitCreate"
    /\ WriteStatus(r, "created", "reserved")
    /\ owner' = [owner EXCEPT ![tunnel[r]] = user[r]]
    /\ expires' = [expires EXCEPT ![tunnel[r]] = stamp[r] + ttl[r]]
    /\ token' = [token EXCEPT ![tunnel[r]] = "live"]
    /\ Commit(r)

-----------------------------------------------------------------------------
(* NewProxy and CloseProxy callbacks, and the deletes.                     *)

Arrive(r, kind, step) ==
    /\ pc[r] = "idle"
    /\ kind \in Kinds
    /\ op' = [op EXCEPT ![r] = kind]
    /\ \E t \in Tunnels : tunnel' = [tunnel EXCEPT ![r] = t]
    /\ Goto(r, step)

NewProxy(r) ==
    /\ Arrive(r, "newproxy", "lookup")
    /\ UNCHANGED <<clock, table, locks, user, ttl, tries, stamp, seen, reply, reaper>>

(* The credential admits the tunnel: the WHERE of lookupRuntimeToken.      *)
Admitted(t) == token[t] = "live" /\ expires[t] > now /\ status[t] \in NonTerminal

LookupRuntimeToken(r) ==
    /\ pc[r] = "lookup"
    /\ \/ /\ Admitted(tunnel[r])
          /\ Goto(r, "lock")
          /\ UNCHANGED <<clock, table, locks, call, reply, reaper>>
       \/ /\ ~Admitted(tunnel[r])
          /\ EndWithout(r, "denied")

(* A mutant: the expiry is checked by lookupRuntimeToken only.             *)
MutantCheckClock(r) ==
    /\ pc[r] = "checkClock"
    /\ IF seen[r] = "active"
       THEN EndWithout(r, "ok")
       ELSE /\ Goto(r, "apply")
            /\ UNCHANGED <<clock, table, locks, call, reply, reaper>>

(* The second statement reads the wall clock under the row lock. A tunnel  *)
(* that is active already is accepted without a write and without event.   *)
CheckClock(r) ==
    /\ pc[r] = "checkClock"
    /\ \/ /\ expires[tunnel[r]] <= now
          /\ EndWithout(r, "denied")
       \/ /\ expires[tunnel[r]] > now
          /\ seen[r] = "active"
          /\ EndWithout(r, "ok")
       \/ /\ expires[tunnel[r]] > now
          /\ seen[r] # "active"
          /\ Goto(r, "apply")
          /\ UNCHANGED <<clock, table, locks, call, reply, reaper>>

CloseProxy(r) ==
    /\ Arrive(r, "closeproxy", "readStatus")
    /\ UNCHANGED <<clock, table, locks, user, ttl, tries, stamp, seen, reply, reaper>>

(* Read outside any transaction: only an active tunnel is closed.          *)
ReadStatus(r) ==
    /\ pc[r] = "readStatus"
    /\ \/ /\ status[tunnel[r]] = "active"
          /\ Goto(r, "lock")
          /\ UNCHANGED <<clock, table, locks, call, reply, reaper>>
       \/ /\ status[tunnel[r]] # "active"
          /\ EndWithout(r, "ok")

EventOf(r) == IF op[r] = "newproxy" THEN "NewProxy" ELSE "CloseProxy"

(* The end of Transition, from the status seen under the lock: refused,    *)
(* or UPDATE ... AND status = $3, the event and COMMIT.                    *)
ApplyTransition(r) ==
    /\ pc[r] = "apply"
    /\ \/ /\ \A to \in Status : <<seen[r], EventOf(r), to>> \notin validTransitions
          /\ EndWithout(r, IF op[r] = "closeproxy" THEN "ok" ELSE "denied")
       \/ /\ status[tunnel[r]] = seen[r]
          /\ \E to \in Status :
                /\ <<seen[r], EventOf(r), to>> \in validTransitions
                /\ WriteStatus(r, EventOf(r), to)
          /\ Commit(r)
          /\ UNCHANGED <<owner, expires, token>>

(* DeleteTunnel of an owner, or AdminRevokeTunnel with no owner.           *)
Delete(r) ==
    /\ Arrive(r, "revoke", "lock")
    /\ \E u \in Users \union {None} : user' = [user EXCEPT ![r] = u]
    /\ UNCHANGED <<clock, table, locks, ttl, tries, stamp, seen, reply, reaper>>

(* SELECT ... FOR UPDATE finds no row, or not one of this owner: 404.      *)
NotFound(r) ==
    /\ pc[r] = "lock"
    /\ op[r] = "revoke"
    /\ \/ status[tunnel[r]] = "none"
       \/ user[r] \notin {None, owner[tunnel[r]]}
    /\ EndWithout(r, "notfound")

(* A mutant: a terminal row is left alone, credential included.            *)
MutantApplyRevoke(r) ==
    /\ pc[r] = "revoke"
    /\ IF seen[r] \in NonTerminal
       THEN /\ WriteStatus(r, "Revoke", "revoked")
            /\ token' = [token EXCEPT ![tunnel[r]] = "revoked"]
       ELSE UNCHANGED <<status, trail, token>>
    /\ Commit(r)
    /\ UNCHANGED <<owner, expires>>

(* Revoke: the status only if it is not terminal, the credential always.   *)
ApplyRevoke(r) ==
    /\ pc[r] = "revoke"
    /\ IF seen[r] \in NonTerminal
       THEN WriteStatus(r, "Revoke", "revoked")
       ELSE UNCHANGED <<status, trail>>
    /\ token' = [token EXCEPT ![tunnel[r]] = IF @ = "live" THEN "revoked" ELSE @]
    /\ Commit(r)
    /\ UNCHANGED <<owner, expires>>

-----------------------------------------------------------------------------
(* The reaper: one bulk UPDATE, one event per row, COMMIT.                 *)

(* BEGIN fixes now() for the whole transaction.                            *)
ReapBegin ==
    /\ reaperPc = "idle"
    /\ reaperPc' = "scan"
    /\ reapNow' = now
    /\ UNCHANGED <<clock, table, locks, pc, call, reply, reapTodo, reapDone>>

(* A mutant: a tunnel in use is spared.                                    *)
MutantReapScan ==
    /\ reaperPc = "scan"
    /\ reaperPc' = "update"
    /\ reapTodo' = {t \in Tunnels : expires[t] < reapNow /\ status[t] \in {"reserved", "closed"}}
    /\ UNCHANGED <<clock, table, locks, pc, call, reply, reapNow, reapDone>>

(* The rows the UPDATE finds in its snapshot.                              *)
ReapScan ==
    /\ reaperPc = "scan"
    /\ reaperPc' = "update"
    /\ reapTodo' = {t \in Tunnels : expires[t] < reapNow /\ status[t] \in NonTerminal}
    /\ UNCHANGED <<clock, table, locks, pc, call, reply, reapNow, reapDone>>

(* A mutant: SELECT, then UPDATE by id: the WHERE is not evaluated again.  *)
MutantReapRow(t) ==
    /\ reaperPc = "update"
    /\ t \in reapTodo
    /\ rowLock[t] = None
    /\ reapTodo' = reapTodo \ {t}
    /\ rowLock' = [rowLock EXCEPT ![t] = Reaper]
    /\ reapDone' = reapDone \union {t}
    /\ UNCHANGED <<clock, table, userLock, pc, call, reply, reaperPc, reapNow>>

(* Each row is awaited, and its WHERE is evaluated again on the row as     *)
(* committed by then.                                                      *)
ReapRow(t) ==
    /\ reaperPc = "update"
    /\ t \in reapTodo
    /\ rowLock[t] = None
    /\ reapTodo' = reapTodo \ {t}
    /\ IF status[t] \in NonTerminal
       THEN /\ rowLock' = [rowLock EXCEPT ![t] = Reaper]
            /\ reapDone' = reapDone \union {t}
       ELSE UNCHANGED <<rowLock, reapDone>>
    /\ UNCHANGED <<clock, table, userLock, pc, call, reply, reaperPc, reapNow>>

ReaperReset ==
    /\ reaperPc' = "idle"
    /\ reapNow' = 0
    /\ reapTodo' = {}
    /\ reapDone' = {}

(* A mutant: the bulk UPDATE alone, no event.                              *)
MutantReapCommit ==
    /\ reaperPc = "update"
    /\ reapTodo = {}
    /\ status' = [t \in Tunnels |-> IF t \in reapDone THEN "expired" ELSE status[t]]
    /\ Release({Reaper})
    /\ ReaperReset
    /\ UNCHANGED <<clock, owner, expires, token, trail, pc, call, reply>>

ReapCommit ==
    /\ reaperPc = "update"
    /\ reapTodo = {}
    /\ status' = [t \in Tunnels |-> IF t \in reapDone THEN "expired" ELSE status[t]]
    /\ trail' = [t \in Tunnels |-> IF t \in reapDone
                                   THEN Append(trail[t], <<"Expire", "expired">>)
                                   ELSE trail[t]]
    /\ Release({Reaper})
    /\ ReaperReset
    /\ UNCHANGED <<clock, owner, expires, token, pc, call, reply>>

(* A pass fails and is rolled back as a whole; the next tick tries again.  *)
ReapFail ==
    /\ reaperPc # "idle"
    /\ faults < MaxFaults
    /\ faults' = faults + 1
    /\ Release({Reaper})
    /\ ReaperReset
    /\ UNCHANGED <<now, table, pc, call, reply>>

-----------------------------------------------------------------------------
(* The environment.                                                        *)

(* The server dies: PostgreSQL rolls back every open transaction.          *)
Crash ==
    /\ faults < MaxFaults
    /\ faults' = faults + 1
    /\ Release(Requests \union {Reaper})
    /\ pc' = [r \in Requests |-> IF pc[r] \in Steps THEN "done" ELSE pc[r]]
    /\ reply' = [r \in Requests |-> IF pc[r] \in Steps THEN "error" ELSE reply[r]]
    /\ ReaperReset
    /\ UNCHANGED <<now, table, call>>

(* The bound MaxClock: a create under way can still elapse before it.      *)
Tick ==
    /\ now < MaxClock
    /\ \A r \in Requests : pc[r] \in CreateSteps \ {"commitCreate"} => now + 1 + ttl[r] < MaxClock
    /\ now' = now + 1
    /\ UNCHANGED <<faults, table, locks, pc, call, reply, reaper>>

Init ==
    /\ now = 0
    /\ faults = 0
    /\ status = [t \in Tunnels |-> "none"]
    /\ owner = [t \in Tunnels |-> None]
    /\ expires = [t \in Tunnels |-> 0]
    /\ token = [t \in Tunnels |-> "none"]
    /\ trail = [t \in Tunnels |-> <<>>]
    /\ rowLock = [t \in Tunnels |-> None]
    /\ userLock = [u \in Users |-> None]
    /\ pc = [r \in Requests |-> "idle"]
    /\ op = [r \in Requests |-> "none"]
    /\ user = [r \in Requests |-> None]
    /\ tunnel = [r \in Requests |-> None]
    /\ ttl = [r \in Requests |-> 0]
    /\ tries = [r \in Requests |-> 0]
    /\ stamp = [r \in Requests |-> 0]
    /\ seen = [r \in Requests |-> "none"]
    /\ reply = [r \in Requests |-> "none"]
    /\ reaperPc = "idle"
    /\ reapNow = 0
    /\ reapTodo = {}
    /\ reapDone = {}

RequestStep(r) ==
    \/ TakeQuotaLock(r) \/ CheckQuota(r) \/ PickCandidate(r)
    \/ InsertCandidate(r) \/ CommitCreate(r)
    \/ LookupRuntimeToken(r) \/ ReadStatus(r)
    \/ LockRow(r) \/ NotFound(r)
    \/ CheckClock(r) \/ ApplyTransition(r) \/ ApplyRevoke(r)

ReaperStep == ReapBegin \/ ReapScan \/ (\E t \in Tunnels : ReapRow(t)) \/ ReapCommit

Next ==
    \/ \E r \in Requests :
          \/ CreateTunnel(r) \/ NewProxy(r) \/ CloseProxy(r) \/ Delete(r)
          \/ RequestStep(r)
          \/ Fail(r)
    \/ ReaperStep
    \/ ReapFail
    \/ Crash
    \/ Tick

(* A handler that has begun goes on, the reaper's ticker keeps firing and  *)
(* time passes. Arrivals and failures are not fair. A row lock is always   *)
(* handed over at last because only finitely many requests ask for it.     *)
Fairness ==
    /\ \A r \in Requests : WF_vars(RequestStep(r))
    /\ WF_vars(ReaperStep)
    /\ WF_vars(Tick)

Spec == Init /\ [][Next]_vars
FairSpec == Spec /\ Fairness

-----------------------------------------------------------------------------
(* Properties.                                                             *)

(* Every variable has the values its column or Go variable can take.       *)
TypeOK ==
    /\ now \in Nat
    /\ faults \in Nat
    /\ status \in [Tunnels -> Status \union {"none"}]
    /\ owner \in [Tunnels -> Users \union {None}]
    /\ expires \in [Tunnels -> Nat]
    /\ token \in [Tunnels -> {"none", "live", "revoked"}]
    /\ trail \in [Tunnels -> Seq({"created", "NewProxy", "CloseProxy", "Expire", "Revoke"} \X Status)]
    /\ rowLock \in [Tunnels -> Requests \union {Reaper, None}]
    /\ userLock \in [Users -> Requests \union {None}]
    /\ pc \in [Requests -> Steps \union {"idle", "done"}]
    /\ op \in [Requests -> Kind \union {"none"}]
    /\ user \in [Requests -> Users \union {None}]
    /\ tunnel \in [Requests -> Tunnels \union {None}]
    /\ ttl \in [Requests -> Nat]
    /\ tries \in [Requests -> Nat]
    /\ stamp \in [Requests -> Nat]
    /\ seen \in [Requests -> Status \union {"none"}]
    /\ reply \in [Requests -> Answers]
    /\ reaperPc \in {"idle", "scan", "update"}
    /\ reapNow \in Nat
    /\ reapTodo \in SUBSET Tunnels
    /\ reapDone \in SUBSET Tunnels

(* No interleaving of creates, crashes and expiries takes a user above     *)
(* MaxConcurrent: what the advisory lock of CreateTunnel is for.           *)
QuotaRespected == \A u \in Users : Cardinality(Consuming(u)) <= MaxConcurrent

(* A status that is expired or revoked is never written again, although    *)
(* Revoke and the reaper write it from a status they read earlier.         *)
TerminalStep == \A t \in Tunnels : status[t] \in Terminal => status'[t] = status[t]
TerminalAbsorbing == [][TerminalStep]_vars

(* The events of a tunnel are a path of validTransitions that begins with  *)
(* its creation and ends in its status: none missing, doubled or made up   *)
(* by a callback that changed nothing.                                     *)
TrailMatches(t) ==
    IF status[t] = "none" THEN trail[t] = <<>>
    ELSE /\ trail[t] # <<>>
         /\ trail[t][1] = <<"created", "reserved">>
         /\ trail[t][Len(trail[t])][2] = status[t]
         /\ \A i \in 1..Len(trail[t]) - 1 :
               <<trail[t][i][2], trail[t][i + 1][1], trail[t][i + 1][2]>> \in validTransitions
TrailIsTheHistory == \A t \in Tunnels : TrailMatches(t)

(* A NewProxy callback is accepted only for a tunnel that, when its row    *)
(* lock was taken, was not terminal and had not elapsed, however long the  *)
(* callback had waited for the lock.                                       *)
AcceptedProxyWasLive ==
    \A r \in Requests :
        op[r] = "newproxy" /\ reply[r] \in {"ok", "unknown"} =>
            seen[r] \in NonTerminal /\ expires[tunnel[r]] > stamp[r]

(* Once a delete is acknowledged the tunnel is terminal and its credential *)
(* is dead, also when the reaper or another delete came first, and nothing *)
(* that runs later undoes it. A revoked tunnel never has a live credential.*)
DeleteIsFinal ==
    /\ \A r \in Requests :
          op[r] = "revoke" /\ reply[r] \in {"ok", "unknown"} =>
              status[tunnel[r]] \in Terminal /\ token[tunnel[r]] = "revoked"
    /\ \A t \in Tunnels : status[t] = "revoked" => token[t] = "revoked"

(* A create that was told 201 owns its tunnel, under an id no other        *)
(* create was given.                                                       *)
CreatesAreDistinct ==
    \A r \in Requests : op[r] = "create" /\ reply[r] \in {"ok", "unknown"} =>
        /\ owner[tunnel[r]] = user[r]
        /\ \A q \in Requests \ {r} :
              op[q] = "create" /\ reply[q] \in {"ok", "unknown"} => tunnel[q] # tunnel[r]

(* Every request is answered: the row locks, the advisory locks and the    *)
(* waits of ON CONFLICT never close a cycle, and no failure keeps a lock.  *)
EveryRequestIsAnswered == \A r \in Requests : pc[r] \in Steps ~> pc[r] = "done"

(* Every tunnel ends, whatever its owner and frps do and whichever passes  *)
(* of the reaper fail.                                                     *)
EveryTunnelEnds == \A t \in Tunnels : status[t] \in NonTerminal ~> status[t] \in Terminal

(* The transactions implement the atomic lifecycle.                        *)
Lifecycle == INSTANCE TunnelLifecycle
ImplementsLifecycle == Lifecycle!Spec
=============================================================================
