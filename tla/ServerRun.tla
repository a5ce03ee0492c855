------------------------------ MODULE ServerRun ------------------------------
(***************************************************************************)
(* "hatchway server run": serverRunCmd (internal/cli/commands/server.go)   *)
(* with its deferred calls, StartServer (internal/server/api/router.go)    *)
(* with the requests it serves and drains, the reaper and sweepers, the    *)
(* connection pool, signals, and frps as a subprocess (FrpProcess).        *)
(*                                                                         *)
(* In external mode the main goroutine calls StartServer itself; in        *)
(* subprocess mode it starts frps and selects over a goroutine in          *)
(* StartServer, one in Wait, and the context.                              *)
(***************************************************************************)
EXTENDS Integers

CONSTANTS
    Requests,       (* HTTP requests of either listener, each served once *)
    None,
    MaxSignals      (* bound: SIGINT and SIGTERM received *)

ASSUME ServerRunAssumption ==
    MaxSignals \in Nat /\ None \notin {"starter", "waiter", "stopper"} /\ None # 1

VARIABLES
    mode,           (* Config.FRPSMode *)
    main,           (* the statement the main goroutine is at *)
    frpsFailed,     (* it has found that frps ended unexpectedly *)
    result,         (* what the command returns *)
    notified,       (* signals go to the context, not to the process *)
    signals,
    server, serverErr, deadline,    (* StartServer, and its shutdownCtx *)
    pool, background, request,
    (* FrpProcess; cancelled is the context of everything *)
    running, current, proc, waiter, cancelled, pc, call, target, hit

Frp == INSTANCE FrpProcess WITH Callers <- {"starter", "waiter", "stopper"}, MaxRuns <- 1

frps == <<running, current, proc, waiter, cancelled, pc, call, target, hit>>
command == <<mode, main, frpsFailed, result, notified, signals>>
http == <<server, serverErr, deadline>>
vars == <<command, http, pool, background, request, frps>>

Up == main \notin {"exited", "killed"}
Unfinished == {q \in Requests : request[q] \in {"running", "holding"}}
Holders == {q \in Requests : request[q] = "holding"}

Init ==
    /\ mode \in {"external", "subprocess"}
    /\ main = "boot"
    /\ frpsFailed = FALSE
    /\ result = "none"
    /\ notified = FALSE
    /\ signals = 0
    /\ server = "off"
    /\ serverErr = FALSE
    /\ deadline = FALSE
    /\ pool = "none"
    /\ background = "off"
    /\ request = [q \in Requests |-> "idle"]
    /\ Frp!Init

Goto(step) == main' = step

(* cancel() of NotifyContext: the context ends, and signals kill again.    *)
CancelContext ==
    /\ notified' = FALSE
    /\ IF cancelled THEN UNCHANGED frps ELSE Frp!Cancel

-----------------------------------------------------------------------------
(* The main goroutine.                                                     *)

(* Configuration and migrations, up to signal.NotifyContext.               *)
Boot ==
    /\ main = "boot"
    /\ \/ /\ Goto("exited")
          /\ result' = "failed"
          /\ UNCHANGED notified
       \/ /\ Goto("connect")
          /\ notified' = TRUE
          /\ UNCHANGED result
    /\ UNCHANGED <<mode, frpsFailed, signals, http, pool, background, request, frps>>

(* db.New; a connection is not made in a context that is done.             *)
Connect ==
    /\ main = "connect"
    /\ \/ /\ Goto("cancel")
          /\ result' = "failed"
          /\ UNCHANGED pool
       \/ /\ ~cancelled
          /\ Goto("schema")
          /\ pool' = "open"
          /\ UNCHANGED result
    /\ UNCHANGED <<mode, frpsFailed, notified, signals, http, background, request, frps>>

(* CheckSchema, StartReaper, StartSweepers, and into StartServer or frps.  *)
CheckSchema ==
    /\ main = "schema"
    /\ \/ /\ Goto("closePool")
          /\ result' = "failed"
          /\ UNCHANGED <<background, server>>
       \/ /\ ~cancelled
          /\ background' = "idle"
          /\ IF mode = "external"
             THEN Goto("join") /\ server' = "listen"
             ELSE Goto("launch") /\ UNCHANGED server
          /\ UNCHANGED result
    /\ UNCHANGED <<mode, frpsFailed, notified, signals, serverErr, deadline, pool, request, frps>>

(* frpsProc.Start is called.                                               *)
Launch ==
    /\ main = "launch"
    /\ Goto("starting")
    /\ Frp!Call("starter") /\ call'["starter"] = "start"
    /\ UNCHANGED <<mode, frpsFailed, result, notified, signals, http, pool, background, request>>

(* It has failed, or the goroutines of StartServer and Wait are started.   *)
Launched ==
    /\ main = "starting"
    /\ Frp!Start("starter")
    /\ IF running'
       THEN Goto("select") /\ server' = "listen" /\ UNCHANGED result
       ELSE Goto("closePool") /\ result' = "failed" /\ UNCHANGED server
    /\ UNCHANGED <<mode, frpsFailed, notified, signals, serverErr, deadline, pool, background, request>>

(* select: <-serverErrCh.                                                  *)
ServerEnded ==
    /\ main = "select"
    /\ server = "returned"
    /\ CancelContext
    /\ result' = IF serverErr THEN "failed" ELSE "ok"
    /\ Goto("stop")
    /\ UNCHANGED <<mode, frpsFailed, signals, http, pool, background, request>>

(* A mutant: StartServer is not waited for.                                *)
MutantFrpsEnded ==
    /\ main = "select"
    /\ pc["waiter"] = "returned"
    /\ IF cancelled
       THEN /\ Goto("join")
            /\ UNCHANGED <<frpsFailed, notified, frps, result>>
       ELSE /\ Goto("stop")
            /\ result' = "failed"
            /\ frpsFailed' = TRUE
            /\ CancelContext
    /\ UNCHANGED <<mode, signals, http, pool, background, request>>

(* select: <-frpsErrCh, expected if the context is done already.           *)
FrpsEnded ==
    /\ main = "select"
    /\ pc["waiter"] = "returned"
    /\ Goto("join")
    /\ IF cancelled
       THEN UNCHANGED <<frpsFailed, notified, frps>>
       ELSE frpsFailed' = TRUE /\ CancelContext
    /\ UNCHANGED <<mode, result, signals, http, pool, background, request>>

(* select: <-ctx.Done().                                                   *)
ContextDone ==
    /\ main = "select"
    /\ cancelled
    /\ Goto("join")
    /\ UNCHANGED <<mode, frpsFailed, result, notified, signals, http, pool, background, request, frps>>

(* A mutant: frps is not stopped, since the context has ended.             *)
MutantJoin ==
    /\ main = "join"
    /\ server = "returned"
    /\ result' = IF frpsFailed \/ serverErr THEN "failed" ELSE "ok"
    /\ Goto("closePool")
    /\ UNCHANGED <<mode, frpsFailed, notified, signals, http, pool, background, request, frps>>

(* <-serverErrCh, or the end of StartServer in external mode; the deferred *)
(* calls follow.                                                           *)
Join ==
    /\ main = "join"
    /\ server = "returned"
    /\ result' = IF frpsFailed \/ serverErr THEN "failed" ELSE "ok"
    /\ Goto(IF mode = "external" THEN "closePool" ELSE "stop")
    /\ UNCHANGED <<mode, frpsFailed, notified, signals, http, pool, background, request, frps>>

(* defer frpsProc.Stop.                                                    *)
StopFrps ==
    /\ main = "stop"
    /\ Goto("stopping")
    /\ Frp!Call("stopper") /\ call'["stopper"] = "stop"
    /\ UNCHANGED <<mode, frpsFailed, result, notified, signals, http, pool, background, request>>

FrpsStopped ==
    /\ main = "stopping"
    /\ pc["stopper"] = "returned"
    /\ Goto("closePool")
    /\ UNCHANGED <<mode, frpsFailed, result, notified, signals, http, pool, background, request, frps>>

(* defer database.Close: no connection is handed out any more.             *)
ClosePool ==
    /\ main = "closePool"
    /\ Goto("awaitPool")
    /\ pool' = "closed"
    /\ UNCHANGED <<mode, frpsFailed, result, notified, signals, http, background, request, frps>>

(* It returns when the last one has come back.                             *)
PoolClosed ==
    /\ main = "awaitPool"
    /\ Holders = {}
    /\ background # "holding"
    /\ Goto("cancel")
    /\ UNCHANGED <<mode, frpsFailed, result, notified, signals, http, pool, background, request, frps>>

(* The end of the process, with all its goroutines and connections.        *)
CutRequests == request' = [q \in Requests |-> IF q \in Unfinished THEN "cut" ELSE request[q]]

(* defer cancel, and the end of the process.                               *)
Return ==
    /\ main = "cancel"
    /\ CancelContext
    /\ Goto("exited")
    /\ CutRequests
    /\ UNCHANGED <<mode, frpsFailed, result, signals, http, pool, background>>

MainStep ==
    \/ Boot \/ Connect \/ CheckSchema \/ Launch \/ Launched
    \/ ServerEnded \/ FrpsEnded \/ ContextDone \/ Join
    \/ StopFrps \/ FrpsStopped \/ ClosePool \/ PoolClosed \/ Return

(* A signal: the first one ends the context, the next are swallowed; where *)
(* none is asked for, it ends the process.                                 *)
Signal ==
    /\ Up
    /\ signals < MaxSignals
    /\ signals' = signals + 1
    /\ IF notified
       THEN /\ IF cancelled THEN UNCHANGED frps ELSE Frp!Cancel
            /\ UNCHANGED <<main, request>>
       ELSE /\ Goto("killed")
            /\ CutRequests
            /\ UNCHANGED frps
    /\ UNCHANGED <<mode, frpsFailed, result, notified, http, pool, background>>

-----------------------------------------------------------------------------
(* StartServer and its requests.                                           *)

Listen ==
    /\ server = "listen"
    /\ \/ server' = "serving" /\ UNCHANGED serverErr
       \/ server' = "returned" /\ serverErr' = TRUE
    /\ UNCHANGED <<command, deadline, pool, background, request, frps>>

(* select: a listener has failed, or the context is done; both servers are *)
(* shut down, which closes the listeners and waits for the requests.       *)
Shutdown ==
    /\ server = "serving"
    /\ server' = "draining"
    /\ \/ serverErr' = TRUE
       \/ cancelled /\ UNCHANGED serverErr
    /\ UNCHANGED <<command, deadline, pool, background, request, frps>>

Drained ==
    /\ server = "draining"
    /\ Unfinished = {}
    /\ server' = "returned"
    /\ UNCHANGED <<command, serverErr, deadline, pool, background, request, frps>>

(* A mutant: Shutdown is given a context without a deadline.               *)
MutantDrainTimeout ==
    /\ server = "draining"
    /\ Unfinished = {}
    /\ server' = "returned"
    /\ serverErr' = TRUE
    /\ UNCHANGED <<command, deadline, pool, background, request, frps>>

(* The 30 seconds of shutdownCtx elapse; requests under way go on.         *)
DrainTimeout ==
    /\ server = "draining"
    /\ Unfinished # {}
    /\ server' = "returned"
    /\ serverErr' = TRUE
    /\ deadline' = TRUE
    /\ UNCHANGED <<command, pool, background, request, frps>>

ServerStep == Listen \/ Shutdown \/ Drained \/ DrainTimeout

Becomes(q, state) == request' = [request EXCEPT ![q] = state]

(* A request that a listener hands to its handler before it is closed.     *)
Accept(q) ==
    /\ request[q] = "idle"
    /\ server = "serving"
    /\ Becomes(q, "running")
    /\ UNCHANGED <<command, http, pool, background, frps>>

(* pool.Acquire, which a closed pool refuses: the handler answers 500.     *)
Acquire(q) ==
    /\ request[q] = "running"
    /\ Becomes(q, IF pool = "open" THEN "holding" ELSE "failed")
    /\ UNCHANGED <<command, http, pool, background, frps>>

(* The statement or the transaction ends.                                  *)
Release(q) ==
    /\ request[q] = "holding"
    /\ Becomes(q, "running")
    /\ UNCHANGED <<command, http, pool, background, frps>>

Answer(q) ==
    /\ request[q] = "running"
    /\ Becomes(q, "answered")
    /\ UNCHANGED <<command, http, pool, background, frps>>

(* A pass of the reaper or a sweeper, all in the context of the command.   *)
Pass ==
    /\ background = "idle"
    /\ ~cancelled
    /\ pool = "open"
    /\ background' = "holding"
    /\ UNCHANGED <<command, http, pool, request, frps>>

PassEnds ==
    /\ background = "holding"
    /\ background' = "idle"
    /\ UNCHANGED <<command, http, pool, request, frps>>

-----------------------------------------------------------------------------
(* frps, Wait and Stop.                                                    *)

WaitForFrps ==
    /\ mode = "subprocess"
    /\ server # "off"
    /\ Frp!Call("waiter") /\ call'["waiter"] = "wait"
    /\ UNCHANGED <<command, http, pool, background, request>>

FrpStep ==
    /\ \/ Frp!Wait("waiter") \/ Frp!WaitEnds("waiter")
       \/ Frp!Stop("stopper") \/ Frp!Interrupt("stopper")
       \/ Frp!Stopped("stopper") \/ Frp!Kill("stopper")
       \/ Frp!Reap(1) \/ Frp!Close(1) \/ Frp!ContextKill(1)
    /\ UNCHANGED <<command, http, pool, background, request>>

(* frps ends; the operating system does not ask whether its parent lives.  *)
FrpsExit ==
    /\ Frp!Exit(1)
    /\ UNCHANGED <<command, http, pool, background, request>>

Next ==
    \/ /\ Up
       /\ \/ MainStep \/ ServerStep \/ WaitForFrps \/ FrpStep \/ Pass \/ PassEnds
          \/ \E q \in Requests : Accept(q) \/ Acquire(q) \/ Release(q) \/ Answer(q)
    \/ Signal
    \/ FrpsExit

(* Goroutines run, timeouts elapse, PostgreSQL answers, and a process that *)
(* was killed ends. Requests need not end, nor frps.                       *)
Fairness ==
    /\ WF_vars(Up /\ MainStep)
    /\ WF_vars(Up /\ (Listen \/ (cancelled /\ Shutdown) \/ Drained \/ DrainTimeout))
    /\ WF_vars(Up /\ WaitForFrps)
    /\ WF_vars(Up /\ (Frp!Wait("waiter") \/ Frp!WaitEnds("waiter")) /\ FrpStep)
    /\ WF_vars(Up /\ Frp!CallerStep("stopper") /\ FrpStep)
    /\ WF_vars(Up /\ (Frp!Reap(1) \/ Frp!Close(1)) /\ FrpStep)
    /\ WF_vars(Up /\ PassEnds)
    /\ \A q \in Requests : WF_vars(Up /\ Release(q))
    /\ WF_vars(proc[1] = "killed" /\ FrpsExit)

Spec == Init /\ [][Next]_vars
FairSpec == Spec /\ Fairness

-----------------------------------------------------------------------------
(* The command's own variables; a command that has returned says how.      *)
TypeOK ==
    /\ mode \in {"external", "subprocess"}
    /\ main \in {"boot", "connect", "schema", "launch", "starting", "select", "join", "stop",
                 "stopping", "closePool", "awaitPool", "cancel", "exited", "killed"}
    /\ frpsFailed \in BOOLEAN
    /\ result \in {"none", "ok", "failed"}
    /\ notified \in BOOLEAN
    /\ signals \in 0..MaxSignals
    /\ server \in {"off", "listen", "serving", "draining", "returned"}
    /\ serverErr \in BOOLEAN
    /\ deadline \in BOOLEAN
    /\ pool \in {"none", "open", "closed"}
    /\ background \in {"off", "idle", "holding"}
    /\ request \in [Requests -> {"idle", "running", "holding", "answered", "failed", "cut"}]
    /\ main \in {"stop", "stopping", "closePool", "awaitPool", "cancel", "exited"} => result # "none"

(* Whatever ends the command - a signal, the end of frps, a listener, two  *)
(* of them at once - a request it has accepted loses the database, or is   *)
(* cut off, only when the 30 seconds are over (docs/cli.md:210-211). There *)
(* is one exception, which that page does not make: once frps has ended by *)
(* itself, cancel() (server.go:301) has also stopped the handling of       *)
(* signals, and one that comes during the drain cuts it short. A signal    *)
(* that comes first, or the end of a listener, leaves no such gap.         *)
DrainIsRespected ==
    \A q \in Requests :
        /\ request[q] = "failed" => deadline
        /\ request[q] = "cut" => deadline \/ (main = "killed" /\ frpsFailed)

(* When the command returns, by whichever of its returns, frps is gone and *)
(* no transaction is cut in its middle.                                    *)
NothingIsLeftBehind ==
    main = "exited" =>
        /\ \A i \in Frp!Runs : ~Frp!Alive(i)
        /\ \A q \in Requests : request[q] # "holding"
        /\ background # "holding"

(* The command reports success only after a signal: an frps that ends by   *)
(* itself, or a listener that fails, is an error (docs/cli.md:213-216).    *)
SuccessMeansSignal == result = "ok" => signals > 0

(* After a signal, the end of frps, or the end of the listeners the        *)
(* command ends, also when requests hang and frps ignores its signal.      *)
TheCommandEnds ==
    cancelled \/ server = "returned" \/ (proc[1] = "dead" /\ Up) ~> ~Up
=============================================================================
