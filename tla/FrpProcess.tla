----------------------------- MODULE FrpProcess -----------------------------
(***************************************************************************)
(* The supervisor of an frp subprocess (internal/frp/process.go) with its  *)
(* goroutines: callers of Start, Stop, Wait and RestartWithBackoff that    *)
(* run at the same time, and the goroutine of each run that waits for its  *)
(* process. What is done under the mutex is one step; a Stop signals and   *)
(* waits after it has let the mutex go.                                    *)
(***************************************************************************)
EXTENDS Integers, FiniteSets

CONSTANTS
    Callers,    (* goroutines, each with one call *)
    None,
    MaxRuns     (* bound: processes started *)

Runs == 1..MaxRuns

ASSUME CallersAssumption == None \notin Callers \union Runs /\ MaxRuns \in Nat \ {0}

VARIABLES
    running, current,   (* Process.running and Process.run *)
    proc,       (* the processes of the runs *)
    waiter,     (* the goroutine of a run *)
    cancelled,  (* the context given to Start *)
    pc, call, target,   (* the callers; target is the run Stop or Wait has read *)
    hit         (* runs that a caller has signalled or killed *)

process == <<running, current>>
callers == <<pc, call, target, hit>>
vars == <<process, proc, waiter, cancelled, callers>>

Alive(i) == proc[i] \in {"alive", "interrupted", "killed"}
Done(i) == waiter[i] = "closed"

Init ==
    /\ running = FALSE
    /\ current = None
    /\ proc = [i \in Runs |-> "none"]
    /\ waiter = [i \in Runs |-> "none"]
    /\ cancelled = FALSE
    /\ pc = [c \in Callers |-> "idle"]
    /\ call = [c \in Callers |-> None]
    /\ target = [c \in Callers |-> None]
    /\ hit = [c \in Callers |-> {}]

Goto(c, step) == pc' = [pc EXCEPT ![c] = step]

Call(c) ==
    /\ pc[c] = "idle"
    /\ \E m \in {"start", "stop", "wait", "restart"} :
          /\ call' = [call EXCEPT ![c] = m]
          /\ Goto(c, IF m = "restart" THEN "stop" ELSE m)
    /\ UNCHANGED <<process, proc, waiter, cancelled, target, hit>>

(* "already running", or a context that is done already.                   *)
MayStart == ~running /\ ~cancelled

(* Start, all of it under the mutex; the binary may be missing.            *)
Start(c) ==
    /\ pc[c] = "start"
    /\ Goto(c, "returned")
    /\ \/ UNCHANGED <<process, proc, waiter>>
       \/ /\ MayStart
          /\ \E i \in Runs :
                /\ proc[i] = "none"
                /\ \A j \in Runs : j < i => proc[j] # "none"
                /\ proc' = [proc EXCEPT ![i] = "alive"]
                /\ waiter' = [waiter EXCEPT ![i] = "waiting"]
                /\ current' = i
          /\ running' = TRUE
    /\ UNCHANGED <<cancelled, call, target, hit>>

(* After a Stop: its caller returns, or goes on with its restart.          *)
AfterStop(c) == Goto(c, IF call[c] = "restart" THEN "backoff" ELSE "returned")

(* Stop, under the mutex: what is to be stopped.                           *)
Stop(c) ==
    /\ pc[c] = "stop"
    /\ \/ /\ ~running
          /\ AfterStop(c)
          /\ UNCHANGED target
       \/ /\ running
          /\ target' = [target EXCEPT ![c] = current]
          /\ Goto(c, "signal")
    /\ UNCHANGED <<process, proc, waiter, cancelled, call, hit>>

Strike(c, i, blow) ==
    /\ proc' = [proc EXCEPT ![i] = IF Alive(i) /\ proc[i] # "killed" THEN blow ELSE @]
    /\ hit' = [hit EXCEPT ![c] = @ \union {i}]

(* A mutant: the process that is current by now is signalled.              *)
MutantInterrupt(c) ==
    /\ pc[c] = "signal"
    /\ Strike(c, current, "interrupted")
    /\ Goto(c, "stopping")
    /\ UNCHANGED <<process, waiter, cancelled, call, target>>

(* proc.Signal, which does nothing to a process that is gone.              *)
Interrupt(c) ==
    /\ pc[c] = "signal"
    /\ Strike(c, target[c], "interrupted")
    /\ Goto(c, "stopping")
    /\ UNCHANGED <<process, waiter, cancelled, call, target>>

(* select: <-done.                                                         *)
Stopped(c) ==
    /\ pc[c] \in {"stopping", "killing"}
    /\ Done(target[c])
    /\ AfterStop(c)
    /\ UNCHANGED <<process, proc, waiter, cancelled, call, target, hit>>

(* A mutant: after the timeout Stop returns without waiting for the end.   *)
MutantKill(c) ==
    /\ pc[c] = "stopping"
    /\ Strike(c, target[c], "killed")
    /\ AfterStop(c)
    /\ UNCHANGED <<process, waiter, cancelled, call, target>>

(* A mutant: after the timeout Stop only waits on.                         *)
MutantNoKill(c) ==
    /\ pc[c] = "stopping"
    /\ Goto(c, "killing")
    /\ UNCHANGED <<process, proc, waiter, cancelled, call, target, hit>>

(* select: the timeout; SIGKILL, and on to <-done.                         *)
Kill(c) ==
    /\ pc[c] = "stopping"
    /\ Strike(c, target[c], "killed")
    /\ Goto(c, "killing")
    /\ UNCHANGED <<process, waiter, cancelled, call, target>>

(* RestartWithBackoff: time.After and Start, or ctx.Done.                  *)
Backoff(c) ==
    /\ pc[c] = "backoff"
    /\ Goto(c, "start") \/ Goto(c, "returned")
    /\ UNCHANGED <<process, proc, waiter, cancelled, call, target, hit>>

(* Wait reads the run under the mutex, or finds that there was none.       *)
Wait(c) ==
    /\ pc[c] = "wait"
    /\ \/ current = None /\ Goto(c, "returned") /\ UNCHANGED target
       \/ /\ current # None
          /\ target' = [target EXCEPT ![c] = current]
          /\ Goto(c, "waiting")
    /\ UNCHANGED <<process, proc, waiter, cancelled, call, hit>>

(* <-run.done.                                                             *)
WaitEnds(c) ==
    /\ pc[c] = "waiting"
    /\ Done(target[c])
    /\ Goto(c, "returned")
    /\ UNCHANGED <<process, proc, waiter, cancelled, call, target, hit>>

-----------------------------------------------------------------------------
(* A process ends by itself, on its signal, or because it is killed.       *)
Exit(i) ==
    /\ Alive(i)
    /\ proc' = [proc EXCEPT ![i] = "dead"]
    /\ UNCHANGED <<process, waiter, cancelled, callers>>

(* A mutant: the flag is cleared before the process is waited for.         *)
MutantReap(i) ==
    /\ waiter[i] = "waiting"
    /\ running' = IF current = i THEN FALSE ELSE running
    /\ waiter' = [waiter EXCEPT ![i] = "reaped"]
    /\ UNCHANGED <<current, proc, cancelled, callers>>

(* cmd.Wait has returned; under the mutex, the flag is cleared.            *)
Reap(i) ==
    /\ waiter[i] = "waiting"
    /\ proc[i] = "dead"
    /\ running' = IF current = i THEN FALSE ELSE running
    /\ waiter' = [waiter EXCEPT ![i] = "reaped"]
    /\ UNCHANGED <<current, proc, cancelled, callers>>

(* close(run.done), after the mutex is let go.                             *)
Close(i) ==
    /\ waiter[i] = "reaped"
    /\ waiter' = [waiter EXCEPT ![i] = "closed"]
    /\ UNCHANGED <<process, proc, cancelled, callers>>

Cancel ==
    /\ ~cancelled
    /\ cancelled' = TRUE
    /\ UNCHANGED <<process, proc, waiter, callers>>

(* exec.CommandContext: its goroutine kills what runs, some time later.    *)
ContextKill(i) ==
    /\ cancelled
    /\ Alive(i)
    /\ proc[i] # "killed"
    /\ proc' = [proc EXCEPT ![i] = "killed"]
    /\ UNCHANGED <<process, waiter, cancelled, callers>>

CallerStep(c) ==
    \/ Start(c) \/ Stop(c) \/ Interrupt(c) \/ Stopped(c) \/ Kill(c)
    \/ Backoff(c) \/ Wait(c) \/ WaitEnds(c)

Next ==
    \/ \E c \in Callers : Call(c) \/ CallerStep(c)
    \/ \E i \in Runs : Exit(i) \/ Reap(i) \/ Close(i) \/ ContextKill(i)
    \/ Cancel

(* Goroutines run, timeouts elapse, and a killed process ends; a process   *)
(* that is only interrupted need not.                                      *)
Fairness ==
    /\ \A c \in Callers : WF_vars(CallerStep(c))
    /\ \A i \in Runs :
          /\ WF_vars(proc[i] = "killed" /\ Exit(i))
          /\ WF_vars(Reap(i)) /\ WF_vars(Close(i)) /\ WF_vars(ContextKill(i))

Spec == Init /\ [][Next]_vars
FairSpec == Spec /\ Fairness

-----------------------------------------------------------------------------
(* The flag and the run under the mutex, and what the goroutines have read.*)
TypeOK ==
    /\ running \in BOOLEAN
    /\ current \in Runs \union {None}
    /\ proc \in [Runs -> {"none", "alive", "interrupted", "killed", "dead"}]
    /\ waiter \in [Runs -> {"none", "waiting", "reaped", "closed"}]
    /\ cancelled \in BOOLEAN
    /\ pc \in [Callers -> {"idle", "start", "stop", "signal", "stopping", "killing", "backoff",
                           "wait", "waiting", "returned"}]
    /\ call \in [Callers -> {"start", "stop", "wait", "restart", None}]
    /\ target \in [Callers -> Runs \union {None}]
    /\ hit \in [Callers -> SUBSET Runs]
    /\ running => current \in Runs

(* There are never two processes, however Start, Stop and restarts race    *)
(* with each other and with the end of the process.                        *)
OneProcess == Cardinality({i \in Runs : Alive(i)}) <= 1

(* A Stop signals and kills the run it has seen under the mutex, never one *)
(* that was started since (process.go:87-89).                              *)
StopHitsItsRun == \A c \in Callers : hit[c] \subseteq {target[c]}

(* When Stop has returned, the process it was to stop is gone.             *)
StoppedIsDead ==
    \A c \in Callers :
        call[c] = "stop" /\ pc[c] = "returned" /\ target[c] # None => ~Alive(target[c])

(* Stop and RestartWithBackoff return, also for a process that does not    *)
(* heed its signal.                                                        *)
StopReturns ==
    \A c \in Callers : pc[c] \in {"signal", "stopping", "killing"} ~> pc[c] \in {"backoff", "returned"}
=============================================================================
