--------------------------- MODULE ServerRunProofs ---------------------------
(***************************************************************************)
(* Proofs about ServerRun, for any number of requests and signals. What is *)
(* proved of FrpProcess is taken over for the frps of the command.         *)
(***************************************************************************)
EXTENDS ServerRun, TLAPS

FrpP == INSTANCE FrpProcessProofs WITH Callers <- {"starter", "waiter", "stopper"}, MaxRuns <- 1

(* What is asked of FrpProcess's constants holds of those given here.      *)
LEMMA FrpAssumption ==
  /\ None \notin {"starter", "waiter", "stopper"} \union FrpP!Runs
  /\ 1 \in Nat \ {0}
  BY ServerRunAssumption DEF FrpP!Runs

-----------------------------------------------------------------------------
(* The invariant.                                                          *)

Early == {"boot", "connect", "schema", "launch", "starting"}
Late == {"stop", "stopping", "closePool", "awaitPool", "cancel", "exited"}

(* Where the main goroutine stands, the server has or has not been, and    *)
(* the database is or is not open; requests lose it only after a deadline. *)
(* Signals end the process only where no request is accepted yet or any    *)
(* more, and when frps has ended by itself.                                *)
HttpInv ==
    /\ main \in Early => server = "off"
    /\ main \in Late => server \in {"off", "returned"}
    /\ main \in {"schema", "launch", "starting", "select", "join", "stop", "stopping", "closePool"} =>
          pool = "open"
    /\ main \in {"boot", "connect"} => pool # "open" /\ background = "off"
    /\ main \in {"awaitPool", "cancel", "exited"} => pool # "open"
    /\ main \in {"cancel", "exited"} => background # "holding"
    /\ server \in {"off", "listen"} => \A q \in Requests : request[q] = "idle"
    /\ server = "returned" /\ ~deadline => \A q \in Requests : request[q] \notin {"running", "holding"}
    /\ main = "exited" => \A q \in Requests : request[q] # "holding"
    /\ ~notified => main \in {"boot", "killed", "exited"} \/ server = "returned" \/ frpsFailed
    /\ DrainIsRespected

(* Until the command decides otherwise only a signal ends the context, and *)
(* the server returns without an error only when the context has ended.    *)
SignalInv ==
    /\ main \in Early \union {"select"} /\ cancelled => signals > 0
    /\ main = "join" /\ cancelled /\ ~frpsFailed => signals > 0
    /\ server \in {"draining", "returned"} /\ ~serverErr => cancelled
    /\ SuccessMeansSignal

(* frps is started once, by the main goroutine, and its Stop comes last.   *)
FrpsInv ==
    /\ main \in Early => proc[1] = "none" /\ ~running
    /\ pc["starter"] = "start" => main \in {"starting", "killed"}
    /\ main \in Early \union {"select", "join", "stop"} => pc["stopper"] = "idle"
    /\ pc["stopper"] # "idle" => call["stopper"] = "stop"
    /\ pc["stopper"] = "returned" => ~Frp!Alive(1)
    /\ main \in {"closePool", "awaitPool", "cancel", "exited"} => ~Frp!Alive(1)
    /\ mode = "external" => proc[1] = "none" /\ main \notin {"launch", "starting"}

IInv == TypeOK /\ FrpP!IInv /\ HttpInv /\ SignalInv /\ FrpsInv

(* The initial state.                                                      *)
LEMMA InitIInv == Init => IInv
<1> SUFFICES ASSUME Init PROVE IInv
  OBVIOUS
<1>1. FrpP!Init
  BY DEF Init, Frp!Init, FrpP!Init, Frp!Runs, FrpP!Runs
<1>2. FrpP!IInv
  BY <1>1, FrpAssumption, FrpP!InitIInv
<1>3. TypeOK
  <2>1. signals \in 0..MaxSignals
    BY ServerRunAssumption DEF Init
  <2>2. request \in [Requests -> {"idle", "running", "holding", "answered", "failed", "cut"}]
    BY DEF Init
  <2>3. frpsFailed \in BOOLEAN /\ notified \in BOOLEAN /\ serverErr \in BOOLEAN /\ deadline \in BOOLEAN
    BY DEF Init
  <2> QED
    BY <2>1, <2>2, <2>3 DEF Init, TypeOK
<1>4. HttpInv /\ SignalInv
  <2>1. /\ main = "boot" /\ server = "off" /\ result = "none" /\ pool = "none" /\ background = "off"
        /\ \A q \in Requests : request[q] = "idle"
    BY DEF Init
  <2>2. ~cancelled
    BY DEF Init, Frp!Init
  <2> QED
    BY <2>1, <2>2 DEF HttpInv, SignalInv, Early, Late, DrainIsRespected,
       SuccessMeansSignal
<1>5. FrpsInv
  BY DEF Init, FrpsInv, Early, Frp!Init, Frp!Runs, Frp!Alive
<1> QED
  BY <1>2, <1>3, <1>4, <1>5 DEF IInv

-----------------------------------------------------------------------------
(* frps.                                                                   *)

(* Every step of the command is a step of FrpProcess or leaves it alone.   *)
LEMMA NextIsFrpStep == [Next]_vars => [Frp!Next]_(Frp!vars)
<1> SUFFICES ASSUME [Next]_vars PROVE [Frp!Next]_(Frp!vars)
  OBVIOUS
<1> USE DEF Frp!vars, Frp!process, Frp!callers, frps
<1>1. ASSUME UNCHANGED frps PROVE UNCHANGED Frp!vars
  BY <1>1
<1>2. ASSUME CancelContext PROVE [Frp!Next]_(Frp!vars)
  BY <1>1, <1>2 DEF CancelContext, Frp!Next
<1>3. ASSUME Boot \/ Connect \/ CheckSchema \/ ContextDone \/ Join \/ FrpsStopped \/ ClosePool \/ PoolClosed
      PROVE  UNCHANGED Frp!vars
  BY <1>1, <1>3 DEF Boot, Connect, CheckSchema, ContextDone, Join, FrpsStopped,
     ClosePool, PoolClosed
<1>4. ASSUME Launch \/ Launched \/ StopFrps \/ WaitForFrps PROVE Frp!Next
  BY <1>4 DEF Launch, Launched, StopFrps, WaitForFrps, Frp!Next, Frp!CallerStep
<1>5. ASSUME ServerEnded \/ FrpsEnded \/ Return PROVE [Frp!Next]_(Frp!vars)
  BY <1>1, <1>2, <1>5 DEF ServerEnded, FrpsEnded, Return
<1>6. ASSUME Signal PROVE [Frp!Next]_(Frp!vars)
  BY <1>1, <1>6 DEF Signal, Frp!Next
<1>7. ASSUME ServerStep \/ Pass \/ PassEnds PROVE UNCHANGED Frp!vars
  BY <1>1, <1>7 DEF ServerStep, Listen, Shutdown, Drained, DrainTimeout, Pass, PassEnds
<1>8. ASSUME NEW q \in Requests, Accept(q) \/ Acquire(q) \/ Release(q) \/ Answer(q)
      PROVE  UNCHANGED Frp!vars
  BY <1>1, <1>8 DEF Accept, Acquire, Release, Answer
<1>9. ASSUME FrpStep \/ FrpsExit PROVE Frp!Next
  <2>1. 1 \in Frp!Runs
    BY DEF Frp!Runs
  <2> QED
    BY <1>9, <2>1 DEF FrpStep, FrpsExit, Frp!Next, Frp!CallerStep
<1>10. CASE UNCHANGED vars
  BY <1>1, <1>10 DEF vars
<1> QED
  BY <1>3, <1>4, <1>5, <1>6, <1>7, <1>8, <1>9, <1>10 DEF Next, MainStep

(* The frps of the command behaves as FrpProcess.                          *)
THEOREM CommandRunsFrpProcess == Spec => Frp!Spec
<1>1. Init => Frp!Init
  BY DEF Init
<1> QED
  BY <1>1, NextIsFrpStep, PTL DEF Spec, Frp!Spec

-----------------------------------------------------------------------------
(* The command's own variables.                                            *)

(* Every step keeps the types.                                             *)
LEMMA NextTypeOK == TypeOK /\ [Next]_vars => TypeOK'
<1> SUFFICES ASSUME TypeOK, [Next]_vars PROVE TypeOK'
  OBVIOUS
<1> USE DEF TypeOK, command, http, Goto
<1>1. ASSUME Boot \/ Connect \/ CheckSchema PROVE TypeOK'
  BY <1>1 DEF Boot, Connect, CheckSchema
<1>2. ASSUME Launch \/ Launched PROVE TypeOK'
  BY <1>2 DEF Launch, Launched
<1>3. ASSUME ServerEnded \/ FrpsEnded \/ Return PROVE TypeOK'
  <2>1. notified' \in BOOLEAN
    BY <1>3 DEF ServerEnded, FrpsEnded, Return, CancelContext
  <2>2. frpsFailed' \in BOOLEAN
    BY <1>3 DEF ServerEnded, FrpsEnded, Return
  <2>3. CASE ServerEnded
    BY <2>1, <2>2, <2>3 DEF ServerEnded
  <2>4. CASE FrpsEnded
    BY <2>1, <2>2, <2>4 DEF FrpsEnded
  <2>5. CASE Return
    BY <2>1, <2>2, <2>5 DEF Return, CutRequests
  <2> QED
    BY <1>3, <2>3, <2>4, <2>5
<1>4. ASSUME ContextDone \/ Join PROVE TypeOK'
  BY <1>4 DEF ContextDone, Join
<1>5. ASSUME StopFrps \/ FrpsStopped \/ ClosePool \/ PoolClosed PROVE TypeOK'
  BY <1>5 DEF StopFrps, FrpsStopped, ClosePool, PoolClosed
<1>6. ASSUME Signal PROVE TypeOK'
  <2>1. signals' \in 0..MaxSignals
    BY <1>6, ServerRunAssumption DEF Signal
  <2> QED
    BY <1>6, <2>1 DEF Signal, CutRequests, Up
<1>7. ASSUME ServerStep PROVE TypeOK'
  <2>1. CASE Listen
    <3>1. server' \in {"serving", "returned"} /\ serverErr' \in BOOLEAN
      BY <2>1 DEF Listen
    <3> QED
      BY <2>1, <3>1 DEF Listen
  <2>2. CASE Shutdown
    <3>1. serverErr' \in BOOLEAN
      BY <2>2 DEF Shutdown
    <3> QED
      BY <2>2, <3>1 DEF Shutdown
  <2>3. CASE Drained
    BY <2>3 DEF Drained
  <2>4. CASE DrainTimeout
    BY <2>4 DEF DrainTimeout
  <2> QED
    BY <1>7, <2>1, <2>2, <2>3, <2>4 DEF ServerStep
<1>8. ASSUME Pass \/ PassEnds \/ WaitForFrps \/ FrpStep \/ FrpsExit PROVE TypeOK'
  BY <1>8 DEF Pass, PassEnds, WaitForFrps, FrpStep, FrpsExit
<1>9. ASSUME NEW q \in Requests, Accept(q) \/ Acquire(q) \/ Release(q) \/ Answer(q) PROVE TypeOK'
  BY <1>9 DEF Accept, Acquire, Release, Answer, Becomes
<1>10. CASE UNCHANGED vars
  BY <1>10 DEF vars
<1> QED
  BY <1>1, <1>2, <1>3, <1>4, <1>5, <1>6, <1>7, <1>8, <1>9, <1>10 DEF Next, MainStep

(* Every step keeps the invariant of the server and its database.          *)
LEMMA NextHttpInv == TypeOK /\ HttpInv /\ [Next]_vars => HttpInv'
<1> SUFFICES ASSUME TypeOK, HttpInv, [Next]_vars PROVE HttpInv'
  OBVIOUS
<1> USE DEF TypeOK, HttpInv, DrainIsRespected, Early, Late, command, http, Goto
<1>1. ASSUME Boot \/ Connect \/ CheckSchema PROVE HttpInv'
  BY <1>1 DEF Boot, Connect, CheckSchema
<1>2. ASSUME Launch \/ Launched PROVE HttpInv'
  BY <1>2 DEF Launch, Launched
<1>3. ASSUME ServerEnded \/ FrpsEnded \/ ContextDone \/ Join PROVE HttpInv'
  BY <1>3 DEF ServerEnded, FrpsEnded, ContextDone, Join
<1>4. ASSUME StopFrps \/ FrpsStopped \/ ClosePool PROVE HttpInv'
  BY <1>4 DEF StopFrps, FrpsStopped, ClosePool
<1>5. ASSUME PoolClosed PROVE HttpInv'
  BY <1>5 DEF PoolClosed, Holders
<1>6. ASSUME Return PROVE HttpInv'
  <2>1. \A q \in Requests : request'[q] = IF request[q] \in {"running", "holding"} THEN "cut" ELSE request[q]
    BY <1>6 DEF Return, CutRequests, Unfinished
  <2>2. ~deadline => \A q \in Requests : request[q] \notin {"running", "holding"}
    BY <1>6 DEF Return
  <2> QED
    BY <1>6, <2>1, <2>2 DEF Return
<1>7. ASSUME Signal PROVE HttpInv'
  <2>1. CASE notified
    BY <1>7, <2>1 DEF Signal, Up
  <2>2. CASE ~notified
    <3>1. \A q \in Requests : request'[q] = IF request[q] \in {"running", "holding"} THEN "cut" ELSE request[q]
      BY <1>7, <2>2 DEF Signal, CutRequests, Unfinished
    <3>2. main' = "killed" /\ main \notin {"killed", "exited"}
      BY <1>7, <2>2 DEF Signal, Up
    <3>3. (\E q \in Requests : request[q] \in {"running", "holding"}) => deadline \/ frpsFailed
      BY <2>2, <3>2
    <3> QED
      BY <1>7, <2>2, <3>1, <3>2, <3>3 DEF Signal
  <2> QED
    BY <2>1, <2>2
<1>8. ASSUME Up, ServerStep PROVE HttpInv'
  <2>1. \A q \in Requests : q \in Unfinished <=> request[q] \in {"running", "holding"}
    BY DEF Unfinished
  <2> QED
    BY <1>8, <2>1 DEF Up, ServerStep, Listen, Shutdown, Drained, DrainTimeout
<1>9. ASSUME Up, Pass \/ PassEnds \/ WaitForFrps \/ FrpStep PROVE HttpInv'
  BY <1>9 DEF Up, Pass, PassEnds, WaitForFrps, FrpStep
<1>10. ASSUME NEW q \in Requests, Up, Accept(q) \/ Acquire(q) \/ Release(q) \/ Answer(q) PROVE HttpInv'
  BY <1>10 DEF Up, Accept, Acquire, Release, Answer, Becomes
<1>11. CASE FrpsExit \/ UNCHANGED vars
  BY <1>11 DEF FrpsExit, vars
<1> QED
  BY <1>1, <1>2, <1>3, <1>4, <1>5, <1>6, <1>7, <1>8, <1>9, <1>10, <1>11 DEF
     Next, MainStep

(* Every step keeps the invariant of the context.                          *)
LEMMA NextSignalInv == TypeOK /\ HttpInv /\ SignalInv /\ [Next]_vars => SignalInv'
<1> SUFFICES ASSUME TypeOK, HttpInv, SignalInv, [Next]_vars PROVE SignalInv'
  OBVIOUS
<1> USE DEF TypeOK, HttpInv, SignalInv, SuccessMeansSignal, Early, Late, command, http, Goto
<1>1. ASSUME Boot \/ Connect \/ CheckSchema PROVE SignalInv'
  BY <1>1 DEF Boot, Connect, CheckSchema, frps
<1>2. ASSUME Launch \/ Launched PROVE SignalInv'
  BY <1>2 DEF Launch, Launched, Frp!Call, Frp!Start
<1>3. ASSUME CancelContext PROVE cancelled'
  BY <1>3 DEF CancelContext, Frp!Cancel, frps
<1>4. ASSUME ServerEnded PROVE SignalInv'
  BY <1>3, <1>4 DEF ServerEnded
<1>5. ASSUME FrpsEnded PROVE SignalInv'
  BY <1>3, <1>5 DEF FrpsEnded, frps
<1>6. ASSUME ContextDone \/ Join PROVE SignalInv'
  BY <1>6 DEF ContextDone, Join, frps
<1>7. ASSUME StopFrps PROVE SignalInv'
  BY <1>7 DEF StopFrps, Frp!Call
<1>8. ASSUME FrpsStopped \/ ClosePool \/ PoolClosed PROVE SignalInv'
  BY <1>8 DEF FrpsStopped, ClosePool, PoolClosed, frps
<1>9. ASSUME Return PROVE SignalInv'
  BY <1>3, <1>9 DEF Return
<1>10. ASSUME Signal PROVE SignalInv'
  <2>1. signals' > 0
    BY <1>10 DEF Signal
  <2>2. cancelled => cancelled'
    BY <1>10 DEF Signal, frps, Frp!Cancel
  <2> QED
    BY <1>10, <2>1, <2>2 DEF Signal, Up
<1>11. ASSUME ServerStep PROVE SignalInv'
  BY <1>11 DEF ServerStep, Listen, Shutdown, Drained, DrainTimeout, frps
<1>12. ASSUME WaitForFrps \/ FrpStep \/ FrpsExit PROVE SignalInv'
  <2>1. UNCHANGED cancelled
    BY <1>12 DEF WaitForFrps, FrpStep, FrpsExit, Frp!Call, Frp!Wait,
       Frp!WaitEnds, Frp!Stop, Frp!Interrupt,
                 Frp!Stopped, Frp!Kill, Frp!Reap, Frp!Close, Frp!ContextKill, Frp!Exit
  <2> QED
    BY <1>12, <2>1 DEF WaitForFrps, FrpStep, FrpsExit
<1>13. ASSUME NEW q \in Requests, Accept(q) \/ Acquire(q) \/ Release(q) \/ Answer(q) PROVE SignalInv'
  BY <1>13 DEF Accept, Acquire, Release, Answer, frps
<1>14. CASE Pass \/ PassEnds \/ UNCHANGED vars
  BY <1>14 DEF Pass, PassEnds, vars, frps
<1> QED
  BY <1>1, <1>2, <1>4, <1>5, <1>6, <1>7, <1>8, <1>9, <1>10, <1>11, <1>12, <1>13, <1>14
     DEF Next, MainStep

-----------------------------------------------------------------------------
(* The frps of the command.                                                *)

(* What is used of the invariant of FrpProcess.                            *)
LEMMA FrpFacts ==
  ASSUME FrpP!IInv
  PROVE  /\ pc \in [{"starter", "waiter", "stopper"} ->
                      {"idle", "start", "stop", "signal", "stopping", "killing", "backoff",
                       "wait", "waiting", "returned"}]
         /\ call \in [{"starter", "waiter", "stopper"} -> {"start", "stop", "wait", "restart", None}]
         /\ proc \in [{1} -> {"none", "alive", "interrupted", "killed", "dead"}]
         /\ Frp!Alive(1) => running
         /\ pc["stopper"] \in {"stopping", "killing"} /\ Frp!Done(target["stopper"]) => ~Frp!Alive(1)
<1> USE FrpAssumption DEF FrpP!Runs
<1>1. FrpP!Runs = {1}
  OBVIOUS
<1>2. FrpP!TypeOK /\ FrpP!RunInv /\ FrpP!CallerInv
  BY DEF FrpP!IInv
<1>3. /\ pc \in [{"starter", "waiter", "stopper"} ->
                   {"idle", "start", "stop", "signal", "stopping", "killing", "backoff",
                    "wait", "waiting", "returned"}]
      /\ call \in [{"starter", "waiter", "stopper"} -> {"start", "stop", "wait", "restart", None}]
      /\ proc \in [{1} -> {"none", "alive", "interrupted", "killed", "dead"}]
      /\ waiter \in [{1} -> {"none", "waiting", "reaped", "closed"}]
  BY <1>1, <1>2 DEF FrpP!TypeOK
<1>4. Frp!Alive(1) => running
  BY <1>1, <1>2, <1>3 DEF FrpP!RunInv, Frp!Alive
<1>5. pc["stopper"] \in {"stopping", "killing"} => target["stopper"] = 1
  BY <1>1, <1>2 DEF FrpP!CallerInv
<1>6. waiter[1] = "closed" => proc[1] = "dead"
  BY <1>1, <1>2 DEF FrpP!RunInv
<1> QED
  BY <1>3, <1>4, <1>5, <1>6 DEF Frp!Done, Frp!Alive

(* Every step keeps the invariant of frps.                                 *)
LEMMA NextFrpsInv == IInv /\ [Next]_vars => FrpsInv'
<1> SUFFICES ASSUME IInv, [Next]_vars PROVE FrpsInv'
  OBVIOUS
<1>1. TypeOK /\ FrpsInv
  BY DEF IInv
<1>2. /\ pc \in [{"starter", "waiter", "stopper"} ->
                   {"idle", "start", "stop", "signal", "stopping", "killing", "backoff",
                    "wait", "waiting", "returned"}]
      /\ call \in [{"starter", "waiter", "stopper"} -> {"start", "stop", "wait", "restart", None}]
      /\ proc \in [{1} -> {"none", "alive", "interrupted", "killed", "dead"}]
      /\ Frp!Alive(1) => running
      /\ pc["stopper"] \in {"stopping", "killing"} /\ Frp!Done(target["stopper"]) => ~Frp!Alive(1)
  BY FrpFacts DEF IInv
<1> USE <1>1, <1>2 DEF TypeOK, FrpsInv, Early, Late, Frp!Alive, command, Goto, Frp!Goto, Frp!process, Frp!callers
<1>3. ASSUME Boot \/ Connect \/ CheckSchema PROVE FrpsInv'
  BY <1>3 DEF Boot, Connect, CheckSchema, frps
<1>4. ASSUME Launch PROVE FrpsInv'
  BY <1>4 DEF Launch, Frp!Call
<1>5. ASSUME Launched PROVE FrpsInv'
  <2>1. pc["stopper"] = "idle" /\ mode # "external" /\ proc[1] = "none" /\ ~running
    BY <1>5 DEF Launched
  <2>2. pc' = [pc EXCEPT !["starter"] = "returned"] /\ UNCHANGED <<call, mode>>
    BY <1>5 DEF Launched, Frp!Start
  <2>3. CASE running'
    BY <1>5, <2>1, <2>2, <2>3 DEF Launched
  <2>4. CASE ~running'
    <3>1. UNCHANGED proc
      BY <1>5, <2>4 DEF Launched, Frp!Start
    <3> QED
      BY <1>5, <2>1, <2>2, <2>4, <3>1 DEF Launched
  <2> QED
    BY <2>3, <2>4
<1>6. ASSUME CancelContext PROVE UNCHANGED <<running, proc, pc, call, target>>
  BY <1>6 DEF CancelContext, Frp!Cancel, frps
<1>7. ASSUME ServerEnded \/ FrpsEnded \/ Return PROVE FrpsInv'
  <2>1. UNCHANGED <<mode, running, proc, pc, call, target>>
    BY <1>6, <1>7 DEF ServerEnded, FrpsEnded, Return, frps
  <2> QED
    BY <1>7, <2>1 DEF ServerEnded, FrpsEnded, Return
<1>8. ASSUME ContextDone \/ Join \/ FrpsStopped \/ ClosePool \/ PoolClosed PROVE FrpsInv'
  BY <1>8 DEF ContextDone, Join, FrpsStopped, ClosePool, PoolClosed, frps
<1>9. ASSUME StopFrps PROVE FrpsInv'
  BY <1>9 DEF StopFrps, Frp!Call
<1>10. ASSUME Signal PROVE FrpsInv'
  <2>1. UNCHANGED <<mode, running, proc, pc, call, target>>
    BY <1>10 DEF Signal, Frp!Cancel, frps
  <2>2. main' \in {main, "killed"}
    BY <1>10 DEF Signal
  <2> QED
    BY <2>1, <2>2
<1>11. ASSUME WaitForFrps PROVE FrpsInv'
  BY <1>11 DEF WaitForFrps, Frp!Call
<1>12. ASSUME FrpStep PROVE FrpsInv'
  <2>1. UNCHANGED <<mode, main, call>>
    BY <1>12 DEF FrpStep, Frp!Wait, Frp!WaitEnds, Frp!Stop, Frp!Interrupt,
       Frp!Stopped, Frp!Kill, Frp!Reap,
                 Frp!Close, Frp!ContextKill
  <2>2. ASSUME NEW s \in {"waiter", "stopper"}, Frp!Wait(s) \/ Frp!WaitEnds(s) \/ Frp!Stop(s) \/ Frp!Stopped(s)
        PROVE  UNCHANGED <<running, proc>>
    BY <2>2 DEF Frp!Wait, Frp!WaitEnds, Frp!Stop, Frp!Stopped
  <2>3. CASE Frp!Wait("waiter") \/ Frp!WaitEnds("waiter")
    BY <2>1, <2>2, <2>3 DEF Frp!Wait, Frp!WaitEnds
  <2>4. CASE Frp!Stop("stopper") \/ Frp!Stopped("stopper")
    BY <2>1, <2>2, <2>4 DEF Frp!Stop, Frp!Stopped, Frp!AfterStop
  <2>5. CASE Frp!Interrupt("stopper") \/ Frp!Kill("stopper")
    <3>1. Frp!Alive(1)' <=> Frp!Alive(1)
      BY <2>5 DEF Frp!Interrupt, Frp!Kill, Frp!Strike
    <3>2. proc[1] = "none" => proc'[1] = "none"
      BY <2>5 DEF Frp!Interrupt, Frp!Kill, Frp!Strike
    <3> QED
      BY <2>1, <2>5, <3>1, <3>2 DEF Frp!Interrupt, Frp!Kill, Frp!Strike
  <2>6. CASE Frp!Reap(1) \/ Frp!Close(1)
    <3>1. UNCHANGED <<proc, pc>>
      BY <2>6 DEF Frp!Reap, Frp!Close
    <3>2. ~running => ~running'
      BY <2>6 DEF Frp!Reap, Frp!Close
    <3> QED
      BY <2>1, <3>1, <3>2
  <2>7. CASE Frp!ContextKill(1)
    BY <2>1, <2>7 DEF Frp!ContextKill
  <2> QED
    BY <1>12, <2>3, <2>4, <2>5, <2>6, <2>7 DEF FrpStep
<1>13. ASSUME FrpsExit PROVE FrpsInv'
  BY <1>13 DEF FrpsExit, Frp!Exit
<1>14. ASSUME ServerStep \/ Pass \/ PassEnds PROVE FrpsInv'
  BY <1>14 DEF ServerStep, Listen, Shutdown, Drained, DrainTimeout, Pass, PassEnds, frps
<1>15. ASSUME NEW q \in Requests, Accept(q) \/ Acquire(q) \/ Release(q) \/ Answer(q) PROVE FrpsInv'
  BY <1>15 DEF Accept, Acquire, Release, Answer, frps
<1>16. CASE UNCHANGED vars
  BY <1>16 DEF vars, frps
<1> QED
  BY <1>3, <1>4, <1>5, <1>7, <1>8, <1>9, <1>10, <1>11, <1>12, <1>13, <1>14,
     <1>15, <1>16 DEF Next, MainStep

-----------------------------------------------------------------------------
(* The results.                                                            *)

(* That step, as FrpProcessProofs names it.                                *)
LEMMA NextIsFrpPStep == [Next]_vars => [FrpP!Next]_(FrpP!vars)
  BY NextIsFrpStep
  DEF Frp!Next, FrpP!Next, Frp!vars, FrpP!vars, Frp!process, FrpP!process, Frp!callers, FrpP!callers,
      Frp!Runs, FrpP!Runs, Frp!Call, FrpP!Call, Frp!Goto, FrpP!Goto, Frp!CallerStep, FrpP!CallerStep,
      Frp!Start, FrpP!Start, Frp!MayStart, FrpP!MayStart, Frp!Stop, FrpP!Stop,
      Frp!AfterStop, FrpP!AfterStop, Frp!Interrupt, FrpP!Interrupt, Frp!Strike, FrpP!Strike,
      Frp!Alive, FrpP!Alive, Frp!Done, FrpP!Done, Frp!Stopped, FrpP!Stopped, Frp!Kill, FrpP!Kill,
      Frp!Backoff, FrpP!Backoff, Frp!Wait, FrpP!Wait, Frp!WaitEnds, FrpP!WaitEnds,
      Frp!Exit, FrpP!Exit, Frp!Reap, FrpP!Reap, Frp!Close, FrpP!Close, Frp!Cancel, FrpP!Cancel,
      Frp!ContextKill, FrpP!ContextKill

(* Every step keeps the invariant.                                         *)
LEMMA NextIInv == IInv /\ [Next]_vars => IInv'
<1>1. FrpP!IInv /\ [Next]_vars => FrpP!IInv'
  BY NextIsFrpPStep, FrpAssumption, FrpP!NextIInv
<1> QED
  BY <1>1, NextTypeOK, NextHttpInv, NextSignalInv, NextFrpsInv DEF IInv

(* The invariant holds in every behaviour.                                 *)
THEOREM Invariant == Spec => []IInv
<1> QED
  BY InitIInv, NextIInv, PTL DEF Spec

(* The command's own variables keep their types.                           *)
THEOREM TypeCorrect == Spec => []TypeOK
<1>1. IInv => TypeOK
  BY DEF IInv
<1> QED
  BY Invariant, <1>1, PTL

(* Requests lose the database only by the deadline, and their connection   *)
(* by the deadline or by a signal after frps has ended by itself.          *)
THEOREM RequestsAreDrained == Spec => []DrainIsRespected
<1>1. IInv => DrainIsRespected
  BY DEF IInv, HttpInv
<1> QED
  BY Invariant, <1>1, PTL

(* However the command returns, no frps and no transaction is left.        *)
THEOREM CleanExit == Spec => []NothingIsLeftBehind
<1>1. IInv => NothingIsLeftBehind
  BY DEF IInv, HttpInv, FrpsInv, NothingIsLeftBehind, Frp!Runs
<1> QED
  BY Invariant, <1>1, PTL

(* The command does not report success without a signal.                   *)
THEOREM FailuresAreReported == Spec => []SuccessMeansSignal
<1>1. IInv => SuccessMeansSignal
  BY DEF IInv, SignalInv
<1> QED
  BY Invariant, <1>1, PTL

-----------------------------------------------------------------------------
(* The end of the command: its steps are bounded, and from the moment it   *)
(* is to end there is always one that can be taken.                        *)

(* What the goroutines and frps have still to do, from where they are.     *)
MainLeft(statement) ==
    CASE statement = "boot" -> 12
      [] statement = "connect" -> 11
      [] statement = "schema" -> 10
      [] statement = "launch" -> 9
      [] statement = "starting" -> 8
      [] statement = "select" -> 7
      [] statement = "join" -> 6
      [] statement = "stop" -> 5
      [] statement = "stopping" -> 4
      [] statement = "closePool" -> 3
      [] statement = "awaitPool" -> 2
      [] statement = "cancel" -> 1
      [] statement \in {"exited", "killed"} -> 0

ServerLeft(state) ==
    CASE state = "off" -> 4
      [] state = "listen" -> 3
      [] state = "serving" -> 2
      [] state = "draining" -> 1
      [] state = "returned" -> 0

WaitLeft(step) ==
    CASE step = "idle" -> 3
      [] step = "wait" -> 2
      [] step = "waiting" -> 1
      [] step = "returned" -> 0

StopLeft(step) ==
    CASE step = "idle" -> 5
      [] step = "stop" -> 4
      [] step = "signal" -> 3
      [] step = "stopping" -> 2
      [] step = "killing" -> 1
      [] step = "returned" -> 0

FrpsLeft(state, goroutine) ==
    CASE state = "none" -> 5
      [] state \in {"alive", "interrupted"} -> 4
      [] state = "killed" -> 3
      [] state = "dead" /\ goroutine = "waiting" -> 2
      [] state = "dead" /\ goroutine = "reaped" -> 1
      [] state = "dead" /\ goroutine = "closed" -> 0

StepsLeft ==
    MainLeft(main) + ServerLeft(server) + WaitLeft(pc["waiter"]) + StopLeft(pc["stopper"])
        + FrpsLeft(proc[1], waiter[1])

CommandStep == MainStep \/ ServerStep \/ WaitForFrps \/ FrpStep \/ FrpsExit

(* It is to end: a signal, the end of the listeners, or that of frps.      *)
Ending == Up /\ (cancelled \/ server = "returned" \/ proc[1] = "dead")

(* The end of frps is on its way to the goroutine in Wait.                 *)
WaitMoves ==
    \/ pc["waiter"] \in {"idle", "wait", "returned"}
    \/ Frp!Done(1)
    \/ waiter[1] = "reaped"
    \/ waiter[1] = "waiting" /\ proc[1] = "dead"

(* Where the main goroutine waits, what it waits for is done or has a      *)
(* step to take: of StartServer, of Wait, of Stop. (At "awaitPool" it is   *)
(* the statements of the requests and of the reaper, which end.)           *)
SomebodyMoves ==
    /\ main = "launch" => pc["starter"] = "idle"
    /\ main = "starting" => pc["starter"] = "start"
    /\ main = "select" => cancelled \/ server = "returned" \/ WaitMoves
    /\ main = "join" => server \in {"listen", "draining", "returned"} \/ (server = "serving" /\ cancelled)
    /\ main = "stop" => pc["stopper"] = "idle"
    /\ main = "stopping" => pc["stopper"] \in {"stop", "returned"} \/ FrpP!SomebodyMoves("stopper")

(* Where the goroutines around frps stand while the main one is where it   *)
(* is, and why the command that joins StartServer is about to end.         *)
EndInv ==
    /\ main \in {"boot", "connect", "schema", "launch"} => pc["starter"] = "idle"
    /\ main = "starting" => pc["starter"] = "start"
    /\ main \in {"select", "join"} => server # "off"
    /\ main = "join" /\ mode = "subprocess" => cancelled
    /\ pc["waiter"] \in {"idle", "wait", "waiting", "returned"}
    /\ pc["stopper"] \in {"idle", "stop", "signal", "stopping", "killing", "returned"}
    /\ main = "stopping" => pc["stopper"] # "idle"
    /\ FrpP!StopInv

(* A step of the command leaves it fewer; what requests, the reaper and    *)
(* further signals do never leaves it more; and it is never stuck.         *)
CommandDescends ==
    /\ StepsLeft \in 0..29
    /\ StepsLeft' <= StepsLeft
    /\ CommandStep => StepsLeft' < StepsLeft
    /\ Ending => SomebodyMoves
CommandRunsOut == [][CommandDescends]_vars

(* What else is used of the invariant of FrpProcess.                       *)
LEMMA FrpRun ==
  ASSUME FrpP!IInv
  PROVE  /\ waiter \in [{1} -> {"none", "waiting", "reaped", "closed"}]
         /\ proc[1] = "none" <=> waiter[1] = "none"
         /\ waiter[1] \in {"reaped", "closed"} => proc[1] = "dead"
         /\ pc["waiter"] = "waiting" => target["waiter"] = 1
         /\ pc["stopper"] \in {"signal", "stopping", "killing"} => target["stopper"] = 1
<1> USE FrpAssumption DEF FrpP!Runs
<1>1. FrpP!TypeOK /\ FrpP!RunInv /\ FrpP!CallerInv /\ FrpP!Runs = {1}
  BY DEF FrpP!IInv
<1> QED
  BY <1>1 DEF FrpP!TypeOK, FrpP!RunInv, FrpP!CallerInv

(* What is left is a number.                                               *)
LEMMA LeftIsANumber ==
  ASSUME IInv, EndInv
  PROVE  /\ MainLeft(main) \in 0..12 /\ ServerLeft(server) \in 0..4
         /\ WaitLeft(pc["waiter"]) \in 0..3 /\ StopLeft(pc["stopper"]) \in 0..5
         /\ FrpsLeft(proc[1], waiter[1]) \in 0..5
         /\ StepsLeft \in 0..29
<1>1. MainLeft(main) \in 0..12
  BY DEF IInv, TypeOK, MainLeft
<1>2. ServerLeft(server) \in 0..4
  BY DEF IInv, TypeOK, ServerLeft
<1>3. WaitLeft(pc["waiter"]) \in 0..3
  BY DEF EndInv, WaitLeft
<1>4. StopLeft(pc["stopper"]) \in 0..5
  BY DEF EndInv, StopLeft
<1>5. FrpsLeft(proc[1], waiter[1]) \in 0..5
  <2>1. /\ proc[1] \in {"none", "alive", "interrupted", "killed", "dead"}
        /\ proc[1] = "dead" => waiter[1] \in {"waiting", "reaped", "closed"}
    BY FrpFacts, FrpRun DEF IInv
  <2> QED
    BY <2>1 DEF FrpsLeft
<1> QED
  BY <1>1, <1>2, <1>3, <1>4, <1>5 DEF StepsLeft

(* The main goroutine goes on from statement to statement.                 *)
LEMMA MainDescends ==
  ASSUME TypeOK, [Next]_vars
  PROVE  /\ MainLeft(main') <= MainLeft(main)
         /\ MainStep => MainLeft(main') < MainLeft(main)
<1>1. MainLeft(main) \in 0..12
  BY DEF TypeOK, MainLeft
<1> USE DEF Goto
<1>2. ASSUME Boot \/ Connect \/ CheckSchema \/ Launch \/ Launched
      PROVE  MainLeft(main') < MainLeft(main)
  <2>1. \/ main = "boot" /\ main' \in {"exited", "connect"}
        \/ main = "connect" /\ main' \in {"cancel", "schema"}
        \/ main = "schema" /\ main' \in {"closePool", "join", "launch"}
        \/ main = "launch" /\ main' = "starting"
        \/ main = "starting" /\ main' \in {"select", "closePool"}
    BY <1>2 DEF Boot, Connect, CheckSchema, Launch, Launched
  <2> QED
    BY <2>1 DEF MainLeft
<1>3. ASSUME ServerEnded \/ FrpsEnded \/ ContextDone \/ Join
      PROVE  MainLeft(main') < MainLeft(main)
  <2>1. \/ main = "select" /\ main' \in {"stop", "join"}
        \/ main = "join" /\ main' \in {"closePool", "stop"}
    BY <1>3 DEF ServerEnded, FrpsEnded, ContextDone, Join
  <2> QED
    BY <2>1 DEF MainLeft
<1>4. ASSUME StopFrps \/ FrpsStopped \/ ClosePool \/ PoolClosed \/ Return
      PROVE  MainLeft(main') < MainLeft(main)
  <2>1. \/ main = "stop" /\ main' = "stopping"
        \/ main = "stopping" /\ main' = "closePool"
        \/ main = "closePool" /\ main' = "awaitPool"
        \/ main = "awaitPool" /\ main' = "cancel"
        \/ main = "cancel" /\ main' = "exited"
    BY <1>4 DEF StopFrps, FrpsStopped, ClosePool, PoolClosed, Return
  <2> QED
    BY <2>1 DEF MainLeft
<1>5. MainStep => MainLeft(main') < MainLeft(main)
  BY <1>2, <1>3, <1>4 DEF MainStep
<1>6. MainStep \/ main' = main \/ main' = "killed"
  BY DEF Next, Signal, ServerStep, Listen, Shutdown, Drained, DrainTimeout, WaitForFrps, FrpStep, FrpsExit,
     Pass, PassEnds, Accept, Acquire, Release, Answer, vars, command
<1>7. main' = "killed" => MainLeft(main') = 0
  BY DEF MainLeft
<1>8. main' = main => MainLeft(main') = MainLeft(main)
  OBVIOUS
<1>9. MainStep => MainLeft(main') <= MainLeft(main)
  <2>1. MainStep => main' \in {"connect", "schema", "launch", "starting", "select", "join", "stop",
                               "stopping", "closePool", "awaitPool", "cancel", "exited"}
    BY DEF MainStep, Boot, Connect, CheckSchema, Launch, Launched, ServerEnded, FrpsEnded, ContextDone, Join,
       StopFrps, FrpsStopped, ClosePool, PoolClosed, Return
  <2>2. MainStep => MainLeft(main') \in Int
    BY <2>1 DEF MainLeft
  <2> QED
    BY <1>1, <1>5, <2>2
<1> QED
  BY <1>1, <1>5, <1>6, <1>7, <1>8, <1>9

(* StartServer goes on from its start to its return.                       *)
LEMMA ServerDescends ==
  ASSUME TypeOK, HttpInv, [Next]_vars
  PROVE  /\ ServerLeft(server') <= ServerLeft(server)
         /\ ServerStep => ServerLeft(server') < ServerLeft(server)
<1>1. ServerLeft(server) \in 0..4
  BY DEF TypeOK, ServerLeft
<1>2. ASSUME ServerStep PROVE ServerLeft(server') < ServerLeft(server)
  <2>1. \/ server = "listen" /\ server' \in {"serving", "returned"}
        \/ server = "serving" /\ server' = "draining"
        \/ server = "draining" /\ server' = "returned"
    BY <1>2 DEF ServerStep, Listen, Shutdown, Drained, DrainTimeout
  <2> QED
    BY <2>1 DEF ServerLeft
<1>3. ASSUME CheckSchema \/ Launched PROVE server' = server \/ (server = "off" /\ server' = "listen")
  BY <1>3 DEF CheckSchema, Launched, HttpInv, Early
<1>4. \/ ServerStep \/ server' = server \/ (server = "off" /\ server' = "listen")
  BY <1>3 DEF Next, MainStep, Boot, Connect, Launch, ServerEnded, FrpsEnded, ContextDone, Join,
     StopFrps, FrpsStopped, ClosePool, PoolClosed, Return, Signal, WaitForFrps, FrpStep, FrpsExit,
     Pass, PassEnds, Accept, Acquire, Release, Answer, vars, http
<1>5. server = "off" /\ server' = "listen" => ServerLeft(server') < ServerLeft(server)
  BY DEF ServerLeft
<1>6. ServerStep \/ server' = "listen" => ServerLeft(server') \in Int
  BY DEF ServerStep, Listen, Shutdown, Drained, DrainTimeout, ServerLeft
<1> QED
  BY <1>1, <1>2, <1>4, <1>5, <1>6

(* The goroutine in Wait, and the main one within Stop, go on through the  *)
(* two calls; no other step moves them.                                    *)
LEMMA CallsDescend ==
  ASSUME IInv, EndInv, [Next]_vars
  PROVE  /\ \/ pc'["waiter"] = pc["waiter"]
            \/ pc["waiter"] = "idle" /\ pc'["waiter"] = "wait" /\ WaitForFrps
            \/ pc["waiter"] = "wait" /\ pc'["waiter"] \in {"waiting", "returned"} /\ Frp!Wait("waiter")
            \/ pc["waiter"] = "waiting" /\ pc'["waiter"] = "returned" /\ Frp!WaitEnds("waiter")
         /\ \/ pc'["stopper"] = pc["stopper"]
            \/ pc["stopper"] = "idle" /\ pc'["stopper"] = "stop" /\ StopFrps
            \/ pc["stopper"] = "stop" /\ pc'["stopper"] \in {"signal", "returned"}
            \/ pc["stopper"] = "signal" /\ pc'["stopper"] = "stopping"
            \/ pc["stopper"] = "stopping" /\ pc'["stopper"] \in {"killing", "returned"}
            \/ pc["stopper"] = "killing" /\ pc'["stopper"] = "returned"
<1> DEFINE Goal == /\ \/ pc'["waiter"] = pc["waiter"]
                      \/ pc["waiter"] = "idle" /\ pc'["waiter"] = "wait" /\ WaitForFrps
                      \/ /\ pc["waiter"] = "wait" /\ pc'["waiter"] \in {"waiting", "returned"}
                         /\ Frp!Wait("waiter")
                      \/ pc["waiter"] = "waiting" /\ pc'["waiter"] = "returned" /\ Frp!WaitEnds("waiter")
                   /\ \/ pc'["stopper"] = pc["stopper"]
                      \/ pc["stopper"] = "idle" /\ pc'["stopper"] = "stop" /\ StopFrps
                      \/ pc["stopper"] = "stop" /\ pc'["stopper"] \in {"signal", "returned"}
                      \/ pc["stopper"] = "signal" /\ pc'["stopper"] = "stopping"
                      \/ pc["stopper"] = "stopping" /\ pc'["stopper"] \in {"killing", "returned"}
                      \/ pc["stopper"] = "killing" /\ pc'["stopper"] = "returned"
<1>1. /\ pc \in [{"starter", "waiter", "stopper"} ->
                   {"idle", "start", "stop", "signal", "stopping", "killing", "backoff",
                    "wait", "waiting", "returned"}]
      /\ call \in [{"starter", "waiter", "stopper"} -> {"start", "stop", "wait", "restart", None}]
      /\ pc["stopper"] # "idle" => call["stopper"] = "stop"
  BY FrpFacts DEF IInv, FrpsInv
<1> USE DEF Frp!Goto
<1>2. ASSUME UNCHANGED pc PROVE Goal
  BY <1>2
<1>3. ASSUME Launch \/ Launched PROVE Goal
  BY <1>1, <1>3 DEF Launch, Launched, Frp!Call, Frp!Start
<1>4. ASSUME StopFrps PROVE Goal
  BY <1>1, <1>4 DEF StopFrps, Frp!Call
<1>5. ASSUME WaitForFrps PROVE Goal
  BY <1>1, <1>5 DEF WaitForFrps, Frp!Call
<1>6. ASSUME Frp!Wait("waiter") \/ Frp!WaitEnds("waiter") PROVE Goal
  BY <1>1, <1>6 DEF Frp!Wait, Frp!WaitEnds
<1>7. ASSUME Frp!Stop("stopper") \/ Frp!Stopped("stopper") PROVE Goal
  BY <1>1, <1>7 DEF Frp!Stop, Frp!Stopped, Frp!AfterStop
<1>8. ASSUME Frp!Interrupt("stopper") \/ Frp!Kill("stopper") PROVE Goal
  BY <1>1, <1>8 DEF Frp!Interrupt, Frp!Kill
<1>9. ASSUME \/ Frp!Reap(1) \/ Frp!Close(1) \/ Frp!ContextKill(1) \/ FrpsExit \/ Signal \/ CancelContext
             \/ UNCHANGED frps
      PROVE  UNCHANGED pc
  BY <1>9 DEF Frp!Reap, Frp!Close, Frp!ContextKill, FrpsExit, Frp!Exit, Signal, CancelContext, Frp!Cancel,
     Frp!callers, frps
<1>10. ASSUME ServerEnded \/ FrpsEnded \/ Return PROVE UNCHANGED pc
  BY <1>9, <1>10 DEF ServerEnded, FrpsEnded, Return
<1>11. ASSUME Boot \/ Connect \/ CheckSchema \/ ContextDone \/ Join \/ FrpsStopped \/ ClosePool \/ PoolClosed
       PROVE  UNCHANGED pc
  BY <1>9, <1>11 DEF Boot, Connect, CheckSchema, ContextDone, Join, FrpsStopped, ClosePool, PoolClosed
<1>12. ASSUME \/ ServerStep \/ Pass \/ PassEnds
              \/ \E q \in Requests : Accept(q) \/ Acquire(q) \/ Release(q) \/ Answer(q)
       PROVE  UNCHANGED pc
  BY <1>9, <1>12 DEF ServerStep, Listen, Shutdown, Drained, DrainTimeout, Pass, PassEnds,
     Accept, Acquire, Release, Answer
<1>13. UNCHANGED vars => UNCHANGED frps
  BY DEF vars
<1> HIDE DEF Goal
<1>14. FrpStep => Goal
  BY <1>2, <1>6, <1>7, <1>8, <1>9 DEF FrpStep
<1>15. MainStep => Goal
  BY <1>2, <1>3, <1>4, <1>10, <1>11 DEF MainStep
<1>16. Goal
  BY <1>2, <1>5, <1>9, <1>12, <1>13, <1>14, <1>15 DEF Next
<1> QED
  BY <1>16 DEF Goal

(* frps goes on from not being started to being dead and reported.         *)
LEMMA FrpsDescends ==
  ASSUME IInv, [Next]_vars
  PROVE  /\ FrpsLeft(proc'[1], waiter'[1]) <= FrpsLeft(proc[1], waiter[1])
         /\ FrpsExit \/ Frp!Reap(1) \/ Frp!Close(1) \/ Frp!ContextKill(1) =>
               FrpsLeft(proc'[1], waiter'[1]) < FrpsLeft(proc[1], waiter[1])
<1>1. /\ proc \in [{1} -> {"none", "alive", "interrupted", "killed", "dead"}]
      /\ waiter \in [{1} -> {"none", "waiting", "reaped", "closed"}]
      /\ proc[1] = "none" <=> waiter[1] = "none"
      /\ waiter[1] \in {"reaped", "closed"} => proc[1] = "dead"
  BY FrpFacts, FrpRun DEF IInv
<1>2. FrpsLeft(proc[1], waiter[1]) \in 0..5
  BY <1>1 DEF FrpsLeft
<1> DEFINE Stays == proc'[1] = proc[1] /\ waiter'[1] = waiter[1]
           Struck == /\ proc[1] \in {"alive", "interrupted", "killed", "dead"}
                     /\ waiter'[1] = waiter[1]
                     /\ \/ proc'[1] = proc[1]
                        \/ proc[1] # "dead" /\ proc'[1] = "killed"
                        \/ proc[1] = "alive" /\ proc'[1] = "interrupted"
           Started == proc[1] = "none" /\ proc'[1] = "alive"
           Onward == FrpsExit \/ Frp!Reap(1) \/ Frp!Close(1) \/ Frp!ContextKill(1)
<1>3. ASSUME Onward PROVE FrpsLeft(proc'[1], waiter'[1]) < FrpsLeft(proc[1], waiter[1])
  <2>1. \/ /\ proc[1] \in {"alive", "interrupted", "killed"} /\ waiter[1] = "waiting"
           /\ proc'[1] = "dead" /\ waiter'[1] = "waiting"
        \/ proc[1] = "dead" /\ proc'[1] = "dead" /\ waiter[1] = "waiting" /\ waiter'[1] = "reaped"
        \/ proc[1] = "dead" /\ proc'[1] = "dead" /\ waiter[1] = "reaped" /\ waiter'[1] = "closed"
        \/ proc[1] \in {"alive", "interrupted"} /\ proc'[1] = "killed"
    BY <1>1, <1>3 DEF FrpsExit, Frp!Exit, Frp!Alive, Frp!Reap, Frp!Close, Frp!ContextKill
  <2> QED
    BY <2>1 DEF FrpsLeft
<1>4. ASSUME Struck PROVE FrpsLeft(proc'[1], waiter'[1]) <= FrpsLeft(proc[1], waiter[1])
  <2>1. CASE proc'[1] = proc[1]
    BY <1>2, <1>4, <2>1
  <2>2. CASE proc'[1] # proc[1]
    BY <1>1, <1>4, <2>2 DEF FrpsLeft
  <2> QED
    BY <2>1, <2>2
<1>5. ASSUME Started PROVE FrpsLeft(proc'[1], waiter'[1]) <= FrpsLeft(proc[1], waiter[1])
  BY <1>5 DEF FrpsLeft
<1>6. ASSUME Stays PROVE FrpsLeft(proc'[1], waiter'[1]) <= FrpsLeft(proc[1], waiter[1])
  BY <1>2, <1>6
<1>7. ASSUME Launched PROVE Stays \/ Started
  BY <1>1, <1>7 DEF Launched, Frp!Start, Frp!Runs
<1>8. ASSUME Frp!Interrupt("stopper") \/ Frp!Kill("stopper") PROVE Stays \/ Struck
  <2>1. target["stopper"] = 1 /\ waiter' = waiter
    BY <1>8, FrpRun DEF IInv, Frp!Interrupt, Frp!Kill
  <2>2. PICK blow \in {"interrupted", "killed"} :
           proc'[1] = IF Frp!Alive(1) /\ proc[1] # "killed" THEN blow ELSE proc[1]
    BY <1>1, <1>8, <2>1 DEF Frp!Interrupt, Frp!Kill, Frp!Strike
  <2>3. CASE Frp!Alive(1) /\ proc[1] # "killed"
    <3>1. proc[1] \in {"alive", "interrupted"} /\ proc'[1] = blow
      BY <2>2, <2>3 DEF Frp!Alive
    <3>2. CASE blow = "killed"
      BY <2>1, <3>1, <3>2
    <3>3. CASE blow = "interrupted"
      BY <2>1, <3>1, <3>3
    <3> QED
      BY <3>2, <3>3
  <2>4. CASE ~(Frp!Alive(1) /\ proc[1] # "killed")
    BY <2>1, <2>2, <2>4
  <2> QED
    BY <2>3, <2>4
<1>9. ASSUME \/ Frp!Wait("waiter") \/ Frp!WaitEnds("waiter") \/ Frp!Stop("stopper") \/ Frp!Stopped("stopper")
             \/ WaitForFrps \/ Launch \/ StopFrps \/ Signal \/ CancelContext \/ UNCHANGED frps
      PROVE  Stays
  BY <1>9 DEF Frp!Wait, Frp!WaitEnds, Frp!Stop, Frp!Stopped, WaitForFrps, Launch, StopFrps, Frp!Call,
     Signal, CancelContext, Frp!Cancel, frps
<1>10. ASSUME ServerEnded \/ FrpsEnded \/ Return PROVE Stays
  BY <1>9, <1>10 DEF ServerEnded, FrpsEnded, Return
<1>11. ASSUME Boot \/ Connect \/ CheckSchema \/ ContextDone \/ Join \/ FrpsStopped \/ ClosePool \/ PoolClosed
       PROVE  Stays
  BY <1>9, <1>11 DEF Boot, Connect, CheckSchema, ContextDone, Join, FrpsStopped, ClosePool, PoolClosed
<1>12. ASSUME \/ ServerStep \/ Pass \/ PassEnds
              \/ \E q \in Requests : Accept(q) \/ Acquire(q) \/ Release(q) \/ Answer(q)
       PROVE  Stays
  BY <1>9, <1>12 DEF ServerStep, Listen, Shutdown, Drained, DrainTimeout, Pass, PassEnds,
     Accept, Acquire, Release, Answer
<1>13. UNCHANGED vars => UNCHANGED frps
  BY DEF vars
<1>14. Onward => FrpsLeft(proc'[1], waiter'[1]) \in Int
  <2>1. Onward => proc'[1] = "killed" \/ (proc'[1] = "dead" /\ waiter'[1] \in {"waiting", "reaped", "closed"})
    BY <1>1 DEF FrpsExit, Frp!Exit, Frp!Alive, Frp!Reap, Frp!Close, Frp!ContextKill
  <2> HIDE DEF Onward
  <2> QED
    BY <2>1 DEF FrpsLeft
<1> HIDE DEF Stays, Struck, Started
<1>15. FrpStep \/ FrpsExit => Stays \/ Struck \/ Onward
  BY <1>8, <1>9 DEF FrpStep
<1>16. MainStep => Stays \/ Started
  BY <1>7, <1>9, <1>10, <1>11 DEF MainStep
<1>17. Stays \/ Struck \/ Started \/ Onward
  BY <1>9, <1>12, <1>13, <1>15, <1>16 DEF Next
<1> HIDE DEF Onward
<1>18. FrpsLeft(proc'[1], waiter'[1]) <= FrpsLeft(proc[1], waiter[1])
  BY <1>2, <1>3, <1>4, <1>5, <1>6, <1>14, <1>17
<1> QED
  BY <1>3, <1>18 DEF Onward

(* Every step keeps what is known of the end.                              *)
LEMMA NextEndInv == IInv /\ EndInv /\ [Next]_vars => EndInv'
<1> SUFFICES ASSUME IInv, EndInv, [Next]_vars PROVE EndInv'
  OBVIOUS
<1>1. /\ pc \in [{"starter", "waiter", "stopper"} ->
                   {"idle", "start", "stop", "signal", "stopping", "killing", "backoff",
                    "wait", "waiting", "returned"}]
      /\ call \in [{"starter", "waiter", "stopper"} -> {"start", "stop", "wait", "restart", None}]
  BY FrpFacts DEF IInv
<1>2. FrpP!StopInv'
  BY NextIsFrpPStep, FrpAssumption, FrpP!NextStopInv DEF IInv, EndInv
<1>3. /\ pc'["waiter"] \in {"idle", "wait", "waiting", "returned"}
      /\ pc'["stopper"] \in {"idle", "stop", "signal", "stopping", "killing", "returned"}
  BY CallsDescend DEF EndInv
<1> DEFINE Starter == /\ main' \in {"boot", "connect", "schema", "launch"} => pc'["starter"] = "idle"
                      /\ main' = "starting" => pc'["starter"] = "start"
           Served == main' \in {"select", "join"} => server' # "off"
           Joined == main' = "join" /\ mode' = "subprocess" => cancelled'
           Asked == main' = "stopping" => pc'["stopper"] # "idle"
           Goal == Starter /\ Served /\ Joined /\ Asked
<1> USE DEF Goto
<1>4. ASSUME CancelContext PROVE cancelled' /\ pc' = pc
  BY <1>4 DEF CancelContext, Frp!Cancel, Frp!callers, frps
<1>5. ASSUME Boot \/ Connect \/ CheckSchema PROVE Goal
  BY <1>5 DEF Boot, Connect, CheckSchema, http, frps, EndInv
<1>6. ASSUME Launch PROVE Goal
  <2>1. pc'["starter"] = "start" /\ main' = "starting"
    BY <1>1, <1>6 DEF Launch, Frp!Call, Frp!Goto
  <2> QED
    BY <2>1
<1>7. ASSUME Launched PROVE Goal
  BY <1>7 DEF Launched
<1>8. ASSUME ServerEnded \/ FrpsEnded \/ ContextDone \/ Join PROVE Goal
  <2>1. main' \in {"join", "stop", "closePool"}
    BY <1>8 DEF ServerEnded, FrpsEnded, ContextDone, Join
  <2>2. main' = "join" => main = "select" /\ server' = server /\ cancelled'
    BY <1>4, <1>8 DEF ServerEnded, FrpsEnded, ContextDone, Join, http, frps
  <2> QED
    BY <2>1, <2>2 DEF EndInv
<1>9. ASSUME StopFrps PROVE Goal
  <2>1. main' = "stopping" /\ pc'["stopper"] = "stop"
    BY <1>1, <1>9 DEF StopFrps, Frp!Call, Frp!Goto
  <2> QED
    BY <2>1
<1>10. ASSUME FrpsStopped \/ ClosePool \/ PoolClosed \/ Return PROVE Goal
  BY <1>10 DEF FrpsStopped, ClosePool, PoolClosed, Return
<1>11. ASSUME main' \in {main, "killed"}, server = "off" \/ server' # "off", mode' = mode,
              cancelled => cancelled', pc'["starter"] = pc["starter"]
       PROVE  Goal
  <2>1. pc'["stopper"] = "idle" => pc["stopper"] = "idle"
    BY CallsDescend
  <2> QED
    BY <1>11, <2>1 DEF EndInv
<1>12. ASSUME Signal PROVE Goal
  <2>1. pc' = pc /\ (cancelled => cancelled')
    BY <1>12 DEF Signal, Frp!Cancel, Frp!callers, frps
  <2> QED
    BY <1>11, <1>12, <2>1 DEF Signal, http
<1>13. ASSUME ServerStep PROVE Goal
  <2>1. server' # "off"
    BY <1>13 DEF ServerStep, Listen, Shutdown, Drained, DrainTimeout
  <2> QED
    BY <1>11, <1>13, <2>1 DEF ServerStep, Listen, Shutdown, Drained, DrainTimeout, command, frps
<1>14. ASSUME WaitForFrps \/ FrpStep \/ FrpsExit PROVE Goal
  <2>1. UNCHANGED <<main, server, mode>>
    BY <1>14 DEF WaitForFrps, FrpStep, FrpsExit, command, http
  <2>2. UNCHANGED cancelled /\ pc'["starter"] = pc["starter"]
    BY <1>1, <1>14 DEF WaitForFrps, FrpStep, FrpsExit, Frp!Call, Frp!Wait, Frp!WaitEnds, Frp!Stop,
       Frp!Interrupt, Frp!Stopped, Frp!Kill, Frp!AfterStop, Frp!Reap, Frp!Close, Frp!ContextKill,
       Frp!Exit, Frp!Goto, Frp!callers
  <2> QED
    BY <1>11, <2>1, <2>2
<1>15. ASSUME \/ Pass \/ PassEnds \/ UNCHANGED vars
              \/ \E q \in Requests : Accept(q) \/ Acquire(q) \/ Release(q) \/ Answer(q)
       PROVE  Goal
  BY <1>11, <1>15 DEF Pass, PassEnds, Accept, Acquire, Release, Answer, vars, command, http, frps
<1> HIDE DEF Goal
<1>16. Goal
  BY <1>5, <1>6, <1>7, <1>8, <1>9, <1>10, <1>12, <1>13, <1>14, <1>15 DEF Next, MainStep
<1> QED
  BY <1>2, <1>3, <1>16 DEF Goal, EndInv

(* When the command is to end there is a step to take.                     *)
LEMMA EndIsMoved == IInv /\ EndInv /\ Ending => SomebodyMoves
<1> SUFFICES ASSUME IInv, EndInv, Ending PROVE SomebodyMoves
  OBVIOUS
<1>1. main = "select" => cancelled \/ server = "returned" \/ WaitMoves
  <2>1. waiter[1] \in {"none", "waiting", "reaped", "closed"} /\ (waiter[1] = "none" <=> proc[1] = "none")
    BY FrpRun DEF IInv
  <2> QED
    BY <2>1 DEF Ending, WaitMoves, Frp!Done
<1>2. main = "join" => server \in {"listen", "draining", "returned"} \/ (server = "serving" /\ cancelled)
  BY DEF IInv, TypeOK, FrpsInv, EndInv, Ending
<1>3. main = "stopping" => pc["stopper"] \in {"stop", "returned"} \/ FrpP!SomebodyMoves("stopper")
  <2>1. pc["stopper"] \in FrpP!Stopping => FrpP!SomebodyMoves("stopper")
    BY FrpAssumption, FrpP!StopIsMoved DEF IInv, EndInv
  <2> QED
    BY <2>1 DEF EndInv, FrpP!Stopping
<1> QED
  BY <1>1, <1>2, <1>3 DEF SomebodyMoves, IInv, FrpsInv, EndInv, Early

(* All that is left together goes down.                                    *)
LEMMA NextDescends == IInv /\ EndInv /\ [Next]_vars => CommandDescends
<1> SUFFICES ASSUME IInv, EndInv, [Next]_vars PROVE CommandDescends
  OBVIOUS
<1>1. IInv' /\ EndInv'
  BY NextIInv, NextEndInv
<1> DEFINE m == MainLeft(main)
           s == ServerLeft(server)
           w == WaitLeft(pc["waiter"])
           t == StopLeft(pc["stopper"])
           f == FrpsLeft(proc[1], waiter[1])
           m1 == MainLeft(main')
           s1 == ServerLeft(server')
           w1 == WaitLeft(pc'["waiter"])
           t1 == StopLeft(pc'["stopper"])
           f1 == FrpsLeft(proc'[1], waiter'[1])
<1>2. /\ m \in 0..12 /\ s \in 0..4 /\ w \in 0..3 /\ t \in 0..5 /\ f \in 0..5
      /\ StepsLeft \in 0..29
  BY LeftIsANumber
<1>3. m1 \in 0..12 /\ s1 \in 0..4 /\ w1 \in 0..3 /\ t1 \in 0..5 /\ f1 \in 0..5
  <2>1. m1 \in 0..12
    BY <1>1 DEF IInv, TypeOK, MainLeft
  <2>2. s1 \in 0..4
    BY <1>1 DEF IInv, TypeOK, ServerLeft
  <2>3. w1 \in 0..3
    BY <1>1 DEF EndInv, WaitLeft
  <2>4. t1 \in 0..5
    BY <1>1 DEF EndInv, StopLeft
  <2>5. f1 \in 0..5
    <3>1. FrpP!TypeOK' /\ FrpP!RunInv' /\ 1 \in FrpP!Runs
      BY <1>1 DEF IInv, FrpP!IInv, FrpP!Runs
    <3>2. /\ proc'[1] \in {"none", "alive", "interrupted", "killed", "dead"}
          /\ proc'[1] = "dead" => waiter'[1] \in {"waiting", "reaped", "closed"}
      BY <3>1 DEF FrpP!TypeOK, FrpP!RunInv
    <3> QED
      BY <3>2 DEF FrpsLeft
  <2> QED
    BY <2>1, <2>2, <2>3, <2>4, <2>5
<1>4. m1 <= m /\ (MainStep => m1 < m)
  BY MainDescends DEF IInv
<1>5. s1 <= s /\ (ServerStep => s1 < s)
  BY ServerDescends DEF IInv
<1>6. f1 <= f /\ (FrpsExit \/ Frp!Reap(1) \/ Frp!Close(1) \/ Frp!ContextKill(1) => f1 < f)
  BY FrpsDescends
<1>7. w1 <= w /\ (pc'["waiter"] # pc["waiter"] => w1 < w)
  <2>1. CASE pc'["waiter"] = pc["waiter"]
    BY <1>2, <2>1
  <2>2. CASE pc'["waiter"] # pc["waiter"]
    <3>1. \/ pc["waiter"] = "idle" /\ pc'["waiter"] = "wait"
          \/ pc["waiter"] = "wait" /\ pc'["waiter"] \in {"waiting", "returned"}
          \/ pc["waiter"] = "waiting" /\ pc'["waiter"] = "returned"
      BY <2>2, CallsDescend
    <3> QED
      BY <3>1 DEF WaitLeft
  <2> QED
    BY <2>1, <2>2
<1>8. t1 <= t /\ (pc'["stopper"] # pc["stopper"] => t1 < t)
  <2>1. CASE pc'["stopper"] = pc["stopper"]
    BY <1>2, <2>1
  <2>2. CASE pc'["stopper"] # pc["stopper"]
    <3>1. \/ pc["stopper"] = "idle" /\ pc'["stopper"] = "stop"
          \/ pc["stopper"] = "stop" /\ pc'["stopper"] \in {"signal", "returned"}
          \/ pc["stopper"] = "signal" /\ pc'["stopper"] = "stopping"
          \/ pc["stopper"] = "stopping" /\ pc'["stopper"] \in {"killing", "returned"}
          \/ pc["stopper"] = "killing" /\ pc'["stopper"] = "returned"
      BY <2>2, CallsDescend
    <3> QED
      BY <3>1 DEF StopLeft
  <2> QED
    BY <2>1, <2>2
<1>9. StepsLeft = m + s + w + t + f /\ StepsLeft' = m1 + s1 + w1 + t1 + f1
  BY DEF StepsLeft
<1>10. CommandStep =>
          \/ MainStep \/ ServerStep \/ FrpsExit \/ Frp!Reap(1) \/ Frp!Close(1) \/ Frp!ContextKill(1)
          \/ pc'["waiter"] # pc["waiter"] \/ pc'["stopper"] # pc["stopper"]
  <2>1. /\ pc \in [{"starter", "waiter", "stopper"} ->
                     {"idle", "start", "stop", "signal", "stopping", "killing", "backoff",
                      "wait", "waiting", "returned"}]
        /\ call \in [{"starter", "waiter", "stopper"} -> {"start", "stop", "wait", "restart", None}]
    BY FrpFacts DEF IInv
  <2>2. ASSUME WaitForFrps \/ Frp!Wait("waiter") \/ Frp!WaitEnds("waiter") PROVE pc'["waiter"] # pc["waiter"]
    BY <2>1, <2>2 DEF WaitForFrps, Frp!Call, Frp!Wait, Frp!WaitEnds, Frp!Goto
  <2>3. ASSUME Frp!Stop("stopper") \/ Frp!Interrupt("stopper") \/ Frp!Stopped("stopper") \/ Frp!Kill("stopper")
        PROVE  pc'["stopper"] # pc["stopper"]
    BY <2>1, <2>3 DEF Frp!Stop, Frp!Interrupt, Frp!Stopped, Frp!Kill, Frp!AfterStop, Frp!Goto
  <2> QED
    BY <2>2, <2>3 DEF CommandStep, FrpStep
<1> HIDE DEF m, s, w, t, f, m1, s1, w1, t1, f1
<1>11. StepsLeft' <= StepsLeft
  BY <1>2, <1>3, <1>4, <1>5, <1>6, <1>7, <1>8, <1>9
<1>12. CommandStep => StepsLeft' < StepsLeft
  <2> SUFFICES ASSUME CommandStep PROVE StepsLeft' < StepsLeft
    OBVIOUS
  <2>1. m1 < m \/ s1 < s \/ f1 < f \/ w1 < w \/ t1 < t
    BY <1>4, <1>5, <1>6, <1>7, <1>8, <1>10
  <2> QED
    BY <1>2, <1>3, <1>4, <1>5, <1>6, <1>7, <1>8, <1>9, <2>1
<1> QED
  BY <1>2, <1>11, <1>12, EndIsMoved DEF CommandDescends

(* "server run" takes at most 29 steps of its own, whatever its requests,  *)
(* the reaper and further signals do; and once it is to end - by a signal, *)
(* a listener or frps - no goroutine waits for a step that cannot come     *)
(* (commands/server.go:216-315, router.go:157-215, process.go:85-140).     *)
THEOREM CommandRunsOutOfSteps == Spec => CommandRunsOut
<1>1. Init => EndInv
  BY DEF Init, Frp!Init, EndInv, FrpP!StopInv, FrpP!Stopping
<1> QED
  BY <1>1, InitIInv, NextIInv, NextEndInv, NextDescends, PTL DEF Spec, CommandRunsOut
=============================================================================
