-------------------------- MODULE FrpProcessProofs --------------------------
(***************************************************************************)
(* Proofs about FrpProcess, for any number of callers and of processes.    *)
(***************************************************************************)
EXTENDS FrpProcess, TLAPS, FiniteSetTheorems

(* The flag under the mutex says which run has not been reaped; a process  *)
(* is alive only as long as its goroutine waits for it.                    *)
RunInv ==
    /\ \A i \in Runs :
          /\ proc[i] = "none" <=> waiter[i] = "none"
          /\ waiter[i] \in {"reaped", "closed"} => proc[i] = "dead"
          /\ waiter[i] = "waiting" <=> running /\ current = i
    /\ current # None => proc[current] # "none"

(* A caller stands where its call leads, and has hit what it has read.     *)
CallerInv ==
    \A c \in Callers :
        /\ pc[c] \in {"idle", "stop", "wait"} => hit[c] = {} /\ target[c] = None
        /\ pc[c] \in {"stop", "signal", "stopping", "killing"} => call[c] \in {"stop", "restart"}
        /\ pc[c] = "start" => call[c] \in {"start", "restart"}
        /\ pc[c] = "backoff" => call[c] = "restart"
        /\ pc[c] \in {"wait", "waiting"} => call[c] = "wait"
        /\ pc[c] \in {"signal", "stopping", "killing", "waiting"} => target[c] \in Runs
        /\ hit[c] \subseteq {target[c]}
        /\ call[c] = "stop" /\ pc[c] = "returned" => target[c] = None \/ Done(target[c])

IInv == TypeOK /\ RunInv /\ CallerInv

-----------------------------------------------------------------------------
(* The initial state.                                                      *)
LEMMA InitIInv == Init => IInv
<1> SUFFICES ASSUME Init PROVE IInv
  OBVIOUS
<1>1. TypeOK
  BY DEF Init, TypeOK
<1>2. RunInv
  BY CallersAssumption DEF Init, RunInv
<1>3. CallerInv
  BY DEF Init, CallerInv
<1> QED
  BY <1>1, <1>2, <1>3 DEF IInv

(* A step of one caller that leaves the runs alone keeps the invariant, if *)
(* the caller itself arrives where it may be.                              *)
LEMMA MoveIInv ==
  ASSUME IInv, NEW c \in Callers,
         UNCHANGED <<process, proc, waiter, cancelled, hit>>,
         NEW step \in {"start", "stop", "signal", "stopping", "killing", "backoff",
                       "wait", "waiting", "returned"},
         Goto(c, step),
         NEW m \in {"start", "stop", "wait", "restart", None}, call' = [call EXCEPT ![c] = m],
         NEW i \in Runs \union {None}, target' = [target EXCEPT ![c] = i],
         step \in {"stop", "wait"} => hit[c] = {} /\ i = None,
         step \in {"stop", "signal", "stopping", "killing"} => m \in {"stop", "restart"},
         step = "start" => m \in {"start", "restart"},
         step = "backoff" => m = "restart",
         step \in {"wait", "waiting"} => m = "wait",
         step \in {"signal", "stopping", "killing", "waiting"} => i \in Runs,
         hit[c] \subseteq {i},
         m = "stop" /\ step = "returned" => i = None \/ Done(i)
  PROVE  IInv'
<1>1. TypeOK'
  BY DEF IInv, TypeOK, Goto, process
<1>2. RunInv'
  BY DEF IInv, RunInv, process
<1>3. CallerInv'
  BY DEF IInv, TypeOK, CallerInv, Goto, Done
<1> QED
  BY <1>1, <1>2, <1>3 DEF IInv

(* A blow strikes a process that was started, and does not revive it.      *)
LEMMA StrikeIInv ==
  ASSUME IInv, NEW c \in Callers, NEW blow \in {"interrupted", "killed"},
         NEW step \in {"stopping", "killing"},
         pc[c] \in {"signal", "stopping"}, Strike(c, target[c], blow), Goto(c, step),
         UNCHANGED <<process, waiter, cancelled, call, target>>
  PROVE  IInv'
<1>1. target[c] \in Runs
  BY DEF IInv, CallerInv
<1>2. TypeOK'
  BY <1>1 DEF IInv, TypeOK, Goto, Strike, process
<1>3. \A i \in Runs : /\ proc'[i] = "none" <=> proc[i] = "none"
                      /\ proc'[i] = "dead" <=> proc[i] = "dead"
  BY <1>1 DEF IInv, TypeOK, Strike, Alive
<1>4. current # None => current \in Runs
  BY DEF IInv, TypeOK
<1>5. RunInv'
  BY <1>3, <1>4 DEF IInv, RunInv, process
<1>6. CallerInv'
  BY <1>1 DEF IInv, TypeOK, CallerInv, Goto, Strike, Done
<1> QED
  BY <1>2, <1>5, <1>6 DEF IInv

(* A step that leaves the callers alone and reopens no run keeps theirs.   *)
LEMMA CallersStay ==
  ASSUME IInv, UNCHANGED callers, \A i \in Runs : Done(i) => Done(i)'
  PROVE  CallerInv'
<1>1. \A c \in Callers : target[c] \in Runs \union {None}
  BY DEF IInv, TypeOK
<1> QED
  BY <1>1 DEF IInv, CallerInv, callers

(* Every step keeps the invariant.                                         *)
LEMMA NextIInv == IInv /\ [Next]_vars => IInv'
<1> SUFFICES ASSUME IInv, [Next]_vars PROVE IInv'
  OBVIOUS
<1> USE CallersAssumption
<1>1. ASSUME NEW c \in Callers, Call(c) PROVE IInv'
  <2>1. PICK m \in {"start", "stop", "wait", "restart"} :
           /\ call' = [call EXCEPT ![c] = m]
           /\ Goto(c, IF m = "restart" THEN "stop" ELSE m)
    BY <1>1 DEF Call
  <2>2. target' = [target EXCEPT ![c] = None] /\ hit[c] = {}
    BY <1>1 DEF Call, IInv, TypeOK, CallerInv
  <2> QED
    <3>1. CASE m = "restart"
      BY <1>1, <2>1, <2>2, <3>1, MoveIInv DEF Call
    <3>2. CASE m # "restart"
      <4>1. Goto(c, m) /\ m \in {"start", "stop", "wait"}
        BY <2>1, <3>2
      <4>2. UNCHANGED <<process, proc, waiter, cancelled, hit>>
        BY <1>1 DEF Call
      <4> HIDE DEF IInv
      <4> QED
        BY <2>1, <2>2, <4>1, <4>2, MoveIInv
    <3> QED
      BY <3>1, <3>2
<1>2. ASSUME NEW c \in Callers, Start(c) PROVE IInv'
  <2>1. call' = [call EXCEPT ![c] = call[c]] /\ target' = [target EXCEPT ![c] = target[c]]
    BY <1>2 DEF Start, IInv, TypeOK
  <2>2. call[c] \in {"start", "restart"} /\ hit[c] \subseteq {target[c]}
    BY <1>2 DEF Start, IInv, CallerInv
  <2>3. target[c] \in Runs \union {None}
    BY DEF IInv, TypeOK
  <2>4. CASE UNCHANGED <<process, proc, waiter>>
    BY <1>2, <2>1, <2>2, <2>3, <2>4, MoveIInv DEF Start
  <2>5. ASSUME NEW i \in Runs, proc[i] = "none", MayStart,
               proc' = [proc EXCEPT ![i] = "alive"],
               waiter' = [waiter EXCEPT ![i] = "waiting"],
               current' = i, running' = TRUE
        PROVE  IInv'
    <3>1. TypeOK'
      BY <1>2, <2>5 DEF Start, Goto, IInv, TypeOK
    <3>2. RunInv'
      BY <2>5 DEF IInv, TypeOK, RunInv, MayStart
    <3>3. \A j \in Runs : Done(j) => Done(j)'
      BY <2>5 DEF IInv, TypeOK, RunInv, Done
    <3>4. CallerInv'
      BY <1>2, <2>2, <3>3 DEF Start, Goto, IInv, TypeOK, CallerInv
    <3> QED
      BY <3>1, <3>2, <3>4 DEF IInv
  <2> QED
    BY <1>2, <2>4, <2>5 DEF Start
<1>3. ASSUME NEW c \in Callers, Stop(c) PROVE IInv'
  <2>1. call' = [call EXCEPT ![c] = call[c]] /\ call[c] \in {"stop", "restart"}
    BY <1>3 DEF Stop, IInv, TypeOK, CallerInv
  <2>2. target[c] = None /\ hit[c] = {}
    BY <1>3 DEF Stop, IInv, CallerInv
  <2>3. CASE ~running /\ AfterStop(c) /\ UNCHANGED target
    <3>1. target' = [target EXCEPT ![c] = None]
      BY <2>2, <2>3 DEF IInv, TypeOK
    <3> QED
      BY <1>3, <2>1, <2>2, <2>3, <3>1, MoveIInv DEF Stop, AfterStop
  <2>4. CASE running /\ target' = [target EXCEPT ![c] = current] /\ Goto(c, "signal")
    BY <1>3, <2>1, <2>2, <2>4, MoveIInv DEF Stop, IInv, TypeOK
  <2> QED
    BY <1>3, <2>3, <2>4 DEF Stop
<1>4. ASSUME NEW c \in Callers, Interrupt(c) PROVE IInv'
  BY <1>4, StrikeIInv DEF Interrupt
<1>5. ASSUME NEW c \in Callers, Kill(c) PROVE IInv'
  BY <1>5, StrikeIInv DEF Kill
<1>6. ASSUME NEW c \in Callers, Stopped(c) \/ Backoff(c) \/ WaitEnds(c) PROVE IInv'
  <2>1. /\ call' = [call EXCEPT ![c] = call[c]]
        /\ target' = [target EXCEPT ![c] = target[c]]
        /\ call[c] \in {"start", "stop", "wait", "restart", None}
        /\ target[c] \in Runs \union {None}
    BY <1>6 DEF Stopped, Backoff, WaitEnds, IInv, TypeOK
  <2>2. /\ pc[c] \in {"stopping", "killing", "backoff", "waiting"}
        /\ UNCHANGED <<process, proc, waiter, cancelled, hit>>
    BY <1>6 DEF Stopped, Backoff, WaitEnds
  <2>3. hit[c] \subseteq {target[c]}
    BY DEF IInv, CallerInv
  <2>4. CASE Stopped(c)
    <3>1. call[c] \in {"stop", "restart"}
      BY <2>4 DEF Stopped, IInv, CallerInv
    <3>2. CASE call[c] = "restart"
      <4>1. Goto(c, "backoff")
        BY <2>4, <3>2 DEF Stopped, AfterStop
      <4> QED
        BY <2>1, <2>2, <2>3, <3>2, <4>1, MoveIInv
    <3>3. CASE call[c] = "stop"
      <4>1. Goto(c, "returned") /\ Done(target[c])
        BY <2>4, <3>3 DEF Stopped, AfterStop
      <4> QED
        BY <2>1, <2>2, <2>3, <3>3, <4>1, MoveIInv
    <3> QED
      BY <3>1, <3>2, <3>3
  <2>5. CASE Backoff(c)
    <3>1. call[c] = "restart"
      BY <2>5 DEF Backoff, IInv, CallerInv
    <3> QED
      BY <2>1, <2>2, <2>3, <2>5, <3>1, MoveIInv DEF Backoff
  <2>6. CASE WaitEnds(c)
    <3>1. call[c] = "wait"
      BY <2>6 DEF WaitEnds, IInv, CallerInv
    <3> QED
      BY <2>1, <2>2, <2>3, <2>6, <3>1, MoveIInv DEF WaitEnds
  <2> QED
    BY <1>6, <2>4, <2>5, <2>6
<1>7. ASSUME NEW c \in Callers, Wait(c) PROVE IInv'
  <2>1. call' = [call EXCEPT ![c] = call[c]] /\ call[c] = "wait"
    BY <1>7 DEF Wait, IInv, TypeOK, CallerInv
  <2>2. target[c] = None /\ hit[c] = {} /\ current \in Runs \union {None}
    BY <1>7 DEF Wait, IInv, TypeOK, CallerInv
  <2>3. CASE current = None /\ Goto(c, "returned") /\ UNCHANGED target
    <3>1. target' = [target EXCEPT ![c] = None]
      BY <2>2, <2>3 DEF IInv, TypeOK
    <3> QED
      BY <1>7, <2>1, <2>2, <2>3, <3>1, MoveIInv DEF Wait
  <2>4. CASE /\ current # None
             /\ target' = [target EXCEPT ![c] = current]
             /\ Goto(c, "waiting")
    BY <1>7, <2>1, <2>2, <2>4, MoveIInv DEF Wait
  <2> QED
    BY <1>7, <2>3, <2>4 DEF Wait
<1>8. ASSUME NEW i \in Runs, Exit(i) \/ ContextKill(i) PROVE IInv'
  <2>1. TypeOK'
    BY <1>8 DEF Exit, ContextKill, callers, process, IInv, TypeOK
  <2>2. RunInv'
    BY <1>8 DEF Exit, ContextKill, Alive, process, IInv, TypeOK, RunInv
  <2>3. CallerInv'
    BY <1>8, CallersStay DEF Exit, ContextKill, Done
  <2> QED
    BY <2>1, <2>2, <2>3 DEF IInv
<1>9. ASSUME NEW i \in Runs, Reap(i) \/ Close(i) PROVE IInv'
  <2>1. ASSUME Reap(i) PROVE TypeOK' /\ RunInv'
    <3>1. running /\ current = i /\ running' = FALSE
      BY <2>1 DEF Reap, IInv, RunInv
    <3>2. TypeOK'
      BY <2>1, <3>1 DEF Reap, callers, IInv, TypeOK
    <3>3. RunInv'
      BY <2>1, <3>1 DEF Reap, IInv, TypeOK, RunInv
    <3> QED
      BY <3>2, <3>3
  <2>2. ASSUME Close(i) PROVE TypeOK' /\ RunInv'
    <3>1. TypeOK'
      BY <2>2 DEF Close, callers, process, IInv, TypeOK
    <3>2. RunInv'
      BY <2>2 DEF Close, process, IInv, TypeOK, RunInv
    <3> QED
      BY <3>1, <3>2
  <2>3. \A j \in Runs : Done(j) => Done(j)'
    BY <1>9 DEF Reap, Close, Done, IInv, TypeOK
  <2>4. CallerInv'
    BY <1>9, <2>3, CallersStay DEF Reap, Close
  <2> QED
    BY <1>9, <2>1, <2>2, <2>4 DEF IInv
<1>10. CASE Cancel
  <2>1. CallerInv'
    BY <1>10, CallersStay DEF Cancel, Done
  <2> QED
    BY <1>10, <2>1 DEF Cancel, callers, process, IInv, TypeOK, RunInv
<1>11. CASE UNCHANGED vars
  <2>1. CallerInv'
    BY <1>11, CallersStay DEF vars, Done
  <2> QED
    BY <1>11, <2>1 DEF vars, callers, process, IInv, TypeOK, RunInv
<1> QED
  BY <1>1, <1>2, <1>3, <1>4, <1>5, <1>6, <1>7, <1>8, <1>9, <1>10, <1>11 DEF
     Next, CallerStep

(* The invariant holds in every behaviour.                                 *)
THEOREM Invariant == Spec => []IInv
  BY InitIInv, NextIInv, PTL DEF Spec

(* Every variable keeps its type, and the flag is set only with a run.     *)
THEOREM TypeCorrect == Spec => []TypeOK
<1>1. IInv => TypeOK
  BY DEF IInv
<1> QED
  BY Invariant, <1>1, PTL

(* However the calls race there is never a second process.                 *)
THEOREM AtMostOneProcess == Spec => []OneProcess
<1>1. ASSUME IInv PROVE OneProcess
  <2> DEFINE alive == {i \in Runs : Alive(i)}
  <2>1. \A i \in Runs : Alive(i) => current = i
    BY <1>1 DEF IInv, TypeOK, RunInv, Alive
  <2>2. alive \subseteq {current}
    BY <2>1
  <2>3. IsFiniteSet({current}) /\ Cardinality({current}) = 1
    BY FS_Singleton
  <2>4. Cardinality(alive) <= Cardinality({current})
    BY <2>2, <2>3, FS_Subset
  <2> QED
    BY <2>3, <2>4 DEF OneProcess
<1> QED
  BY Invariant, <1>1, PTL

(* A Stop never signals or kills a run it has not read.                    *)
THEOREM StopIsAimed == Spec => []StopHitsItsRun
<1>1. IInv => StopHitsItsRun
  BY DEF IInv, CallerInv, StopHitsItsRun
<1> QED
  BY Invariant, <1>1, PTL

(* The process a Stop was for is gone when it returns.                     *)
THEOREM StopIsFinal == Spec => []StoppedIsDead
<1>1. ASSUME IInv PROVE StoppedIsDead
  <2>1. \A c \in Callers : target[c] \in Runs \union {None}
    BY <1>1 DEF IInv, TypeOK
  <2> QED
    BY <1>1, <2>1 DEF IInv, RunInv, CallerInv, StoppedIsDead, Done, Alive
<1> QED
  BY Invariant, <1>1, PTL

-----------------------------------------------------------------------------
(* A Stop has few steps left and somebody to take the next one, which is   *)
(* what StopReturns rests on.                                              *)
Stopping == {"signal", "stopping", "killing"}

(* The steps of the end of a run: of its process, and of its goroutine.    *)
RunLeft(state, goroutine) ==
    CASE goroutine = "closed" -> 0
      [] goroutine = "reaped" -> 1
      [] goroutine = "waiting" /\ state = "dead" -> 2
      [] goroutine = "waiting" /\ state # "dead" -> 3

(* Those of a Stop at a step, for a run that has so many left.             *)
CallLeft(step, left) ==
    CASE step = "signal" -> left + 3
      [] step = "stopping" -> left + 2
      [] step = "killing" -> left + 1
      [] step \notin Stopping -> 0

StopLeft(c) == CallLeft(pc[c], RunLeft(proc[target[c]], waiter[target[c]]))

(* A Stop has read a run that was started, and when it has killed, one     *)
(* whose process is killed.                                                *)
StopInv ==
    \A c \in Callers :
        /\ pc[c] \in Stopping => proc[target[c]] # "none"
        /\ pc[c] = "killing" => proc[target[c]] \in {"killed", "dead"}

(* Who takes the next step towards the end of a Stop: the caller itself,   *)
(* the goroutine of the run, or the system with a killed process.          *)
SomebodyMoves(c) ==
    \/ pc[c] \in {"signal", "stopping"}
    \/ Done(target[c])
    \/ waiter[target[c]] = "reaped"
    \/ waiter[target[c]] = "waiting" /\ proc[target[c]] \in {"killed", "dead"}

(* A step of the caller or of its run brings a Stop nearer to its end, and *)
(* no step of another caller, of a signal or of the context puts it off.   *)
StopDescends ==
    \A c \in Callers : pc[c] \in Stopping =>
        /\ SomebodyMoves(c)
        /\ StopLeft(c) \in 1..6
        /\ StopLeft(c)' <= StopLeft(c)
        /\ CallerStep(c) \/ Exit(target[c]) \/ Reap(target[c]) \/ Close(target[c])
              => StopLeft(c)' < StopLeft(c)
StopsRunOut == [][StopDescends]_vars

(* At every step of a run its end is nearer, or no further, and a process  *)
(* that was killed is not seen alive again.                                *)
LEMMA RunDescends ==
  ASSUME IInv, [Next]_vars, NEW i \in Runs, proc[i] # "none"
  PROVE  /\ RunLeft(proc[i], waiter[i]) \in 0..3
         /\ RunLeft(proc[i], waiter[i])' <= RunLeft(proc[i], waiter[i])
         /\ Exit(i) \/ Reap(i) \/ Close(i) =>
               RunLeft(proc[i], waiter[i])' < RunLeft(proc[i], waiter[i])
         /\ proc[i] \in {"killed", "dead"} => proc'[i] \in {"killed", "dead"}
         /\ proc'[i] # "none"
<1>1. /\ waiter[i] \in {"waiting", "reaped", "closed"}
      /\ waiter[i] # "waiting" => proc[i] = "dead"
      /\ proc \in [Runs -> {"none", "alive", "interrupted", "killed", "dead"}]
      /\ waiter \in [Runs -> {"none", "waiting", "reaped", "closed"}]
  BY DEF IInv, TypeOK, RunInv
<1>2. RunLeft(proc[i], waiter[i]) \in 0..3
  BY <1>1 DEF RunLeft
<1>3. CASE proc'[i] = proc[i] /\ waiter'[i] = waiter[i]
  <2>1. ~Exit(i) /\ ~Reap(i) /\ ~Close(i)
    BY <1>1, <1>3 DEF Exit, Alive, Reap, Close
  <2> QED
    BY <1>2, <1>3, <2>1
<1>4. CASE Exit(i)
  <2>1. waiter[i] = "waiting" /\ waiter'[i] = "waiting" /\ proc[i] # "dead" /\ proc'[i] = "dead"
    BY <1>1, <1>4 DEF Exit, Alive
  <2> QED
    BY <2>1 DEF RunLeft
<1>5. CASE Reap(i)
  <2>1. waiter[i] = "waiting" /\ waiter'[i] = "reaped" /\ proc[i] = "dead" /\ proc'[i] = "dead"
    BY <1>1, <1>5 DEF Reap
  <2> QED
    BY <2>1 DEF RunLeft
<1>6. CASE Close(i)
  <2>1. waiter[i] = "reaped" /\ waiter'[i] = "closed" /\ proc'[i] = proc[i]
    BY <1>1, <1>6 DEF Close
  <2> QED
    BY <1>1, <2>1 DEF RunLeft
<1>7. ASSUME proc[i] # "dead", proc'[i] # "dead", waiter'[i] = waiter[i],
             proc[i] = "killed" => proc'[i] = "killed"
      PROVE  /\ RunLeft(proc[i], waiter[i])' = RunLeft(proc[i], waiter[i])
             /\ ~Exit(i) /\ ~Reap(i) /\ ~Close(i)
  BY <1>1, <1>7 DEF RunLeft, Exit, Reap, Close
<1>8. ASSUME NEW c \in Callers, NEW j, NEW blow \in {"interrupted", "killed"},
             Strike(c, j, blow), waiter' = waiter
      PROVE  \/ proc'[i] = proc[i] /\ waiter'[i] = waiter[i]
             \/ /\ proc[i] \notin {"dead", "killed"} /\ proc'[i] \notin {"none", "dead"}
                /\ waiter'[i] = waiter[i]
  BY <1>1, <1>8 DEF Strike, Alive
<1>9. \/ proc'[i] = proc[i] /\ waiter'[i] = waiter[i]
      \/ Exit(i) \/ Reap(i) \/ Close(i)
      \/ /\ proc[i] # "dead" /\ proc'[i] \notin {"none", "dead"} /\ waiter'[i] = waiter[i]
         /\ proc[i] = "killed" => proc'[i] = "killed"
  <2> DEFINE Goal == \/ proc'[i] = proc[i] /\ waiter'[i] = waiter[i]
                     \/ Exit(i) \/ Reap(i) \/ Close(i)
                     \/ /\ proc[i] # "dead" /\ proc'[i] \notin {"none", "dead"} /\ waiter'[i] = waiter[i]
                        /\ proc[i] = "killed" => proc'[i] = "killed"
  <2>1. ASSUME UNCHANGED <<proc, waiter>> PROVE Goal
    BY <2>1
  <2>2. ASSUME NEW c \in Callers, Call(c) \/ Stop(c) \/ Stopped(c) \/ Backoff(c) \/ Wait(c) \/ WaitEnds(c)
        PROVE  Goal
    BY <2>1, <2>2 DEF Call, Stop, Stopped, Backoff, Wait, WaitEnds
  <2>3. ASSUME NEW c \in Callers, Start(c) PROVE Goal
    BY <1>1, <2>3 DEF Start
  <2>4. ASSUME NEW c \in Callers, Interrupt(c) PROVE Goal
    <3>1. Strike(c, target[c], "interrupted") /\ waiter' = waiter
      BY <2>4 DEF Interrupt
    <3> QED
      BY <3>1, <1>8
  <2>5. ASSUME NEW c \in Callers, Kill(c) PROVE Goal
    <3>1. Strike(c, target[c], "killed") /\ waiter' = waiter
      BY <2>5 DEF Kill
    <3> QED
      BY <3>1, <1>8
  <2>6. ASSUME NEW j \in Runs, Exit(j) \/ Reap(j) \/ Close(j) PROVE Goal
    <3>1. CASE j = i
      BY <2>6, <3>1
    <3>2. CASE j # i
      BY <1>1, <2>6, <3>2 DEF Exit, Reap, Close
    <3> QED
      BY <3>1, <3>2
  <2>7. ASSUME NEW j \in Runs, ContextKill(j) PROVE Goal
    BY <1>1, <2>7 DEF ContextKill, Alive
  <2>8. ASSUME Cancel \/ UNCHANGED vars PROVE UNCHANGED <<proc, waiter>>
    BY <2>8 DEF Cancel, vars
  <2> HIDE DEF Goal
  <2>9. Goal
    BY <2>1, <2>2, <2>3, <2>4, <2>5, <2>6, <2>7, <2>8 DEF Next, CallerStep
  <2> QED
    BY <2>9 DEF Goal
<1>10. Exit(i) => proc'[i] = "dead"
  BY <1>1 DEF Exit
<1>11. Reap(i) \/ Close(i) => proc'[i] = proc[i]
  BY DEF Reap, Close
<1> QED
  BY <1>2, <1>3, <1>4, <1>5, <1>6, <1>7, <1>9, <1>10, <1>11

(* A caller within Stop goes on through it by steps of its own alone, and  *)
(* keeps to the run it has read.                                           *)
LEMMA StopSteps ==
  ASSUME IInv, [Next]_vars, NEW c \in Callers, pc[c] \in Stopping
  PROVE  /\ target'[c] = target[c]
         /\ \/ pc'[c] = pc[c] /\ ~CallerStep(c)
            \/ pc[c] = "signal" /\ pc'[c] = "stopping"
            \/ pc[c] = "stopping" /\ Kill(c) /\ pc'[c] = "killing"
            \/ pc[c] \in {"stopping", "killing"} /\ pc'[c] \notin Stopping
<1>1. /\ pc \in [Callers -> {"idle", "start", "stop", "signal", "stopping", "killing", "backoff",
                             "wait", "waiting", "returned"}]
      /\ target \in [Callers -> Runs \union {None}]
      /\ pc[c] \in {"signal", "stopping", "killing"}
  BY DEF IInv, TypeOK, Stopping
<1> DEFINE Goal == /\ target'[c] = target[c]
                   /\ \/ pc'[c] = pc[c] /\ ~CallerStep(c)
                      \/ pc[c] = "signal" /\ pc'[c] = "stopping"
                      \/ pc[c] = "stopping" /\ Kill(c) /\ pc'[c] = "killing"
                      \/ pc[c] \in {"stopping", "killing"} /\ pc'[c] \notin Stopping
<1>2. CallerStep(c) => Interrupt(c) \/ Stopped(c) \/ Kill(c)
  BY <1>1 DEF CallerStep, Start, Stop, Backoff, Wait, WaitEnds
<1>3. ASSUME Interrupt(c) \/ Stopped(c) \/ Kill(c) PROVE Goal
  BY <1>1, <1>3 DEF Interrupt, Stopped, Kill, AfterStop, Goto, Stopping
<1>4. ASSUME ~CallerStep(c), target'[c] = target[c], pc'[c] = pc[c] PROVE Goal
  BY <1>4
<1>5. ASSUME NEW d \in Callers, d # c, Call(d) \/ CallerStep(d)
      PROVE  target'[c] = target[c] /\ pc'[c] = pc[c]
  BY <1>1, <1>5 DEF Call, CallerStep, Start, Stop, Interrupt, Stopped, Kill, Backoff, Wait, WaitEnds,
     AfterStop, Goto
<1>6. ASSUME \/ \E i \in Runs : Exit(i) \/ Reap(i) \/ Close(i) \/ ContextKill(i)
             \/ Cancel \/ UNCHANGED vars
      PROVE  target'[c] = target[c] /\ pc'[c] = pc[c]
  BY <1>6 DEF Exit, Reap, Close, ContextKill, Cancel, vars, callers
<1>7. ~Call(c)
  BY <1>1 DEF Call
<1> HIDE DEF Goal
<1>8. Goal
  BY <1>2, <1>3, <1>4, <1>5, <1>6, <1>7 DEF Next
<1> QED
  BY <1>8 DEF Goal

(* A process that Stop has killed stays so until it is dead.               *)
LEMMA NextStopInv == IInv /\ StopInv /\ [Next]_vars => StopInv'
<1> SUFFICES ASSUME IInv, StopInv, [Next]_vars, NEW c \in Callers, pc'[c] \in Stopping
             PROVE  /\ proc'[target'[c]] # "none"
                    /\ pc'[c] = "killing" => proc'[target'[c]] \in {"killed", "dead"}
  BY DEF StopInv, Stopping
<1>1. CASE pc[c] \in Stopping
  <2>1. target'[c] = target[c] /\ target[c] \in Runs /\ proc[target[c]] # "none"
    BY <1>1, StopSteps DEF StopInv, IInv, CallerInv, Stopping
  <2>2. PICK i \in Runs : i = target[c]
    BY <2>1
  <2>3. proc'[i] # "none" /\ (proc[i] \in {"killed", "dead"} => proc'[i] \in {"killed", "dead"})
    BY <2>1, <2>2, RunDescends
  <2>4. pc'[c] = "killing" => pc[c] = "killing" \/ Kill(c)
    BY <1>1, StopSteps DEF Stopping
  <2>5. pc[c] = "killing" => proc[i] \in {"killed", "dead"}
    BY <2>2 DEF StopInv
  <2>6. Kill(c) => proc'[i] \in {"killed", "dead"}
    BY <2>1, <2>2 DEF Kill, Strike, Alive, IInv, TypeOK
  <2> QED
    BY <2>1, <2>2, <2>3, <2>4, <2>5, <2>6
<1>2. CASE pc[c] \notin Stopping
  <2>1. Stop(c) /\ running /\ target'[c] = current /\ pc'[c] = "signal" /\ proc' = proc
    <3>1. pc \in [Callers -> {"idle", "start", "stop", "signal", "stopping", "killing", "backoff",
                              "wait", "waiting", "returned"}]
          /\ target \in [Callers -> Runs \union {None}]
      BY DEF IInv, TypeOK
    <3>2. pc[c] \notin {"signal", "stopping", "killing"} /\ pc'[c] \in {"signal", "stopping", "killing"}
      BY <1>2 DEF Stopping
    <3>3. ASSUME NEW d \in Callers, Call(d) \/ CallerStep(d) PROVE d = c
      BY <3>1, <3>2, <3>3 DEF Call, CallerStep, Start, Stop, Interrupt, Stopped, Kill, Backoff, Wait,
         WaitEnds, AfterStop, Goto
    <3>4. ~(Call(c) \/ Start(c) \/ Interrupt(c) \/ Stopped(c) \/ Kill(c) \/ Backoff(c) \/ Wait(c) \/ WaitEnds(c))
      BY <3>1, <3>2 DEF Call, Start, Interrupt, Stopped, Kill, Backoff, Wait, WaitEnds, AfterStop, Goto
    <3>5. ~(\/ \E i \in Runs : Exit(i) \/ Reap(i) \/ Close(i) \/ ContextKill(i)
            \/ Cancel \/ UNCHANGED vars)
      BY <3>2 DEF Exit, Reap, Close, ContextKill, Cancel, vars, callers
    <3>6. Stop(c)
      BY <3>3, <3>4, <3>5 DEF Next, CallerStep
    <3> QED
      BY <3>1, <3>2, <3>6 DEF Stop, AfterStop, Goto
  <2>2. current # None /\ proc[current] # "none"
    BY <2>1, CallersAssumption DEF IInv, TypeOK, RunInv
  <2> QED
    BY <2>1, <2>2
<1> QED
  BY <1>1, <1>2

(* A Stop is never without somebody to take its next step.                 *)
LEMMA StopIsMoved ==
  ASSUME IInv, StopInv, NEW c \in Callers, pc[c] \in Stopping
  PROVE  SomebodyMoves(c)
<1>1. target[c] \in Runs /\ proc[target[c]] # "none"
  BY DEF StopInv, IInv, CallerInv, Stopping
<1>2. waiter[target[c]] \in {"waiting", "reaped", "closed"}
  BY <1>1 DEF IInv, TypeOK, RunInv
<1>3. pc[c] = "killing" => proc[target[c]] \in {"killed", "dead"}
  BY DEF StopInv
<1> QED
  BY <1>2, <1>3 DEF SomebodyMoves, Done, Stopping

(* A Stop descends, and is never without somebody to move it.              *)
LEMMA NextStopDescends == IInv /\ StopInv /\ [Next]_vars => StopDescends
<1> SUFFICES ASSUME IInv, StopInv, [Next]_vars, NEW c \in Callers, pc[c] \in Stopping
             PROVE  /\ SomebodyMoves(c)
                    /\ StopLeft(c) \in 1..6
                    /\ StopLeft(c)' <= StopLeft(c)
                    /\ CallerStep(c) \/ Exit(target[c]) \/ Reap(target[c]) \/ Close(target[c])
                          => StopLeft(c)' < StopLeft(c)
  BY DEF StopDescends
<1>1. target[c] \in Runs /\ proc[target[c]] # "none"
  BY DEF StopInv, IInv, CallerInv, Stopping
<1>2. PICK i \in Runs : i = target[c]
  BY <1>1
<1> DEFINE left == RunLeft(proc[i], waiter[i])
           next == RunLeft(proc'[i], waiter'[i])
<1>3. /\ left \in 0..3 /\ next <= left
      /\ Exit(i) \/ Reap(i) \/ Close(i) => next < left
  BY <1>1, <1>2, RunDescends
<1>4. next \in 0..3
  <2>1. /\ proc'[i] # "none"
        /\ waiter'[i] \in {"waiting", "reaped", "closed"}
    <3>1. IInv' /\ proc'[i] # "none"
      BY <1>1, <1>2, NextIInv, RunDescends
    <3> QED
      BY <3>1 DEF IInv, TypeOK, RunInv
  <2> QED
    BY <2>1 DEF RunLeft
<1>5. SomebodyMoves(c)
  BY StopIsMoved
<1>6. target'[c] = i
  BY <1>2, StopSteps
<1>7. StopLeft(c) = CallLeft(pc[c], left) /\ StopLeft(c)' = CallLeft(pc'[c], next)
  BY <1>2, <1>6 DEF StopLeft
<1>8. \/ pc'[c] = pc[c] /\ ~CallerStep(c)
      \/ pc[c] = "signal" /\ pc'[c] = "stopping"
      \/ pc[c] = "stopping" /\ pc'[c] = "killing"
      \/ pc[c] \in {"stopping", "killing"} /\ pc'[c] \notin Stopping
  BY StopSteps
<1> HIDE DEF left, next
<1>9. StopLeft(c) \in 1..6
  BY <1>3, <1>7 DEF CallLeft, Stopping
<1>10. ASSUME pc'[c] = pc[c]
       PROVE  StopLeft(c)' <= StopLeft(c) /\ (next < left => StopLeft(c)' < StopLeft(c))
  BY <1>3, <1>4, <1>7, <1>10 DEF CallLeft, Stopping
<1>11. ASSUME \/ pc[c] = "signal" /\ pc'[c] = "stopping"
              \/ pc[c] = "stopping" /\ pc'[c] = "killing"
       PROVE  StopLeft(c)' < StopLeft(c)
  BY <1>3, <1>4, <1>7, <1>11 DEF CallLeft, Stopping
<1>12. ASSUME pc[c] \in {"stopping", "killing"} /\ pc'[c] \notin Stopping
       PROVE  StopLeft(c)' < StopLeft(c)
  BY <1>7, <1>9, <1>12 DEF CallLeft
<1>13. StopLeft(c)' \in Int
  BY <1>4, <1>7, <1>8 DEF CallLeft, Stopping
<1> QED
  BY <1>2, <1>3, <1>5, <1>8, <1>9, <1>10, <1>11, <1>12, <1>13

(* A Stop that has read a run to stop has at most six steps left, its own  *)
(* and those of the run, whatever other callers do: with the fairness of   *)
(* FairSpec it returns (process.go:85-125).                                *)
THEOREM StopsEnd == Spec => StopsRunOut
<1>1. Init => StopInv
  BY DEF Init, StopInv, Stopping
<1> QED
  BY <1>1, InitIInv, NextIInv, NextStopInv, NextStopDescends, PTL DEF Spec, StopsRunOut
=============================================================================
