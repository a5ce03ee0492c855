--------------------------- MODULE TokenAuthProofs ---------------------------
(***************************************************************************)
(* Proofs about TokenAuth, for any number of tokens, requests and slots.   *)
(***************************************************************************)
EXTENDS TokenAuth, TLAPS, FiniteSetTheorems

(* What a request has read of the rows, and what it has tried, agrees with *)
(* the rows: the query is never behind on a live token.                    *)
RequestInv ==
    \A r \in Requests :
        /\ pc[r] \in {"idle", "query"} => todo[r] = {}
        /\ pc[r] = "idle" => ~hopeless[r]
        /\ pc[r] \notin Ended => answer[r] = None
        /\ raw[r] \in Rows(r) \union {None}
        /\ hopeless[r] => raw[r] \in revoked \union {None} /\ raw[r] \notin todo[r]
        /\ pc[r] \in {"slot", "verify"} =>
              trying[r] \in Legacy /\ trying[r] \notin todo[r] /\ (hopeless[r] => trying[r] # raw[r])

(* A live token that was presented is among what is still to be tried.     *)
NotMissed ==
    \A r \in Requests :
        /\ pc[r] = "current" => Rows(r) \ revoked \subseteq todo[r]
        /\ pc[r] = "legacy" => raw[r] \in revoked \union {None} \union (todo[r] \cap Legacy)
        /\ pc[r] \in {"slot", "verify"} =>
              raw[r] \in revoked \union {None} \union (todo[r] \cap Legacy) \union {trying[r]}

(* The messages in the channel are the workers, one per request and row.   *)
WorkerInv ==
    /\ IsFiniteSet(workers)
    /\ held = Cardinality(workers)
    /\ \A w \in workers :
          /\ pc[w.request] \notin {"idle", "query", "current"}
          /\ w.row \notin todo[w.request]
          /\ pc[w.request] = "slot" => w.row # trying[w.request]
    /\ \A v, w \in workers : v.request = w.request /\ v.row = w.row => v = w

IInv == TypeOK /\ RequestInv /\ NotMissed /\ WorkerInv

-----------------------------------------------------------------------------
(* The initial state.                                                      *)
LEMMA InitIInv == Init => IInv
<1> SUFFICES ASSUME Init PROVE IInv
  OBVIOUS
<1>1. TypeOK
  BY SlotsAssumption DEF Init, TypeOK
<1>2. RequestInv /\ NotMissed
  BY DEF Init, RequestInv, NotMissed
<1>3. WorkerInv
  BY FS_EmptySet DEF Init, WorkerInv
<1> QED
  BY <1>1, <1>2, <1>3 DEF IInv

(* A request that ends keeps what is not about its answer.                 *)
LEMMA EndIInv ==
  ASSUME IInv, NEW r \in Requests, pc[r] # "idle", NEW how \in Ended, Goto(r, how),
         NEW result \in Tokens \union {None, "invalid", "unavailable"},
         answer' = [answer EXCEPT ![r] = result],
         UNCHANGED <<revoked, request, todo, trying, held, workers>>
  PROVE  IInv'
<1> USE DEF Ended
<1>1. TypeOK'
  BY DEF IInv, TypeOK, Goto, request
<1>2. RequestInv'
  BY DEF IInv, TypeOK, RequestInv, Goto, request, Rows
<1>3. NotMissed'
  BY DEF IInv, TypeOK, NotMissed, Goto, request, Rows
<1>4. WorkerInv'
  BY DEF IInv, TypeOK, WorkerInv, Worker, Goto, request
<1> QED
  BY <1>1, <1>2, <1>3, <1>4 DEF IInv

(* So does one that is answered, and one that is aborted.                  *)
LEMMA AnswerIInv ==
  ASSUME IInv, NEW r \in Requests, pc[r] # "idle",
         NEW result \in Tokens \union {None, "invalid", "unavailable"},
         Abort(r) \/ (Answer(r, result) /\ UNCHANGED <<held, workers>>)
  PROVE  IInv'
  BY EndIInv DEF Answer, Abort, Ended

(* A step that starts no worker and ends none keeps WorkerInv, if the rows *)
(* of its workers stay tried.                                              *)
LEMMA SameWorkers ==
  ASSUME IInv, UNCHANGED <<held, workers>>,
         \A w \in workers :
            /\ pc'[w.request] \notin {"idle", "query", "current"}
            /\ w.row \notin todo'[w.request]
            /\ pc'[w.request] = "slot" => w.row # trying'[w.request]
  PROVE  WorkerInv'
  BY DEF IInv, WorkerInv

(* Every step keeps the invariant.                                         *)
LEMMA NextIInv == IInv /\ [Next]_vars => IInv'
<1> SUFFICES ASSUME IInv, [Next]_vars PROVE IInv'
  OBVIOUS
<1> USE DEF request, Rows, Ended
<1>1. ASSUME NEW t \in Tokens, Revoke(t) PROVE IInv'
  <2>1. TypeOK'
    BY <1>1 DEF Revoke, IInv, TypeOK
  <2>2. RequestInv'
    BY <1>1 DEF Revoke, IInv, RequestInv
  <2>3. NotMissed'
    BY <1>1 DEF Revoke, IInv, NotMissed
  <2>4. WorkerInv'
    BY <1>1 DEF Revoke, IInv, WorkerInv
  <2> QED
    BY <2>1, <2>2, <2>3, <2>4 DEF IInv
<1>2. ASSUME NEW r \in Requests, Arrive(r) PROVE IInv'
  <2>1. PICK t \in Rows(r) \union {None} :
           /\ raw' = [raw EXCEPT ![r] = t]
           /\ hopeless' = [hopeless EXCEPT ![r] = t \in revoked \union {None}]
    BY <1>2 DEF Arrive
  <2>2. TypeOK'
    BY <1>2, <2>1, TokensAssumption DEF Arrive, Goto, IInv, TypeOK
  <2>3. RequestInv'
    BY <1>2, <2>1 DEF Arrive, Goto, IInv, TypeOK, RequestInv
  <2>4. NotMissed'
    BY <1>2, <2>1 DEF Arrive, Goto, IInv, TypeOK, NotMissed
  <2>5. WorkerInv'
    BY <1>2, SameWorkers DEF Arrive, Goto, IInv, TypeOK, Worker, WorkerInv
  <2> QED
    BY <2>2, <2>3, <2>4, <2>5 DEF IInv
<1>3. ASSUME NEW r \in Requests, Query(r) PROVE IInv'
  <2>1. TypeOK'
    BY <1>3, TokensAssumption DEF Query, Goto, IInv, TypeOK
  <2>2. RequestInv'
    BY <1>3, TokensAssumption DEF Query, Goto, IInv, TypeOK, RequestInv, Rows
  <2>3. NotMissed'
    BY <1>3 DEF Query, Goto, IInv, TypeOK, NotMissed
  <2>4. WorkerInv'
    BY <1>3, SameWorkers DEF Query, Goto, IInv, TypeOK, Worker, WorkerInv
  <2> QED
    BY <2>1, <2>2, <2>3, <2>4 DEF IInv
<1>4. ASSUME NEW r \in Requests, QueryFails(r) PROVE IInv'
  BY <1>4, AnswerIInv DEF QueryFails
<1>5. ASSUME NEW r \in Requests, CurrentPass(r) PROVE IInv'
  <2>1. CASE Answer(r, raw[r])
    <3>1. raw[r] \in Tokens \union {None}
      BY DEF IInv, TypeOK
    <3> QED
      BY <1>5, <2>1, <3>1, AnswerIInv DEF CurrentPass
  <2>2. CASE /\ raw[r] \notin todo[r] \cap Current
             /\ Goto(r, "legacy")
             /\ UNCHANGED <<revoked, raw, hopeless, todo, trying, answer>>
    <3>1. TypeOK'
      BY <1>5, <2>2 DEF CurrentPass, Goto, IInv, TypeOK
    <3>2. RequestInv'
      BY <1>5, <2>2 DEF CurrentPass, Goto, IInv, TypeOK, RequestInv
    <3>3. NotMissed'
      BY <1>5, <2>2, TokensAssumption DEF CurrentPass, Goto, IInv, TypeOK, RequestInv, NotMissed, Tokens
    <3>4. WorkerInv'
      BY <1>5, <2>2, SameWorkers DEF CurrentPass, Goto, IInv, TypeOK, Worker, WorkerInv
    <3> QED
      BY <3>1, <3>2, <3>3, <3>4 DEF IInv
  <2> QED
    BY <1>5, <2>1, <2>2 DEF CurrentPass
<1>6. ASSUME NEW r \in Requests, NextCandidate(r) PROVE IInv'
  <2>1. CASE Answer(r, "invalid")
    BY <1>6, <2>1, AnswerIInv DEF NextCandidate
  <2>2. ASSUME NEW c \in todo[r] \cap Legacy,
               trying' = [trying EXCEPT ![r] = c],
               todo' = [todo EXCEPT ![r] = @ \ {c}],
               Goto(r, "slot"),
               UNCHANGED <<revoked, raw, hopeless, answer>>
        PROVE  IInv'
    <3>1. TypeOK'
      BY <1>6, <2>2 DEF NextCandidate, Goto, IInv, TypeOK
    <3>2. RequestInv'
      BY <1>6, <2>2 DEF NextCandidate, Goto, IInv, TypeOK, RequestInv
    <3>3. NotMissed'
      BY <1>6, <2>2 DEF NextCandidate, Goto, IInv, TypeOK, NotMissed
    <3>4. WorkerInv'
      BY <1>6, <2>2, SameWorkers DEF NextCandidate, Goto, IInv, TypeOK, Worker,
         WorkerInv
    <3> QED
      BY <3>1, <3>2, <3>3, <3>4 DEF IInv
  <2> QED
    BY <1>6, <2>1, <2>2 DEF NextCandidate
<1>7. ASSUME NEW r \in Requests, TakeSlot(r) PROVE IInv'
  <2> DEFINE w == [request |-> r, row |-> trying[r], sent |-> FALSE]
  <2>1. trying[r] \in Legacy
    BY <1>7 DEF TakeSlot, IInv, RequestInv
  <2>2. \A v \in workers : v.request = r => v.row # trying[r]
    BY <1>7 DEF TakeSlot, IInv, WorkerInv
  <2>3. w \notin workers
    BY <2>2
  <2>4. IsFiniteSet(workers') /\ held' = Cardinality(workers')
    BY <1>7, <2>3, FS_AddElement DEF TakeSlot, IInv, WorkerInv
  <2>5. TypeOK'
    <3>1. workers' \in SUBSET Worker
      <4>1. w \in Worker
        BY <2>1 DEF Worker
      <4>2. workers' = workers \union {w}
        BY <1>7 DEF TakeSlot
      <4> QED
        BY <4>1, <4>2 DEF IInv, TypeOK
    <3>2. held' \in 0..Slots
      BY <1>7, SlotsAssumption DEF TakeSlot, IInv, TypeOK
    <3> QED
      BY <1>7, <3>1, <3>2 DEF TakeSlot, Goto, IInv, TypeOK
  <2>6. RequestInv'
    BY <1>7 DEF TakeSlot, Goto, IInv, TypeOK, RequestInv
  <2>7. NotMissed'
    BY <1>7 DEF TakeSlot, Goto, IInv, TypeOK, NotMissed
  <2>8. \A v \in workers' :
           /\ pc'[v.request] \notin {"idle", "query", "current"}
           /\ v.row \notin todo'[v.request]
           /\ pc'[v.request] = "slot" => v.row # trying'[v.request]
    BY <1>7 DEF TakeSlot, Goto, IInv, TypeOK, Worker, WorkerInv, RequestInv
  <2>9. \A u, v \in workers' : u.request = v.request /\ u.row = v.row => u = v
    <3>1. workers' = workers \union {w} /\ w.request = r /\ w.row = trying[r]
      BY <1>7 DEF TakeSlot
    <3> HIDE DEF w
    <3> QED
      BY <2>2, <3>1 DEF IInv, WorkerInv
  <2> QED
    BY <2>4, <2>5, <2>6, <2>7, <2>8, <2>9 DEF IInv, WorkerInv
<1>8. ASSUME NEW r \in Requests, Busy(r) \/ TimesOut(r) \/ Cancelled(r) PROVE IInv'
  BY <1>8, AnswerIInv DEF Busy, TimesOut, Cancelled
<1>9. ASSUME NEW r \in Requests, Verified(r) PROVE IInv'
  <2>1. CASE Answer(r, raw[r])
    <3>1. raw[r] \in Tokens \union {None}
      BY DEF IInv, TypeOK
    <3> QED
      BY <1>9, <2>1, <3>1, AnswerIInv DEF Verified
  <2>2. CASE /\ trying[r] # raw[r]
             /\ Goto(r, "legacy")
             /\ UNCHANGED <<revoked, raw, hopeless, todo, trying, answer>>
    <3>1. TypeOK'
      BY <1>9, <2>2 DEF Verified, Goto, IInv, TypeOK
    <3>2. RequestInv'
      BY <1>9, <2>2 DEF Verified, Goto, IInv, TypeOK, RequestInv
    <3>3. NotMissed'
      BY <1>9, <2>2 DEF Verified, Goto, IInv, TypeOK, NotMissed
    <3>4. WorkerInv'
      BY <1>9, <2>2, SameWorkers DEF Verified, Goto, IInv, TypeOK, Worker, WorkerInv
    <3> QED
      BY <3>1, <3>2, <3>3, <3>4 DEF IInv
  <2> QED
    BY <1>9, <2>1, <2>2 DEF Verified
<1>10. ASSUME NEW w \in workers, WorkerSends(w) \/ WorkerEnds(w) PROVE IInv'
  <2> DEFINE rest == workers \ {w}
             sender == [w EXCEPT !.sent = TRUE]
  <2>1. w \in Worker
    BY DEF IInv, TypeOK
  <2>2. /\ sender \in Worker
        /\ sender.request = w.request /\ sender.row = w.row
    BY <2>1 DEF Worker
  <2>3. IsFiniteSet(rest) /\ Cardinality(rest) = held - 1
    BY FS_RemoveElement DEF IInv, WorkerInv
  <2>4. UNCHANGED <<revoked, pc, raw, hopeless, todo, trying, answer>>
    BY <1>10 DEF WorkerSends, WorkerEnds
  <2>5. RequestInv' /\ NotMissed'
    BY <2>4 DEF IInv, RequestInv, NotMissed
  <2>6. CASE WorkerSends(w)
    <3>1. sender \notin rest
      BY <2>1, <2>2 DEF IInv, WorkerInv
    <3>2. IsFiniteSet(workers') /\ Cardinality(workers') = held'
      <4>1. held - 1 + 1 = held
        BY DEF IInv, TypeOK
      <4> QED
        BY <2>3, <2>6, <3>1, <4>1, FS_AddElement DEF WorkerSends
    <3>3. TypeOK'
      BY <2>2, <2>4, <2>6 DEF WorkerSends, IInv, TypeOK
    <3>4. \A v \in workers' :
             /\ pc'[v.request] \notin {"idle", "query", "current"}
             /\ v.row \notin todo'[v.request]
             /\ pc'[v.request] = "slot" => v.row # trying'[v.request]
      <4>1. workers' = rest \union {sender}
        BY <2>6 DEF WorkerSends
      <4> HIDE DEF sender
      <4> QED
        BY <2>2, <2>4, <4>1 DEF IInv, WorkerInv
    <3>5. \A u, v \in workers' : u.request = v.request /\ u.row = v.row => u = v
      <4>1. workers' = rest \union {sender}
        BY <2>6 DEF WorkerSends
      <4> HIDE DEF sender
      <4> QED
        BY <2>2, <4>1 DEF IInv, WorkerInv
    <3> QED
      BY <2>5, <3>2, <3>3, <3>4, <3>5 DEF IInv, WorkerInv
  <2>7. CASE WorkerEnds(w)
    <3>1. Cardinality(rest) \in Nat
      BY <2>3, FS_CardinalityType
    <3>2. TypeOK'
      <4>1. held' \in 0..Slots
        BY <2>3, <2>7, <3>1, SlotsAssumption DEF WorkerEnds, IInv, TypeOK
      <4> QED
        BY <2>4, <2>7, <4>1 DEF WorkerEnds, IInv, TypeOK
    <3>3. WorkerInv'
      BY <2>3, <2>4, <2>7 DEF WorkerEnds, IInv, WorkerInv
    <3> QED
      BY <2>5, <3>2, <3>3 DEF IInv
  <2> QED
    BY <1>10, <2>6, <2>7
<1>11. CASE UNCHANGED vars
  BY <1>11 DEF vars, IInv, TypeOK, RequestInv, NotMissed, WorkerInv
<1> QED
  BY <1>1, <1>2, <1>3, <1>4, <1>5, <1>6, <1>7, <1>8, <1>9, <1>10, <1>11 DEF
     Next, RequestStep

(* The invariant holds in every behaviour.                                 *)
THEOREM Invariant == Spec => []IInv
  BY InitIInv, NextIInv, PTL DEF Spec

(* Every variable keeps its type; the channel holds at most Slots.         *)
THEOREM TypeCorrect == Spec => []TypeOK
<1>1. IInv => TypeOK
  BY DEF IInv
<1> QED
  BY Invariant, <1>1, PTL

(* No more than Slots Argon2 workers run, whoever has left.                *)
THEOREM BoundedWorkers == Spec => []WorkersBounded
<1>1. IInv => WorkersBounded
  BY SlotsAssumption DEF IInv, TypeOK, WorkerInv, WorkersBounded
<1> QED
  BY Invariant, <1>1, PTL

(* A live token in the current format never gets as far as the slots.      *)
THEOREM CurrentPassesBy == Spec => []CurrentNeedsNoSlot
<1>1. IInv => CurrentNeedsNoSlot
  BY TokensAssumption DEF IInv, RequestInv, NotMissed, CurrentNeedsNoSlot, Tokens, Ended
<1> QED
  BY Invariant, <1>1, PTL

-----------------------------------------------------------------------------
(* An answer is right when it is given, and what it rests on stays.        *)
LEMMA NextAnswers == AnswersAreRight /\ IInv /\ [Next]_vars => AnswersAreRight'
<1> SUFFICES ASSUME AnswersAreRight, IInv, [Next]_vars PROVE AnswersAreRight'
  OBVIOUS
<1> USE TokensAssumption DEF request, Ended
<1>1. ASSUME NEW r \in Requests, pc[r] \notin {"idle", "aborted"},
             NEW result \in Tokens \union {None, "invalid", "unavailable"},
             Answer(r, result),
             result \in Tokens => result = raw[r] /\ ~hopeless[r],
             result = "invalid" => raw[r] \in revoked \union {None}
      PROVE  AnswersAreRight'
  BY <1>1 DEF Answer, Goto, AnswersAreRight, IInv, TypeOK
<1>2. ASSUME NEW t \in Tokens, Revoke(t) PROVE AnswersAreRight'
  BY <1>2 DEF Revoke, AnswersAreRight
<1>3. ASSUME NEW r \in Requests, Arrive(r) PROVE AnswersAreRight'
  <2>1. answer[r] = None
    BY <1>3 DEF Arrive, IInv, RequestInv
  <2>2. \A q \in Requests \ {r} : raw'[q] = raw[q] /\ hopeless'[q] = hopeless[q]
    BY <1>3 DEF Arrive, IInv, TypeOK
  <2> QED
    BY <1>3, <2>1, <2>2 DEF Arrive, Goto, AnswersAreRight, IInv, TypeOK
<1>4. ASSUME NEW r \in Requests, QueryFails(r) \/ Busy(r) \/ TimesOut(r) \/ Cancelled(r)
      PROVE  AnswersAreRight'
  <2>1. ASSUME Abort(r) PROVE AnswersAreRight'
    <3>1. pc'[r] = "aborted" /\ answer'[r] = IF r \in Callbacks THEN "invalid" ELSE "unavailable"
      BY <2>1 DEF Abort, Goto, IInv, TypeOK
    <3>2. \A q \in Requests \ {r} : pc'[q] = pc[q] /\ answer'[q] = answer[q]
      BY <2>1 DEF Abort, Goto, IInv, TypeOK
    <3> QED
      BY <2>1, <3>1, <3>2 DEF Abort, AnswersAreRight
  <2> QED
    BY <1>4, <1>1, <2>1 DEF QueryFails, Busy, TimesOut, Cancelled
<1>5. ASSUME NEW r \in Requests, CurrentPass(r) \/ Verified(r) PROVE AnswersAreRight'
  <2>1. CASE Answer(r, raw[r])
    <3>1. raw[r] \in Tokens \union {None}
      BY DEF IInv, TypeOK
    <3>2. CASE CurrentPass(r) /\ raw[r] \in todo[r] \cap Current
      BY <2>1, <3>1, <3>2, <1>1 DEF CurrentPass, IInv, RequestInv
    <3>3. CASE Verified(r) /\ trying[r] = raw[r]
      BY <2>1, <3>1, <3>3, <1>1 DEF Verified, IInv, RequestInv
    <3>4. CASE Goto(r, "legacy") /\ UNCHANGED <<revoked, raw, hopeless, answer>>
      BY <1>5, <3>4 DEF CurrentPass, Verified, Goto, AnswersAreRight, IInv, TypeOK
    <3> QED
      BY <1>5, <3>2, <3>3, <3>4 DEF CurrentPass, Verified
  <2> QED
    BY <1>5, <2>1 DEF CurrentPass, Verified, Goto, AnswersAreRight, IInv, TypeOK
<1>6. ASSUME NEW r \in Requests, NextCandidate(r) PROVE AnswersAreRight'
  <2>1. CASE todo[r] \cap Legacy = {} /\ Answer(r, "invalid")
    BY <1>6, <2>1, <1>1 DEF NextCandidate, IInv, NotMissed
  <2> QED
    BY <1>6, <2>1 DEF NextCandidate, Goto, AnswersAreRight, IInv, TypeOK
<1>7. ASSUME NEW r \in Requests, Query(r) \/ TakeSlot(r) PROVE AnswersAreRight'
  BY <1>7 DEF Query, TakeSlot, Goto, AnswersAreRight, IInv, TypeOK
<1>8. ASSUME NEW w \in workers, WorkerSends(w) \/ WorkerEnds(w) PROVE AnswersAreRight'
  BY <1>8 DEF WorkerSends, WorkerEnds, AnswersAreRight
<1>9. CASE UNCHANGED vars
  BY <1>9 DEF vars, AnswersAreRight
<1> QED
  BY <1>2, <1>3, <1>4, <1>5, <1>6, <1>7, <1>8, <1>9 DEF Next, RequestStep

(* No token is taken for another or accepted after its revocation; none is *)
(* called invalid while it is live, unless it is the plugin that has lost  *)
(* the database or frps during the lookup.                                 *)
THEOREM Verdicts == Spec => []AnswersAreRight
<1>1. Init => AnswersAreRight
  BY TokensAssumption DEF Init, AnswersAreRight
<1> QED
  BY Invariant, <1>1, NextAnswers, PTL DEF Spec

-----------------------------------------------------------------------------
(* A request runs out of candidates, and Argon2 out of work.               *)

(* The steps a request has left at most: three per legacy candidate.       *)
StepsFrom(step, candidates) ==
    CASE step \in {"idle", "query"} -> 3 * Cardinality(Legacy) + 3
      [] step = "current" -> 3 * Cardinality(candidates) + 2
      [] step = "legacy" -> 3 * Cardinality(candidates) + 1
      [] step = "slot" -> 3 * Cardinality(candidates) + 3
      [] step = "verify" -> 3 * Cardinality(candidates) + 2
      [] step \in Ended -> 0

StepsLeft(r) == StepsFrom(pc[r], todo[r] \cap Legacy)

(* The steps of the workers that run, two of each.                         *)
WorkLeft == Cardinality(workers) + Cardinality({w \in workers : ~w.sent})

(* Every step of a request leaves it fewer, and nothing else more, however *)
(* many rows share its prefix; while every slot is taken Argon2 has work   *)
(* left, and less of it with every step of a worker, whoever comes and     *)
(* goes.                                                                   *)
WorkDescends ==
    /\ \A r \in Requests :
          /\ StepsLeft(r) \in 0..3 * Cardinality(Legacy) + 3
          /\ StepsLeft(r)' <= StepsLeft(r)
          /\ RequestStep(r) => StepsLeft(r)' < StepsLeft(r)
    /\ held = Slots =>
          /\ WorkLeft \in 1..2 * Slots
          /\ WorkLeft' <= WorkLeft
          /\ (\E w \in workers : WorkerSends(w) \/ WorkerEnds(w)) => WorkLeft' < WorkLeft
WorkRunsOut == [][WorkDescends]_vars

(* The measure is a number, and not 0 before the answer.                   *)
LEMMA StepsAreFew ==
  ASSUME NEW candidates \in SUBSET Legacy,
         NEW step \in {"idle", "query", "current", "legacy", "slot", "verify"} \union Ended
  PROVE  /\ Cardinality(candidates) \in Nat
         /\ StepsFrom(step, candidates) \in 0..3 * Cardinality(Legacy) + 3
         /\ step \notin Ended => StepsFrom(step, candidates) > 0
<1>1. /\ Cardinality(candidates) \in Nat /\ Cardinality(Legacy) \in Nat
      /\ Cardinality(candidates) <= Cardinality(Legacy)
  BY TokensAssumption, FS_Subset, FS_CardinalityType
<1> QED
  BY <1>1 DEF StepsFrom, Ended

(* The steps of a request lead forward.                                    *)
LEMMA RequestDescends ==
  ASSUME IInv, NEW r \in Requests, RequestStep(r)
  PROVE  StepsLeft(r)' < StepsLeft(r)
<1> DEFINE candidates == todo[r] \cap Legacy
           after == todo'[r] \cap Legacy
<1>1. /\ pc \in [Requests -> {"idle", "query", "current", "legacy", "slot", "verify"} \union Ended]
      /\ todo \in [Requests -> SUBSET Tokens]
      /\ candidates \in SUBSET Legacy /\ after \in SUBSET Legacy
      /\ IsFiniteSet(Legacy) /\ IsFiniteSet(candidates)
  BY TokensAssumption, FS_Subset DEF IInv, TypeOK
<1>2. StepsLeft(r) = StepsFrom(pc[r], candidates) /\ StepsLeft(r)' = StepsFrom(pc'[r], after)
  BY DEF StepsLeft
<1> HIDE DEF candidates, after
<1>3. /\ Cardinality(candidates) \in Nat /\ Cardinality(after) \in Nat
      /\ Cardinality(Legacy) \in Nat /\ Cardinality(after) <= Cardinality(Legacy)
  BY <1>1, TokensAssumption, FS_Subset, FS_CardinalityType
<1>4. ASSUME NEW how \in Ended, Goto(r, how), pc[r] \notin Ended
      PROVE  StepsLeft(r)' < StepsLeft(r)
  <2>1. pc'[r] \in Ended
    BY <1>1, <1>4 DEF Goto, Ended
  <2>2. StepsLeft(r)' = 0 /\ StepsLeft(r) > 0 /\ StepsLeft(r) \in Int
    BY <1>1, <1>2, <1>4, <2>1, StepsAreFew DEF StepsFrom, Ended
  <2> QED
    BY <2>2
<1>5. CASE Query(r)
  <2>1. pc[r] = "query" /\ pc'[r] = "current"
    BY <1>1, <1>5 DEF Query, Goto
  <2> QED
    BY <1>2, <1>3, <2>1 DEF StepsFrom, Ended
<1>6. ASSUME UNCHANGED todo,
             \/ pc[r] = "current" /\ pc'[r] = "legacy"
             \/ pc[r] = "slot" /\ pc'[r] = "verify"
             \/ pc[r] = "verify" /\ pc'[r] = "legacy"
      PROVE  StepsLeft(r)' < StepsLeft(r)
  <2>1. after = candidates
    BY <1>6 DEF after, candidates
  <2> QED
    BY <1>2, <1>3, <1>6, <2>1 DEF StepsFrom, Ended
<1>7. CASE QueryFails(r) \/ Busy(r) \/ TimesOut(r) \/ Cancelled(r)
  BY <1>4, <1>7 DEF QueryFails, Busy, TimesOut, Cancelled, Answer, Abort, Ended
<1>8. CASE CurrentPass(r) \/ TakeSlot(r) \/ Verified(r)
  BY <1>1, <1>4, <1>6, <1>8 DEF CurrentPass, TakeSlot, Verified, Answer, Goto, Ended
<1>9. ASSUME NEW c \in todo[r] \cap Legacy, todo' = [todo EXCEPT ![r] = @ \ {c}],
             pc[r] = "legacy", Goto(r, "slot")
      PROVE  StepsLeft(r)' < StepsLeft(r)
  <2>1. after = candidates \ {c} /\ c \in candidates
    BY <1>1, <1>9 DEF after, candidates
  <2>2. Cardinality(after) = Cardinality(candidates) - 1
    BY <1>1, <2>1, FS_RemoveElement
  <2>3. pc'[r] = "slot"
    BY <1>1, <1>9 DEF Goto
  <2> QED
    BY <1>2, <1>3, <1>9, <2>2, <2>3 DEF StepsFrom, Ended
<1>10. CASE NextCandidate(r)
  BY <1>4, <1>9, <1>10 DEF NextCandidate, Answer, Ended
<1> QED
  BY <1>5, <1>7, <1>8, <1>10 DEF RequestStep, Ended

(* A step that is not one of the request does not put it off.              *)
LEMMA OthersPutNothingOff ==
  ASSUME IInv, [Next]_vars, NEW r \in Requests, ~RequestStep(r)
  PROVE  StepsLeft(r)' = StepsLeft(r)
<1> USE DEF request
<1>1. /\ pc \in [Requests -> {"idle", "query", "current", "legacy", "slot", "verify"} \union Ended]
      /\ todo \in [Requests -> SUBSET Tokens]
  BY DEF IInv, TypeOK
<1>2. ASSUME pc'[r] = pc[r], todo'[r] = todo[r] PROVE StepsLeft(r)' = StepsLeft(r)
  BY <1>2 DEF StepsLeft
<1>3. ASSUME NEW q \in Requests \ {r}, RequestStep(q) PROVE pc'[r] = pc[r] /\ todo'[r] = todo[r]
  BY <1>1, <1>3 DEF RequestStep, Query, QueryFails, CurrentPass, NextCandidate, TakeSlot, Busy,
     TimesOut, Cancelled, Verified, Answer, Abort, Goto
<1>4. CASE Arrive(r)
  <2>1. pc[r] = "idle" /\ pc'[r] = "query"
    BY <1>1, <1>4 DEF Arrive, Goto
  <2> QED
    BY <2>1 DEF StepsLeft, StepsFrom, Ended
<1>5. ASSUME NEW q \in Requests \ {r}, Arrive(q) PROVE pc'[r] = pc[r] /\ todo'[r] = todo[r]
  BY <1>1, <1>5 DEF Arrive, Goto
<1>6. CASE (\E t \in Tokens : Revoke(t)) \/ UNCHANGED vars
  BY <1>2, <1>6 DEF Revoke, vars
<1>7. CASE \E w \in workers : WorkerSends(w) \/ WorkerEnds(w)
  BY <1>2, <1>7 DEF WorkerSends, WorkerEnds
<1> QED
  BY <1>2, <1>3, <1>4, <1>5, <1>6, <1>7 DEF Next

(* A worker that sends its result, or ends, has less to do.                *)
LEMMA WorkersDescend ==
  ASSUME IInv, NEW w \in workers, WorkerSends(w) \/ WorkerEnds(w)
  PROVE  WorkLeft \in Nat /\ WorkLeft' < WorkLeft
<1> DEFINE busy == {v \in workers : ~v.sent}
           rest == workers \ {w}
           sender == [w EXCEPT !.sent = TRUE]
<1>1. IsFiniteSet(workers) /\ IsFiniteSet(busy) /\ IsFiniteSet(rest)
      /\ Cardinality(rest) = Cardinality(workers) - 1
  BY FS_Subset, FS_RemoveElement DEF IInv, WorkerInv
<1>2. Cardinality(workers) \in Nat /\ Cardinality(busy) \in Nat /\ Cardinality(rest) \in Nat
  BY <1>1, FS_CardinalityType
<1>3. w \in Worker
  BY DEF IInv, TypeOK
<1>4. WorkLeft = Cardinality(workers) + Cardinality(busy)
  BY DEF WorkLeft
<1>5. CASE WorkerSends(w)
  <2>1. /\ sender \notin rest /\ sender.sent
    BY <1>3 DEF IInv, WorkerInv, Worker
  <2>2. workers' = rest \union {sender} /\ ~w.sent
    BY <1>5 DEF WorkerSends
  <2> HIDE DEF sender
  <2>3. Cardinality(workers') = Cardinality(workers)
    <3> HIDE DEF rest
    <3>1. Cardinality(rest \union {sender}) = Cardinality(rest) + 1
      BY <1>1, <2>1, FS_AddElement
    <3> QED
      BY <1>1, <1>2, <2>2, <3>1
  <2>4. {v \in workers' : ~v.sent} = busy \ {w} /\ w \in busy
    BY <2>1, <2>2
  <2>5. Cardinality({v \in workers' : ~v.sent}) = Cardinality(busy) - 1
    BY <1>1, <2>4, FS_RemoveElement
  <2> HIDE DEF busy
  <2> QED
    BY <1>2, <1>4, <2>3, <2>5 DEF WorkLeft
<1>6. CASE WorkerEnds(w)
  <2>1. workers' = rest /\ {v \in rest : ~v.sent} = busy
    BY <1>6 DEF WorkerEnds
  <2> HIDE DEF busy, rest
  <2>2. WorkLeft' = Cardinality(rest) + Cardinality(busy)
    BY <2>1 DEF WorkLeft
  <2> QED
    BY <1>1, <1>2, <1>4, <2>2
<1> QED
  BY <1>2, <1>4, <1>5, <1>6

(* While every slot is taken nobody adds to the work.                      *)
LEMMA FullSlotsDrain ==
  ASSUME IInv, [Next]_vars, held = Slots
  PROVE  WorkLeft \in 1..2 * Slots /\ WorkLeft' <= WorkLeft
<1>1. IsFiniteSet(workers) /\ Cardinality(workers) = Slots /\ Slots \in Nat \ {0}
  BY SlotsAssumption DEF IInv, WorkerInv
<1>2. Cardinality({w \in workers : ~w.sent}) \in Nat
      /\ Cardinality({w \in workers : ~w.sent}) <= Cardinality(workers)
  BY <1>1, FS_Subset, FS_CardinalityType
<1>3. WorkLeft \in 1..2 * Slots
  BY <1>1, <1>2 DEF WorkLeft
<1>4. CASE UNCHANGED workers
  BY <1>3, <1>4 DEF WorkLeft
<1>5. CASE \E w \in workers : WorkerSends(w) \/ WorkerEnds(w)
  <2>1. WorkLeft \in Nat /\ WorkLeft' < WorkLeft
    BY <1>5, WorkersDescend
  <2>2. WorkLeft' \in Int
    <3>1. IsFiniteSet(workers') /\ IsFiniteSet({w \in workers' : ~w.sent})
      BY NextIInv, FS_Subset DEF IInv, WorkerInv
    <3> QED
      BY <3>1, FS_CardinalityType DEF WorkLeft
  <2> QED
    BY <1>3, <2>1, <2>2
<1>6. ASSUME NEW r \in Requests, RequestStep(r) \/ Arrive(r) PROVE UNCHANGED workers
  BY <1>1, <1>6 DEF Arrive, RequestStep, Query, QueryFails, CurrentPass, NextCandidate, TakeSlot,
     Busy, TimesOut, Cancelled, Verified, Abort
<1>7. CASE (\E t \in Tokens : Revoke(t)) \/ UNCHANGED vars
  BY <1>4, <1>7, <1>3 DEF Revoke, vars
<1> QED
  BY <1>3, <1>4, <1>5, <1>6, <1>7 DEF Next

(* A request takes three steps per legacy row of its prefix, and three:    *)
(* with fairness it is answered. When every slot is taken, at most         *)
(* 2 * Slots steps of Argon2 are due before one is free, whatever requests *)
(* do: what SlotsComeBack needs besides fairness (tokens.go:191-214).      *)
THEOREM SlotsDrain == Spec => WorkRunsOut
<1>1. IInv /\ [Next]_vars => WorkDescends
  <2> SUFFICES ASSUME IInv, [Next]_vars PROVE WorkDescends
    OBVIOUS
  <2>1. ASSUME NEW r \in Requests
        PROVE  /\ StepsLeft(r) \in 0..3 * Cardinality(Legacy) + 3
               /\ StepsLeft(r)' <= StepsLeft(r)
               /\ RequestStep(r) => StepsLeft(r)' < StepsLeft(r)
    <3>1. StepsLeft(r) \in 0..3 * Cardinality(Legacy) + 3
      BY StepsAreFew DEF StepsLeft, IInv, TypeOK
    <3>2. StepsLeft(r)' \in 0..3 * Cardinality(Legacy) + 3
      BY NextIInv, StepsAreFew DEF StepsLeft, IInv, TypeOK
    <3>3. Cardinality(Legacy) \in Nat
      BY TokensAssumption, FS_CardinalityType
    <3> QED
      BY <3>1, <3>2, <3>3, RequestDescends, OthersPutNothingOff
  <2> QED
    BY <2>1, FullSlotsDrain, WorkersDescend DEF WorkDescends
<1> QED
  BY Invariant, <1>1, PTL DEF Spec, WorkRunsOut
=============================================================================
