---------------------------- MODULE TokenBucket ----------------------------
(***************************************************************************)
(* What RateLimiter promises: one bucket per caller that holds a minute's  *)
(* worth of requests, fills steadily, and is never forgotten. A request    *)
(* costs Minute units, a tick brings Rate units to every bucket.           *)
(***************************************************************************)
EXTENDS Integers

CONSTANTS
    Callers,    (* API token ids *)
    Rate,       (* Config.RateCreatePerMin, requests per minute *)
    Minute      (* ticks of the clock per minute *)

VARIABLES level, admitted

Full == Rate * Minute
AtMostFull(n) == IF n > Full THEN Full ELSE n

Init ==
    /\ level = [c \in Callers |-> Full]
    /\ admitted = [c \in Callers |-> 0]

Admit(c) ==
    /\ level[c] >= Minute
    /\ level' = [level EXCEPT ![c] = @ - Minute]
    /\ admitted' = [admitted EXCEPT ![c] = @ + 1]

Fill ==
    /\ level' = [c \in Callers |-> AtMostFull(level[c] + Rate)]
    /\ UNCHANGED admitted

Next == Fill \/ \E c \in Callers : Admit(c)

Spec == Init /\ [][Next]_<<level, admitted>>
=============================================================================
