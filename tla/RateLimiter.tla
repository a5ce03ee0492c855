---------------------------- MODULE RateLimiter ----------------------------
(***************************************************************************)
(* The limiter of POST /v1/tunnels (internal/server/api/ratelimit.go): a   *)
(* map of buckets that are made when a caller first comes, filled only     *)
(* when it comes again, and dropped by a cleanup that any caller's request *)
(* may start. Allow runs under the mutex, in one step; a behaviour is one  *)
(* life of the process. The floats of the code are exact here, in units of *)
(* 1/Minute of a request.                                                  *)
(***************************************************************************)
EXTENDS Integers, FiniteSets

CONSTANTS
    Callers,    (* API token ids *)
    Rate,       (* requests per minute, and the capacity *)
    Minute,     (* ticks of the clock per minute *)
    Cleanup,    (* RateLimiter.cleanup, in ticks *)
    None,
    MaxClock    (* bound: the clock stops here *)

ASSUME RateAssumption == Rate \in Nat \ {0} /\ Minute \in Nat \ {0}
ASSUME CleanupAssumption == Cleanup \in Nat /\ Cleanup >= Minute
ASSUME ClockAssumption == MaxClock \in Nat

Full == Rate * Minute
Bucket == [tokens : 0..Full, lastRefill : 0..MaxClock]

ASSUME NoneIsNoBucket == None \notin Bucket

VARIABLES
    now,
    buckets,    (* rl.buckets: None, or tokens and lastRefill *)
    lastGC,
    admitted    (* requests let through up to each instant, of each caller *)

vars == <<now, buckets, lastGC, admitted>>

AtMostFull(n) == IF n > Full THEN Full ELSE n

Init ==
    /\ now = 0
    /\ buckets = [c \in Callers |-> None]
    /\ lastGC = 0
    /\ admitted = [c \in Callers |-> [i \in 0..MaxClock |-> 0]]

(* A mutant: everything is dropped when the cleanup is due.                *)
MutantStale(b) == now - lastGC >= Cleanup /\ b # None

(* cleanupStale drops these, if it is due.                                 *)
Stale(b) == now - lastGC >= Cleanup /\ b # None /\ b.lastRefill < now - Cleanup

(* The bucket of a caller after its refill, in the map or new.             *)
Tokens(b) == IF b = None THEN Full ELSE AtMostFull(b.tokens + (now - b.lastRefill) * Rate)

(* Allow, with what it does to the map, for a caller that has n tokens.    *)
Keep(c, n) ==
    /\ buckets' = [d \in Callers |->
                      IF d = c THEN [tokens |-> n, lastRefill |-> now]
                      ELSE IF Stale(buckets[d]) THEN None ELSE buckets[d]]
    /\ lastGC' = IF now - lastGC >= Cleanup THEN now ELSE lastGC

AfterGC(c) == IF Stale(buckets[c]) THEN None ELSE buckets[c]

Allow(c) ==
    /\ Tokens(AfterGC(c)) >= Minute
    /\ Keep(c, Tokens(AfterGC(c)) - Minute)
    /\ admitted' = [admitted EXCEPT ![c] =
                       [i \in 0..MaxClock |-> IF i >= now THEN @[i] + 1 ELSE @[i]]]
    /\ UNCHANGED now

(* 429: the refill is kept.                                                *)
Refuse(c) ==
    /\ Tokens(AfterGC(c)) < Minute
    /\ Keep(c, Tokens(AfterGC(c)))
    /\ UNCHANGED <<now, admitted>>

Tick ==
    /\ now < MaxClock
    /\ now' = now + 1
    /\ UNCHANGED <<buckets, lastGC, admitted>>

Next == Tick \/ \E c \in Callers : Allow(c) \/ Refuse(c)

Spec == Init /\ [][Next]_vars

-----------------------------------------------------------------------------
(* Buckets never hold more than a minute's worth, and never less than none.*)
TypeOK ==
    /\ now \in 0..MaxClock
    /\ buckets \in [Callers -> Bucket \union {None}]
    /\ lastGC \in 0..now
    /\ admitted \in [Callers -> [0..MaxClock -> Nat]]

(* Requests of c let through at the instants from i to j.                  *)
AdmittedIn(c, i, j) == admitted[c][j] - (IF i = 0 THEN 0 ELSE admitted[c][i - 1])

(* In any stretch of time a caller gets through the burst and what flows   *)
(* in, and no more, whenever its bucket is dropped and made again.         *)
WindowBound ==
    \A c \in Callers : \A i \in 0..now : \A j \in i..now :
        AdmittedIn(c, i, j) * Minute <= Full + (j - i) * Rate

(* Dropping a bucket is invisible: the limiter implements one bucket per   *)
(* caller that fills at every tick and is never forgotten.                 *)
Ideal == INSTANCE TokenBucket WITH
             level <- [c \in Callers |-> Tokens(buckets[c])],
             admitted <- [c \in Callers |-> admitted[c][MaxClock]]
ImplementsTokenBucket == Ideal!Spec
=============================================================================
