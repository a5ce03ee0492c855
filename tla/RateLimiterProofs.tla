------------------------- MODULE RateLimiterProofs -------------------------
(***************************************************************************)
(* Proofs about RateLimiter, for any rate, any length of a minute, any     *)
(* cleanup interval of a minute or more, and any number of callers.        *)
(***************************************************************************)
EXTENDS RateLimiter, TLAPS

(* What a caller could spend now.                                          *)
Level(c) == Tokens(buckets[c])

(* A bucket was filled no later than now, and no instant to come has more  *)
(* admissions than now.                                                    *)
PastInv ==
    \A c \in Callers :
        /\ buckets[c] # None => buckets[c].lastRefill <= now
        /\ \A x \in now..MaxClock : admitted[c][x] = admitted[c][now]

(* What was spent since an instant, and what is left, has flowed in since  *)
(* then, or was there.                                                     *)
Credit ==
    \A c \in Callers : \A i \in 0..now :
        AdmittedIn(c, i, now) * Minute + Level(c) <= Full + (now - i) * Rate

IInv == TypeOK /\ PastInv /\ Credit /\ WindowBound

-----------------------------------------------------------------------------
(* Arithmetic of the bucket.                                               *)

(* A full bucket holds at least one minute and one second of tokens.       *)
LEMMA Quantities == Full \in Nat /\ Minute \in Nat /\ Rate \in Nat /\ Full >= Minute /\ Full >= Rate
<1>1. Rate \in Nat /\ Rate >= 1 /\ Minute \in Nat /\ Minute >= 1
  BY RateAssumption
<1>2. Rate - 1 \in Nat /\ Minute - 1 \in Nat
  BY <1>1
<1>3. (Rate - 1) * Minute \in Nat /\ Rate * (Minute - 1) \in Nat
  BY <1>1, <1>2
<1>4. Full = (Rate - 1) * Minute + Minute /\ Full = Rate * (Minute - 1) + Rate
  BY <1>1 DEF Full
<1> QED
  BY <1>1, <1>3, <1>4

(* One more of n costs, or brings, one more k.                             *)
LEMMA OneMore ==
  ASSUME NEW n \in Int, NEW k \in Nat
  PROVE  n * k \in Int /\ (n + 1) * k = n * k + k /\ 0 * k = 0
  OBVIOUS

(* A bucket read now holds between nothing and the burst.                  *)
LEMMA TokensInRange ==
  ASSUME NEW b \in Bucket \union {None}, now \in Nat, b # None => b.lastRefill <= now
  PROVE  Tokens(b) \in 0..Full
<1>1. CASE b = None
  BY <1>1, Quantities DEF Tokens
<1>2. CASE b # None
  <2>1. b.tokens \in Nat /\ now - b.lastRefill \in Nat
    BY <1>2 DEF Bucket
  <2>2. (now - b.lastRefill) * Rate \in Nat
    BY <2>1, Quantities
  <2> QED
    BY <1>2, <2>1, <2>2, Quantities DEF Tokens, AtMostFull
<1> QED
  BY <1>1, <1>2

(* What cleanupStale drops had filled up by itself.                        *)
LEMMA StaleIsFull ==
  ASSUME NEW b \in Bucket \union {None}, now \in Nat, lastGC \in Nat, Stale(b)
  PROVE  Tokens(b) = Full
<1>1. /\ b # None /\ b.tokens \in Nat /\ b.lastRefill \in Nat
      /\ Minute \in Nat /\ Cleanup \in Nat /\ Cleanup >= Minute
      /\ b.lastRefill < now - Cleanup
  BY CleanupAssumption, Quantities DEF Stale, Bucket
<1> DEFINE idle == now - b.lastRefill
<1>2. idle \in Nat /\ idle - Minute \in Nat
  BY <1>1
<1>3. (idle - Minute) * Rate \in Nat /\ idle * Rate = (idle - Minute) * Rate + Full
  BY <1>1, <1>2, Quantities DEF Full
<1>4. b.tokens + idle * Rate >= Full
  <2> DEFINE extra == (idle - Minute) * Rate
  <2> HIDE DEF idle, extra
  <2> QED
    BY <1>1, <1>3, Quantities DEF extra
<1>5. idle * Rate \in Nat
  BY <1>2, Quantities
<1> QED
  BY <1>1, <1>4, <1>5, Quantities DEF Tokens, AtMostFull

(* A tick brings Rate units to a bucket, and none to a full one.           *)
LEMMA TickFills ==
  ASSUME NEW b \in Bucket \union {None}, now \in Nat, now' = now + 1,
         b # None => b.lastRefill <= now
  PROVE  Tokens(b)' = AtMostFull(Tokens(b) + Rate)
<1>1. CASE b = None
  BY <1>1, Quantities DEF Tokens, AtMostFull
<1>2. CASE b # None
  <2>1. b.tokens \in Nat /\ b.lastRefill \in Nat /\ now - b.lastRefill \in Nat
    BY <1>2 DEF Bucket
  <2> DEFINE flown == (now - b.lastRefill) * Rate
             level == b.tokens + flown
  <2>2. now' - b.lastRefill = (now - b.lastRefill) + 1
    BY <2>1
  <2>3. flown \in Nat /\ (now' - b.lastRefill) * Rate = flown + Rate
    BY <2>1, <2>2, OneMore, Quantities
  <2>4. Tokens(b) = AtMostFull(level) /\ level \in Nat
    BY <1>2, <2>1, <2>3 DEF Tokens
  <2>5. Tokens(b)' = AtMostFull(level + Rate)
    <3> HIDE DEF flown
    <3>1. b.tokens + (flown + Rate) = (b.tokens + flown) + Rate
      BY <2>1, <2>3, Quantities
    <3> QED
      BY <1>2, <2>3, <3>1 DEF Tokens, AtMostFull
  <2> HIDE DEF level
  <2> QED
    BY <2>4, <2>5, Quantities DEF AtMostFull
<1> QED
  BY <1>1, <1>2

-----------------------------------------------------------------------------
(* What each step does to the levels. Dropping a bucket changes none.      *)

(* What a caller has is between nothing and the burst.                     *)
LEMMA LevelInRange ==
  ASSUME TypeOK, PastInv, NEW c \in Callers
  PROVE  Level(c) \in 0..Full
<1>1. now \in Nat /\ buckets[c] \in Bucket \union {None}
  BY ClockAssumption DEF TypeOK
<1> QED
  BY <1>1, TokensInRange DEF Level, PastInv

(* Dropping a stale bucket does not change what its caller has.            *)
LEMMA AfterGCKeepsLevel ==
  ASSUME TypeOK, NEW c \in Callers
  PROVE  Tokens(AfterGC(c)) = Level(c)
<1>1. now \in Nat /\ lastGC \in Nat /\ buckets[c] \in Bucket \union {None}
  BY ClockAssumption DEF TypeOK
<1>2. CASE Stale(buckets[c])
  BY <1>1, <1>2, StaleIsFull DEF AfterGC, Level, Tokens
<1>3. CASE ~Stale(buckets[c])
  BY <1>3 DEF AfterGC, Level
<1> QED
  BY <1>2, <1>3

(* Writing a bucket back sets the level of its caller and of nobody else.  *)
LEMMA KeepLevels ==
  ASSUME TypeOK, now' = now, NEW c \in Callers, NEW n \in 0..Full, Keep(c, n)
  PROVE  Level(c)' = n /\ \A d \in Callers \ {c} : Level(d)' = Level(d)
<1>1. now \in 0..MaxClock /\ now \in Nat /\ lastGC \in Nat
  BY ClockAssumption DEF TypeOK
<1>2. Level(c)' = n
  <2>1. buckets'[c] = [tokens |-> n, lastRefill |-> now]
    BY DEF Keep
  <2>2. buckets'[c] # None
    BY <1>1, <2>1, NoneIsNoBucket DEF Bucket
  <2>3. Level(c)' = AtMostFull(n + (now - now) * Rate)
    BY <2>1, <2>2 DEF Level, Tokens, AtMostFull
  <2>4. n + (now - now) * Rate = n
    BY <1>1, Quantities
  <2> QED
    BY <2>3, <2>4, Quantities DEF AtMostFull
<1>3. ASSUME NEW d \in Callers \ {c} PROVE Level(d)' = Level(d)
  <2>1. buckets'[d] = AfterGC(d)
    BY DEF Keep, AfterGC
  <2>2. Level(d)' = Tokens(AfterGC(d))
    BY <2>1 DEF Level, Tokens, AtMostFull
  <2> QED
    BY <2>2, AfterGCKeepsLevel
<1> QED
  BY <1>2, <1>3

(* An admitted create takes one token, from a caller who had it.           *)
LEMMA AllowLevels ==
  ASSUME TypeOK, PastInv, NEW c \in Callers, Allow(c)
  PROVE  /\ Level(c) >= Minute
         /\ Level(c)' = Level(c) - Minute
         /\ \A d \in Callers \ {c} : Level(d)' = Level(d)
<1>1. Tokens(AfterGC(c)) = Level(c) /\ Level(c) \in 0..Full
  BY AfterGCKeepsLevel, LevelInRange
<1>2. Level(c) >= Minute /\ Keep(c, Level(c) - Minute) /\ now' = now
  BY <1>1 DEF Allow
<1>3. Level(c) - Minute \in 0..Full
  BY <1>1, <1>2, Quantities
<1> QED
  BY <1>2, <1>3, KeepLevels

(* A refused create changes no level.                                      *)
LEMMA RefuseLevels ==
  ASSUME TypeOK, PastInv, NEW c \in Callers, Refuse(c)
  PROVE  \A d \in Callers : Level(d)' = Level(d)
<1>1. Tokens(AfterGC(c)) = Level(c) /\ Level(c) \in 0..Full
  BY AfterGCKeepsLevel, LevelInRange
<1>2. Keep(c, Level(c)) /\ now' = now
  BY <1>1 DEF Refuse
<1> QED
  BY <1>1, <1>2, KeepLevels

(* A second adds the rate to every level, up to the burst.                 *)
LEMMA TickLevels ==
  ASSUME TypeOK, PastInv, Tick, NEW c \in Callers
  PROVE  Level(c)' = AtMostFull(Level(c) + Rate)
<1>1. now \in Nat /\ now' = now + 1 /\ buckets' = buckets /\ buckets[c] \in Bucket \union {None}
  BY ClockAssumption DEF TypeOK, Tick
<1>2. Level(c)' = Tokens(buckets[c])'
  BY DEF Level
<1>3. \A b : b = buckets[c] => Level(c)' = IF b = None THEN Full ELSE AtMostFull(b.tokens + (now' - b.lastRefill) * Rate)
  BY <1>1 DEF Level, Tokens, AtMostFull
<1>4. ASSUME NEW b \in Bucket \union {None}, b = buckets[c]
      PROVE  Level(c)' = AtMostFull(Tokens(b) + Rate)
  <2>1. Tokens(b)' = AtMostFull(Tokens(b) + Rate)
    BY <1>1, <1>4, TickFills DEF PastInv
  <2> QED
    BY <1>3, <1>4, <2>1 DEF Tokens, AtMostFull
<1> QED
  BY <1>1, <1>4 DEF Level

-----------------------------------------------------------------------------
(* Types, and what holds of the past.                                      *)

(* Writing a bucket back keeps the types of what Allow touches.            *)
LEMMA KeepTypes ==
  ASSUME TypeOK, PastInv, now' = now, NEW c \in Callers, NEW n \in 0..Full, Keep(c, n)
  PROVE  /\ buckets' \in [Callers -> Bucket \union {None}]
         /\ lastGC' \in 0..now
         /\ \A d \in Callers : buckets'[d] # None => buckets'[d].lastRefill <= now
<1>1. now \in 0..MaxClock /\ now \in Nat
  BY ClockAssumption DEF TypeOK
<1>2. [tokens |-> n, lastRefill |-> now] \in Bucket
  BY <1>1 DEF Bucket
<1>3. buckets' \in [Callers -> Bucket \union {None}] /\ lastGC' \in 0..now
  BY <1>1, <1>2 DEF Keep, TypeOK
<1>4. \A d \in Callers : buckets'[d] # None => buckets'[d].lastRefill <= now
  BY <1>1, <1>2 DEF Keep, PastInv
<1> QED
  BY <1>3, <1>4

(* A request let through counts from now on, and not before.               *)
LEMMA AllowAdmits ==
  ASSUME TypeOK, PastInv, NEW c \in Callers, Allow(c)
  PROVE  /\ admitted' \in [Callers -> [0..MaxClock -> Nat]]
         /\ \A d \in Callers : \A x \in 0..MaxClock :
               admitted'[d][x] = IF d = c /\ x >= now THEN admitted[d][x] + 1 ELSE admitted[d][x]
  BY ClockAssumption DEF TypeOK, Allow

(* Nothing is admitted yet, and every bucket is full.                      *)
LEMMA InitIInv == Init => IInv
<1> SUFFICES ASSUME Init PROVE IInv
  OBVIOUS
<1> USE ClockAssumption
<1>1. TypeOK
  BY DEF Init, TypeOK
<1>2. PastInv
  BY DEF Init, PastInv
<1>3. \A c \in Callers : AdmittedIn(c, 0, 0) = 0 /\ Level(c) = Full
  BY DEF Init, AdmittedIn, Level, Tokens
<1>4. 0 * Minute = 0 /\ (0 - 0) * Rate = 0
  BY Quantities
<1>5. Credit
  BY <1>3, <1>4, Quantities DEF Init, Credit
<1>6. WindowBound
  BY <1>3, <1>4, Quantities DEF Init, WindowBound
<1> QED
  BY <1>1, <1>2, <1>5, <1>6 DEF IInv

(* Every step keeps the types, and no bucket is refilled in the future.    *)
LEMMA NextTypes == TypeOK /\ PastInv /\ Next => TypeOK' /\ PastInv'
<1> SUFFICES ASSUME TypeOK, PastInv, Next PROVE TypeOK' /\ PastInv'
  OBVIOUS
<1>1. now \in 0..MaxClock /\ now \in Nat
  BY ClockAssumption DEF TypeOK
<1>2. CASE Tick
  <2>1. now + 1 \in now..MaxClock /\ now + 1 \in 0..MaxClock /\ MaxClock \in Nat
    BY <1>1, <1>2, ClockAssumption DEF Tick
  <2>2. TypeOK'
    BY <1>1, <1>2, <2>1 DEF Tick, TypeOK
  <2>3. \A c \in Callers : \A x \in now + 1..MaxClock :
            admitted[c][x] = admitted[c][now] /\ admitted[c][now + 1] = admitted[c][now]
    BY <1>1, <2>1 DEF PastInv
  <2>4. \A c \in Callers : buckets[c] # None => buckets[c].lastRefill <= now + 1
    BY <1>1 DEF PastInv, TypeOK, Bucket
  <2> QED
    BY <1>2, <2>2, <2>3, <2>4 DEF Tick, PastInv
<1>3. ASSUME NEW c \in Callers, Allow(c) PROVE TypeOK' /\ PastInv'
  <2>1. Tokens(AfterGC(c)) - Minute \in 0..Full
    BY <1>3, AfterGCKeepsLevel, LevelInRange, Quantities DEF Allow
  <2>2. now' = now /\ Keep(c, Tokens(AfterGC(c)) - Minute)
    BY <1>3 DEF Allow
  <2>3. TypeOK'
    BY <1>1, <1>3, <2>1, <2>2, KeepTypes, AllowAdmits DEF TypeOK
  <2>4. \A d \in Callers : \A x \in now..MaxClock : admitted'[d][x] = admitted'[d][now]
    BY <1>1, <1>3, AllowAdmits DEF PastInv
  <2> QED
    BY <2>1, <2>2, <2>3, <2>4, KeepTypes DEF PastInv
<1>4. ASSUME NEW c \in Callers, Refuse(c) PROVE TypeOK' /\ PastInv'
  <2>1. Tokens(AfterGC(c)) \in 0..Full
    BY AfterGCKeepsLevel, LevelInRange
  <2>2. now' = now /\ admitted' = admitted /\ Keep(c, Tokens(AfterGC(c)))
    BY <1>4 DEF Refuse
  <2>3. TypeOK'
    BY <2>1, <2>2, KeepTypes DEF TypeOK
  <2> QED
    BY <2>1, <2>2, <2>3, KeepTypes DEF PastInv
<1> QED
  BY <1>2, <1>3, <1>4 DEF Next

-----------------------------------------------------------------------------
(* The account of a caller.                                                *)

(* What was admitted in a window is a number.                              *)
LEMMA CountsAreNat ==
  ASSUME TypeOK, NEW c \in Callers, NEW i \in 0..now, NEW j \in i..now
  PROVE  AdmittedIn(c, i, j) \in Int
<1>1. i \in 0..MaxClock /\ j \in 0..MaxClock /\ (i # 0 => i - 1 \in 0..MaxClock)
  BY ClockAssumption DEF TypeOK
<1> QED
  <2>1. admitted[c] \in [0..MaxClock -> Nat]
    BY DEF TypeOK
  <2>2. admitted[c][j] \in Nat /\ (i # 0 => admitted[c][i - 1] \in Nat)
    BY <1>1, <2>1
  <2> QED
    BY <2>2 DEF AdmittedIn

(* Tokens spent and tokens left never exceed the burst and what flowed in. *)
LEMMA CreditIsKept == IInv /\ Next => Credit'
<1> SUFFICES ASSUME IInv, Next, NEW c \in Callers, NEW i \in 0..now'
             PROVE  AdmittedIn(c, i, now)' * Minute + Level(c)' <= Full + (now' - i) * Rate
  BY DEF Credit
<1> USE DEF IInv
<1>1. now \in 0..MaxClock /\ now \in Nat /\ MaxClock \in Nat
  BY ClockAssumption DEF TypeOK
<1>2. Level(c) \in 0..Full
  BY LevelInRange
<1> DEFINE spent == AdmittedIn(c, i, now)
<1>3. CASE Tick
  <2>1. now' = now + 1 /\ admitted' = admitted /\ now + 1 \in now..MaxClock
    BY <1>1, <1>3 DEF Tick
  <2>2. Level(c)' = AtMostFull(Level(c) + Rate)
    BY <1>3, TickLevels
  <2>3. admitted[c][now + 1] = admitted[c][now]
    BY <1>1, <2>1 DEF PastInv
  <2>4. CASE i \in 0..now
    <3>1. AdmittedIn(c, i, now)' = spent
      BY <2>1, <2>3 DEF AdmittedIn
    <3>2. spent \in Int /\ spent * Minute \in Int /\ now - i \in Nat /\ (now - i) * Rate \in Nat
      BY <1>1, <2>4, CountsAreNat, Quantities
    <3>3. now' - i = (now - i) + 1 /\ (now' - i) * Rate = (now - i) * Rate + Rate
      BY <1>1, <2>1, <2>4, <3>2, OneMore, Quantities
    <3>4. spent * Minute + Level(c) <= Full + (now - i) * Rate
      BY <2>4 DEF Credit
    <3> DEFINE paid == spent * Minute
               flown == (now - i) * Rate
    <3>5. paid + Level(c)' <= Full + (flown + Rate)
      <4> HIDE DEF paid, flown, spent
      <4>1. paid \in Int /\ flown \in Nat /\ paid + Level(c) <= Full + flown
        BY <3>2, <3>4 DEF paid, flown
      <4> QED
        BY <1>2, <2>2, <4>1, Quantities DEF AtMostFull
    <3> QED
      BY <3>1, <3>3, <3>5
  <2>5. CASE i = now + 1
    <3>1. admitted[c][now] \in Nat
      BY <1>1 DEF TypeOK
    <3>2. AdmittedIn(c, i, now)' = 0
      BY <1>1, <2>1, <2>3, <2>5, <3>1 DEF AdmittedIn
    <3>3. now' - i = 0 /\ 0 * Minute = 0 /\ 0 * Rate = 0
      BY <1>1, <2>1, <2>5, Quantities
    <3>4. Level(c)' <= Full /\ Level(c)' \in Int
      BY <1>2, <2>2, Quantities DEF AtMostFull
    <3> QED
      BY <3>2, <3>3, <3>4, Quantities
  <2> QED
    BY <1>1, <2>1, <2>4, <2>5
<1>4. ASSUME now' = now
      PROVE  /\ i \in 0..now
             /\ spent \in Int /\ spent * Minute \in Int /\ (now - i) * Rate \in Int
             /\ spent * Minute + Level(c) <= Full + (now - i) * Rate
  <2>1. i \in 0..now
    BY <1>4
  <2> QED
    BY <1>1, <2>1, CountsAreNat, Quantities DEF Credit
<1>5. ASSUME NEW d \in Callers, Allow(d)
      PROVE  AdmittedIn(c, i, now)' * Minute + Level(c)' <= Full + (now' - i) * Rate
  <2>1. now' = now
    BY <1>5 DEF Allow
  <2>2. CASE c = d
    <3>1. Level(c)' = Level(c) - Minute
      BY <1>5, <2>2, AllowLevels
    <3>2. AdmittedIn(c, i, now)' = spent + 1
      <4>1. i \in 0..MaxClock /\ (i # 0 => i - 1 \in 0..MaxClock /\ i - 1 < now)
        BY <1>1, <2>1
      <4>2. /\ admitted[c][now] \in Nat
            /\ i # 0 => admitted[c][i - 1] \in Nat
        BY <1>1, <4>1 DEF TypeOK
      <4>3. /\ admitted'[c][now] = admitted[c][now] + 1
            /\ i # 0 => admitted'[c][i - 1] = admitted[c][i - 1]
        BY <1>1, <1>5, <2>2, <4>1, AllowAdmits
      <4> QED
        BY <2>1, <4>2, <4>3 DEF AdmittedIn
    <3>3. (spent + 1) * Minute = spent * Minute + Minute
      BY <1>4, <2>1, OneMore, Quantities
    <3> DEFINE paid == spent * Minute
               flown == (now - i) * Rate
    <3>4. (paid + Minute) + Level(c)' <= Full + flown
      <4> HIDE DEF paid, flown, spent
      <4>1. paid \in Int /\ flown \in Int /\ paid + Level(c) <= Full + flown
        BY <1>4, <2>1 DEF paid, flown
      <4> QED
        BY <1>2, <3>1, <4>1, Quantities
    <3> QED
      BY <2>1, <3>2, <3>3, <3>4
  <2>3. CASE c # d
    <3>1. Level(c)' = Level(c)
      BY <1>5, <2>3, AllowLevels
    <3>2. admitted'[c] = admitted[c]
      BY <1>5, <2>3 DEF Allow, TypeOK
    <3> QED
      BY <1>4, <2>1, <3>1, <3>2 DEF AdmittedIn
  <2> QED
    BY <2>2, <2>3
<1>6. ASSUME NEW d \in Callers, Refuse(d)
      PROVE  AdmittedIn(c, i, now)' * Minute + Level(c)' <= Full + (now' - i) * Rate
  <2>1. now' = now /\ admitted' = admitted /\ Level(c)' = Level(c)
    BY <1>6, RefuseLevels DEF Refuse
  <2> QED
    BY <1>4, <2>1 DEF AdmittedIn
<1> QED
  BY <1>3, <1>5, <1>6 DEF Next

(* A stretch that ends before now stays as it is; one that ends now is paid*)
(* for out of the credit.                                                  *)
LEMMA WindowIsKept == IInv /\ Next => WindowBound'
<1> SUFFICES ASSUME IInv, Next, NEW c \in Callers, NEW i \in 0..now', NEW j \in i..now'
             PROVE  AdmittedIn(c, i, j)' * Minute <= Full + (j - i) * Rate
  BY DEF WindowBound
<1>1. TypeOK' /\ PastInv' /\ Credit'
  BY NextTypes, CreditIsKept DEF IInv
<1>2. now \in 0..MaxClock /\ now' \in 0..MaxClock /\ MaxClock \in Nat /\ now' \in {now, now + 1}
  BY <1>1, ClockAssumption DEF IInv, TypeOK, Next, Tick, Allow, Refuse
<1>3. CASE j = now'
  <2>1. AdmittedIn(c, i, now)' \in Int
    <3>1. i \in 0..MaxClock /\ (i # 0 => i - 1 \in 0..MaxClock)
      BY <1>2
    <3>2. admitted'[c][now'] \in Nat /\ (i # 0 => admitted'[c][i - 1] \in Nat)
      BY <1>1, <1>2, <3>1 DEF TypeOK
    <3> QED
      BY <3>2 DEF AdmittedIn
  <2>2. Level(c)' \in 0..Full
    <3>1. now' \in Nat /\ buckets'[c] \in Bucket \union {None}
      BY <1>1, <1>2 DEF TypeOK
    <3>2. \A b : b = buckets'[c] /\ b # None =>
              b.tokens \in Nat /\ b.lastRefill \in Nat /\ now' - b.lastRefill \in Nat
      BY <1>1, <3>1 DEF PastInv, Bucket
    <3>3. \A b : b = buckets'[c] /\ b # None => (now' - b.lastRefill) * Rate \in Nat
      BY <3>2, Quantities
    <3>4. Level(c)' = IF buckets'[c] = None THEN Full
                      ELSE AtMostFull(buckets'[c].tokens + (now' - buckets'[c].lastRefill) * Rate)
      BY DEF Level, Tokens, AtMostFull
    <3> QED
      BY <3>2, <3>3, <3>4, Quantities DEF AtMostFull
  <2>3. AdmittedIn(c, i, now)' * Minute + Level(c)' <= Full + (now' - i) * Rate
    BY <1>1 DEF Credit
  <2>4. AdmittedIn(c, i, j)' = AdmittedIn(c, i, now)'
    BY <1>3 DEF AdmittedIn
  <2>5. AdmittedIn(c, i, now)' * Minute \in Int /\ (now' - i) * Rate \in Int
    BY <1>2, <2>1, Quantities
  <2> QED
    BY <1>3, <2>2, <2>3, <2>4, <2>5, Quantities
<1>4. CASE j # now'
  <2>1. j \in 0..now /\ j < now' /\ i \in 0..now /\ j \in i..now
    BY <1>2, <1>4
  <2>2. AdmittedIn(c, i, j)' = AdmittedIn(c, i, j)
    <3>1. j \in 0..MaxClock /\ (i # 0 => i - 1 \in 0..MaxClock /\ i - 1 < now')
      BY <1>2, <2>1
    <3>2. /\ admitted'[c][j] = admitted[c][j]
          /\ i # 0 => admitted'[c][i - 1] = admitted[c][i - 1]
      <4>1. CASE UNCHANGED admitted
        BY <4>1
      <4>2. ASSUME NEW d \in Callers, Allow(d)
            PROVE  /\ admitted'[c][j] = admitted[c][j]
                   /\ i # 0 => admitted'[c][i - 1] = admitted[c][i - 1]
        <5>1. now' = now /\ ~(j >= now) /\ (i # 0 => ~(i - 1 >= now))
          BY <1>2, <2>1, <3>1, <4>2 DEF Allow
        <5> QED
          BY <3>1, <4>2, <5>1, AllowAdmits DEF IInv
      <4> QED
        BY <4>1, <4>2 DEF Next, Tick, Refuse
    <3> QED
      BY <3>2 DEF AdmittedIn
  <2> QED
    BY <2>1, <2>2 DEF IInv, WindowBound
<1> QED
  BY <1>3, <1>4

(* Every step keeps the whole invariant.                                   *)
LEMMA NextIInv == IInv /\ [Next]_vars => IInv'
<1> SUFFICES ASSUME IInv, [Next]_vars PROVE IInv'
  OBVIOUS
<1>1. CASE Next
  BY <1>1, NextTypes, CreditIsKept, WindowIsKept DEF IInv
<1>2. CASE UNCHANGED vars
  BY <1>2 DEF vars, IInv, TypeOK, PastInv, Credit, WindowBound, AdmittedIn,
     Level, Tokens, AtMostFull
<1> QED
  BY <1>1, <1>2

-----------------------------------------------------------------------------
(* The invariant holds in every life of the process.                       *)
THEOREM Invariant == Spec => []IInv
<1> QED
  BY InitIInv, NextIInv, PTL DEF Spec

(* Every variable has its type: a bucket holds a minute's worth at most.   *)
THEOREM TypeCorrect == Spec => []TypeOK
<1>1. IInv => TypeOK
  BY DEF IInv
<1> QED
  BY <1>1, Invariant, PTL

(* In any stretch of time a caller gets through the burst and what flows   *)
(* in, for every rate and cleanup interval (ratelimit.go:19, 63-91).       *)
THEOREM NobodyBeatsTheRate == Spec => []WindowBound
<1>1. IInv => WindowBound
  BY DEF IInv
<1> QED
  BY <1>1, Invariant, PTL

-----------------------------------------------------------------------------
(* The limiter that forgets buckets implements the one that does not.      *)

(* Every caller of the ideal limiter starts with a full bucket too.        *)
LEMMA InitMapped == Init => Ideal!Init
<1> SUFFICES ASSUME Init PROVE Ideal!Init
  OBVIOUS
<1>1. \A c \in Callers : Tokens(buckets[c]) = Full
  BY DEF Init, Tokens
<1>2. \A c \in Callers : admitted[c][MaxClock] = 0
  BY ClockAssumption DEF Init
<1> QED
  BY <1>1, <1>2 DEF Ideal!Init, Ideal!Full, Full

(* An admission, a refusal and a second are the same steps of the ideal    *)
(* limiter; dropping stale buckets is invisible to it.                     *)
LEMMA StepMapped ==
  IInv /\ [Next]_vars =>
     [Ideal!Next]_<<[c \in Callers |-> Tokens(buckets[c])], [c \in Callers |-> admitted[c][MaxClock]]>>
<1> SUFFICES ASSUME IInv, [Next]_vars
             PROVE  [Ideal!Next]_<<[c \in Callers |-> Tokens(buckets[c])],
                                   [c \in Callers |-> admitted[c][MaxClock]]>>
  OBVIOUS
<1> DEFINE level == [c \in Callers |-> Level(c)]
           total == [c \in Callers |-> admitted[c][MaxClock]]
<1>1. level = [c \in Callers |-> Tokens(buckets[c])]
  BY DEF Level
<1>2. CASE Tick
  <2>1. \A c \in Callers : Level(c)' = AtMostFull(Level(c) + Rate)
    BY <1>2, TickLevels DEF IInv
  <2>2. level' = [c \in Callers |-> AtMostFull(level[c] + Rate)] /\ total' = total
    BY <1>2, <2>1 DEF Tick
  <2> QED
    BY <2>2 DEF Ideal!Next, Ideal!Fill, Ideal!AtMostFull, Ideal!Full,
       AtMostFull, Full, Level
<1>3. ASSUME NEW c \in Callers, Allow(c) PROVE Ideal!Admit(c)
  <2>1. /\ Level(c) >= Minute
        /\ Level(c)' = Level(c) - Minute
        /\ \A d \in Callers \ {c} : Level(d)' = Level(d)
    BY <1>3, AllowLevels DEF IInv
  <2>2. now \in 0..MaxClock /\ MaxClock \in 0..MaxClock /\ MaxClock >= now
    BY ClockAssumption DEF IInv, TypeOK
  <2>3. \A d \in Callers : admitted'[d][MaxClock] =
            IF d = c THEN admitted[d][MaxClock] + 1 ELSE admitted[d][MaxClock]
    BY <1>3, <2>2, AllowAdmits DEF IInv
  <2>4. level' = [level EXCEPT ![c] = @ - Minute]
    BY <2>1
  <2>5. total' = [total EXCEPT ![c] = @ + 1]
    BY <2>3
  <2> QED
    BY <2>1, <2>4, <2>5 DEF Ideal!Admit, Level
<1>4. ASSUME NEW c \in Callers, Refuse(c) PROVE level' = level /\ total' = total
  <2>1. \A d \in Callers : Level(d)' = Level(d)
    BY <1>4, RefuseLevels DEF IInv
  <2> QED
    BY <1>4, <2>1 DEF Refuse
<1>5. CASE UNCHANGED vars
  BY <1>5 DEF vars, Tokens, AtMostFull
<1> QED
  BY <1>2, <1>3, <1>4, <1>5 DEF Next, Ideal!Next, Level

(* Dropping a bucket is never seen: every behaviour is one of a bucket per *)
(* caller that is kept for ever (ratelimit.go:93-100).                     *)
THEOREM ForgettingIsInvisible == Spec => ImplementsTokenBucket
<1> QED
  BY InitMapped, StepMapped, Invariant, PTL DEF Spec, ImplementsTokenBucket, Ideal!Spec
=============================================================================
