----------------------------- MODULE RateLimit -----------------------------
(***************************************************************************)
(* The limiter of internal/ratelimit/ratelimit.go: buckets are made when a *)
(* user is first seen, refilled only when asked, and removed when nobody   *)
(* has asked for a while.  It implements TokenBucket.                      *)
(*                                                                         *)
(* Every method holds l.mu, so a step is a whole call.  Tokens are         *)
(* fractions in the code and integral units here; node.go uses 10 messages *)
(* a second, a burst of 20, and removes buckets idle for 10 minutes.       *)
(***************************************************************************)
EXTENDS Clock

CONSTANTS
  Rate, Burst, Cost,  \* units that flow in at a tick, that a bucket holds, that a message costs
  MaxAge              \* ticks after which an idle bucket is stale

\* An idle bucket fills up before it is stale (node.go:86, 121).
ASSUME LimitAssumption ==
  /\ Rate \in Nat /\ Burst \in Nat /\ Cost \in Nat \ {0} /\ MaxTime \in Nat
  /\ MaxAge \in Nat /\ Rate * MaxAge >= Burst

VARIABLES
  buckets,  \* l.buckets
  used      \* messages let through since from

vars == <<now, from, buckets, used>>

Bucket == [tokens : 0..Burst, lastTime : 0..MaxTime]
NoBucket == [tokens |-> 0, lastTime |-> -1]

Init ==
  /\ now = 0
  /\ from \in 0..MaxTime
  /\ buckets = [u \in Users |-> NoBucket]
  /\ used = [u \in Users |-> 0]

AtMost(max, x) == IF x > max THEN max ELSE x

\* Fault: the refill is not capped.
FaultyRefilled(b) == IF b = NoBucket THEN Burst ELSE b.tokens + Rate * (now - b.lastTime)
\* What a bucket holds once it is refilled for the time that has passed.
Refilled(b) ==
  IF b = NoBucket THEN Burst ELSE AtMost(Burst, b.tokens + Rate * (now - b.lastTime))

Pay(u, units) ==
  buckets' = [buckets EXCEPT ![u] = [tokens |-> Refilled(@) - units, lastTime |-> now]]

Allow(u) ==
  /\ Refilled(buckets[u]) >= Cost
  /\ Pay(u, Cost)
  /\ used' = IF now >= from THEN [used EXCEPT ![u] = @ + 1] ELSE used
  /\ UNCHANGED <<now, from>>

Refuse(u) ==
  /\ Refilled(buckets[u]) < Cost
  /\ Pay(u, 0)
  /\ UNCHANGED <<now, from, used>>

\* Fault: every bucket but those just used is stale.
FaultyStale(u) == buckets[u] # NoBucket /\ now > buckets[u].lastTime
Stale(u) == buckets[u] # NoBucket /\ now - buckets[u].lastTime > MaxAge

Cleanup ==
  /\ buckets' = [u \in Users |-> IF Stale(u) THEN NoBucket ELSE buckets[u]]
  /\ UNCHANGED <<now, from, used>>

Tick ==
  /\ now < MaxTime
  /\ now' = now + 1
  /\ UNCHANGED <<from, buckets, used>>

Next == Tick \/ Cleanup \/ \E u \in Users : Allow(u) \/ Refuse(u)

Spec == Init /\ [][Next]_vars

-----------------------------------------------------------------------------
\* A bucket holds between no token and its burst, and was last used in the past.
TypeOK ==
  /\ now \in 0..MaxTime /\ from \in 0..MaxTime
  /\ buckets \in [Users -> Bucket \cup {NoBucket}]
  /\ \A u \in Users : buckets[u].lastTime <= now
  /\ used \in [Users -> Nat]

Levels == [u \in Users |-> Refilled(buckets[u])]

Promise == INSTANCE TokenBucket WITH level <- Levels

\* The limiter is a token bucket: refilling late, and forgetting idle users,
\* cannot be told from filling all the time (ratelimit.go:45-51, 60-71).
IsTokenBucket == Promise!Spec

\* In any window of time a user gets through at most a burst and the rate times
\* the window, cleanups included (ratelimit.go:30-58).
WindowBound == Promise!WindowBound
=============================================================================
