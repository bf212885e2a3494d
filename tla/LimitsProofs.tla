---------------------------- MODULE LimitsProofs ----------------------------
(***************************************************************************)
(* What limits a user, in any window of time.  For every rate, burst, cost *)
(* and cleanup age that lets an idle bucket fill up, the limiter is a      *)
(* token bucket and bounds the messages.  For every number of attempts and *)
(* every duration, a lockout bounds the wrong passwords of a window that   *)
(* is no longer than it.                                                   *)
(***************************************************************************)
EXTENDS RateLimit, Lockout, TLAPS

-----------------------------------------------------------------------------
(* The limiter *)

\* Paid: what a window let through and what is left never exceed a full bucket
\* and what flowed in; before the window nothing is counted.
Paid ==
  /\ now < from => \A u \in Users : used[u] = 0
  /\ now >= from =>
       \A u \in Users : used[u] * Cost + Refilled(buckets[u]) <= Burst + Rate * (now - from)

\* A bucket that is refilled stays within its burst.
LEMMA RefilledTypes ==
  ASSUME TypeOK, NEW u \in Users
  PROVE  Refilled(buckets[u]) \in 0..Burst
<1>1. CASE buckets[u] = NoBucket
  BY <1>1, LimitAssumption DEF Refilled
<1>2. CASE buckets[u] # NoBucket
  <2>1. buckets[u] \in Bucket
    BY <1>2 DEF TypeOK
  <2>2. /\ now - buckets[u].lastTime \in Nat /\ buckets[u].tokens \in 0..Burst
    BY <2>1 DEF TypeOK, Bucket
  <2>3. Rate * (now - buckets[u].lastTime) \in Nat
    BY <2>2, LimitAssumption
  <2> QED
    BY <1>2, <2>2, <2>3, LimitAssumption DEF Refilled, AtMost
<1> QED
  BY <1>1, <1>2

\* Paying leaves what it did not take, and other users alone.
LEMMA PayTypes ==
  ASSUME TypeOK, NEW u \in Users, NEW units \in Nat, units <= Refilled(buckets[u]),
         Pay(u, units), now' = now
  PROVE  /\ buckets' \in [Users -> Bucket \cup {NoBucket}]
         /\ \A v \in Users : buckets'[v].lastTime <= now'
         /\ Refilled(buckets[u])' = Refilled(buckets[u]) - units
         /\ \A v \in Users \ {u} : Refilled(buckets[v])' = Refilled(buckets[v])
<1> DEFINE b == [tokens |-> Refilled(buckets[u]) - units, lastTime |-> now]
<1>1. Refilled(buckets[u]) \in 0..Burst /\ now \in 0..MaxTime
  BY RefilledTypes DEF TypeOK
<1>2. b \in Bucket
  BY <1>1, LimitAssumption DEF Bucket
<1>3. buckets' = [buckets EXCEPT ![u] = b]
  BY DEF Pay
<1>4. buckets'[u] = b /\ \A v \in Users \ {u} : buckets'[v] = buckets[v]
  BY <1>3 DEF TypeOK
<1>5. b # NoBucket /\ b.tokens = Refilled(buckets[u]) - units /\ b.lastTime = now
  BY <1>1 DEF NoBucket
<1>6. buckets' \in [Users -> Bucket \cup {NoBucket}]
  BY <1>2, <1>3 DEF TypeOK
<1>7. \A v \in Users : buckets'[v].lastTime <= now'
  BY <1>1, <1>4, <1>5 DEF TypeOK
<1>8. Refilled(buckets[u])' = Refilled(buckets[u]) - units
  <2>1. Rate * (now' - now) = 0
    BY <1>1, LimitAssumption
  <2>2. Refilled(buckets[u])' = AtMost(Burst, buckets'[u].tokens + Rate * (now' - buckets'[u].lastTime))
    BY <1>4, <1>5 DEF Refilled
  <2> QED
    BY <1>1, <1>4, <1>5, <2>1, <2>2, LimitAssumption DEF AtMost
<1>9. \A v \in Users \ {u} : Refilled(buckets[v])' = Refilled(buckets[v])
  BY <1>4 DEF Refilled
<1> QED
  BY <1>6, <1>7, <1>8, <1>9

\* A bucket that is stale is full, so that forgetting it changes nothing.
LEMMA StaleIsFull ==
  ASSUME TypeOK, NEW u \in Users, Stale(u)
  PROVE  Refilled(buckets[u]) = Burst
<1>1. buckets[u] \in Bucket /\ now \in 0..MaxTime
  BY DEF TypeOK, Stale
<1>2. now - buckets[u].lastTime >= MaxAge /\ now - buckets[u].lastTime \in Nat
  BY <1>1, LimitAssumption DEF Stale, Bucket, TypeOK
<1>3. Rate * (now - buckets[u].lastTime) >= Rate * MaxAge
  <2>1. \A a, b, r \in Nat : a >= b => r * a >= r * b
    OBVIOUS
  <2> QED
    BY <1>2, <2>1, LimitAssumption
<1>4. buckets[u].tokens \in Nat /\ Rate * (now - buckets[u].lastTime) \in Nat
  BY <1>1, <1>2, LimitAssumption DEF Bucket
<1>5. Refilled(buckets[u]) = AtMost(Burst, buckets[u].tokens + Rate * (now - buckets[u].lastTime))
  BY DEF Refilled, Stale
<1>6. \A t, x, y \in Nat : x >= y /\ y >= Burst => AtMost(Burst, t + x) = Burst
  BY LimitAssumption DEF AtMost
<1>7. Rate * MaxAge \in Nat
  BY LimitAssumption
<1> QED
  BY <1>3, <1>4, <1>5, <1>6, <1>7, LimitAssumption

\* Cleanup keeps every level.
LEMMA CleanupLevels ==
  ASSUME TypeOK, Cleanup, NEW u \in Users
  PROVE  Refilled(buckets[u])' = Refilled(buckets[u])
<1>1. buckets'[u] = IF Stale(u) THEN NoBucket ELSE buckets[u]
  BY DEF Cleanup
<1>2. now' = now
  BY DEF Cleanup
<1>3. CASE Stale(u)
  BY <1>1, <1>3, StaleIsFull DEF Refilled
<1>4. CASE ~Stale(u)
  BY <1>1, <1>2, <1>4 DEF Refilled
<1> QED
  BY <1>3, <1>4

\* A tick adds the rate, up to the burst.
LEMMA TickLevels ==
  ASSUME TypeOK, Tick, NEW u \in Users
  PROVE  Refilled(buckets[u])' = AtMost(Burst, Refilled(buckets[u]) + Rate)
<1> DEFINE b == buckets[u]
<1>1. buckets' = buckets /\ now' = now + 1 /\ now \in Nat
  BY DEF Tick, TypeOK
<1>2. CASE b = NoBucket
  BY <1>1, <1>2, LimitAssumption DEF Refilled, AtMost
<1>3. CASE b # NoBucket
  <2>1. b \in Bucket /\ b.lastTime <= now
    BY <1>3 DEF TypeOK
  <2>2. b.tokens \in Nat /\ now - b.lastTime \in Nat
    BY <1>1, <2>1 DEF Bucket
  <2>3. Rate * (now + 1 - b.lastTime) = Rate * (now - b.lastTime) + Rate
    <3>1. \A r, x, y \in Int : r * (x + 1 - y) = r * (x - y) + r
      OBVIOUS
    <3>2. b.lastTime \in Int
      BY <2>1 DEF Bucket
    <3> QED
      BY <1>1, <3>1, <3>2, LimitAssumption
  <2>4. Rate * (now - b.lastTime) \in Nat
    BY <2>2, LimitAssumption
  <2>5. Refilled(b) = AtMost(Burst, b.tokens + Rate * (now - b.lastTime))
    BY <1>3 DEF Refilled
  <2>6. Refilled(buckets[u])' = AtMost(Burst, b.tokens + Rate * (now + 1 - b.lastTime))
    <3>1. Refilled(buckets[u])' = AtMost(Burst, buckets'[u].tokens + Rate * (now' - buckets'[u].lastTime))
      BY <1>1, <1>3 DEF Refilled
    <3>2. buckets'[u] = b /\ now' = now + 1 /\ b.lastTime \in Int /\ b.tokens \in Int
      BY <1>1, <2>1 DEF Bucket
    <3>3. now' - buckets'[u].lastTime = now + 1 - b.lastTime /\ buckets'[u].tokens = b.tokens
      BY <1>1, <3>2
    <3> QED
      BY <3>1, <3>3
  <2> HIDE DEF b
  <2>7. \A t, x \in Nat : AtMost(Burst, t + (x + Rate)) = AtMost(Burst, AtMost(Burst, t + x) + Rate)
    BY LimitAssumption DEF AtMost
  <2> QED
    BY <2>2, <2>3, <2>4, <2>5, <2>6, <2>7 DEF b
<1> QED
  BY <1>2, <1>3

-----------------------------------------------------------------------------
(* Types *)

\* Every step keeps the types.
LEMMA NextTypes == TypeOK /\ [Next]_vars => TypeOK'
<1> SUFFICES ASSUME TypeOK, [Next]_vars PROVE TypeOK'
  OBVIOUS
<1>1. CASE Tick
  <2>1. now' = now + 1 /\ now' \in 0..MaxTime /\ now \in Nat
    BY <1>1, LimitAssumption DEF Tick, TypeOK
  <2>2. \A u \in Users : buckets[u].lastTime \in Int /\ buckets[u].lastTime <= now
    BY DEF TypeOK, Bucket, NoBucket
  <2>3. \A u \in Users : buckets[u].lastTime <= now + 1
    BY <2>1, <2>2
  <2> QED
    BY <1>1, <2>1, <2>3 DEF Tick, TypeOK
<1>2. CASE Cleanup
  <2>1. now \in Nat /\ buckets' \in [Users -> Bucket \cup {NoBucket}]
    BY <1>2 DEF Cleanup, TypeOK
  <2>2. \A u \in Users : buckets'[u] = NoBucket \/ buckets'[u] = buckets[u]
    BY <1>2 DEF Cleanup
  <2>3. NoBucket.lastTime <= now
    BY <2>1 DEF NoBucket
  <2> QED
    BY <1>2, <2>1, <2>2, <2>3 DEF Cleanup, TypeOK
<1>3. ASSUME NEW u \in Users, Allow(u) PROVE TypeOK'
  <2>1. Cost \in Nat /\ Cost <= Refilled(buckets[u]) /\ Pay(u, Cost) /\ now' = now
    BY <1>3, RefilledTypes, LimitAssumption DEF Allow
  <2>2. buckets' \in [Users -> Bucket \cup {NoBucket}] /\ \A v \in Users : buckets'[v].lastTime <= now'
    BY <2>1, PayTypes
  <2> QED
    BY <1>3, <2>2 DEF Allow, TypeOK
<1>4. ASSUME NEW u \in Users, Refuse(u) PROVE TypeOK'
  <2>1. 0 <= Refilled(buckets[u]) /\ Pay(u, 0) /\ now' = now
    BY <1>4, RefilledTypes, LimitAssumption DEF Refuse
  <2>2. buckets' \in [Users -> Bucket \cup {NoBucket}] /\ \A v \in Users : buckets'[v].lastTime <= now'
    BY <2>1, PayTypes
  <2> QED
    BY <1>4, <2>2 DEF Refuse, TypeOK
<1>5. CASE UNCHANGED vars
  BY <1>5 DEF vars, TypeOK
<1> QED
  BY <1>1, <1>2, <1>3, <1>4, <1>5 DEF Next

\* The initial state has the types.
LEMMA InitTypes == Init => TypeOK
<1>1. NoBucket.lastTime = -1
  BY DEF NoBucket
<1> QED
  BY <1>1, LimitAssumption DEF Init, TypeOK

\* The limiter's variables have their types; tokens stay within the burst.
THEOREM LimiterTypes == Spec => []TypeOK
<1> QED
  BY InitTypes, NextTypes, PTL DEF Spec

-----------------------------------------------------------------------------
(* The limiter implements a token bucket *)

\* What a step does to the levels is what a token bucket does, or nothing.
LEMMA StepIsPromised == TypeOK /\ [Next]_vars => [Promise!Next]_(Promise!vars)
<1> SUFFICES ASSUME TypeOK, [Next]_vars PROVE [Promise!Next]_(Promise!vars)
  OBVIOUS
<1>1. CASE Tick
  <2>1. Levels' = [u \in Users |-> AtMost(Burst, Levels[u] + Rate)]
    BY <1>1, TickLevels DEF Levels
  <2>2. Promise!Tick
    BY <1>1, <2>1 DEF Tick, Promise!Tick, Promise!AtMost, AtMost
  <2> QED
    BY <2>2 DEF Promise!Next
<1>2. CASE Cleanup
  <2>1. Levels' = Levels
    BY <1>2, CleanupLevels DEF Levels
  <2> QED
    BY <1>2, <2>1 DEF Cleanup, Promise!vars
<1>3. ASSUME NEW u \in Users, Allow(u) PROVE Promise!Next
  <2>1. Cost \in Nat /\ Cost <= Refilled(buckets[u]) /\ Pay(u, Cost) /\ now' = now
    BY <1>3, RefilledTypes, LimitAssumption DEF Allow
  <2>2. /\ Refilled(buckets[u])' = Refilled(buckets[u]) - Cost
        /\ \A v \in Users \ {u} : Refilled(buckets[v])' = Refilled(buckets[v])
    BY <2>1, PayTypes
  <2>3. Levels' = [Levels EXCEPT ![u] = @ - Cost]
    BY <2>2 DEF Levels
  <2>4. Promise!Grant(u)
    BY <1>3, <2>3 DEF Allow, Promise!Grant, Levels
  <2> QED
    BY <2>4 DEF Promise!Next
<1>4. ASSUME NEW u \in Users, Refuse(u) PROVE UNCHANGED Promise!vars
  <2>1. Refilled(buckets[u]) \in 0..Burst
    BY RefilledTypes
  <2>2. 0 <= Refilled(buckets[u]) /\ Pay(u, 0) /\ now' = now
    BY <1>4, <2>1, LimitAssumption DEF Refuse
  <2>3. /\ Refilled(buckets[u])' = Refilled(buckets[u]) - 0
        /\ \A v \in Users \ {u} : Refilled(buckets[v])' = Refilled(buckets[v])
    BY <2>2, PayTypes
  <2>4. Levels' = Levels
    BY <2>1, <2>3, LimitAssumption DEF Levels
  <2> QED
    BY <1>4, <2>4 DEF Refuse, Promise!vars
<1>5. CASE UNCHANGED vars
  <2>1. Levels' = Levels
    BY <1>5 DEF vars, Levels, Refilled
  <2> QED
    BY <1>5, <2>1 DEF vars, Promise!vars
<1> QED
  BY <1>1, <1>2, <1>3, <1>4, <1>5 DEF Next

\* The limiter implements the token bucket: refilling late and forgetting idle
\* users cannot be observed (ratelimit.go:45-51, 60-71).
THEOREM LimiterIsTokenBucket == Spec => IsTokenBucket
<1>1. Init => Promise!Init
  BY LimitAssumption DEF Init, Promise!Init, Levels, Refilled
<1>2. TypeOK /\ [Next]_vars => [Promise!Next]_(Promise!vars)
  BY StepIsPromised
<1> QED
  BY <1>1, <1>2, LimiterTypes, PTL DEF Spec, IsTokenBucket, Promise!Spec

-----------------------------------------------------------------------------
(* The bound on windows *)

\* A message that is let through takes from the bucket what it adds to the window.
LEMMA AllowPaid ==
  ASSUME TypeOK, Paid, NEW u \in Users, Allow(u)
  PROVE  Paid'
<1>1. /\ Cost \in Nat /\ Cost <= Refilled(buckets[u]) /\ Pay(u, Cost)
      /\ now' = now /\ from' = from /\ now \in Nat /\ from \in Nat
  BY RefilledTypes, LimitAssumption DEF Allow, TypeOK
<1>2. /\ Refilled(buckets[u])' = Refilled(buckets[u]) - Cost
      /\ \A v \in Users \ {u} : Refilled(buckets[v])' = Refilled(buckets[v])
  BY <1>1, PayTypes
<1>3. CASE now < from
  BY <1>1, <1>3 DEF Allow, Paid
<1>4. CASE now >= from
  <2>1. used'[u] = used[u] + 1 /\ \A v \in Users \ {u} : used'[v] = used[v]
    BY <1>4 DEF Allow, TypeOK
  <2>2. used[u] \in Nat /\ Refilled(buckets[u]) \in Nat
    BY RefilledTypes DEF TypeOK
  <2>3. \A n, c, r \in Nat : (n + 1) * c + (r - c) = n * c + r
    OBVIOUS
  <2>4. used'[u] * Cost + Refilled(buckets[u])' = used[u] * Cost + Refilled(buckets[u])
    BY <1>1, <1>2, <2>1, <2>2, <2>3
  <2>5. \A v \in Users :
           used'[v] * Cost + Refilled(buckets[v])' = used[v] * Cost + Refilled(buckets[v])
    BY <1>2, <2>1, <2>4
  <2> QED
    BY <1>1, <1>4, <2>5 DEF Paid
<1> QED
  BY <1>1, <1>3, <1>4

\* A tick lets in no more than it adds to the window's allowance.
LEMMA TickPaid ==
  ASSUME TypeOK, Paid, Tick
  PROVE  Paid'
<1>1. now' = now + 1 /\ from' = from /\ used' = used /\ now \in Nat /\ from \in Nat
  BY DEF Tick, TypeOK
<1>2. \A u \in Users : Refilled(buckets[u])' = AtMost(Burst, Refilled(buckets[u]) + Rate)
  BY TickLevels
<1>3. \A u \in Users : Refilled(buckets[u]) \in 0..Burst /\ used[u] \in Nat
  BY RefilledTypes DEF TypeOK
<1>4. \A u \in Users : /\ Refilled(buckets[u])' \in Nat
                       /\ Refilled(buckets[u])' <= Burst
                       /\ Refilled(buckets[u])' <= Refilled(buckets[u]) + Rate
  BY <1>2, <1>3, LimitAssumption DEF AtMost
<1>5. CASE now + 1 < from
  BY <1>1, <1>5 DEF Paid
<1>6. CASE now + 1 = from
  <2>1. Rate * (now' - from') = 0
    BY <1>1, <1>6, LimitAssumption
  <2>2. \A u \in Users : used'[u] * Cost = 0
    BY <1>1, <1>6, LimitAssumption DEF Paid
  <2> QED
    BY <1>1, <1>4, <1>6, <2>1, <2>2, LimitAssumption DEF Paid
<1>7. CASE now >= from
  <2>1. \A r, x, y \in Nat : r * (x + 1 - y) = r * (x - y) + r
    OBVIOUS
  <2>2. Rate * (now' - from') = Rate * (now - from) + Rate
    BY <1>1, <2>1, LimitAssumption
  <2>3. Rate * (now - from) \in Int
    BY <1>1, LimitAssumption
  <2>4. \A u \in Users : used[u] * Cost \in Nat
    <3>1. \A x, y \in Nat : x * y \in Nat
      OBVIOUS
    <3> QED
      BY <1>3, <3>1, LimitAssumption
  <2>5. \A u \in Users : used[u] * Cost + Refilled(buckets[u]) <= Burst + Rate * (now - from)
    BY <1>7 DEF Paid
  <2>6. \A u \in Users : used'[u] * Cost + Refilled(buckets[u])' <= Burst + Rate * (now' - from')
    BY <1>1, <1>3, <1>4, <2>2, <2>3, <2>4, <2>5, LimitAssumption
  <2> QED
    BY <1>1, <1>7, <2>6 DEF Paid
<1> QED
  BY <1>1, <1>5, <1>6, <1>7

\* Every step keeps what was let through and what is left within the allowance.
LEMMA NextPaid == TypeOK /\ Paid /\ [Next]_vars => Paid'
<1> SUFFICES ASSUME TypeOK, Paid, [Next]_vars PROVE Paid'
  OBVIOUS
<1>1. CASE Cleanup
  <2>1. \A u \in Users : Refilled(buckets[u])' = Refilled(buckets[u])
    BY <1>1, CleanupLevels
  <2> QED
    BY <1>1, <2>1 DEF Cleanup, Paid
<1>2. ASSUME NEW u \in Users, Refuse(u) PROVE Paid'
  <2>1. Refilled(buckets[u]) \in 0..Burst
    BY RefilledTypes
  <2>2. 0 <= Refilled(buckets[u]) /\ Pay(u, 0) /\ now' = now
    BY <1>2, <2>1, LimitAssumption DEF Refuse
  <2>3. /\ Refilled(buckets[u])' = Refilled(buckets[u]) - 0
        /\ \A v \in Users \ {u} : Refilled(buckets[v])' = Refilled(buckets[v])
    BY <2>2, PayTypes
  <2>4. \A v \in Users : Refilled(buckets[v])' = Refilled(buckets[v])
    BY <2>1, <2>3, LimitAssumption
  <2> QED
    BY <1>2, <2>4 DEF Refuse, Paid
<1>3. CASE UNCHANGED vars
  BY <1>3 DEF vars, Paid, Refilled
<1> QED
  BY <1>1, <1>2, <1>3, TickPaid, AllowPaid DEF Next

\* In every window, of any length and begun at any time, a user gets through at
\* most a burst and the rate times the window (ratelimit.go:30-58, 60-71).
THEOREM WindowsAreBounded == Spec => []WindowBound
<1>1. Init => Paid
  <2> SUFFICES ASSUME Init PROVE Paid
    OBVIOUS
  <2>1. \A u \in Users : Refilled(buckets[u]) = Burst /\ used[u] = 0
    BY DEF Init, Refilled
  <2>2. now = 0 /\ from \in Nat /\ 0 * Cost = 0 /\ Rate * 0 = 0
    BY LimitAssumption DEF Init
  <2> QED
    BY <2>1, <2>2, LimitAssumption DEF Paid
<1>2. TypeOK /\ Paid => WindowBound
  <2> SUFFICES ASSUME TypeOK, Paid, now >= from, NEW u \in Users
               PROVE  used[u] * Cost <= Burst + Rate * (now - from)
    BY DEF WindowBound, Promise!WindowBound
  <2>1. Refilled(buckets[u]) \in 0..Burst /\ used[u] * Cost \in Nat
    BY RefilledTypes, LimitAssumption DEF TypeOK
  <2>2. Rate * (now - from) \in Int
    BY LimitAssumption DEF TypeOK
  <2> QED
    BY <2>1, <2>2, LimitAssumption DEF Paid
<1> QED
  BY <1>1, <1>2, LimiterTypes, NextPaid, PTL DEF Spec

-----------------------------------------------------------------------------
(* The lockout *)

LockEntry == [count : 0..MaxAttempts, lockUntil : 0..(MaxTime + Duration)]
InWindow == now >= from /\ now < from + Duration

\* What the window has seen is in the count, and a full count that was locked
\* before the window has seen nothing of it.
Counted(u) ==
  /\ now < from => wrong[u] = 0
  /\ InWindow =>
       /\ wrong[u] <= failedAttempts[u].count
       /\ failedAttempts[u].count = MaxAttempts /\ failedAttempts[u].lockUntil < from + Duration
            => wrong[u] = 0

\* Inductive: the types, and what the counts say of the window.
LockInv == LockoutTypeOK /\ \A u \in Users : Counted(u)

\* An entry that is not locked can take one more failure.
LEMMA RecordedTypes ==
  ASSUME LockoutTypeOK, NEW u \in Users
  PROVE  /\ Expired(failedAttempts[u]) \in LockEntry
         /\ Expired(failedAttempts[u]).count < MaxAttempts
         /\ Recorded(Expired(failedAttempts[u])) \in LockEntry
<1> DEFINE e == failedAttempts[u]
<1>1. e \in LockEntry /\ now \in 0..MaxTime
  BY DEF LockoutTypeOK, LockEntry
<1>2. Expired(e) \in LockEntry /\ Expired(e).count < MaxAttempts
  BY <1>1, LockoutAssumption DEF Expired, LockEntry
<1>3. \A f \in LockEntry : f.count < MaxAttempts => Recorded(f) \in LockEntry
  BY <1>1, LockoutAssumption DEF Recorded, LockEntry
<1> QED
  BY <1>2, <1>3

\* Initially nothing was tried.
LEMMA InitCounted == LockoutInit => LockInv
<1> SUFFICES ASSUME LockoutInit PROVE LockInv
  OBVIOUS
<1>1. LockoutTypeOK
  BY LockoutAssumption DEF LockoutInit, LockoutTypeOK, Clear
<1>2. \A u \in Users : wrong[u] = 0 /\ failedAttempts[u].count = 0
  BY DEF LockoutInit, Clear
<1> QED
  BY <1>1, <1>2 DEF LockInv, Counted

\* A wrong password is counted, and locks the name beyond the window in time.
LEMMA WrongCounted ==
  ASSUME LockInv, NEW u \in Users, Wrong(u)
  PROVE  LockInv'
<1> DEFINE e == failedAttempts[u]
           f == Expired(e)
<1>1. /\ e \in LockEntry /\ f \in LockEntry /\ f.count < MaxAttempts /\ Recorded(f) \in LockEntry
      /\ now \in 0..MaxTime /\ from \in 0..MaxTime /\ wrong[u] \in Nat
      /\ failedAttempts \in [Users -> LockEntry] /\ wrong \in [Users -> Nat]
  BY RecordedTypes DEF LockInv, LockoutTypeOK, LockEntry
<1>2. /\ now' = now /\ from' = from
      /\ failedAttempts' = [failedAttempts EXCEPT ![u] = Recorded(f)]
      /\ wrong' = IF now >= from THEN [wrong EXCEPT ![u] = @ + 1] ELSE wrong
  BY DEF Wrong
<1>3. failedAttempts' \in [Users -> LockEntry] /\ wrong' \in [Users -> Nat]
  BY <1>1, <1>2
<1>4. failedAttempts'[u] = Recorded(f) /\ wrong'[u] = IF now >= from THEN wrong[u] + 1 ELSE wrong[u]
  BY <1>1, <1>2
<1>5. \A v \in Users \ {u} : failedAttempts'[v] = failedAttempts[v] /\ wrong'[v] = wrong[v]
  BY <1>1, <1>2
<1>6. InWindow' <=> InWindow
  BY <1>2 DEF InWindow
<1>7. ASSUME InWindow PROVE wrong[u] <= f.count
  <2>1. CASE e.count >= MaxAttempts
    <3>1. e.count = MaxAttempts /\ now >= e.lockUntil
      <4>1. e.count \in 0..MaxAttempts /\ e.lockUntil \in Nat
        BY <1>1, LockoutAssumption DEF LockEntry
      <4>2. ~(now < e.lockUntil)
        BY DEF Wrong, Locked
      <4> QED
        BY <1>1, <2>1, <4>1, <4>2, LockoutAssumption
    <3>2. e.lockUntil < from + Duration
      BY <1>1, <1>7, <3>1, LockoutAssumption DEF InWindow, LockEntry
    <3>3. wrong[u] = 0
      BY <1>7, <3>1, <3>2 DEF LockInv, Counted
    <3> QED
      BY <1>1, <3>3 DEF LockEntry
  <2>2. CASE e.count < MaxAttempts
    <3>1. f = e
      BY <1>1, <2>2, LockoutAssumption DEF Expired, LockEntry
    <3> QED
      BY <1>7, <3>1 DEF LockInv, Counted
  <2> QED
    BY <1>1, <2>1, <2>2, LockoutAssumption DEF LockEntry
<1>8. Recorded(f).count = f.count + 1
  BY DEF Recorded
<1>9. Recorded(f).count = MaxAttempts => Recorded(f).lockUntil = now + Duration
  BY <1>1, <1>8, LockoutAssumption DEF Recorded, LockEntry
<1>10. Counted(u)'
  <2>1. ASSUME InWindow
        PROVE  /\ wrong'[u] <= failedAttempts'[u].count
               /\ failedAttempts'[u].count = MaxAttempts => failedAttempts'[u].lockUntil >= from' + Duration
    BY <1>1, <1>2, <1>4, <1>7, <1>8, <1>9, <2>1, LockoutAssumption DEF InWindow, LockEntry
  <2>2. failedAttempts'[u].lockUntil \in Nat /\ from' + Duration \in Nat
    BY <1>1, <1>2, <1>4, LockoutAssumption DEF LockEntry
  <2>3. now < from => wrong'[u] = 0
    BY <1>1, <1>4 DEF LockInv, Counted
  <2> QED
    BY <1>2, <1>6, <2>1, <2>2, <2>3 DEF Counted
<1>11. \A v \in Users \ {u} : Counted(v)'
  BY <1>2, <1>5, <1>6 DEF LockInv, Counted
<1> QED
  BY <1>1, <1>2, <1>3, <1>10, <1>11 DEF LockInv, LockoutTypeOK, LockEntry

\* A right password clears what was counted.
LEMMA RightCounted ==
  ASSUME LockInv, NEW u \in Users, Right(u)
  PROVE  LockInv'
<1>1. /\ now' = now /\ from' = from
      /\ failedAttempts' = [failedAttempts EXCEPT ![u] = Clear]
      /\ wrong' = [wrong EXCEPT ![u] = 0]
      /\ failedAttempts \in [Users -> LockEntry] /\ wrong \in [Users -> Nat]
  BY DEF Right, LockInv, LockoutTypeOK, LockEntry
<1>2. Clear \in LockEntry
  BY LockoutAssumption DEF Clear, LockEntry
<1>3. failedAttempts' \in [Users -> LockEntry] /\ wrong' \in [Users -> Nat]
  BY <1>1, <1>2
<1>4. Counted(u)'
  BY <1>1 DEF Counted, Clear
<1>5. \A v \in Users \ {u} : Counted(v)'
  BY <1>1 DEF LockInv, Counted, InWindow
<1> QED
  BY <1>1, <1>3, <1>4, <1>5 DEF LockInv, LockoutTypeOK, LockEntry

\* An attempt that is not compared only forgets a lockout that has ended.
LEMMA NotComparedCounted ==
  ASSUME LockInv, NEW u \in Users, NotCompared(u)
  PROVE  LockInv'
<1> DEFINE e == failedAttempts[u]
<1>1. /\ now' = now /\ from' = from /\ wrong' = wrong
      /\ failedAttempts' = [failedAttempts EXCEPT ![u] = Expired(e)]
      /\ failedAttempts \in [Users -> LockEntry] /\ Expired(e) \in LockEntry /\ e \in LockEntry
      /\ Expired(e).count < MaxAttempts
      /\ now \in Nat /\ from \in Nat /\ wrong[u] \in Nat
  BY RecordedTypes DEF NotCompared, LockInv, LockoutTypeOK, LockEntry
<1>2. failedAttempts' \in [Users -> LockEntry] /\ failedAttempts'[u] = Expired(e)
  BY <1>1
<1>3. ASSUME InWindow PROVE wrong[u] <= Expired(e).count
  <2>1. CASE e.count >= MaxAttempts
    <3>1. e.count = MaxAttempts /\ e.lockUntil < from + Duration
      BY <1>1, <1>3, <2>1, LockoutAssumption DEF LockEntry, NotCompared, Locked, InWindow
    <3> QED
      BY <1>1, <1>3, <3>1 DEF LockInv, Counted, LockEntry
  <2>2. CASE e.count < MaxAttempts
    BY <1>1, <1>3, <2>2, LockoutAssumption DEF Expired, LockEntry, LockInv, Counted
  <2> QED
    BY <1>1, <2>1, <2>2, LockoutAssumption DEF LockEntry
<1>4. Counted(u)'
  BY <1>1, <1>2, <1>3, LockoutAssumption DEF LockInv, Counted, InWindow, LockEntry
<1>5. \A v \in Users \ {u} : Counted(v)'
  BY <1>1 DEF LockInv, Counted, InWindow
<1> QED
  BY <1>1, <1>2, <1>4, <1>5 DEF LockInv, LockoutTypeOK, LockEntry

\* The window begins with nothing tried in it.
LEMMA TickCounted ==
  ASSUME LockInv, LockoutTick
  PROVE  LockInv'
<1>1. /\ now' = now + 1 /\ from' = from /\ wrong' = wrong /\ failedAttempts' = failedAttempts
      /\ now \in Nat /\ from \in Nat /\ now' \in 0..MaxTime
  BY LockoutAssumption DEF LockoutTick, LockInv, LockoutTypeOK
<1>2. \A u \in Users : failedAttempts[u].count \in Nat
  <2>1. failedAttempts \in [Users -> LockEntry]
    BY DEF LockInv, LockoutTypeOK, LockEntry
  <2>2. \A e \in LockEntry : e.count \in Nat
    BY LockoutAssumption DEF LockEntry
  <2> QED
    BY <2>1, <2>2
<1>3. \A u \in Users : Counted(u)'
  <2> SUFFICES ASSUME NEW u \in Users PROVE Counted(u)'
    OBVIOUS
  <2>1. CASE now < from
    BY <1>1, <1>2, <2>1 DEF LockInv, Counted, InWindow
  <2>2. CASE now >= from
    BY <1>1, <2>2, LockoutAssumption DEF LockInv, Counted, InWindow
  <2> QED
    BY <1>1, <2>1, <2>2
<1> QED
  BY <1>1, <1>3 DEF LockInv, LockoutTypeOK

\* Every step keeps the invariant.
LEMMA NextCounted == LockInv /\ [LockoutNext]_lockoutVars => LockInv'
<1> SUFFICES ASSUME LockInv, [LockoutNext]_lockoutVars PROVE LockInv'
  OBVIOUS
<1>1. CASE UNCHANGED lockoutVars
  BY <1>1 DEF lockoutVars, LockInv, LockoutTypeOK, Counted, InWindow
<1> QED
  BY <1>1, WrongCounted, RightCounted, NotComparedCounted, TickCounted DEF LockoutNext

\* The variables of the lockout have their types (auth.go:30-47, 126-137).
THEOREM LockoutTypes == LockoutSpec => []LockoutTypeOK
<1>1. LockInv => LockoutTypeOK
  BY DEF LockInv
<1>2. LockoutInit => LockInv
  BY InitCounted
<1>3. LockInv /\ [LockoutNext]_lockoutVars => LockInv'
  BY NextCounted
<1> QED
  BY <1>1, <1>2, <1>3, PTL DEF LockoutSpec

\* No stretch of time as long as a lockout sees more than MaxAttempts wrong
\* passwords for a name without a right one between them (auth.go:80-90, 126-137).
THEOREM AttemptsAreBounded == LockoutSpec => []AttemptBound
<1>1. LockInv => AttemptBound
  <2> SUFFICES ASSUME LockInv, InWindow, NEW u \in Users PROVE wrong[u] <= MaxAttempts
    BY DEF AttemptBound, InWindow
  <2>1. failedAttempts[u].count \in 0..MaxAttempts /\ wrong[u] \in Nat
    BY DEF LockInv, LockoutTypeOK
  <2> QED
    BY <2>1, LockoutAssumption DEF LockInv, Counted
<1>2. LockoutInit => LockInv
  BY InitCounted
<1>3. LockInv /\ [LockoutNext]_lockoutVars => LockInv'
  BY NextCounted
<1> QED
  BY <1>1, <1>2, <1>3, PTL DEF LockoutSpec
=============================================================================
