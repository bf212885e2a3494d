------------------------------- MODULE Lockout -------------------------------
(***************************************************************************)
(* The protection of Check (internal/auth/auth.go) against the guessing of *)
(* passwords: after MaxAttempts wrong ones a name is locked for a while.   *)
(* Check holds a.mu for its whole length, so a step is a whole call.       *)
(*                                                                         *)
(* An attempt on a locked name is refused and changes nothing.  The window *)
(* that starts at from is any stretch of time; wrong is what was tried in  *)
(* it.                                                                     *)
(***************************************************************************)
EXTENDS Clock

CONSTANTS
  MaxAttempts,  \* maxLoginAttempts, 5 in the code
  Duration      \* lockoutDuration, in ticks

ASSUME LockoutAssumption == MaxAttempts \in Nat \ {0} /\ Duration \in Nat /\ MaxTime \in Nat

VARIABLES
  failedAttempts,  \* a.failedAttempts
  wrong            \* wrong passwords since from, and since the last right one

lockoutVars == <<now, from, failedAttempts, wrong>>

\* No entry; an entry of zeros is as good as none.
Clear == [count |-> 0, lockUntil |-> 0]

LockoutInit ==
  /\ now = 0
  /\ from \in 0..MaxTime
  /\ failedAttempts = [u \in Users |-> Clear]
  /\ wrong = [u \in Users |-> 0]

Locked(u) == now < failedAttempts[u].lockUntil

\* Fault: every attempt starts a new count.
FaultyExpired(e) == [e EXCEPT !.count = 0]
\* A lockout that has ended starts a new count.
Expired(e) == IF e.count >= MaxAttempts THEN [e EXCEPT !.count = 0] ELSE e

\* recordFailedAttempt
Recorded(e) ==
  [count |-> e.count + 1,
   lockUntil |-> IF e.count + 1 >= MaxAttempts THEN now + Duration ELSE e.lockUntil]

\* A wrong password, or a name that is not registered.
Wrong(u) ==
  /\ ~Locked(u)
  /\ failedAttempts' = [failedAttempts EXCEPT ![u] = Recorded(Expired(@))]
  /\ wrong' = IF now >= from THEN [wrong EXCEPT ![u] = @ + 1] ELSE wrong
  /\ UNCHANGED <<now, from>>

\* The entry is deleted.
Right(u) ==
  /\ ~Locked(u)
  /\ failedAttempts' = [failedAttempts EXCEPT ![u] = Clear]
  /\ wrong' = [wrong EXCEPT ![u] = 0]
  /\ UNCHANGED <<now, from>>

\* The user is banned, or the hash is not understood: no password is compared.
NotCompared(u) ==
  /\ ~Locked(u)
  /\ failedAttempts' = [failedAttempts EXCEPT ![u] = Expired(@)]
  /\ UNCHANGED <<now, from, wrong>>

LockoutTick ==
  /\ now < MaxTime
  /\ now' = now + 1
  /\ UNCHANGED <<from, failedAttempts, wrong>>

LockoutNext == LockoutTick \/ \E u \in Users : Wrong(u) \/ Right(u) \/ NotCompared(u)

LockoutSpec == LockoutInit /\ [][LockoutNext]_lockoutVars

-----------------------------------------------------------------------------
\* Every variable has its type; a count never passes the number of attempts.
LockoutTypeOK ==
  /\ now \in 0..MaxTime /\ from \in 0..MaxTime
  /\ failedAttempts \in [Users -> [count : 0..MaxAttempts, lockUntil : 0..(MaxTime + Duration)]]
  /\ wrong \in [Users -> Nat]

\* Within any stretch of time as long as a lockout, whenever it begins, no more
\* than MaxAttempts wrong passwords are tried for a name without a right one
\* between them (auth.go:80-90, 126-137).
AttemptBound ==
  now >= from /\ now < from + Duration => \A u \in Users : wrong[u] <= MaxAttempts
=============================================================================
