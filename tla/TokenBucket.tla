---------------------------- MODULE TokenBucket ----------------------------
(***************************************************************************)
(* What the rate limiter promises: every user has a bucket of Burst units  *)
(* that fills by Rate units a tick, and a message is let through when its  *)
(* Cost is there.  The window that starts at from is any window of time:   *)
(* used counts what was let through in it.                                 *)
(***************************************************************************)
EXTENDS Integers

CONSTANTS
  Users,
  Rate,    \* units that a tick adds
  Burst,   \* units a bucket holds
  Cost,    \* units a message takes
  MaxTime  \* bound: ticks

VARIABLES now, from, level, used

vars == <<now, from, level, used>>

AtMost(max, x) == IF x > max THEN max ELSE x

Init ==
  /\ now = 0
  /\ from \in 0..MaxTime
  /\ level = [u \in Users |-> Burst]
  /\ used = [u \in Users |-> 0]

Tick ==
  /\ now < MaxTime
  /\ now' = now + 1
  /\ level' = [u \in Users |-> AtMost(Burst, level[u] + Rate)]
  /\ UNCHANGED <<from, used>>

Grant(u) ==
  /\ level[u] >= Cost
  /\ level' = [level EXCEPT ![u] = @ - Cost]
  /\ used' = IF now >= from THEN [used EXCEPT ![u] = @ + 1] ELSE used
  /\ UNCHANGED <<now, from>>

Next == Tick \/ \E u \in Users : Grant(u)

Spec == Init /\ [][Next]_vars

\* No window lets more through than a full bucket and what flows in meanwhile
\* (ratelimit.go:8-13).
WindowBound == now >= from => \A u \in Users : used[u] * Cost <= Burst + Rate * (now - from)
=============================================================================
