------------------------------- MODULE Clock -------------------------------
(***************************************************************************)
(* What limits on users have in common: their names, time.Now(), and a     *)
(* stretch of time that is looked at.  from is chosen at the beginning and *)
(* never changes, so it stands for every stretch.                          *)
(***************************************************************************)
EXTENDS Integers

CONSTANTS
  Users,    \* names, registered or not
  MaxTime   \* bound: ticks

VARIABLES
  now,      \* time.Now()
  from      \* the start of the window looked at
=============================================================================
