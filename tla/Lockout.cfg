\* Two names, three attempts, a lockout of four ticks.
SPECIFICATION LockoutSpec
CONSTANTS
  Users = {"ann", "bob"}
  MaxAttempts = 3
  Duration = 4
  MaxTime = 9
INVARIANTS
  AttemptBound
CHECK_DEADLOCK FALSE
