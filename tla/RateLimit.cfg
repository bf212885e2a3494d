\* Two users; a message costs two ticks' worth, a bucket is stale after four.
SPECIFICATION Spec
CONSTANTS
  Users = {"ann", "bob"}
  Rate = 1
  Burst = 4
  Cost = 2
  MaxAge = 4
  MaxTime = 9
INVARIANTS
  TypeOK
  WindowBound
PROPERTY IsTokenBucket
CHECK_DEADLOCK FALSE
