----------------------------- MODULE MCStorage -----------------------------
(* Small instances of Storage and Paging for TLC. *)
EXTENDS Paging, TLC

CONSTANTS m1, m2, m3, m4, m5

\* Four messages of one channel, interchangeable, and one of another.
MCRoomOf == [i \in Ids |-> IF i = m3 THEN "dev" ELSE "general"]
MCSymmetry == Permutations(Ids \ {m3})

\* Queries at and past both ends of a list.
MCLimits == {-1, 1, 2, 5}
MCOffsets == -1..4

\* Bound: a client pages through the longer channel while the disk is in order and
\* nothing is deleted or restarted, after which PagesMissNothing promises nothing;
\* a message is edited or one is deleted, not both.
Bounded ==
  /\ walk # NoWalk =>
       /\ walk.room = "general" /\ walk.offset <= Capacity + 2
       /\ walk.since = <<deletes, restarts>> /\ run = "up"
       /\ encoder = "ok" /\ ~torn /\ changes = 0
  /\ changes = 0 \/ deletes = 0
MCNext == WalkNext /\ Bounded'
MCSpec == WalkInit /\ [][MCNext]_walkVars
=============================================================================
