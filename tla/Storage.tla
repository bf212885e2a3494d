------------------------------ MODULE Storage ------------------------------
(***************************************************************************)
(* The message store of a node, internal/storage/storage.go: a flat list   *)
(* and one list per channel in memory, both bounded, over an append-only   *)
(* file (AOF) that is compacted now and then and read back at start.       *)
(*                                                                         *)
(* Every operation holds s.mu for its whole length, so a step is a whole   *)
(* operation; what is hard is their sequences, with disk errors, crashes   *)
(* and restarts among them.  Node.Shutdown is three of them, compaction,   *)
(* close and exit, and the other goroutines go on until the last one.  A   *)
(* message is its id, its channel, how often it was edited and who reacted *)
(* to it.                                                                  *)
(*                                                                         *)
(* Ids are taken to be unique, as GenerateID makes them.  The code also    *)
(* takes an id that a client sends along (client.go:222-225), and Save     *)
(* does not look whether it has it: nothing here is about a client that    *)
(* gives one id to two messages.                                           *)
(***************************************************************************)
EXTENDS Integers, Sequences, FiniteSets, SequencesExt

CONSTANTS
  Ids,         \* message ids; each is saved once, see above
  Rooms,       \* channels
  RoomOf,      \* the channel of each message
  Users,       \* who may react
  Long,        \* the ids whose line is longer than LoadAOF's line buffer
  Capacity,    \* messages kept per list (1024 in the code)
  Faults,      \* the disk errors that may happen
  MaxChanges,  \* bound: edits and reactions
  MaxDeletes,  \* bound: deletions
  MaxRestarts  \* bound: restarts of the node

ASSUME StorageAssumption ==
  /\ RoomOf \in [Ids -> Rooms] /\ Long \subseteq Ids
  /\ Capacity \in Nat \ {0}
  /\ Faults \subseteq {"save", "torn", "create", "rename", "reopen"}
  /\ MaxChanges \in Nat /\ MaxDeletes \in Nat /\ MaxRestarts \in Nat

VARIABLES
  flat,      \* s.allMsgs
  index,     \* s.messages
  disk,      \* the lines of node-<port>.aof
  torn,      \* the file ends in half a line
  encoder,   \* "ok", or "broken": an error json.Encoder remembers, or a closed file
  run,       \* the process is "up", "closing" or "closed" (in Shutdown), or "down"
  final,     \* the last compaction since Shutdown began: was one "kept", the "list" it
             \* wrote, and the ids "known" then
  saved,     \* ids given to Save
  acked,     \* ids for which Save returned nil
  glued,     \* ids whose line was written onto half a line
  changes,   \* edits and reactions so far
  deletes,   \* deletions so far
  restarts   \* restarts so far

memory == <<flat, index>>
file   == <<disk, torn, encoder>>
counts == <<changes, deletes, restarts>>
ids    == <<saved, acked, glued>>
vars   == <<memory, file, run, final, ids, counts>>

Message == [id : Ids, rev : 0..MaxChanges, likes : SUBSET Users]

IdsOf(s) == {s[k].id : k \in 1..Len(s)}

\* Fault: one message too many.
FaultyNewest(s) == IF Len(s) > Capacity THEN SubSeq(s, Len(s) - Capacity, Len(s)) ELSE s
\* The newest messages a list has room for.
Newest(s) == IF Len(s) > Capacity THEN SubSeq(s, Len(s) - Capacity + 1, Len(s)) ELSE s

\* The messages of a list whose ids are in keep, in its order.
Only(s, keep) ==
  LET kept[n \in 0..Len(s)] ==
        IF n = 0 THEN <<>>
        ELSE IF s[n].id \in keep THEN Append(kept[n - 1], s[n]) ELSE kept[n - 1]
  IN  kept[Len(s)]

\* Those of a channel.
InRoom(s, r) == Only(s, {i \in Ids : RoomOf[i] = r})

NoFinal == [kept |-> FALSE, list |-> <<>>, known |-> {}]

Init ==
  /\ flat = <<>>
  /\ index = [r \in Rooms |-> <<>>]
  /\ disk = <<>>
  /\ torn = FALSE
  /\ encoder = "ok"
  /\ run = "up"
  /\ final = NoFinal
  /\ saved = {}
  /\ acked = {}
  /\ glued = {}
  /\ changes = 0
  /\ deletes = 0
  /\ restarts = 0

-----------------------------------------------------------------------------
(* Save *)

\* A channel's list loses its oldest message when it is full.
Trim(s) == IF Len(s) > Capacity THEN Tail(s) ELSE s

Remember(m) ==
  LET r == RoomOf[m.id] IN
    /\ index' = [index EXCEPT ![r] = Trim(Append(@, m))]
    /\ flat' = Newest(Append(flat, m))

Fresh(i) ==
  /\ run # "down" /\ i \notin saved
  /\ saved' = saved \cup {i}
  /\ Remember([id |-> i, rev |-> 0, likes |-> {}])

\* A line written after half a line is lost in it, though the write succeeds.
SaveOk(i) ==
  /\ encoder = "ok"
  /\ Fresh(i)
  /\ disk' = IF torn THEN disk ELSE Append(disk, [id |-> i, rev |-> 0, likes |-> {}])
  /\ torn' = FALSE
  /\ acked' = acked \cup {i}
  /\ glued' = IF torn THEN glued \cup {i} ELSE glued
  /\ UNCHANGED <<encoder, run, final, counts>>

\* The write fails, with or without half a line in the file; the message stays
\* in memory and every later Encode returns the same error.
SaveFails(i) ==
  /\ encoder = "ok"
  /\ Fresh(i)
  /\ encoder' = "broken"
  /\ \/ "save" \in Faults /\ UNCHANGED torn
     \/ "torn" \in Faults /\ torn' = TRUE
  /\ UNCHANGED <<disk, run, final, acked, glued, counts>>

SaveBroken(i) ==
  /\ encoder = "broken"
  /\ Fresh(i)
  /\ UNCHANGED <<file, run, final, acked, glued, counts>>

-----------------------------------------------------------------------------
(* Changing a message: in memory only *)

\* The first message with that id, 0 when there is none.
Find(s, i) == SelectInSeq(s, LAMBDA m : m.id = i)

Edited(s, i) == [k \in DOMAIN s |-> IF k = Find(s, i) THEN [s[k] EXCEPT !.rev = @ + 1] ELSE s[k]]

\* A user reacts once with an emoji; one emoji stands for all.
Liked(s, i, u) ==
  [k \in DOMAIN s |-> IF k = Find(s, i) THEN [s[k] EXCEPT !.likes = @ \cup {u}] ELSE s[k]]

\* Fault: the last message takes the place of the deleted one.
FaultyWithout(s, i) ==
  IF Find(s, i) = 0 THEN s ELSE Front([s EXCEPT ![Find(s, i)] = Last(s)])
Without(s, i) == IF Find(s, i) = 0 THEN s ELSE RemoveAt(s, Find(s, i))

\* Fault: the index keeps its old copy.
FaultyInIndex(i, list) == index
InIndex(i, list) == [index EXCEPT ![RoomOf[i]] = list]

\* The message is looked for in the flat list and, once found there, changed in
\* both lists; one that only the index still has is not found.
Change(i, newFlat, newList) ==
  /\ run # "down" /\ Find(flat, i) # 0
  /\ flat' = newFlat
  /\ index' = InIndex(i, newList)
  /\ UNCHANGED <<file, run, final, ids, restarts>>

UpdateMessage(i) ==
  /\ changes < MaxChanges
  /\ Change(i, Edited(flat, i), Edited(index[RoomOf[i]], i))
  /\ changes' = changes + 1
  /\ UNCHANGED deletes

DeleteMessage(i) ==
  /\ deletes < MaxDeletes
  /\ Change(i, Without(flat, i), Without(index[RoomOf[i]], i))
  /\ deletes' = deletes + 1
  /\ UNCHANGED changes

AddReaction(i, u) ==
  /\ changes < MaxChanges
  /\ Change(i, Liked(flat, i, u), Liked(index[RoomOf[i]], i, u))
  /\ changes' = changes + 1
  /\ UNCHANGED deletes

-----------------------------------------------------------------------------
(* Compaction *)

\* Fault: compaction copies what the file has instead of what memory has.
FaultyImage == disk
\* Fault: a message saved during the compaction is left out.
StaleImage == IF flat = <<>> THEN flat ELSE Front(flat)
\* What compaction writes: the flat list.
Image == flat

\* The temporary file becomes the file.  In a shutdown, what it has is final.
Replaced ==
  /\ disk' = Image /\ torn' = FALSE
  /\ final' = IF run' = "up" THEN final ELSE [kept |-> TRUE, list |-> flat, known |-> saved]

CompactOk == Replaced /\ encoder' = "ok"

\* The temporary file cannot be created, written or synced.
CompactCreateFails == "create" \in Faults /\ UNCHANGED <<file, final>>

\* The old file is closed before the rename.
CompactRenameFails == "rename" \in Faults /\ encoder' = "broken" /\ UNCHANGED <<disk, torn, final>>

CompactReopenFails == "reopen" \in Faults /\ encoder' = "broken" /\ Replaced

CompactAOF ==
  /\ CompactOk \/ CompactCreateFails \/ CompactRenameFails \/ CompactReopenFails
  /\ UNCHANGED <<memory, ids, counts>>

\* The ticker's goroutine may be on its way to s.mu when Shutdown cancels it.
Compact == run # "down" /\ run' = run /\ CompactAOF

-----------------------------------------------------------------------------
(* Stopping and starting.  The lists keep their last value while the process *)
(* is down, for the properties to compare with; nothing reads them.          *)

Crash ==
  /\ run \in {"up", "closing"} /\ restarts < MaxRestarts
  /\ run' = "down"
  /\ UNCHANGED <<memory, file, final, ids, counts>>

\* A final compaction that fails is logged, and the shutdown goes on.
Shutdown ==
  /\ run = "up" /\ restarts < MaxRestarts
  /\ run' = "closing"
  /\ CompactAOF

Close ==
  /\ run = "closing"
  /\ run' = "closed" /\ encoder' = "broken"
  /\ UNCHANGED <<memory, disk, torn, final, ids, counts>>

\* Shutdown returns, and main with it; a crash before that is no different.
Exit ==
  /\ run = "closed"
  /\ run' = "down"
  /\ UNCHANGED <<memory, file, final, ids, counts>>

\* The scanner stops at a line it has no room for.
Scanned ==
  LET k == SelectInSeq(disk, LAMBDA m : m.id \in Long)
  IN  IF k = 0 THEN disk ELSE SubSeq(disk, 1, k - 1)

\* Fault: the oldest lines are kept.
FaultyLoaded == IF Len(Scanned) > Capacity THEN SubSeq(Scanned, 1, Capacity) ELSE Scanned
\* LoadAOF keeps the newest lines it has read.
Loaded == Newest(Scanned)

Restart ==
  /\ run = "down"
  /\ run' = "up" /\ final' = NoFinal
  /\ flat' = Loaded
  /\ index' = [r \in Rooms |-> InRoom(Loaded, r)]
  /\ encoder' = "ok"
  /\ restarts' = restarts + 1
  /\ UNCHANGED <<disk, torn, ids, changes, deletes>>

Next ==
  \/ \E i \in Ids : SaveOk(i) \/ SaveFails(i) \/ SaveBroken(i)
                    \/ UpdateMessage(i) \/ DeleteMessage(i)
                    \/ \E u \in Users : AddReaction(i, u)
  \/ Compact \/ Crash \/ Shutdown \/ Close \/ Exit \/ Restart

Spec == Init /\ [][Next]_vars

-----------------------------------------------------------------------------
(* Properties *)

\* Every variable has its type, and no list outgrows its capacity.
TypeOK ==
  /\ flat \in Seq(Message) /\ Len(flat) <= Capacity
  /\ DOMAIN index = Rooms
  /\ \A r \in Rooms : index[r] \in Seq(Message) /\ Len(index[r]) <= Capacity
  /\ disk \in Seq(Message)
  /\ torn \in BOOLEAN
  /\ encoder \in {"ok", "broken"}
  /\ run \in {"up", "closing", "closed", "down"}
  /\ final.kept \in BOOLEAN /\ final.list \in Seq(Message) /\ final.known \subseteq saved
  /\ glued \subseteq acked /\ acked \subseteq saved /\ saved \subseteq Ids
  /\ changes \in 0..MaxChanges /\ deletes \in 0..MaxDeletes /\ restarts \in 0..MaxRestarts

\* The two lists agree: what the flat list holds of a channel is the end of
\* that channel's own list, edits and reactions included, through evictions,
\* deletions and restarts (storage.go:65-75, 207-214, 231-239, 265-274, 363-368).
ListsAgree ==
  \A r \in Rooms : IsSuffix(InRoom(flat, r), index[r])

\* A message in memory whose Save returned nil is in the file, whatever failed
\* in between, unless its line was written onto half a line
\* (storage.go:78-80, 283-330).
AckedIsOnDisk ==
  run # "down" => (IdsOf(flat) \cap acked) \ glued \subseteq IdsOf(disk)

Before(s, i, j) == \E k, l \in 1..Len(s) : k < l /\ s[k].id = i /\ s[l].id = j

\* Memory and file have messages in the same order; "Uses order-preserving
\* deletion to maintain chronological ordering" (storage.go:222).
SameOrder ==
  \A i, j \in IdsOf(flat) \cap IdsOf(disk) : Before(flat, i, j) => Before(disk, i, j)

\* A restart loses no acknowledged message that was in memory, "ensuring
\* durability" (README.md:14, storage.go:77-80, 350-368), in the cases where the
\* code does keep it: nothing was deleted (a crash before the next compaction
\* brings the deleted line back, at the cost of the oldest one), no line of the
\* file is too long to read, and its own was not written onto half a line.
AckedSurvivesUndeleted ==
  [][Restart /\ deletes = 0 /\ IdsOf(disk) \cap Long = {}
       => (IdsOf(flat) \cap acked) \ glued \subseteq IdsOf(flat')]_vars

\* Once the compaction of a shutdown has succeeded, the next start finds the list
\* it wrote, edits, deletions and reactions included, followed only by messages
\* saved since, as far as there is room: closing the file, saves and changes of
\* goroutines that still run and a crash on the way change nothing, if every line
\* can be read back.  When that compaction fails, which is only logged, nothing of
\* the kind holds: deletions and edits since the last one are undone
\* (node.go:300-307, storage.go:281-330, 360-363).
ShutdownKeepsMessages ==
  [][Restart /\ final.kept /\ IdsOf(disk) \cap Long = {}
       => flat' = Newest(final.list \o Only(flat', Ids \ final.known))]_vars
=============================================================================
