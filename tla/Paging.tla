------------------------------ MODULE Paging ------------------------------
(***************************************************************************)
(* Reading a node's store page by page: GetChannelMessages (storage.go) as *)
(* GET /api/channels/{name}/history serves it (api.go).                    *)
(*                                                                         *)
(* One request is one critical section of s.mu, but a client that wants    *)
(* the whole channel makes many, and the offset it sends counts from the   *)
(* end of a list that goes on changing in between.                         *)
(***************************************************************************)
EXTENDS Storage

CONSTANTS
  Limits,   \* the limits that clients ask for, negative ones too
  Offsets,  \* the offsets that PageIsWindow is checked for
  MaxPage   \* the most messages in a page (200)

ASSUME PagingAssumption ==
  /\ Limits \subseteq Int /\ Offsets \subseteq Int
  /\ MaxPage \in Nat \ {0}

VARIABLE walk  \* a client on its way through a channel

walkVars == <<vars, walk>>
NoWalk == [room |-> "none"]

AtLeast0(k) == IF k < 0 THEN 0 ELSE k
AtMost(k, bound) == IF k > bound THEN bound ELSE k

\* The limit of the query, capped.
Served(limit) == AtMost(limit, MaxPage)

\* Fault: a page begins one message too late.
FaultyPageStart(total, limit, offset) == AtLeast0(total - offset - limit + 1)
\* The page is msgs[start:end], counted from the end of the list.
PageStart(total, limit, offset) == AtLeast0(total - offset - limit)
\* Fault: an offset past the beginning is not noticed.
FaultyPageEnd(total, offset) == AtMost(AtLeast0(total - offset) + 1, total)
PageEnd(total, offset) == AtMost(total - offset, total)

\* make([]protocol.Message, end-start) panics when end < start.
Panics(total, limit, offset) ==
  /\ total > 0 /\ PageEnd(total, offset) >= 0
  /\ PageEnd(total, offset) < PageStart(total, limit, offset)

Page(r, limit, offset) ==
  LET total == Len(index[r])
  IN  IF total = 0 \/ PageEnd(total, offset) < 0 THEN <<>>
      ELSE SubSeq(index[r], PageStart(total, limit, offset) + 1, PageEnd(total, offset))

-----------------------------------------------------------------------------
(* A client that reads a channel from its end to its beginning *)

WalkInit == Init /\ walk = NoWalk

Begin(r, limit) ==
  /\ run # "down" /\ walk = NoWalk /\ limit > 0
  /\ walk' = [room |-> r, limit |-> limit, offset |-> 0, due |-> IdsOf(index[r]), seen |-> {},
              ended |-> FALSE, since |-> <<deletes, restarts>>]
  /\ UNCHANGED vars

\* The next request goes on where the answer, which names the limit it was
\* served with, ends; an empty page ends the walk.
NextPage ==
  /\ run # "down" /\ walk # NoWalk /\ ~walk.ended
  /\ LET page == Page(walk.room, Served(walk.limit), walk.offset)
     IN  walk' = [walk EXCEPT !.offset = @ + Served(walk.limit), !.seen = @ \cup IdsOf(page),
                              !.ended = page = <<>>]
  /\ UNCHANGED vars

\* What is no longer in the channel is not due any more.
StoreStep ==
  /\ Next
  /\ walk' = IF walk = NoWalk THEN NoWalk
             ELSE [walk EXCEPT !.due = @ \cap IdsOf(index'[walk.room])]

WalkNext ==
  \/ StoreStep
  \/ NextPage
  \/ \E r \in Rooms, limit \in Limits : Begin(r, limit)

WalkSpec == WalkInit /\ [][WalkNext]_walkVars

-----------------------------------------------------------------------------
(* Properties *)

\* A page is what its query says, the messages with offset to offset+limit-1
\* newer ones, also at and past both ends of the list; it never panics unless the
\* query has a negative limit or offset, as the handler lets it (storage.go:149-165,
\* api.go:192-205).
PageIsWindow ==
  \A r \in Rooms : LET total == Len(index[r]) IN
    \A limit \in Limits, offset \in Offsets :
      limit >= 0 /\ offset >= 0 =>
        /\ ~Panics(total, limit, offset)
        /\ IdsOf(Page(r, limit, offset)) =
             {index[r][k].id : k \in {k \in 1..total : total - k \in offset..(offset + limit - 1)}}

\* A client that pages through a channel gets every message that was there when
\* it began and still is, whatever is posted, edited or evicted between its
\* requests; only a deletion or a restart can make it skip one (storage.go:66-75,
\* 149-165).
PagesMissNothing ==
  walk # NoWalk => (walk.ended /\ walk.since = <<deletes, restarts>> => walk.due \subseteq walk.seen)
=============================================================================
