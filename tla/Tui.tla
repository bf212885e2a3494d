-------------------------------- MODULE Tui --------------------------------
(***************************************************************************)
(* The terminal client, internal/tui/model.go, fed by cmd/tui/main.go, on  *)
(* its connection to a node: what is on the screen against what the node   *)
(* stores.                                                                 *)
(*                                                                         *)
(* The Update of the client runs one event at a time: a key, or a message  *)
(* of the node.  The node, of which Hub has the detail, registers the      *)
(* client, joins it to "general", copies the recent messages of its store  *)
(* and writes the copies while the write pump already sends what is live,  *)
(* so the two kinds arrive in any order.  Buffers never fill here, and the *)
(* recent messages are all there are.                                      *)
(***************************************************************************)
EXTENDS Integers, Sequences, FiniteSets, SequencesExt

CONSTANTS
  Rooms, General,  \* channels
  DmPanes,         \* the pseudo-channels "dm:<user>"
  Ids,             \* messages
  KindOf,          \* "chat", "dm"; "notice" (join, leave), "answer" (to a command);
                   \* "typed" (by this user)
  PaneOf,          \* the pseudo-channel of a direct message, the channel of a chat: a
                   \* pseudo-channel too, if the sender's client had it open
  Users,           \* who reacts
  MaxChanges       \* bound: edits, deletions and reactions

Panes == Rooms \cup DmPanes
Kinds == {"chat", "dm", "notice", "answer", "typed"}

ASSUME TuiAssumption ==
  /\ General \in Rooms /\ Rooms \cap DmPanes = {}
  /\ KindOf \in [Ids -> Kinds] /\ PaneOf \in [Ids -> Panes]
  /\ \A i \in Ids : (KindOf[i] = "dm" => PaneOf[i] \in DmPanes)
                    /\ (KindOf[i] \in {"notice", "answer"} => PaneOf[i] = General)
  /\ MaxChanges \in Nat

VARIABLES
  \* the model of the client
  channels,   \* m.channels
  dms,        \* m.dmUsers, as their pseudo-channels
  panes,      \* m.channelState: Messages and Unread of each channel it knows
  active,     \* m.activeChannel
  cursor,     \* m.sidebarCursor
  focus,      \* m.focus
  \* the connection
  phase,      \* how far the login is: "out", "registered", "joined", "replay"; or "lost"
  live,       \* events for the write pump
  history,    \* copies of stored messages yet to be written
  outbox,     \* what the client has sent
  \* the node
  stored,     \* its messages
  members,    \* the rooms this user is a member of
  sent,       \* ids used
  changes,    \* edits, deletions and reactions so far
  \* why a message may not look like the stored one
  raced,      \* posted or changed while the login was going on, see Races
  unheard,    \* posted or changed when the node did not send it here
  again       \* reacted to twice by one user

uiVars == <<channels, dms, panes, active, cursor, focus>>
connVars == <<phase, live, history, outbox>>
nodeVars == <<stored, members, sent, changes>>
ghosts == <<raced, unheard, again>>
vars == <<uiVars, connVars, nodeVars, ghosts>>

\* A message on the screen, with the number of its reactions; and one in the store.
Shown == [id : Ids, rev : 0..MaxChanges, likes : 0..(2 * MaxChanges)]
Message == [id : Ids, pane : Panes, rev : 0..MaxChanges, likes : SUBSET Users]
Events == [op : {"new", "edit", "delete", "like"}, msg : Message]

Find(s, i) == SelectInSeq(s, LAMBDA m : m.id = i)
Has(s, i) == Find(s, i) # 0

Init ==
  /\ channels = <<General>>
  /\ dms = <<>>
  /\ panes = [p \in {General} |-> [msgs |-> <<>>, unread |-> 0]]
  /\ active = General
  /\ cursor = 1
  /\ focus = "input"
  /\ phase = "out"
  /\ live = <<>> /\ history = <<>> /\ outbox = <<>>
  /\ stored = <<>>
  /\ members \in SUBSET Rooms
  /\ sent = {}
  /\ changes = 0
  /\ raced = {} /\ unheard = {} /\ again = {}

-----------------------------------------------------------------------------
(* The node *)

Registered == phase \in {"registered", "joined", "replay"}

\* A message the login may show twice, or not as it is now: posted or reacted to
\* between the registration and the copy of the store, or changed between the copy
\* and the writing of it.
Races(op, i) ==
  \/ phase \in {"registered", "joined"} /\ op \in {"new", "like"}
  \/ Has(history, i)

\* broadcastToClients: direct messages, joins, leaves and answers come whatever the
\* channel, reactions have none, and the rest goes to the members of its channel:
\* nobody, for a pseudo-channel.  A stored direct message is in "general", and so
\* are its edit and its deletion.
ChannelOf(m) == IF KindOf[m.id] = "dm" THEN General ELSE m.pane
Wants(op, m) ==
  \/ op = "like"
  \/ op = "new" /\ KindOf[m.id] \in {"dm", "notice", "answer"}
  \/ ChannelOf(m) \in members

\* The node tells the client, if the client wants it.
Tell(op, m) ==
  LET told == Registered /\ Wants(op, m)
  IN  /\ live' = IF told THEN Append(live, [op |-> op, msg |-> m]) ELSE live
      /\ raced' = IF Races(op, m.id) THEN raced \cup {m.id} ELSE raced
      /\ unheard' = IF told \/ (~Registered /\ KindOf[m.id] # "dm") THEN unheard
                                                                   ELSE unheard \cup {m.id}

\* The hub takes a message; what is neither a chat nor a direct message is not stored.
Publish(i, pane) ==
  LET m == [id |-> i, pane |-> pane, rev |-> 0, likes |-> {}] IN
    /\ stored' = IF KindOf[i] \in {"notice", "answer"} THEN stored ELSE Append(stored, m)
    /\ Tell("new", m)
    /\ UNCHANGED again

Post(i) ==
  /\ KindOf[i] # "typed" /\ i \notin sent /\ (KindOf[i] = "answer" => Registered)
  /\ sent' = sent \cup {i}
  /\ Publish(i, PaneOf[i])
  /\ UNCHANGED <<uiVars, phase, history, outbox, members, changes>>

\* /edit, /delete and /react of other users.
Changed(i, m) == [k \in DOMAIN stored |-> IF k = Find(stored, i) THEN m ELSE stored[k]]

Edit(i) ==
  LET m == [stored[Find(stored, i)] EXCEPT !.rev = @ + 1] IN
    stored' = Changed(i, m) /\ Tell("edit", m) /\ UNCHANGED again

Delete(i) ==
  /\ stored' = RemoveAt(stored, Find(stored, i))
  /\ Tell("delete", stored[Find(stored, i)])
  /\ UNCHANGED again

\* The node keeps a user's reaction once, and tells of it every time.
React(i, u) ==
  LET m == [stored[Find(stored, i)] EXCEPT !.likes = @ \cup {u}] IN
    /\ stored' = Changed(i, m)
    /\ Tell("like", m)
    /\ again' = IF u \in stored[Find(stored, i)].likes THEN again \cup {i} ELSE again

Modify(i) ==
  /\ changes < MaxChanges /\ Has(stored, i)
  /\ changes' = changes + 1
  /\ Edit(i) \/ Delete(i) \/ \E u \in Users : React(i, u)
  /\ UNCHANGED <<uiVars, phase, history, outbox, members, sent>>

\* handleConnection: register, join "general", copy the store, replay.
Register ==
  /\ phase = "out" /\ phase' = "registered"
  /\ UNCHANGED <<uiVars, live, history, outbox, nodeVars, ghosts>>

JoinGeneral ==
  /\ phase = "registered" /\ phase' = "joined"
  /\ members' = members \cup {General}
  /\ UNCHANGED <<uiVars, live, history, outbox, stored, sent, changes, ghosts>>

Snapshot ==
  /\ phase = "joined" /\ phase' = "replay"
  /\ history' = stored
  /\ UNCHANGED <<uiVars, live, outbox, nodeVars, ghosts>>

\* The client loop reads what the client sent: a chat goes to the channel it names,
\* /channel join and leave change the membership.
Handle ==
  /\ phase = "replay" /\ history = <<>> /\ outbox # <<>>
  /\ outbox' = Tail(outbox)
  /\ LET o == Head(outbox) IN
       \/ /\ o.op = "chat" /\ Publish(o.id, o.pane) /\ UNCHANGED members
       \/ /\ o.op = "join" /\ members' = members \cup ({o.pane} \cap Rooms)
          /\ UNCHANGED <<stored, live, ghosts>>
       \/ /\ o.op = "leave" /\ members' = members \ {o.pane}
          /\ UNCHANGED <<stored, live, ghosts>>
  /\ UNCHANGED <<uiVars, phase, history, sent, changes>>

\* The connection breaks: an ErrorMsg sets the status line, nothing else, and what is
\* sent from now on is lost.
Disconnect ==
  /\ Registered /\ phase' = "lost"
  /\ live' = <<>> /\ history' = <<>> /\ outbox' = <<>>
  /\ UNCHANGED <<uiVars, nodeVars, ghosts>>

-----------------------------------------------------------------------------
(* The client: handleServerMessage *)

\* Fault: a new channel is put in front.
FrontListed(p) == IF p \in DOMAIN panes \/ p \in DmPanes THEN channels ELSE <<p>> \o channels
\* Fault: a pseudo-channel is listed too.
FaultyListed(p) == IF p \in DOMAIN panes THEN channels ELSE Append(channels, p)
\* ensureChannel lists a channel it did not know, unless it is a pseudo-channel.
Listed(p) == IF p \in DOMAIN panes \/ p \in DmPanes THEN channels ELSE Append(channels, p)

Known(p) == p \in DOMAIN panes
Pane(p) == IF Known(p) THEN panes[p] ELSE [msgs |-> <<>>, unread |-> 0]
WithPane(p, pane) == [q \in DOMAIN panes \cup {p} |-> IF q = p THEN pane ELSE panes[q]]

\* Fault: what arrives in the open channel is counted too.
FaultyCounts(p, i) == KindOf[i] # "notice"
Counts(p, i) == p # active /\ KindOf[i] # "notice"

\* A chat, direct message, join or leave: appended to its channel.
Arrives(m) ==
  LET p == m.pane IN
    /\ panes' = WithPane(p, [msgs |-> Append(Pane(p).msgs, [id |-> m.id, rev |-> m.rev,
                                                            likes |-> Cardinality(m.likes)]),
                             unread |-> Pane(p).unread + IF Counts(p, m.id) THEN 1 ELSE 0])
    /\ channels' = Listed(p)
    /\ dms' = IF KindOf[m.id] = "dm" /\ ~Contains(dms, p) THEN Append(dms, p) ELSE dms

\* Fault: the message is looked for in the open channel only.
FaultyOnScreen(i) == {active}
\* The message is looked for in every channel, the first copy in each is changed.
OnScreen(i) == {p \in DOMAIN panes : Has(panes[p].msgs, i)}

EditShown(m) ==
  panes' = [p \in DOMAIN panes |->
    IF p \in OnScreen(m.id)
    THEN [panes[p] EXCEPT !.msgs[Find(panes[p].msgs, m.id)].rev = m.rev] ELSE panes[p]]

DeleteShown(m) ==
  panes' = [p \in DOMAIN panes |->
    IF p \in OnScreen(m.id)
    THEN [panes[p] EXCEPT !.msgs = RemoveAt(@, Find(@, m.id))] ELSE panes[p]]

LikeShown(m) ==
  panes' = [p \in DOMAIN panes |->
    IF p \in OnScreen(m.id)
    THEN [panes[p] EXCEPT !.msgs[Find(panes[p].msgs, m.id)].likes = @ + 1] ELSE panes[p]]

Show(e) ==
  \/ e.op = "new" /\ Arrives(e.msg)
  \/ e.op = "edit" /\ EditShown(e.msg) /\ UNCHANGED <<channels, dms>>
  \/ e.op = "delete" /\ DeleteShown(e.msg) /\ UNCHANGED <<channels, dms>>
  \/ e.op = "like" /\ LikeShown(e.msg) /\ UNCHANGED <<channels, dms>>

ReceiveLive ==
  /\ live # <<>>
  /\ Show(Head(live)) /\ live' = Tail(live)
  /\ UNCHANGED <<active, cursor, focus, phase, history, outbox, nodeVars, ghosts>>

\* A copy in the history is encoded when it is written: it shares the map of
\* reactions with the store, if there was one.
AsWritten(m) ==
  IF m.likes # {} /\ Has(stored, m.id) THEN [m EXCEPT !.likes = stored[Find(stored, m.id)].likes]
                                       ELSE m

\* The loop of handleConnection leaves direct messages out; the channel of the others
\* is not looked at.
ReceiveHistory ==
  /\ history # <<>> /\ history' = Tail(history)
  /\ IF KindOf[Head(history).id] = "dm" THEN UNCHANGED <<channels, dms, panes>>
                                        ELSE Arrives(AsWritten(Head(history)))
  /\ UNCHANGED <<active, cursor, focus, phase, live, outbox, nodeVars, ghosts>>

-----------------------------------------------------------------------------
(* The client: keys *)

Items == channels \o dms

\* switchToChannel
Visited(p) == [Pane(p) EXCEPT !.unread = 0]
SwitchTo(p) ==
  /\ active' = p
  /\ panes' = WithPane(p, Visited(p))
  /\ channels' = Listed(p)

Keys == UNCHANGED <<dms, phase, live, history, nodeVars, ghosts>>

Esc ==
  /\ focus' = IF focus = "input" THEN "sidebar" ELSE "input"
  /\ Keys /\ UNCHANGED <<channels, panes, active, cursor, outbox>>

Position == SelectInSeq(Items, LAMBDA p : p = active)

\* tab and shift+tab; an active channel that is not listed has no neighbour.
Tab(step) ==
  /\ Position # 0
  /\ SwitchTo(Items[((Position - 1 + step) % Len(Items)) + 1])
  /\ Keys /\ UNCHANGED <<cursor, focus, outbox>>

\* j and k.
MoveCursor(step) ==
  /\ focus = "sidebar" /\ cursor + step \in 1..Len(Items)
  /\ cursor' = cursor + step
  /\ Keys /\ UNCHANGED <<channels, panes, active, focus, outbox>>

Open ==
  /\ focus = "sidebar" /\ cursor <= Len(Items)
  /\ SwitchTo(Items[cursor])
  /\ focus' = "input"
  /\ Keys /\ UNCHANGED <<cursor, outbox>>

Send(o) == outbox' = IF phase = "lost" THEN outbox ELSE Append(outbox, o)

\* A message goes to the open channel, or pseudo-channel.
Type(i) ==
  /\ focus = "input" /\ KindOf[i] = "typed" /\ i \notin sent
  /\ sent' = sent \cup {i}
  /\ Send([op |-> "chat", id |-> i, pane |-> active])
  /\ UNCHANGED <<uiVars, phase, live, history, stored, members, changes, ghosts>>

\* /channel switch is done here too, whatever the node will answer.
SwitchCommand(p) ==
  /\ focus = "input"
  /\ SwitchTo(p)
  /\ Keys /\ UNCHANGED <<cursor, focus, outbox>>

\* /channel join and leave are the node's.
MemberCommand(op, r) ==
  /\ focus = "input" /\ outbox = <<>>
  /\ Send([op |-> op, id |-> "none", pane |-> r])
  /\ Keys /\ UNCHANGED <<channels, panes, active, cursor, focus>>

Key ==
  \/ Esc \/ Open
  \/ \E step \in {-1, 1} : Tab(step) \/ MoveCursor(step)
  \/ \E i \in Ids : Type(i)
  \/ \E p \in Panes : SwitchCommand(p)
  \/ \E r \in Rooms, op \in {"join", "leave"} : MemberCommand(op, r)

Node ==
  \/ \E i \in Ids : Post(i) \/ Modify(i)
  \/ Register \/ JoinGeneral \/ Snapshot \/ Handle \/ Disconnect

Next == Key \/ Node \/ ReceiveLive \/ ReceiveHistory

Spec == Init /\ [][Next]_vars

-----------------------------------------------------------------------------
(* Properties *)

\* The state has its types: the open channel has a pane, the pseudo-channels are
\* listed apart from the channels and once each, the cursor is on an item.
TypeOK ==
  /\ channels \in Seq(Rooms) /\ IsInjective(channels)
  /\ dms \in Seq(DmPanes) /\ IsInjective(dms)
  /\ \A p \in DOMAIN panes :
       p \in Panes /\ panes[p].msgs \in Seq(Shown) /\ panes[p].unread \in Nat
  /\ active \in DOMAIN panes /\ ToSet(Items) \subseteq DOMAIN panes
  /\ cursor \in 1..Len(Items) /\ focus \in {"input", "sidebar"}
  /\ phase \in {"out", "registered", "joined", "replay", "lost"}
  /\ live \in Seq(Events) /\ history \in Seq(Message) /\ stored \in Seq(Message)
  /\ members \subseteq Rooms /\ sent \subseteq Ids /\ changes \in 0..MaxChanges
  /\ raced \cup unheard \cup again \subseteq Ids

Copies(i, p) == {k \in DOMAIN panes[p].msgs : panes[p].msgs[k].id = i}

Quiet == phase = "replay" /\ live = <<>> /\ history = <<>> /\ outbox = <<>>

\* When nothing is under way, a message that was not caught in the login, that the
\* node sent here every time, and that nobody reacted to twice, is on the screen just
\* as it is stored: once, in its own channel, with its last text and as many
\* reactions as there are; and not at all if it is not stored any more.  Model.
\* handleServerMessage against the replay of handleConnection and the events of
\* /edit, /delete and /react.
ScreenAgrees ==
  Quiet => \A i \in sent \ (raced \cup unheard \cup again) :
    KindOf[i] \in {"chat", "dm", "typed"} =>
      \A p \in DOMAIN panes :
        IF Has(stored, i) /\ stored[Find(stored, i)].pane = p
        THEN LET m == stored[Find(stored, i)] IN
               \E k \in DOMAIN panes[p].msgs :
                 /\ Copies(i, p) = {k}
                 /\ panes[p].msgs[k] = [id |-> i, rev |-> m.rev, likes |-> Cardinality(m.likes)]
        ELSE Copies(i, p) = {}

\* The open channel shows no count, and every other channel with a count is in the
\* sidebar, where the user can open it, unless somebody wrote a chat with a
\* pseudo-channel open: the node stores and replays it, and ensureChannel does not
\* list its pseudo-channel.
BadgesReachable ==
  \A p \in DOMAIN panes : panes[p].unread > 0 =>
    /\ p # active
    /\ \/ p \in ToSet(Items)
       \/ p \in DmPanes /\ \E i \in sent : KindOf[i] = "chat" /\ PaneOf[i] = p

\* What arrives never moves the cursor from one channel to another, so enter opens
\* what the user was looking at.  (In the list of direct messages below it does move:
\* a new channel is listed before them.)
CursorStays ==
  [][cursor <= Len(channels) /\ cursor' = cursor => Items'[cursor] = Items[cursor]]_vars
=============================================================================
