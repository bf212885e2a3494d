---------------------------- MODULE Replication ----------------------------
(***************************************************************************)
(* What the nodes of a cluster store of each other's messages: the relay   *)
(* of node.go (handleMessages) and peer.go (broadcastToPeers,              *)
(* handlePeerMessage), and the commands that change a stored message       *)
(* (commands.go: /edit, /delete, /react).                                  *)
(*                                                                         *)
(* The hub of a node saves a message and starts one goroutine per peer     *)
(* that sends it, so what is on its way to a node arrives in any order.    *)
(* The node that gets it applies it to its own store and does not relay it *)
(* on.  A command looks a message up, changes it and publishes the change  *)
(* in three steps.  Two nodes may have several connections: nothing keeps   *)
(* each from dialing the other (Join), and a message then goes over all of *)
(* them.  Lists never fill here (see Storage), and a connection is made    *)
(* once and lost once (see Election).                                      *)
(***************************************************************************)
EXTENDS Integers, Sequences, FiniteSets, SequencesExt

CONSTANTS
  Nodes,     \* the nodes
  Conns,     \* connections between them
  Ends,      \* the two nodes of a connection
  Ids,       \* message ids
  KindOf,    \* "chat" (images too), "dm" or "notice" (a join or a leave)
  PostedAt,  \* the node at which a message is published
  AuthorOf,  \* its sender ("Server" for a join or a leave)
  Sessions,  \* client sessions that give commands; bound: one command each
  NodeOf,    \* the node of a session
  UserOf,    \* its user
  Users, Admins,
  MaxCuts    \* bound: connections lost

ASSUME ReplicationAssumption ==
  /\ Ends \in [Conns -> SUBSET Nodes]
  /\ \A c \in Conns : \E m, n \in Nodes : m # n /\ Ends[c] = {m, n}
  /\ KindOf \in [Ids -> {"chat", "dm", "notice"}]
  /\ PostedAt \in [Ids -> Nodes] /\ AuthorOf \in [Ids -> Users]
  /\ NodeOf \in [Sessions -> Nodes] /\ UserOf \in [Sessions -> Users]
  /\ Admins \subseteq Users
  /\ MaxCuts \in Nat

VARIABLES
  store,     \* the store of each node, oldest message first
  peers,     \* n.peers
  cut,       \* connections that were lost
  wire,      \* what is on its way: a message, on a connection, to one of its ends
  posted,    \* ids published
  doing,     \* the command of each session, and how far it is
  had,       \* ids that each node has ever stored
  missed,    \* <<node, id>>: something about the message was never sent, or lost
  overtaken, \* <<node, id>>: a change arrived before the message
  doubled    \* <<node, id>>: the message was sent to the node over two connections

nodeVars == <<store, had>>
linkVars == <<peers, cut>>
blame    == <<missed, overtaken, doubled>>
vars     == <<nodeVars, linkVars, wire, posted, doing, blame>>

Stored == [id : Ids, text : {"first"} \cup Sessions, likes : SUBSET Users]
Kinds == {"chat", "dm", "notice", "edit", "delete", "react"}
\* text is the new text of an edit, and user the user of a reaction.
Messages == [kind : Kinds, id : Ids, text : {"first"} \cup Sessions, user : Users]
Packets == [conn : Conns, to : Nodes, msg : Messages]
Idle == [op |-> "none"]

\* The store finds the oldest copy of a message.
Places(s, i) == {k \in 1..Len(s) : s[k].id = i}
Find(s, i) == IF Places(s, i) = {} THEN 0 ELSE Min(Places(s, i))
Has(n, i) == Find(store[n], i) # 0

Init ==
  /\ store = [n \in Nodes |-> <<>>]
  /\ peers = [n \in Nodes |-> {}]
  /\ cut = {}
  /\ wire = {}
  /\ posted = {}
  /\ doing = [s \in Sessions |-> Idle]
  /\ had = [n \in Nodes |-> {}]
  /\ missed = {}
  /\ overtaken = {}
  /\ doubled = {}

-----------------------------------------------------------------------------
(* The store (internal/storage) *)

Updated(s, i, t) == [k \in DOMAIN s |-> IF k = Find(s, i) THEN [s[k] EXCEPT !.text = t] ELSE s[k]]

Without(s, i) == IF Find(s, i) = 0 THEN s ELSE RemoveAt(s, Find(s, i))

\* A user reacts once with an emoji; one emoji stands for all.
Liked(s, i, u) ==
  [k \in DOMAIN s |-> IF k = Find(s, i) THEN [s[k] EXCEPT !.likes = @ \cup {u}] ELSE s[k]]

Saved(s, i) == Append(s, [id |-> i, text |-> "first", likes |-> {}])

\* Fault: an edit that comes from a peer is shown, and not stored.
FaultyApplied(s, m) ==
  CASE m.kind \in {"chat", "notice"} -> Saved(s, m.id)
    [] m.kind = "delete" -> Without(s, m.id)
    [] m.kind = "react" -> Liked(s, m.id, m.user)
    [] OTHER -> s
\* What handlePeerMessage does to the store.
Applied(s, m) ==
  CASE m.kind \in {"chat", "notice"} -> Saved(s, m.id)
    [] m.kind = "edit" -> Updated(s, m.id, m.text)
    [] m.kind = "delete" -> Without(s, m.id)
    [] m.kind = "react" -> Liked(s, m.id, m.user)
    [] OTHER -> s

-----------------------------------------------------------------------------
(* Connections *)

\* Join on one side, handleConnection on the other.
Register(n, c) ==
  /\ n \in Ends[c] /\ c \notin cut /\ c \notin peers[n]
  /\ peers' = [peers EXCEPT ![n] = @ \cup {c}]
  /\ UNCHANGED <<nodeVars, cut, wire, posted, doing, blame>>

\* One of the ends dies, or the monitor closes the connection; what was on its way
\* is lost.
Cut(c) ==
  /\ c \notin cut /\ Cardinality(cut) < MaxCuts
  /\ cut' = cut \cup {c}
  /\ peers' = [n \in Nodes |-> peers[n] \ {c}]
  /\ wire' = {p \in wire : p.conn # c}
  /\ missed' = missed \cup {<<p.to, p.msg.id>> : p \in wire \ wire'}
  /\ UNCHANGED <<nodeVars, posted, doing, overtaken, doubled>>

-----------------------------------------------------------------------------
(* The hub: broadcastToPeers *)

\* DMs stay local for now.
Relayed(m) == m.kind # "dm"

Other(n, c) == CHOOSE m \in Ends[c] : m # n

\* Fault: the goroutines share one loop variable.
FaultyTargets(n) == IF peers[n] = {} THEN {} ELSE {CHOOSE c \in peers[n] : TRUE}
Targets(n) == peers[n]

PacketsOf(n, m) ==
  IF Relayed(m) THEN {[conn |-> c, to |-> Other(n, c), msg |-> m] : c \in Targets(n)} ELSE {}

\* The nodes to which n has two connections.
Twice(n) == {o \in Nodes : \E c, d \in peers[n] : c # d /\ Other(n, c) = o /\ Other(n, d) = o}

\* The nodes to which n has no connection at that moment never hear of it.
Relay(n, m) ==
  /\ wire' = wire \cup PacketsOf(n, m)
  /\ missed' = IF Relayed(m)
               THEN missed \cup {<<o, m.id>> : o \in Nodes \ ({n} \cup {Other(n, c) : c \in peers[n]})}
               ELSE missed
  /\ doubled' = IF m.kind \in {"chat", "notice"} THEN doubled \cup Twice(n) \X {m.id} ELSE doubled
  /\ UNCHANGED overtaken

\* The hub takes a message: chats and direct messages are saved, joins and leaves
\* are not.
Post(i) ==
  LET n == PostedAt[i]
      m == [kind |-> KindOf[i], id |-> i, text |-> "first", user |-> AuthorOf[i]]
  IN  /\ i \notin posted
      /\ posted' = posted \cup {i}
      /\ IF m.kind = "notice"
         THEN UNCHANGED nodeVars
         ELSE /\ store' = [store EXCEPT ![n] = Saved(@, i)]
              /\ had' = [had EXCEPT ![n] = @ \cup {i}]
      /\ Relay(n, m)
      /\ UNCHANGED <<linkVars, doing>>

-----------------------------------------------------------------------------
(* The reader of a peer connection: handlePeerMessage *)

\* Fault: what a peer sends is relayed like what a client sends.
FaultyOnward(n, m) == PacketsOf(n, m)
\* A message of a peer goes to this node's clients only.
Onward(n, m) == {}

Deliver(p) ==
  /\ p \in wire /\ p.conn \in peers[p.to]
  /\ wire' = (wire \ {p}) \cup Onward(p.to, p.msg)
  /\ store' = [store EXCEPT ![p.to] = Applied(@, p.msg)]
  /\ IF p.msg.kind \in {"chat", "notice"}
     THEN had' = [had EXCEPT ![p.to] = @ \cup {p.msg.id}] /\ UNCHANGED overtaken
     ELSE /\ overtaken' = IF p.msg.id \in had[p.to] THEN overtaken
                                                    ELSE overtaken \cup {<<p.to, p.msg.id>>}
          /\ UNCHANGED had
  /\ UNCHANGED <<linkVars, posted, doing, missed, doubled>>

-----------------------------------------------------------------------------
(* Commands of the client sessions *)

Stage(s, op, i, stage) == doing' = [doing EXCEPT ![s] = [op |-> op, id |-> i, stage |-> stage]]

\* /edit and /delete look the message up and check who sent it.
LookUp(s, i) ==
  /\ doing[s] = Idle /\ Has(NodeOf[s], i)
  /\ \/ UserOf[s] = AuthorOf[i] /\ Stage(s, "edit", i, "found")
     \/ (UserOf[s] = AuthorOf[i] \/ UserOf[s] \in Admins) /\ Stage(s, "delete", i, "found")
  /\ UNCHANGED <<nodeVars, linkVars, wire, posted, blame>>

\* They change it, if it is still there; the answer of the store is ignored.
ChangeIt(s) ==
  LET n == NodeOf[s]  i == doing[s].id IN
    /\ doing[s] # Idle /\ doing[s].stage = "found"
    /\ store' = [store EXCEPT ![n] = IF doing[s].op = "edit" THEN Updated(@, i, s) ELSE Without(@, i)]
    /\ Stage(s, doing[s].op, i, "changed")
    /\ UNCHANGED <<had, linkVars, wire, posted, blame>>

\* /react does both at once.
React(s, i) ==
  /\ doing[s] = Idle /\ Has(NodeOf[s], i)
  /\ store' = [store EXCEPT ![NodeOf[s]] = Liked(@, i, UserOf[s])]
  /\ Stage(s, "react", i, "changed")
  /\ UNCHANGED <<had, linkVars, wire, posted, blame>>

\* The hub takes the message that tells of the change.
Publish(s) ==
  /\ doing[s] # Idle /\ doing[s].stage = "changed"
  /\ Relay(NodeOf[s], [kind |-> doing[s].op, id |-> doing[s].id,
                       text |-> IF doing[s].op = "edit" THEN s ELSE "first", user |-> UserOf[s]])
  /\ Stage(s, doing[s].op, doing[s].id, "published")
  /\ UNCHANGED <<nodeVars, linkVars, posted>>

Next ==
  \/ \E i \in Ids : Post(i)
  \/ \E n \in Nodes, c \in Conns : Register(n, c)
  \/ \E c \in Conns : Cut(c)
  \/ \E p \in wire : Deliver(p)
  \/ \E s \in Sessions : \/ ChangeIt(s) \/ Publish(s)
                         \/ \E i \in Ids : LookUp(s, i) \/ React(s, i)

Spec == Init /\ [][Next]_vars

\* Goroutines that can run do, and connections get registered; posting, commands
\* and losses are not promised.
Fairness ==
  /\ \A n \in Nodes, c \in Conns : WF_vars(Register(n, c))
  /\ WF_vars(\E p \in wire : Deliver(p))
  /\ \A s \in Sessions : WF_vars(ChangeIt(s) \/ Publish(s))

FairSpec == Spec /\ Fairness

-----------------------------------------------------------------------------
(* Properties *)

\* Every variable has its type.
TypeOK ==
  /\ store \in [Nodes -> Seq(Stored)]
  /\ peers \in [Nodes -> SUBSET Conns]
  /\ cut \in SUBSET Conns
  /\ wire \in SUBSET Packets
  /\ posted \in SUBSET Ids
  /\ doing \in [Sessions -> {Idle} \cup [op : {"edit", "delete", "react"}, id : Ids,
                                          stage : {"found", "changed", "published"}]]
  /\ had \in [Nodes -> SUBSET Ids]
  /\ missed \in SUBSET (Nodes \X Ids)
  /\ overtaken \in SUBSET (Nodes \X Ids)
  /\ doubled \in SUBSET (Nodes \X Ids)

\* No node stores a message twice, and none is brought back by a late copy once it
\* was deleted there: a message is relayed by one node only, so it has one way to each
\* node (node.go:278-281, peer.go:213-247).  Excepted is a node that it was sent to over
\* two connections: nothing keeps two nodes from having both (peer.go:16-48,
\* client.go:98-126), and Save does not look for a message it has (storage.go:49-83).
StoredOnce ==
  \A n \in Nodes, i \in Ids : <<n, i>> \notin doubled =>
    /\ \A k, l \in Places(store[n], i) : k = l
    /\ i \in had[n] => \A p \in wire : p.to = n /\ p.msg.kind \in {"chat", "notice"} => p.msg.id # i

\* The copies of a chat that a node has.
Copies(n, i) == {store[n][k] : k \in Places(store[n], i)}

Quiet == wire = {} /\ \A s \in Sessions : doing[s] = Idle \/ doing[s].stage = "published"
Edits(i) == {s \in Sessions : doing[s] # Idle /\ doing[s].op = "edit" /\ doing[s].id = i}
Blamed(n, i) == <<n, i>> \in missed \cup overtaken \cup doubled

\* "nodes sync seamlessly" (README.md:18), as far as it goes: once nothing is on its
\* way, any two nodes have the same of a chat, its text and its reactions, whatever
\* happened at the others, unless one of the two missed something about it, heard of a
\* change before the chat, or got the chat twice, or it was edited twice, when the texts
\* may differ for good (peer.go:51-67, 213-244, commands.go:61-147).
QuietNodesAgree ==
  Quiet => \A i \in posted, n, m \in Nodes :
             /\ KindOf[i] = "chat" /\ Cardinality(Edits(i)) <= 1
             /\ ~Blamed(n, i) /\ ~Blamed(m, i)
             => Copies(n, i) = Copies(m, i)

\* Every chat, join and leave is stored in the end by every other node that was
\* connected to its own when it was posted, unless the connection is lost
\* (node.go:269-281, peer.go:49-67, 213-236).
AllArrive ==
  \A i \in Ids, n \in Nodes :
    i \in posted /\ KindOf[i] # "dm" /\ n # PostedAt[i] ~> i \in had[n] \/ <<n, i>> \in missed
=============================================================================
