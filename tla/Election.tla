------------------------------ MODULE Election ------------------------------
(***************************************************************************)
(* The cluster of nodes: peer connections, the peer monitor and the leader *)
(* election of internal/node/peer.go, with the accepting side of           *)
(* handleConnection (client.go).                                           *)
(*                                                                         *)
(* A node is its port, which is also its id in the election.  It dials its *)
(* configured peers once, when it starts; only the side that accepts       *)
(* learns the other's id.  Each end of a connection has a reader goroutine *)
(* (handlePeerMessage); every step is one critical section of n.mu or one  *)
(* read from a connection.  Heartbeats only keep a connection from timing  *)
(* out, so a timeout of a connection still open is an event of its own.    *)
(***************************************************************************)
EXTENDS Integers, FiniteSets

CONSTANTS
  Nodes,       \* ports
  Dials,       \* the -peers of each node
  Mortals,     \* bound: the nodes that may stop
  Returning,   \* bound: the nodes that may be started again
  MaxStarts,   \* bound: how often
  Hearing,     \* bound: the nodes whose readers see heartbeats and chats
  Crowded,     \* bound: the nodes whose clients and peers may reach the limit
  MaxSpurious  \* bound: timeouts of connections that are still open

ASSUME ElectionAssumption ==
  /\ Nodes \subseteq Nat \ {0}
  /\ Dials \in [Nodes -> SUBSET Nodes]
  /\ \A n \in Nodes : n \notin Dials[n]
  /\ Mortals \subseteq Nodes /\ Hearing \subseteq Nodes /\ Returning \subseteq Nodes
  /\ Crowded \subseteq Nodes
  /\ MaxStarts \in Nat
  /\ MaxSpurious \in Nat

\* The connection that a node dials to another in one of its runs.
Conns == {c \in [from : Nodes, to : Nodes, run : 1..MaxStarts] : c.to \in Dials[c.from]}

VARIABLES
  up,        \* the process runs
  starts,    \* how often it was started
  dialing,   \* peers it has not dialed yet
  closed,    \* connections closed by one of their ends
  reader,    \* where the reader of each end is
  peers,     \* n.peers
  ids,       \* n.peerIDs: connections whose dialer's id is known
  claims,    \* connections on which a Coordinator message waits for the node
  isLeader,  \* n.isLeader
  leaderID,  \* n.leaderID
  telling,   \* the election loop is about to broadcast its claim
  spurious   \* timeouts of open connections so far

procVars  == <<up, starts>>
linkVars  == <<dialing, closed, reader, peers, ids, spurious>>
claimVars == <<claims, telling>>
roleVars  == <<isLeader, leaderID>>
vars == <<procVars, linkVars, claimVars, roleVars>>

Other(n, c) == IF n = c.from THEN c.to ELSE c.from
EndsOf(n) == {c \in Conns : n \in {c.from, c.to}}

\* A reader that holds a decoded message has yet to refresh peers[conn] ("beat",
\* "claim") or to act on it ("act").
Reading == {"reading", "beat", "claim", "act"}

Dialed(c) == reader[c.from][c] # "none"
At(n, c, where) == reader' = [reader EXCEPT ![n] = [@ EXCEPT ![c] = where]]

Init ==
  /\ up = [n \in Nodes |-> FALSE]
  /\ starts = [n \in Nodes |-> 0]
  /\ dialing = [n \in Nodes |-> {}]
  /\ closed = {}
  /\ reader = [n \in Nodes |-> [c \in Conns |-> "none"]]
  /\ peers = [n \in Nodes |-> {}]
  /\ ids = [n \in Nodes |-> {}]
  /\ claims = [n \in Nodes |-> {}]
  /\ isLeader = [n \in Nodes |-> FALSE]
  /\ leaderID = [n \in Nodes |-> 0]
  /\ telling = [n \in Nodes |-> FALSE]
  /\ spurious = 0

-----------------------------------------------------------------------------
(* Starting and stopping *)

\* Nodes are started after those they dial, a second apart (start_cluster.sh).
Start(n) ==
  /\ ~up[n] /\ starts[n] < MaxStarts /\ (starts[n] > 0 => n \in Returning)
  /\ \A m \in Dials[n] : starts[m] > 0
  /\ up' = [up EXCEPT ![n] = TRUE]
  /\ starts' = [starts EXCEPT ![n] = @ + 1]
  /\ dialing' = [dialing EXCEPT ![n] = Dials[n]]
  /\ UNCHANGED <<closed, reader, peers, ids, spurious, claimVars, roleVars>>

\* A crash, or Shutdown: the state is lost and the connections end.
Stop(n) ==
  /\ up[n] /\ n \in Mortals
  /\ up' = [up EXCEPT ![n] = FALSE]
  /\ dialing' = [dialing EXCEPT ![n] = {}]
  /\ closed' = closed \cup {c \in EndsOf(n) : Dialed(c)}
  /\ reader' = [reader EXCEPT ![n] =
                  [c \in Conns |-> IF c \in EndsOf(n) /\ Dialed(c) THEN "done" ELSE @[c]]]
  /\ peers' = [peers EXCEPT ![n] = {}]
  /\ ids' = [ids EXCEPT ![n] = {}]
  /\ claims' = [claims EXCEPT ![n] = {}]
  /\ isLeader' = [isLeader EXCEPT ![n] = FALSE]
  /\ leaderID' = [leaderID EXCEPT ![n] = 0]
  /\ telling' = [telling EXCEPT ![n] = FALSE]
  /\ UNCHANGED <<starts, spurious>>

-----------------------------------------------------------------------------
(* Connecting: Join on one side, handleConnection on the other *)

\* The dial succeeds when the other process runs, and sends the handshake.
Dial(n, m) ==
  /\ up[n] /\ m \in dialing[n]
  /\ dialing' = [dialing EXCEPT ![n] = @ \ {m}]
  /\ IF up[m] THEN At(n, [from |-> n, to |-> m, run |-> starts[n]], "joining")
              ELSE UNCHANGED reader
  /\ UNCHANGED <<procVars, closed, peers, ids, spurious, claimVars, roleVars>>

\* The dialer registers the connection, without an id.
AddPeer(n, c) ==
  /\ reader[n][c] = "joining"
  /\ peers' = [peers EXCEPT ![n] = @ \cup {c}]
  /\ At(n, c, "reading")
  /\ UNCHANGED <<procVars, dialing, closed, ids, spurious, claimVars, roleVars>>

\* The acceptor registers it with the port of the handshake.
AcceptPeer(n, c) ==
  /\ up[n] /\ c.to = n /\ reader[n][c] = "none" /\ Dialed(c)
  /\ peers' = [peers EXCEPT ![n] = @ \cup {c}]
  /\ ids' = [ids EXCEPT ![n] = @ \cup {c}]
  /\ At(n, c, "reading")
  /\ UNCHANGED <<procVars, dialing, closed, spurious, claimVars, roleVars>>

\* The node has as many clients and peers as it may (300): the connection is closed
\* before its handshake is read, and the dialer does not try again.
RejectPeer(n, c) ==
  /\ up[n] /\ n \in Crowded /\ c.to = n /\ reader[n][c] = "none" /\ Dialed(c)
  /\ closed' = closed \cup {c}
  /\ At(n, c, "done")
  /\ UNCHANGED <<procVars, dialing, peers, ids, spurious, claimVars, roleVars>>

\* The handshake cannot be read.
AcceptFails(n, c) ==
  /\ up[n] /\ c.to = n /\ reader[n][c] = "none" /\ c \in closed
  /\ At(n, c, "done")
  /\ UNCHANGED <<procVars, dialing, closed, peers, ids, spurious, claimVars, roleVars>>

-----------------------------------------------------------------------------
(* The reader: handlePeerMessage *)

\* Fault: the connection that failed stays in n.peers, or in n.peerIDs.
FaultyForget(n, c) == peers
FaultyForgetID(n, c) == ids
Forget(n, c) == [peers EXCEPT ![n] = @ \ {c}]
ForgetID(n, c) == [ids EXCEPT ![n] = @ \ {c}]

\* A heartbeat, or a message of the chat.
DecodeBeat(n, c) ==
  /\ n \in Hearing /\ reader[n][c] = "reading" /\ c \notin closed
  /\ At(n, c, "beat")
  /\ UNCHANGED <<procVars, dialing, closed, peers, ids, spurious, claimVars, roleVars>>

DecodeClaim(n, c) ==
  /\ reader[n][c] = "reading" /\ c \in claims[n]
  /\ claims' = [claims EXCEPT ![n] = @ \ {c}]
  /\ At(n, c, "claim")
  /\ UNCHANGED <<procVars, dialing, closed, peers, ids, spurious, telling, roleVars>>

\* n.peers[conn] = time.Now(), even when the monitor has deleted the entry.
Touch(n, c) ==
  /\ reader[n][c] \in {"beat", "claim"}
  /\ peers' = [peers EXCEPT ![n] = @ \cup {c}]
  /\ At(n, c, IF reader[n][c] = "beat" THEN "reading" ELSE "act")
  /\ UNCHANGED <<procVars, dialing, closed, ids, spurious, claimVars, roleVars>>

\* Fault: an acknowledged leader does not end this node's own leadership.
FaultyDeposed(n, id) == isLeader
Deposed(n, id) == IF id > n THEN [isLeader EXCEPT ![n] = FALSE] ELSE isLeader

\* The message names its sender.
Claimant(n, c) == Other(n, c)

\* A claim of a lower node is ignored.
Acknowledge(n, c) ==
  /\ reader[n][c] = "act"
  /\ isLeader' = Deposed(n, Claimant(n, c))
  /\ leaderID' = IF Claimant(n, c) > n THEN [leaderID EXCEPT ![n] = Claimant(n, c)] ELSE leaderID
  /\ At(n, c, "reading")
  /\ UNCHANGED <<procVars, dialing, closed, peers, ids, spurious, claimVars>>

\* The reader ends, and closes its side; unread messages are lost.
DecodeFails(n, c) ==
  /\ reader[n][c] = "reading" /\ c \in closed
  /\ peers' = Forget(n, c)
  /\ ids' = ForgetID(n, c)
  /\ claims' = [claims EXCEPT ![n] = @ \ {c}]
  /\ At(n, c, "done")
  /\ UNCHANGED <<procVars, dialing, closed, spurious, telling, roleVars>>

\* The monitor: nothing was heard for PeerTimeout.
Timeout(n, c) ==
  /\ c \in peers[n]
  /\ IF c \in closed THEN UNCHANGED spurious
                     ELSE spurious < MaxSpurious /\ spurious' = spurious + 1
  /\ closed' = closed \cup {c}
  /\ peers' = Forget(n, c)
  /\ ids' = ForgetID(n, c)
  /\ UNCHANGED <<procVars, dialing, reader, claimVars, roleVars>>

-----------------------------------------------------------------------------
(* The election loop *)

\* Fault: the comparison is the wrong way round.
FaultyHighest(n) == \A c \in ids[n] : c.from > n
Highest(n) == \A c \in ids[n] : c.from <= n

Claim(n) ==
  /\ up[n] /\ ~telling[n] /\ Highest(n) /\ ~isLeader[n]
  /\ isLeader' = [isLeader EXCEPT ![n] = TRUE]
  /\ leaderID' = [leaderID EXCEPT ![n] = n]
  /\ telling' = [telling EXCEPT ![n] = TRUE]
  /\ UNCHANGED <<procVars, linkVars, claims>>

\* broadcastToPeers, after the unlock: once, to the peers of that moment.  Two
\* claims of a node that wait on one connection are taken as one.
Tell(n) ==
  /\ telling[n]
  /\ telling' = [telling EXCEPT ![n] = FALSE]
  /\ claims' = [m \in Nodes |->
                  claims[m] \cup {c \in peers[n] \ closed : n # m /\ Other(n, c) = m}]
  /\ UNCHANGED <<procVars, linkVars, roleVars>>

StepDown(n) ==
  /\ up[n] /\ ~telling[n] /\ ~Highest(n) /\ isLeader[n]
  /\ isLeader' = [isLeader EXCEPT ![n] = FALSE]
  /\ UNCHANGED <<procVars, linkVars, claimVars, leaderID>>

-----------------------------------------------------------------------------
(* Specification *)

Reader(n, c) == AddPeer(n, c) \/ DecodeClaim(n, c) \/ Touch(n, c) \/ Acknowledge(n, c)
                \/ DecodeFails(n, c)
Listener(n, c) == AcceptPeer(n, c) \/ RejectPeer(n, c) \/ AcceptFails(n, c)
Tick(n) == Claim(n) \/ Tell(n) \/ StepDown(n)

Next ==
  \E n \in Nodes :
    \/ Start(n) \/ Stop(n) \/ Tick(n)
    \/ \E m \in dialing[n] : Dial(n, m)
    \/ \E c \in Conns : Reader(n, c) \/ Listener(n, c) \/ DecodeBeat(n, c) \/ Timeout(n, c)

Spec == Init /\ [][Next]_vars

\* Goroutines that can run do, tickers tick, and a connection that was closed is
\* noticed; starting, stopping, heartbeats and timeouts are not promised.
Fairness ==
  \A n \in Nodes :
    /\ WF_vars(Tick(n))
    /\ WF_vars(\E m \in dialing[n] : Dial(n, m))
    /\ \A c \in Conns : WF_vars(Reader(n, c)) /\ WF_vars(Listener(n, c))

FairSpec == Spec /\ Fairness

-----------------------------------------------------------------------------
(* Properties *)

\* Every variable has its type.
TypeOK ==
  /\ up \in [Nodes -> BOOLEAN]
  /\ starts \in [Nodes -> 0..MaxStarts]
  /\ dialing \in [Nodes -> SUBSET Nodes]
  /\ closed \in SUBSET Conns
  /\ reader \in [Nodes -> [Conns -> {"none", "joining", "done"} \cup Reading]]
  /\ peers \in [Nodes -> SUBSET Conns]
  /\ ids \in [Nodes -> SUBSET Conns]
  /\ claims \in [Nodes -> SUBSET Conns]
  /\ isLeader \in [Nodes -> BOOLEAN]
  /\ leaderID \in [Nodes -> Nodes \cup {0}]
  /\ telling \in [Nodes -> BOOLEAN]
  /\ spurious \in 0..MaxSpurious

\* The tables follow the readers, whatever the monitor and a late message do to
\* them in between: an entry of n.peers or n.peerIDs has a live reader, and a
\* named connection is a registered one (peer.go:93-99, 153-165).
PeersTrackReaders ==
  \A n \in Nodes : \A c \in Conns :
    /\ c \in peers[n] \cup ids[n] => reader[n][c] \in Reading
    /\ c \in ids[n] => c \in peers[n]

\* A leader names itself, and nobody follows a lower node (peer.go:127-128,
\* 137, 175-178).
LeaderNamesItself ==
  \A n \in Nodes : (isLeader[n] => leaderID[n] = n) /\ (leaderID[n] # 0 => leaderID[n] >= n)

\* A node claims only when no higher node holds a connection to it that is
\* accepted and open (peer.go:93-105, 117-128, client.go:103-106).
ClaimsWhenAlone ==
  [][\A n \in Nodes : ~isLeader[n] /\ isLeader'[n] =>
       \A c \in Conns : c.to = n /\ c.from > n /\ reader[n][c] \in Reading => c \in closed]_vars

Live == {n \in Nodes : up[n]}
Leaders == {n \in Live : isLeader[n]}

\* A connection is dialed only when its dialer starts (peer.go:14-46), so one that
\* was lost, or whose acceptor was restarted, is not made again.
Connected ==
  \A n, m \in Live : n < m =>
    \E c \in Conns : c.from = m /\ c.to = n /\ Dialed(c) /\ c \notin closed

\* "a simple bully-style leader election" (peer.go:108): in the end the highest
\* live node leads, alone, provided the live nodes stay connected.
HighestLeads == <>[]Connected => <>[](Leaders = {n \in Live : \A m \in Live : m <= n})
=============================================================================
