-------------------------------- MODULE Hub --------------------------------
(***************************************************************************)
(* One chat node seen from its clients: internal/node/node.go, client.go,  *)
(* commands.go, ssh_bridge.go and what the peer readers of peer.go do to   *)
(* them.                                                                   *)
(*                                                                         *)
(* Goroutines.  The hub (handleMessages) is the only goroutine that        *)
(* receives from the unbuffered channels register, unregister and          *)
(* broadcast.  Every connection has a handler (handleConnection, JoinSSH), *)
(* a write pump and, over SSH, a scanner that feeds the handler through a  *)
(* pipe.  Every peer connection has a reader (handlePeerMessage) that      *)
(* saves and fans out what it decodes itself, next to the hub.  They share *)
(* n.clients, guarded by n.mu, and one Go channel Send per connection.     *)
(*                                                                         *)
(* A step is one critical section of n.mu, one rendezvous with the hub, or *)
(* one call that takes a lock of its own (storage, auth, channel manager). *)
(* Message bodies are abstracted to who posted them and a serial number.   *)
(***************************************************************************)
EXTENDS Integers, Sequences, FiniteSets

CONSTANTS
  Conns,       \* connections; a net.Conn is never reused
  SSHConns,    \* the connections bridged from the SSH server
  Peers,       \* the peer connections, all of them up
  Users,       \* registered usernames
  UserOf,      \* the account each connection logs in with
  Admins,      \* the users whose role is "admin"
  Rooms,       \* existing channels of the channel manager
  General,     \* the channel every client starts in
  SendCap,     \* capacity of a Send channel (256 in the code)
  HistoryLen,  \* messages replayed at login (50 in the code)
  ConnLimit,   \* MaxClients + MaxPeers
  Inputs,      \* what the client of each connection may type, records [cmd, arg]
  Relays,      \* what each peer may send, records [type, to]
  Leavers,     \* bound: the connections whose client may go away
  MaxInputs,   \* bound: inputs per connection
  MaxHeard     \* bound: messages per peer

\* The zero string: no sender, no channel, no recipient.
None == ""

\* A command with the room or the user it names; "big" is a chat whose content
\* is longer than MaxMessageSize.  A chat need not name a room.
Input == [cmd : {"chat", "big"}, arg : Rooms \cup {None}]
         \cup [cmd : {"join", "leave", "switch"}, arg : Rooms]
         \cup [cmd : {"dm", "ban", "mute", "unmute"}, arg : Users]
         \cup [cmd : {"reply", "info", "typing", "status"}, arg : {None}]

\* What a peer relays: no direct messages.  The edits, deletions and reactions it
\* relays change the storage in place: Replication has them.
Relay == [type : {"chat", "big", "join", "leave"}, to : Rooms]

ASSUME HubAssumption ==
  /\ SSHConns \subseteq Conns /\ Leavers \subseteq Conns
  /\ Conns \cap Peers = {} /\ IsFiniteSet(Peers)
  /\ Relays \in [Peers -> SUBSET Relay]
  /\ UserOf \in [Conns -> Users]
  /\ Admins \subseteq Users
  /\ General \in Rooms
  /\ None \notin Users \cup Rooms
  /\ SendCap \in Nat \ {0} /\ HistoryLen \in Nat /\ ConnLimit \in Nat
  /\ MaxInputs \in Nat /\ MaxHeard \in Nat
  /\ Inputs \in [Conns -> SUBSET Input]

VARIABLES
  clients,   \* n.clients: the registration of a connection, or Absent
  chan,      \* the Send channel made for a connection
  queue,     \* the messages buffered in it
  members,   \* the channel manager's members of each room
  status,    \* the authenticator's status of each user
  stored,    \* the messages the storage holds, oldest first
  pc,        \* where the handler of each connection is
  job,       \* the input it works on and what it read from n.clients
  typed,     \* inputs read so far on a connection
  wire,      \* the connection itself
  pump,      \* the write pump of a connection
  scan,      \* the scanner of an SSH connection
  seen,      \* chat messages written to a connection (history or live)
  missed,    \* chat messages fanned out past it: its Send buffer was full, or
             \* the hub had its registration in hand and not yet in n.clients
  hub,       \* where handleMessages is, with the value it received
  announce,  \* join and leave messages whose goroutine waits to broadcast
  reader,    \* where the reader of a peer connection is, with its message
  heard,     \* messages read so far from a peer
  locked,    \* n.mu is held by a handler that will never release it
  panic      \* the process has died of a Go panic

conVars   == <<pc, job, typed>>
chanVars  == <<chan, queue, missed>>
dataVars  == <<members, status, stored>>
ioVars    == <<wire, pump, scan, seen>>
hubVars   == <<hub, announce>>
peerVars  == <<reader, heard>>
vars == <<clients, conVars, chanVars, dataVars, ioVars, hubVars, peerVars, locked, panic>>

-----------------------------------------------------------------------------
(* Data *)

Registration == [user : Users \cup {None}, room : Rooms \cup {None},
                 send : {"absent", "nil", "chan"}]
\* No entry in n.clients, and what a lookup of a missing entry reads.
Absent == [user |-> None, room |-> None, send |-> "absent"]
Zero   == [user |-> None, room |-> None, send |-> "nil"]

Message == [type : {"chat", "big", "dm", "typing", "status", "join", "leave", "server"},
            conn : Conns \cup Peers, n : Nat,
            sender : Users \cup {None}, to : Users \cup Rooms \cup {None}]

Idle == [cmd |-> None, arg |-> None]
Jobs == [what : Input \cup {Idle}, user : Users \cup {None}, room : Rooms \cup {None},
         then : {"loop", "cast", "banlock"}]
NoJob == [what |-> Idle, user |-> None, room |-> None, then |-> "loop"]

Cmd(c) == job[c].what.cmd
Arg(c) == job[c].what.arg

Select == [at |-> "select"]
Reading == [at |-> "read"]

Present == {c \in Conns : clients[c] # Absent}
Read(c) == IF clients[c] = Absent THEN Zero ELSE clients[c]

Notice(kind, c) == [type |-> kind, conn |-> c, n |-> 0, sender |-> None, to |-> General]
Answer(c) == [type |-> "server", conn |-> c, n |-> 0, sender |-> None, to |-> None]

\* Fault: direct messages do not reach the storage.
ChatOnly(m) == m.type = "chat"

\* What is given to Save and accepted: the hub gives it no joins and leaves, a peer
\* reader does.
Persistent(m) == m.type \in {"chat", "dm"} \/ (m.conn \in Peers /\ m.type \in {"join", "leave"})

\* Fault: the history is replayed before the connection is registered.
FaultyNextStep ==
  [login |-> "join", join |-> "history", history |-> "register", register |-> "loop"]
NextStep ==
  [login |-> "register", register |-> "join", join |-> "history", history |-> "loop"]
\* SSH connections are authenticated by the SSH server before JoinSSH runs.
NextStepSSH ==
  [login |-> "join", join |-> "register", register |-> "loop"]
After(c) == IF c \in SSHConns THEN NextStepSSH[pc[c]] ELSE NextStep[pc[c]]

\* The last messages GetRecentMessages returns; direct messages count, unsent.
Replayed ==
  LET last == IF Len(stored) > HistoryLen THEN Len(stored) - HistoryLen + 1 ELSE 1
  IN  {m \in {stored[i] : i \in last..Len(stored)} : m.type = "chat"}

Init ==
  /\ clients = [c \in Conns |-> Absent]
  /\ chan = [c \in Conns |-> "unmade"]
  /\ queue = [c \in Conns |-> <<>>]
  /\ members = [r \in Rooms |-> {}]
  /\ status = [u \in Users |-> "offline"]
  /\ stored = <<>>
  /\ pc = [c \in Conns |-> "idle"]
  /\ job = [c \in Conns |-> NoJob]
  /\ typed = [c \in Conns |-> 0]
  /\ wire = [c \in Conns |-> "up"]
  /\ pump = [c \in Conns |-> "off"]
  /\ scan = [c \in Conns |-> "off"]
  /\ seen = [c \in Conns |-> {}]
  /\ missed = [c \in Conns |-> {}]
  /\ hub = Select
  /\ announce = {}
  /\ reader = [p \in Peers |-> Reading]
  /\ heard = [p \in Peers |-> 0]
  /\ locked = FALSE
  /\ panic = FALSE

-----------------------------------------------------------------------------
(* Fan-out: broadcastToClients *)

\* Direct messages go to the two ends, room messages to the members, and
\* everybody gets joins, leaves and messages without a room.
\* Fault: direct messages are treated like #general messages too.
FaultyWants(user, m) ==
  IF m.type = "dm" THEN user \in {m.sender, m.to} \cup members[General]
  ELSE m.to = None \/ user \in members[m.to] \/ m.type \in {"join", "leave"}
Wants(user, m) ==
  IF m.type = "dm" THEN user \in {m.sender, m.to}
  ELSE m.to = None \/ user \in members[m.to] \/ m.type \in {"join", "leave"}

Recipients(m) == {c \in Present : Wants(clients[c].user, m)}

\* Fault: the newest message jumps the queue.
FaultyEnqueue(q, m) == <<m>> \o q
Enqueue(q, m) == Append(q, m)

\* The hub has received the registration of c and not yet inserted it.
Inserting(c) == hub = [at |-> "insert", conn |-> c]

\* A send on a closed channel panics, on a nil one it takes the default branch.
FanOut(m) ==
  LET to   == {c \in Recipients(m) : clients[c].send = "chan"}
      fits == {c \in to : chan[c] = "open" /\ Len(queue[c]) < SendCap}
      full == {c \in to \ fits : chan[c] = "open"}
  IN  /\ queue' = [c \in Conns |-> IF c \in fits THEN Enqueue(queue[c], m) ELSE queue[c]]
      /\ missed' = [c \in Conns |-> IF m.type = "chat" /\ (c \in full \/ Inserting(c))
                                     THEN missed[c] \cup {m} ELSE missed[c]]
      /\ panic' = \E c \in to : chan[c] = "closed"

-----------------------------------------------------------------------------
(* The hub: handleMessages *)

HubInsert ==
  /\ hub.at = "insert" /\ ~locked
  /\ clients' = [clients EXCEPT ![hub.conn] =
                   [user |-> UserOf[hub.conn], room |-> General, send |-> "chan"]]
  /\ announce' = announce \cup {Notice("join", hub.conn)}
  /\ hub' = Select
  /\ UNCHANGED <<conVars, chanVars, dataVars, ioVars, peerVars, locked, panic>>

\* Fault: Send is closed but the entry stays.
FaultyDeregistered(c) == clients
Deregistered(c) == [clients EXCEPT ![c] = Absent]

\* Fault: the entry is not looked up before it is removed.
FaultyIsRegistered(c) == TRUE
IsRegistered(c) == c \in Present

HubRemove ==
  /\ hub.at = "remove" /\ ~locked
  /\ IsRegistered(hub.conn)
  /\ LET c == hub.conn IN
       /\ clients' = Deregistered(c)
       /\ panic' = (clients[c].send = "nil" \/ chan[c] = "closed")
       /\ chan' = IF clients[c].send = "chan" THEN [chan EXCEPT ![c] = "closed"] ELSE chan
       /\ wire' = [wire EXCEPT ![c] = "down"]
       /\ announce' = IF clients[c].user # None
                      THEN announce \cup {Notice("leave", c)} ELSE announce
  /\ hub' = Select
  /\ UNCHANGED <<conVars, queue, missed, dataVars, pump, scan, seen, peerVars, locked>>

HubRemoveAgain ==
  /\ hub.at = "remove" /\ ~locked
  /\ ~IsRegistered(hub.conn)
  /\ hub' = Select
  /\ UNCHANGED <<clients, conVars, chanVars, dataVars, ioVars, announce, peerVars,
                 locked, panic>>

HubAnnounce(m) ==
  /\ hub.at = "select" /\ m \in announce
  /\ announce' = announce \ {m}
  /\ hub' = [at |-> "save", msg |-> m]
  /\ UNCHANGED <<clients, conVars, chanVars, dataVars, ioVars, peerVars, locked, panic>>

\* storage.Save keeps the message in memory even when the append to the file
\* fails, and refuses an oversized one; the hub goes on either way.
HubSave ==
  /\ hub.at = "save"
  /\ stored' = IF Persistent(hub.msg) THEN Append(stored, hub.msg) ELSE stored
  /\ hub' = [at |-> "deliver", msg |-> hub.msg]
  /\ UNCHANGED <<clients, conVars, chanVars, members, status, ioVars, announce, peerVars,
                 locked, panic>>

HubDeliver ==
  /\ hub.at = "deliver" /\ ~locked
  /\ FanOut(hub.msg)
  /\ hub' = Select
  /\ UNCHANGED <<clients, conVars, chan, dataVars, ioVars, announce, peerVars, locked>>

-----------------------------------------------------------------------------
(* The readers of the peer connections: handlePeerMessage *)

\* n.mu is taken to note when the peer was last heard of.
PeerRead(p, r) ==
  /\ reader[p] = Reading /\ heard[p] < MaxHeard /\ ~locked
  /\ heard' = [heard EXCEPT ![p] = @ + 1]
  /\ reader' = [reader EXCEPT ![p] =
                  [at |-> "save", msg |-> [type |-> r.type, conn |-> p, n |-> heard[p] + 1,
                                           sender |-> None, to |-> r.to]]]
  /\ UNCHANGED <<clients, conVars, chanVars, dataVars, ioVars, hubVars, locked, panic>>

\* Fault: what a peer relays is not saved.
FaultyPeerSave(p) ==
  /\ reader[p].at = "save"
  /\ reader' = [reader EXCEPT ![p].at = "deliver"]
  /\ UNCHANGED <<clients, conVars, chanVars, dataVars, ioVars, hubVars, heard, locked, panic>>

PeerSave(p) ==
  /\ reader[p].at = "save"
  /\ stored' = IF Persistent(reader[p].msg) THEN Append(stored, reader[p].msg) ELSE stored
  /\ reader' = [reader EXCEPT ![p].at = "deliver"]
  /\ UNCHANGED <<clients, conVars, chanVars, members, status, ioVars, hubVars, heard,
                 locked, panic>>

PeerDeliver(p) ==
  /\ reader[p].at = "deliver" /\ ~locked
  /\ FanOut(reader[p].msg)
  /\ reader' = [reader EXCEPT ![p] = Reading]
  /\ UNCHANGED <<clients, conVars, chan, dataVars, ioVars, hubVars, heard, locked>>

-----------------------------------------------------------------------------
(* Connecting and logging in: handleConnection, JoinSSH *)

Goto(c, where) == pc' = [pc EXCEPT ![c] = where]

Full == Cardinality(Present) + Cardinality(Peers) >= ConnLimit

Accept(c) ==
  /\ pc[c] = "idle" /\ c \notin SSHConns /\ ~locked /\ ~Full
  /\ Goto(c, "login")
  /\ UNCHANGED <<clients, job, typed, chanVars, dataVars, ioVars, hubVars, peerVars,
                 locked, panic>>

Reject(c) ==
  /\ pc[c] = "idle" /\ c \notin SSHConns /\ ~locked /\ Full
  /\ Goto(c, "done")
  /\ wire' = [wire EXCEPT ![c] = "down"]
  /\ UNCHANGED <<clients, job, typed, chanVars, dataVars, pump, scan, seen, hubVars,
                 peerVars, locked, panic>>

AcceptSSH(c) ==
  /\ pc[c] = "idle" /\ c \in SSHConns
  /\ status[UserOf[c]] # "banned"
  /\ status' = [status EXCEPT ![UserOf[c]] = "online"]
  /\ Goto(c, NextStepSSH.login)
  /\ chan' = [chan EXCEPT ![c] = "open"]
  /\ scan' = [scan EXCEPT ![c] = "running"]
  /\ UNCHANGED <<clients, job, typed, queue, missed, members, stored, wire, pump, seen,
                 hubVars, peerVars, locked, panic>>

LoginOk(c) ==
  /\ pc[c] = "login"
  /\ status[UserOf[c]] # "banned"
  /\ status' = [status EXCEPT ![UserOf[c]] = "online"]
  /\ chan' = [chan EXCEPT ![c] = "open"]
  /\ Goto(c, After(c))
  /\ UNCHANGED <<clients, job, typed, queue, missed, members, stored, ioVars, hubVars,
                 peerVars, locked, panic>>

\* A wrong password, a banned or locked account, a connection that closed
\* before its first message, or one that only registers an account.
LoginFail(c) ==
  /\ pc[c] = "login"
  /\ Goto(c, "done")
  /\ wire' = [wire EXCEPT ![c] = "down"]
  /\ UNCHANGED <<clients, job, typed, chanVars, dataVars, pump, scan, seen, hubVars,
                 peerVars, locked, panic>>

\* The pump starts once the connection is registered and in #general.
StartPump(c) ==
  pump' = IF After(c) \in {"history", "loop"} THEN [pump EXCEPT ![c] = "on"] ELSE pump

HubRegister(c) ==
  /\ pc[c] = "register" /\ hub.at = "select"
  /\ hub' = [at |-> "insert", conn |-> c]
  /\ Goto(c, After(c))
  /\ StartPump(c)
  /\ UNCHANGED <<clients, job, typed, chanVars, dataVars, wire, scan, seen, announce,
                 peerVars, locked, panic>>

JoinGeneral(c) ==
  /\ pc[c] = "join"
  /\ members' = [members EXCEPT ![General] = @ \cup {UserOf[c]}]
  /\ Goto(c, After(c))
  /\ StartPump(c)
  /\ UNCHANGED <<clients, job, typed, chanVars, status, stored, wire, scan, seen,
                 hubVars, peerVars, locked, panic>>

History(c) ==
  /\ pc[c] = "history"
  /\ seen' = IF wire[c] = "up" THEN [seen EXCEPT ![c] = @ \cup Replayed] ELSE seen
  /\ Goto(c, After(c))
  /\ UNCHANGED <<clients, job, typed, chanVars, dataVars, wire, pump, scan, hubVars,
                 peerVars, locked, panic>>

-----------------------------------------------------------------------------
(* Reading and dispatching: handleClientLoop, handleCommand *)

ReadInput(c, i) ==
  /\ pc[c] = "loop" /\ wire[c] = "up" /\ typed[c] < MaxInputs
  /\ typed' = [typed EXCEPT ![c] = @ + 1]
  /\ job' = [job EXCEPT ![c] = [NoJob EXCEPT !.what = i]]
  /\ Goto(c, "dispatch")
  /\ UNCHANGED <<clients, chanVars, dataVars, ioVars, hubVars, peerVars, locked, panic>>

\* Fault: the read loop returns without the deferred unregister.
FaultyAfterLoop == "done"
AfterLoop == "bye"

ReadFail(c) ==
  /\ pc[c] = "loop" /\ wire[c] = "down"
  /\ Goto(c, AfterLoop)
  /\ UNCHANGED <<clients, job, typed, chanVars, dataVars, ioVars, hubVars, peerVars,
                 locked, panic>>

\* The handler looks itself up; the entry may not be there yet, or any more.
Dispatch(c) ==
  /\ pc[c] = "dispatch" /\ ~locked
  /\ job' = [job EXCEPT ![c].user = Read(c).user, ![c].room = Read(c).room]
  /\ Goto(c, "run")
  /\ UNCHANGED <<clients, typed, chanVars, dataVars, ioVars, hubVars, peerVars, locked, panic>>

Running(c, cmds) == pc[c] = "run" /\ Cmd(c) \in cmds

ReplyThen(c, then) ==
  /\ Goto(c, "reply")
  /\ job' = [job EXCEPT ![c].then = then]

\* The end of a command: the handler goes on with what follows the reply.
Resume(c) ==
  /\ Goto(c, job[c].then)
  /\ job' = IF job[c].then = "loop" THEN [job EXCEPT ![c] = NoJob] ELSE job

Chat(c) ==
  /\ Running(c, {"chat", "big"})
  /\ job[c].user \in Users => status[job[c].user] # "muted"
  /\ Goto(c, "publish")
  /\ UNCHANGED <<clients, job, typed, chanVars, dataVars, ioVars, hubVars, peerVars,
                 locked, panic>>

\* Over the rate limit, or muted.
RefuseChat(c) ==
  /\ Running(c, {"chat", "big"})
  /\ ReplyThen(c, "loop")
  /\ UNCHANGED <<clients, typed, chanVars, dataVars, ioVars, hubVars, peerVars, locked, panic>>

\* /reply and /dm are neither rate limited nor refused to a muted user.
ReplyOrDM(c) ==
  /\ Running(c, {"reply", "dm"})
  /\ Goto(c, "publish")
  /\ UNCHANGED <<clients, job, typed, chanVars, dataVars, ioVars, hubVars, peerVars,
                 locked, panic>>

\* The commands that only answer: /users, /search, /history, /health, /help,
\* /channel list and info, usage errors and unknown commands.
Info(c) ==
  /\ Running(c, {"info"})
  /\ ReplyThen(c, "loop")
  /\ UNCHANGED <<clients, typed, chanVars, dataVars, ioVars, hubVars, peerVars, locked, panic>>

Typing(c) ==
  /\ Running(c, {"typing"})
  /\ Goto(c, "cast")
  /\ UNCHANGED <<clients, job, typed, chanVars, dataVars, ioVars, hubVars, peerVars,
                 locked, panic>>

SetStatus(user, s) == status' = IF user \in Users THEN [status EXCEPT ![user] = s] ELSE status

Status(c) ==
  /\ Running(c, {"status"})
  /\ SetStatus(job[c].user, "online")
  /\ ReplyThen(c, "cast")
  /\ UNCHANGED <<clients, typed, chanVars, members, stored, ioVars, hubVars, peerVars,
                 locked, panic>>

-----------------------------------------------------------------------------
(* Channel commands: handleChannelCommand *)

JoinRoom(c) ==
  /\ Running(c, {"join"})
  /\ members' = [members EXCEPT ![Arg(c)] = @ \cup {job[c].user}]
  /\ Goto(c, "setroom")
  /\ UNCHANGED <<clients, job, typed, chanVars, status, stored, ioVars, hubVars,
                 peerVars, locked, panic>>

LeaveRoom(c) ==
  /\ Running(c, {"leave"})
  /\ members' = [members EXCEPT ![Arg(c)] = @ \ {job[c].user}]
  /\ Goto(c, "setroom")
  /\ UNCHANGED <<clients, job, typed, chanVars, status, stored, ioVars, hubVars,
                 peerVars, locked, panic>>

SwitchRoom(c) ==
  /\ Running(c, {"switch"})
  /\ IF job[c].user \in members[Arg(c)]
     THEN Goto(c, "setroom") /\ UNCHANGED job
     ELSE ReplyThen(c, "loop")
  /\ UNCHANGED <<clients, typed, chanVars, dataVars, ioVars, hubVars, peerVars, locked, panic>>

\* n.clients[conn] is read, changed and written back, whether it was there or
\* not; /channel leave writes back only when it leaves the active room.
WriteBack(c) ==
  LET reg == Read(c) IN
    IF Cmd(c) = "leave"
    THEN IF reg.room = Arg(c)
         THEN [clients EXCEPT ![c] = [reg EXCEPT !.room = General]] ELSE clients
    ELSE [clients EXCEPT ![c] = [reg EXCEPT !.room = Arg(c)]]

SetRoom(c) ==
  /\ pc[c] = "setroom" /\ ~locked
  /\ clients' = WriteBack(c)
  /\ ReplyThen(c, "loop")
  /\ UNCHANGED <<typed, chanVars, dataVars, ioVars, hubVars, peerVars, locked, panic>>

-----------------------------------------------------------------------------
(* Moderation: handleAdminBan, handleAdminMute, handleAdminUnmute *)

\* Fault: /unmute stores the empty status.
FaultyVerdict == [ban |-> "banned", mute |-> "muted", unmute |-> None]
Verdict == [ban |-> "banned", mute |-> "muted", unmute |-> "online"]

Moderate(c) ==
  /\ Running(c, {"ban", "mute", "unmute"})
  /\ job[c].user \in Admins
  /\ SetStatus(Arg(c), Verdict[Cmd(c)])
  /\ ReplyThen(c, IF Cmd(c) = "ban" THEN "banlock" ELSE "loop")
  /\ UNCHANGED <<clients, typed, chanVars, members, stored, ioVars, hubVars, peerVars,
                 locked, panic>>

RefuseModerate(c) ==
  /\ Running(c, {"ban", "mute", "unmute"})
  /\ job[c].user \notin Admins
  /\ ReplyThen(c, "loop")
  /\ UNCHANGED <<clients, typed, chanVars, dataVars, ioVars, hubVars, peerVars, locked, panic>>

\* With n.mu locked, sendToClient asks for the read lock: when the target is
\* online the handler waits for itself and nobody gets n.mu again.
BanOnline(c) ==
  /\ pc[c] = "banlock" /\ ~locked
  /\ \E x \in Present : clients[x].user = Arg(c)
  /\ locked' = TRUE
  /\ Goto(c, "stuck")
  /\ UNCHANGED <<clients, job, typed, chanVars, dataVars, ioVars, hubVars, peerVars, panic>>

BanOffline(c) ==
  /\ pc[c] = "banlock" /\ ~locked
  /\ \A x \in Present : clients[x].user # Arg(c)
  /\ Goto(c, "loop")
  /\ job' = [job EXCEPT ![c] = NoJob]
  /\ UNCHANGED <<clients, typed, chanVars, dataVars, ioVars, hubVars, peerVars, locked, panic>>

-----------------------------------------------------------------------------
(* What commands end with: a reply, a post to the hub, a direct fan-out *)

\* sendToClient looks the Send channel up under the lock ...
ReplyLookup(c) ==
  /\ pc[c] = "reply" /\ ~locked
  /\ clients[c].send = "chan"
  /\ Goto(c, "push")
  /\ UNCHANGED <<clients, job, typed, chanVars, dataVars, ioVars, hubVars, peerVars,
                 locked, panic>>

ReplyNowhere(c) ==
  /\ pc[c] = "reply" /\ ~locked
  /\ clients[c].send # "chan"
  /\ Resume(c)
  /\ UNCHANGED <<clients, typed, chanVars, dataVars, ioVars, hubVars, peerVars, locked, panic>>

\* ... and sends on it after the unlock.
Push(c) ==
  /\ pc[c] = "push"
  /\ queue' = IF chan[c] = "open" /\ Len(queue[c]) < SendCap
              THEN [queue EXCEPT ![c] = Enqueue(@, Answer(c))] ELSE queue
  /\ panic' = (chan[c] = "closed")
  /\ Resume(c)
  /\ UNCHANGED <<clients, typed, chan, missed, dataVars, ioVars, hubVars, peerVars, locked>>

\* A chat is signed with the name read in n.clients; a /reply keeps the sender
\* the client gave.  A chat that names no room, and a /reply, go to the active one.
Posted(c) ==
  [type   |-> IF Cmd(c) \in {"dm", "big"} THEN Cmd(c) ELSE "chat",
   conn   |-> c,
   n      |-> typed[c],
   sender |-> IF Cmd(c) = "reply" THEN UserOf[c] ELSE job[c].user,
   to     |-> IF Arg(c) # None THEN Arg(c)
              ELSE IF job[c].room # None THEN job[c].room ELSE General]

Publish(c) ==
  /\ pc[c] = "publish" /\ hub.at = "select"
  /\ hub' = [at |-> "save", msg |-> Posted(c)]
  /\ Goto(c, "loop")
  /\ job' = [job EXCEPT ![c] = NoJob]
  /\ UNCHANGED <<clients, typed, chanVars, dataVars, ioVars, announce, peerVars, locked, panic>>

\* /typing and /status fan out from the handler, under the read lock.
Cast(c) ==
  /\ pc[c] = "cast" /\ ~locked
  /\ FanOut([type |-> Cmd(c), conn |-> c, n |-> 0, sender |-> job[c].user,
             to |-> IF Cmd(c) = "typing" THEN job[c].room ELSE None])
  /\ Goto(c, "loop")
  /\ job' = [job EXCEPT ![c] = NoJob]
  /\ UNCHANGED <<clients, typed, chan, dataVars, ioVars, hubVars, peerVars, locked>>

-----------------------------------------------------------------------------
(* Leaving *)

HubUnregister(c) ==
  /\ pc[c] = "bye" /\ hub.at = "select"
  /\ Goto(c, "done")
  /\ hub' = [at |-> "remove", conn |-> c]
  /\ UNCHANGED <<clients, job, typed, chanVars, dataVars, ioVars, announce, peerVars,
                 locked, panic>>

ScanUnregister(c) ==
  /\ scan[c] = "bye" /\ hub.at = "select"
  /\ scan' = [scan EXCEPT ![c] = "done"]
  /\ hub' = [at |-> "remove", conn |-> c]
  /\ UNCHANGED <<clients, conVars, chanVars, dataVars, wire, pump, seen, announce,
                 peerVars, locked, panic>>

\* The session ended: the scanner closes the adapter, and the pipe with it.
ScanEnd(c) ==
  /\ scan[c] = "running"
  /\ wire[c] = "up" => c \in Leavers
  /\ scan' = [scan EXCEPT ![c] = "bye"]
  /\ wire' = [wire EXCEPT ![c] = "down"]
  /\ UNCHANGED <<clients, conVars, chanVars, dataVars, pump, seen, hubVars, peerVars,
                 locked, panic>>

Hangup(c) ==
  /\ wire[c] = "up" /\ c \in Leavers \ SSHConns /\ pc[c] # "idle"
  /\ wire' = [wire EXCEPT ![c] = "down"]
  /\ UNCHANGED <<clients, conVars, chanVars, dataVars, pump, scan, seen, hubVars,
                 peerVars, locked, panic>>

\* The SSH adapter reports such a message as written and writes nothing.
Ignored(c) ==
  c \in SSHConns /\ Head(queue[c]).type \notin {"chat", "big", "server", "join", "leave"}

PumpWrite(c) ==
  /\ pump[c] = "on" /\ queue[c] # <<>>
  /\ wire[c] = "up" \/ Ignored(c)
  /\ seen' = IF Head(queue[c]).type = "chat"
             THEN [seen EXCEPT ![c] = @ \cup {Head(queue[c])}] ELSE seen
  /\ queue' = [queue EXCEPT ![c] = Tail(@)]
  /\ UNCHANGED <<clients, conVars, chan, missed, dataVars, wire, pump, scan, hubVars,
                 peerVars, locked, panic>>

\* A failed write, or a closed and drained Send, ends the pump and the connection.
PumpEnd(c) ==
  /\ pump[c] = "on"
  /\ IF queue[c] = <<>> THEN chan[c] = "closed" ELSE wire[c] = "down" /\ ~Ignored(c)
  /\ pump' = [pump EXCEPT ![c] = "done"]
  /\ wire' = [wire EXCEPT ![c] = "down"]
  /\ UNCHANGED <<clients, conVars, chanVars, dataVars, scan, seen, hubVars, peerVars,
                 locked, panic>>

-----------------------------------------------------------------------------
(* Specification *)

HubStep == HubInsert \/ HubRemove \/ HubRemoveAgain \/ HubSave \/ HubDeliver
           \/ \E m \in announce : HubAnnounce(m)

Connect(c) == Accept(c) \/ Reject(c) \/ AcceptSSH(c) \/ LoginOk(c) \/ LoginFail(c)
              \/ HubRegister(c) \/ JoinGeneral(c) \/ History(c)

Command(c) == Chat(c) \/ RefuseChat(c) \/ ReplyOrDM(c) \/ Info(c) \/ Typing(c) \/ Status(c)
              \/ JoinRoom(c) \/ LeaveRoom(c) \/ SwitchRoom(c) \/ SetRoom(c)
              \/ Moderate(c) \/ RefuseModerate(c) \/ BanOnline(c) \/ BanOffline(c)

Finish(c) == ReplyLookup(c) \/ ReplyNowhere(c) \/ Push(c) \/ Publish(c) \/ Cast(c)

Depart(c) == ReadFail(c) \/ HubUnregister(c) \/ ScanUnregister(c)

Pump(c) == PumpWrite(c) \/ PumpEnd(c)

Handler(c) == Connect(c) \/ Dispatch(c) \/ Command(c) \/ Finish(c) \/ Depart(c) \/ Pump(c)

Environment(c) == Hangup(c) \/ ScanEnd(c) \/ \E i \in Inputs[c] : ReadInput(c, i)

Reader(p) == PeerSave(p) \/ PeerDeliver(p)

PeerStep(p) == Reader(p) \/ \E r \in Relays[p] : PeerRead(p, r)

\* A panic ends the process.
Next == ~panic /\ (\/ HubStep
                   \/ \E c \in Conns : Handler(c) \/ Environment(c)
                   \/ \E p \in Peers : PeerStep(p))

Spec == Init /\ [][Next]_vars

Rendezvous(c) == HubRegister(c) \/ Publish(c) \/ HubUnregister(c)

\* Goroutines that can run do.  The hub's select is fair to a goroutine that
\* keeps offering a value, however often it is refused: SF, not WF.
Fairness ==
  /\ WF_vars(~panic /\ HubStep)
  /\ \A c \in Conns : /\ SF_vars(~panic /\ Rendezvous(c))
                      /\ SF_vars(~panic /\ ScanUnregister(c))
                      /\ WF_vars(~panic /\ Handler(c))
  /\ \A p \in Peers : WF_vars(~panic /\ Reader(p))

FairSpec == Spec /\ Fairness

-----------------------------------------------------------------------------
(* Properties *)

\* Every variable has its type.
TypeOK ==
  /\ clients \in [Conns -> Registration]
  /\ chan \in [Conns -> {"unmade", "open", "closed"}]
  /\ queue \in [Conns -> Seq(Message)]
  /\ members \in [Rooms -> SUBSET (Users \cup {None})]
  /\ status \in [Users -> {"offline", "online", "muted", "banned"}]
  /\ stored \in Seq(Message)
  /\ pc \in [Conns -> {"idle", "login", "register", "join", "history", "loop", "dispatch",
                       "run", "setroom", "reply", "push", "publish", "cast", "banlock",
                       "stuck", "bye", "done"}]
  /\ \A c \in SSHConns : pc[c] \notin {"login", "history"}
  /\ job \in [Conns -> Jobs]
  /\ typed \in [Conns -> 0..MaxInputs]
  /\ wire \in [Conns -> {"up", "down"}]
  /\ pump \in [Conns -> {"off", "on", "done"}]
  /\ scan \in [Conns -> {"off", "running", "bye", "done"}]
  /\ seen \in [Conns -> SUBSET Message]
  /\ missed \in [Conns -> SUBSET Message]
  /\ hub \in {Select} \cup [at : {"insert", "remove"}, conn : Conns]
                      \cup [at : {"save", "deliver"}, msg : Message]
  /\ announce \in SUBSET Message
  /\ reader \in [Peers -> {Reading} \cup [at : {"save", "deliver"}, msg : Message]]
  /\ heard \in [Peers -> 0..MaxHeard]
  /\ locked \in BOOLEAN
  /\ panic \in BOOLEAN

\* What a handler does next agrees with the command it works on.
JobOK ==
  \A c \in Conns :
    /\ pc[c] \in {"dispatch", "run"} => job[c].what \in Input
    /\ pc[c] = "setroom" => Cmd(c) \in {"join", "leave", "switch"}
    /\ pc[c] = "cast" => Cmd(c) \in {"typing", "status"}
    /\ job[c].then = "cast" => Cmd(c) = "status"

\* The process never dies: no send on a closed Send channel, no close of a nil
\* or of a closed one (node.go:246-251, client.go:56-72).
NoPanic == ~panic

\* An entry of n.clients belongs to a live registration: its Send channel is
\* open and its user is the one who logged in on that connection; a channel,
\* once closed, has no entry (node.go:229-251, commands.go:325-361).
EntriesAreLive ==
  \A c \in Conns :
    /\ clients[c].send = "chan" => chan[c] = "open" /\ clients[c].user = UserOf[c]
    /\ chan[c] = "closed" => c \notin Present

Queued(c) == {queue[c][i] : i \in 1..Len(queue[c])}
Chats == {stored[i] : i \in {j \in 1..Len(stored) : stored[j].type = "chat"}}
\* Saved and not yet fanned out, by the hub or by a peer reader.
InFlight == (IF hub.at = "deliver" THEN {hub.msg} ELSE {})
            \cup {reader[p].msg : p \in {q \in Peers : reader[q].at = "deliver"}}

\* The history replayed at login and the live messages leave no gap between
\* them but one: once a TLS client is in its read loop, every stored #general
\* message was written to it, waits in its buffer, is about to be delivered, or
\* was fanned out while its buffer was full or, by a peer reader, while the hub
\* had its registration in hand (client.go:139-160, node.go:229-231, 269-277,
\* peer.go:231-247).
NoGap ==
  \A c \in Conns \ SSHConns :
    pc[c] \in {"loop", "dispatch", "run", "reply", "push", "publish"} /\ wire[c] = "up" =>
      {m \in Chats : m.to = General} \subseteq seen[c] \cup Queued(c) \cup missed[c] \cup InFlight

\* Nobody is shown a message that the history does not have: the hub and the
\* peer readers save before they deliver (node.go:271-277, peer.go:231-247).  An
\* oversized chat, type "big" here, is the exception: Save refuses it and it is
\* delivered all the same.
SavedBeforeShown ==
  \A c \in Conns : \A m \in seen[c] \cup Queued(c) : m.type = "chat" => m \in Chats

\* A direct message is only ever buffered for its sender and its recipient
\* (client.go:21-25).
DMStaysPrivate ==
  \A c \in Conns : \A m \in Queued(c) : m.type = "dm" => UserOf[c] \in {m.sender, m.to}

Position(m) == CHOOSE i \in 1..Len(stored) : stored[i] = m

\* Saved and fanned out by the same goroutine: the hub, or the reader of a peer.
SameLane(m, x) == m.conn = x.conn \/ {m.conn, x.conn} \subseteq Conns

\* Every client receives what one goroutine saves and fans out in the order of
\* the history, whatever the others save and fan out meanwhile (node.go:269-277,
\* peer.go:231-247).  Across goroutines there is no such order.
DeliveredInOrder ==
  \A c \in Conns : \A i, j \in 1..Len(queue[c]) :
    LET m == queue[c][i]
        x == queue[c][j]
    IN  i < j /\ Persistent(m) /\ Persistent(x) /\ SameLane(m, x) => Position(m) < Position(x)

\* A client whose connection is gone leaves n.clients (client.go:211, node.go:246).
GoneIsUnregistered ==
  \A c \in Conns : wire[c] = "down" /\ c \in Present ~> (panic \/ c \notin Present)

\* What a handler publishes reaches the history (client.go:261, node.go:269).
PublishedIsStored ==
  \A c \in Conns : pc[c] = "publish" ~> \E i \in 1..Len(stored) :
                                          stored[i].conn = c /\ stored[i].n = typed[c]

\* "Disconnect the banned user" (commands.go:426).
BannedIsDisconnected ==
  \A c \in Conns : (\E a \in Conns : pc[a] = "banlock" /\ Arg(a) = UserOf[c]) /\ c \in Present
                     ~> c \notin Present

-----------------------------------------------------------------------------
(* Why a TLS client never panics the node *)

Inside == {"join", "history", "loop", "dispatch", "run", "setroom", "reply", "push",
           "publish", "cast", "banlock", "stuck", "bye"}

\* Where the handler of a connection is says what its entry and its Send
\* channel are.  An entry with a nil Send exists only while the hub is about to
\* overwrite it; a Send channel is closed only after its handler has returned,
\* since without an SSH scanner only the handler asks for its own removal
\* (client.go:139-162, 211-213, node.go:229-251).
Lifecycle(c) ==
  /\ scan[c] = "off"
  /\ pc[c] \in {"idle", "login", "register"} => clients[c] = Absent
  /\ pc[c] = "register" => chan[c] = "open"
  /\ pc[c] \in Inside =>
       chan[c] = "open" /\ (clients[c].send = "chan" \/ hub = [at |-> "insert", conn |-> c])
  /\ pc[c] = "done" =>
       clients[c] = Absent \/ (clients[c].send = "chan" /\ hub = [at |-> "remove", conn |-> c])
  /\ clients[c].send = "nil" => hub = [at |-> "insert", conn |-> c]
  /\ clients[c].send = "chan" => chan[c] = "open" /\ clients[c].user = UserOf[c]

HubExpects ==
  /\ hub.at = "remove" => pc[hub.conn] = "done"
  /\ hub.at = "insert" => pc[hub.conn] \in Inside

LifecycleInv == ~panic /\ HubExpects /\ \A c \in Conns : Lifecycle(c)
=============================================================================
