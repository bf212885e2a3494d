# distributed-chat: TLA+ models, model checking and proofs

This directory holds a formal description of the chat server in `src/`: TLA+
modules translated from the Go code, TLC configurations that check them on small
instances, and theorems that the TLA+ proof system (TLAPS) checks for every value
of their constants. `PROJECT.json` maps every definition to the lines it models.

    tlc -workers 2 -config HubTalk.cfg MCHub        # one run
    tlapm HubProofs.tla                             # one module of proofs

Everything refers to paths under `src/`; `client.go:56` is
`src/internal/node/client.go`, line 56.

## 1. Inventory

| Component | State | Operations | Talks to |
|---|---|---|---|
| **Hub** (`node.go`) | `clients`, three unbuffered channels `register`, `unregister`, `broadcast` | `handleMessages`: insert, remove, save and fan out | handlers (rendezvous), storage, peers |
| **Client handlers** (`client.go`, `commands.go`) | where each handler is; a buffered channel `Send` per connection | login, history, read loop, commands, write pump | hub, auth, channel manager, limiter, storage |
| **SSH bridge** (`ssh_bridge.go`) | a pipe and a scanner per session | scan, adapt, unregister | hub, the same read loop |
| **Storage** (`storage.go`) | `allMsgs`, `messages` (per channel), the append-only file and its encoder | save, edit, delete, react, compact, load, read | hub, commands, peers, API |
| **Peers and election** (`peer.go`) | `peers`, `peerIDs`, `isLeader`, `leaderID` | dial, accept, read, time out, claim, step down | other nodes |
| **Replication** (`peer.go`, `node.go:278`, `commands.go:63-146`) | what is on its way to peers; `remoteUsers`, never read | relay, apply a peer's message, edit, delete, react | other nodes, storage |
| **Accounts** (`auth.go`, `fileutil.go`) | `users`, `dirty`; `users.json` and its temporary file | register, check, set status, save, load, migrate | handlers, SSH server, API, other processes of the directory |
| **Lockout** (`auth.go`) | `failedAttempts` | count, lock, expire, clear | `Check` |
| **Rate limiter** (`ratelimit.go`) | `buckets` | allow, clean up | read loop, a ticker |
| **Channel manager** (`channel.go`) | `channels`, `channels.json`; the active channel of each registration | create, join, leave, switch, topic, list, save, load | commands, login, fan-out, API, other processes of the directory |
| **API** (`api.go`) | none | inject a message, read | hub, storage, auth, channels |
| **Terminal client** (`internal/tui`, `cmd/tui`) | channels, panes with unread counts, sidebar cursor, focus | keys, messages, draw | a node |
| **Other clients** (`cmd/client`, `cmd/stress`) | screen and input | send, receive | a node |
| **Others** (`protocol`, `crypto`, `metrics`, `internal/ssh`, `cmd/server`) | none that matters | encode, encrypt, count, set up | everybody |

### What is hard

* **Goroutines around one map.** `n.clients` is guarded by `n.mu`, but handlers
  read an entry, unlock, and use or write back the copy (`client.go:56-72`,
  `commands.go:324-361`), while the hub inserts and removes entries and closes
  their channels. A send on a closed channel ends the process.
* **Rendezvous and locks.** The hub's channels are unbuffered, and one handler
  takes `n.mu` twice (`commands.go:427-435`).
* **Order.** History, live messages and saving must fit together at login and at
  each fan-out (`client.go:145-160`, `node.go:269-282`). The hub is not the only one
  that saves and fans out: the reader of each peer connection does so too, next to it
  (`peer.go:213-249`).
* **Order between nodes.** Every message goes to every peer in a goroutine of its own
  (`peer.go:60-66`), and a command looks up, changes and publishes in three steps
  (`commands.go:71-91`): changes overtake messages and each other.
* **Failure.** Writes fail or stop half way, renames fail, the process dies
  between any two steps; both files are read back at start. The last compaction of an
  orderly shutdown may fail too, and that is only logged (`node.go:301-303`).
* **A cluster without redialing.** Nodes learn ids on one side of a connection
  only, claims are sent once, monitors and readers edit the same tables.
* **Several processes in one directory.** `start_cluster.sh` starts three nodes
  that share `users.json`, its temporary file, and `channels.json`.
* **Time.** Tokens are refilled lazily, lockouts end, idle buckets are forgotten.

### What makes each component correct

* Hub: no panic; entries are live registrations; no gap between history and live
  messages but the one that peer readers can make; nothing shown that is not saved;
  the messages of one goroutine in one order for everybody; direct messages stay
  between two; who is gone is unregistered; what is posted is stored.
* Storage: lists bounded and in agreement; acknowledged messages on disk, in order,
  and back after a restart; what a shutdown compacted is what the next start finds.
* Election: tables follow readers; a leader names itself; nobody claims under a
  connected higher node; in the end the highest live node leads alone.
* Replication: over one connection each, a message is stored once by each node, the
  nodes end up with the same text and reactions, and what is posted arrives.
* Channels: a session is a member of the channel it posts to; channels survive
  restarts, and leaving is for good.
* Pages of the history: what the query says, and none missed by a client that reads
  them all.
* Terminal client: the screen ends up with what the node stores; counts of unread
  messages can be reached; arriving messages do not move the cursor.
* Accounts: the file is always whole; acknowledged registrations stay; one
  administrator; no login gets past a ban.
* Lockout and limiter: a bound on what passes in any window of time.

The hazards behind these are listed, line by line, under `hazards` in
`PROJECT.json`. A few more that no property can be about: the table
`failedAttempts` gets an entry for every unknown name and never loses one
(`auth.go:96`); joins and leaves are announced by goroutines of their own and may
come in either order (`node.go:244`, which only matters for `remoteUsers`, never
read); `/search` cuts ids to eight bytes and panics on a shorter one, which a
client may choose (`commands.go:207`).

## 2. Modules

| Module | What | Kind |
|---|---|---|
| `Hub` | one node seen from its clients, with the readers of its peer connections | component, composed with storage order, members, statuses |
| `MCHub` | instances of `Hub` | model checking |
| `HubProofs` | types, history, privacy and order of `Hub`; without SSH its safety, and no gap at login | proofs |
| `Storage` | message store and its file | component |
| `StorageProofs` | types, the two lists, the file, its order, what a restart keeps; pages; extends `Paging` | proofs |
| `Paging` | reading the store page by page; extends `Storage` | operators and a client |
| `MCStorage` | an instance of `Paging` with `Storage` | model checking |
| `Election`, `MCElection` | cluster, peer tables, leader | component |
| `ElectionProofs` | all safety properties of `Election` | proofs |
| `TokenBucket` | what the limiter promises | abstract specification |
| `Clock` | names, time, the window looked at; extended by `RateLimit` and `Lockout` | declarations |
| `RateLimit` | the limiter | component, implements `TokenBucket` |
| `Accounts`, `MCAccounts` | accounts, their file, processes that share it | component |
| `AccountsProofs` | types; one admin, bans; what a process on its own guarantees | proofs |
| `Lockout` | password attempts over time | component |
| `LimitsProofs` | types, refinement and bound of `RateLimit`, types and bound of `Lockout` | proofs |
| `Replication`, `MCReplication` | stores of a cluster, the relay, the commands that change messages | composes hub, peers, commands and stores |
| `ReplicationProofs` | types; nothing is stored twice; quiet nodes agree | proofs |
| `Channels`, `MCChannels` | channels, their file, the active channel of sessions | composes channel manager and commands |
| `ChannelsProofs` | types; sessions hear themselves; channels and resignations survive | proofs |
| `Tui`, `MCTui` | the terminal client on its connection to a node | composes client and node |
| `TuiProofs` | types; unread counts, the cursor, and the screen against the store | proofs |

### Hub

A *connection* `c` has a handler (`pc[c]`), a `Send` channel (`chan[c]` says
whether it is made, open or closed, `queue[c]` what is in it), a write pump, the wire
itself and, over SSH, a scanner. `hub` is where `handleMessages` is and the value
it has received: `select`, `insert`, `remove`, `save` or `deliver`. A *peer* `p` is a
connection to another node; `reader[p]` is where `handlePeerMessage` is on it: it
decodes a message (`PeerRead`; `Relays[p]` is what may come, `MaxHeard` messages at
most), saves it (`PeerSave`) and fans it out (`PeerDeliver`), each by itself and next to
the hub, to logins and to the other readers. A rendezvous
(`HubRegister`, `Publish`, `HubUnregister`, `ScanUnregister`, `HubAnnounce`) moves
both sides at once. Each critical section of `n.mu` is one step; `locked` says
that a handler holds it and will never release it.

The handler's path is `login → register → join → history → loop` for TLS
(`handleConnection`) and `join → register → loop` for SSH (`JoinSSH`). In the loop
an input is read (`ReadInput`), the entry looked up (`Dispatch`: the copy is
`job[c]`), and the command runs; it ends in a reply (`ReplyLookup`, then `Push`
after the unlock), a post to the hub (`Publish`) or a fan-out of its own (`Cast`).
`FanOut` is `broadcastToClients`, which hub, handlers and peer readers call. What it
passes a client by with is recorded in `missed`: the client's buffer was full, or the
hub had its registration in hand (`Inserting`). `Registration`'s field `send` tells a missing
entry, one with a nil `Send` (what the read-modify-write of a channel command
creates when there was none) and a proper one apart.

Messages carry who posted them, or which peer sent them, and a serial number. Peers
relay chats, joins and leaves; a reader saves joins and leaves too, the hub does not
(`Persistent`). They relay no direct messages, and the answer to a sync request, which
could hold some, is never asked for. Peer connections are up all the time here; how they
come and go is in `Election` and `Replication`. A chat that names no channel takes the
session's (`Posted`, `client.go:254-259`). A refused chat (rate limit) is
a choice, since the limiter has a module of its own. `/edit`, `/delete` and `/react`
are in `Replication`, the creation and topics of channels in `Channels`.

### Storage

Every method holds `s.mu`, so a step is a method. `disk` is the file as a sequence
of lines, `torn` says that it ends in half a line, `encoder` that later writes
fail: `json.Encoder` keeps its first error, and a compaction whose rename fails
leaves the old file closed. A compaction fails when it creates, writes or syncs its
file (`CompactCreateFails`), renames it or reopens it. `Crash` keeps the file only. An
orderly stop is three steps of `run`, from `up` over `closing` and `closed` to `down`:
`Shutdown` is the final compaction, which may fail in all these ways and goes on,
`Close` closes the file, `Exit` is the return of `main`. The other goroutines save and
change messages up to the last of them, a compaction that was already under way may
follow, and the process may crash between them. `final` remembers what the last
compaction since `Shutdown` wrote, if one succeeded.
The lists keep their last value while the process is down so that the properties
can compare it with what `Restart` (that is, `LoadAOF`) makes. `acked` are the
messages for which `Save` returned nil, `glued` those among them whose line went
onto half a line. Ids are unique (`Fresh`), as `GenerateID` makes them; the code also
takes the id a client sends along (`client.go:222-225`), which `Save` does not look for.

### Paging

`Page` is `GetChannelMessages` over the channel's list of `Storage`, under the
limits and offsets that `handleChannelHistory` lets through. `walk` is a client
that starts at the end of a channel (`Begin`) and asks for page after page
(`NextPage`) while the store goes on (`StoreStep` is any step of `Storage`); `due`
is what was there at the beginning and still is.

### Election

A connection is named by who dials, whom, and in which run. Each end has a reader
(`reader[n][c]`); the step between `Decode*` and `Touch` is where the monitor may
get in. `claims` holds the `Coordinator` messages on their way; claims of one node
that wait on one connection are taken as one. A node takes a peer that dials it
(`AcceptPeer`), fails to, or, as long as its clients and peers are at the limit of 300,
refuses it (`RejectPeer`): the clients are not in this module, so the nodes in `Crowded`
may do that at any time. A timeout of a connection that is
still open is an event of its own (`spurious`, bounded), since heartbeats arrive
when they arrive.

### Replication

A node is its store (`store[n]`) and its peer connections. `Post` is the hub's
turn: save, then `Relay`, which puts one packet per peer on the `wire`, a set,
because each is sent by a goroutine of its own. `Deliver` is the reader at the
other end: `Applied` to the store, and nothing relayed on (`Onward`). A command
is `LookUp`, `ChangeIt` and `Publish`; `/react` has no look-up (`React`). A
connection is registered by each side when it gets there (`Register`) and may be
lost (`Cut`) with what is on it. Two nodes may have several connections: each `-peers`
dials, and neither `Join` nor the accepting side looks whether there is one
(`peer.go:16-48`, `client.go:98-126`). Three variables keep the excuses of a node:
`missed` (it was not connected, or the packet was lost), `overtaken` (a change
arrived first) and `doubled` (it was sent the message over two connections: `Twice`).
`Find` is the oldest copy, as in the store. Lists never fill here; what filling does is
in `Storage`.

### Channels

`channels[n]` is the table of a process, `file` is `channels.json`. A change with
its save is one step, as it is one critical section of `m.mu`; the save writes the
whole table, fails and is forgotten, or, while a second process runs, may leave the
file `Broken` (the steps by which that happens are in `Accounts`). `Start` loads
the file, or begins a `Fresh` table and saves it. A session has its `active`
channel; a `/channel` command changes the membership first and the session in a
later step (`moving`, `Move`). `created`, `resigned` and `leavers` record what was
answered.

### Tui

The client's variables are those of `Model`; `panes` is `channelState`. Keys are
`Esc`, `Tab`, `MoveCursor`, `Open` and, in the input line, `Type`,
`SwitchCommand` (`/channel switch`, which the client does itself, whatever the
node answers) and `MemberCommand`. `Arrives`, `EditShown`, `DeleteShown` and
`LikeShown` are the cases of `handleServerMessage`. The node is only as detailed as
the client can see: its store, this user's membership, and a login in which the
handler writes the replay (`history`) while the pump writes what is live (`live`).
`Snapshot` copies the store, `ReceiveHistory` is one turn of the loop that replays it
and leaves direct messages out. `AsWritten`: a copy in the replay shares its map of
reactions with the store, so later reactions are in it.

### RateLimit and TokenBucket

`TokenBucket` fills every bucket at every tick. `RateLimit` keeps tokens and the
time they were counted, makes buckets on first use and forgets stale ones;
`Levels` is what each bucket would hold if it were refilled now, and
`IsTokenBucket` is `TokenBucket!Spec` under `level <- Levels`. The window that
starts at `from`, chosen initially, is any window.

### Accounts

The whole table is written at each change: `Open` (create or truncate
`users.json.tmp`), `Write`, `Rename`, and `Remove` when something failed. Since
processes share the directory, the name `users.json.tmp` may be taken over by
another process while this one has it open: `fd` says what the file that a process
writes is called by now (`tmp`, `file` after somebody's rename, or `lost`).
A start from a file of the old format migrates and saves it.

### Lockout

`Check` holds `a.mu`, so an attempt is a step: wrong, right, or not compared (a
banned user, an unknown hash). `Expired` is the reset at `auth.go:86`. As in
`RateLimit`, `from` is any start of a window. Its actions have names of their own
(`LockoutNext`, `LockoutSpec`), so that `LimitsProofs` extends both modules.

## 3. Runs

Runs that pass:

| Run | What it explores | What it shows |
|---|---|---|
| `HubTalk` | two TLS clients post (also something oversized), move between rooms, moderate; one may leave at any moment; or a peer's two chats and joins (one oversized), beside a client that posts and one that logs in | `TypeOK`, `EntriesAreLive`, `NoGap`, `SavedBeforeShown`, `DMStaysPrivate`, `DeliveredInOrder` |
| `HubLive` | a TLS and an SSH client come and go at the connection limit, direct messages, fair scheduling | `NoPanic` (unregistering twice is harmless), `GoneIsUnregistered`, `PublishedIsStored` |
| `Storage` | five messages in two channels, lists of three; a deletion, or an edit or reaction; compactions that fail at creating, renaming or reopening; failing and torn writes, a line too long to read back; a crash or a shutdown in its steps, and a restart; a client that pages through a channel, queries past both ends | `TypeOK`, `ListsAgree`, `AckedIsOnDisk`, `SameOrder`, `AckedSurvivesUndeleted`, `ShutdownKeepsMessages`, `PageIsWindow`, `PagesMissNothing` |
| `Election` | two nodes with heartbeats, of which one restarts, or which meet one spurious timeout; or three nodes of which the highest stops; one node may refuse peers; fair scheduling | `PeersTrackReaders`, `LeaderNamesItself`, `ClaimsWhenAlone`, `HighestLeads` |
| `RateLimit` | two users, nine ticks | `TypeOK`, `WindowBound`, `IsTokenBucket` |
| `Lockout` | two names, nine ticks | `AttemptBound` |
| `Accounts` | one process or two, two users, an old file or none, two failing writes, crashes | `OneAdmin`, `FileIsWhole`, `CleanIsSaved`, `AckedIsOnFile`, `BanHolds` |
| `Replication` | a mesh of three nodes, a chat, a direct message and a join; an edit, deletion or reaction from each of three sessions; or two of the nodes with two connections, without the direct message and one of the sessions; a connection lost; fair scheduling | `StoredOnce`, `QuietNodesAgree`, `AllArrive` |
| `Channels` | two processes, two sessions of one user and one of another, a failing save, crashes | `ChannelsSurvive`, `ResignedForGood`, `HearsWhereItPosts` |
| `Tui` | two channels and a pseudo-channel, six kinds of message, two changes, keys, login and loss of the connection | `TypeOK`, `ScreenAgrees`, `BadgesReachable`, `CursorStays` |

Where `TypeOK` is missing it is proved for every instance (section 4). `HubTalk` has two
million states; `Storage`, `Accounts`, `Channels` and `Tui` four to eight hundred
thousand; `Election` 260 thousand, `Replication` 130 thousand and `HubLive` about as many,
with liveness. These take from half a minute to a minute and a half each, the others
seconds.

Runs in which TLC finds what a comment or document says violated by the code
(each has an entry under `findings`):

| Run | Property | What happens |
|---|---|---|
| `HubSSHPanic` | `NoPanic` | the reply to an SSH command is sent on a channel the hub has just closed: the process dies |
| `HubBan` | `BannedIsDisconnected` | `/ban` of an online user blocks on its own lock, and the node with it |

### What the properties leave out

Several properties are stated with a condition because without it the code does
not keep them, and the models show how. They are not kept as runs of their own:

* `NoGap` names the gap the code has. A login reads the history after the hub has taken
  its registration and without waiting for the insertion (`client.go:145-160`). What the
  hub delivers cannot come in between, as it is the hub that inserts. A chat that a peer
  reader saves after the history was read and fans out before the insertion is in neither
  (`peer.go:231`, `247`): the client never gets it. Without that exception, and without the
  one for full buffers, which drop silently (`client.go:36-40`), TLC finds `NoGap`
  violated in `HubTalk`.
* `DeliveredInOrder` orders what one goroutine saves and delivers. Hub and peer readers
  save and fan out without a lock around both, so of two messages of different goroutines
  a client may get first the one that is second in the history, and another client the
  other way round. Stated of all messages, TLC finds it violated in `HubTalk`.
* `SavedBeforeShown` leaves oversized chats out: hub and peer readers log that `Save`
  refused one and deliver it (`node.go:271-277`, `peer.go:231-247`). For the same reason
  `PublishedIsStored` is checked with messages that fit, and `Replication` has no others.
* `DMStaysPrivate` is about the `Send` buffers. A direct message is stored under `general`,
  and `/history`, `/search` (`commands.go:200-233`) and the REST API show it to everybody
  who reads that channel.
* `AckedSurvivesUndeleted` assumes that nothing was deleted: a deletion is not in the
  file, so a crash brings the message back, at the cost of the oldest one
  (`storage.go:232`). Edits and reactions likewise live in memory only until the
  next compaction.
* `ShutdownKeepsMessages` is about a shutdown whose compaction succeeded. When it fails,
  that is logged and the shutdown goes on, up to "Graceful shutdown complete."
  (`node.go:301-303`, `main.go:110`): the next start finds the file as it was, with what
  was deleted and without what was edited since the last compaction. What remains then
  is `AckedSurvivesUndeleted`.
* `Storage` and `Replication` take ids as unique. A client may give one id to two
  messages; the store then has two, and edits and deletions reach the oldest.
* It, and `AckedIsOnDisk`, leave out a message whose line was appended to half a line
  after a torn write and a restart (`storage.go:77`; the variable `glued`).
* Both restart properties assume that no line is longer than the scanner's buffer
  (`storage.go:347`); everything after such a line is lost.
* Compaction writes the flat list; what only a quiet channel's own list still holds
  leaves the file (`storage.go:296`).
* `BanHolds` excepts `/status` of a session that began before the ban: the status is
  the one field that holds the ban (`commands.go:180`). A mute is lifted the same
  way, and by every login (`auth.go:115`).
* `FileIsWhole`, `CleanIsSaved` and `AckedIsOnFile` are about a process that has the
  directory for itself. `AtomicWriteFile` is meant to prevent corruption
  (`fileutil.go:8-9`), but the nodes of `start_cluster.sh` (lines 19-34) share
  `users.json.tmp`: one truncates it, another renames it, and `users.json` is empty.
  Without the condition TLC finds `FileIsWhole` violated in a few steps.
* `OneAdmin` is about each process: two processes that start without a file may make
  two different administrators, and each writes its table over the other's.
* `HighestLeads` assumes that in the end every two live nodes are connected: a peer is
  dialed once (`peer.go:24`), so a restarted node that a higher one had dialed is not,
  and leads beside it.
* `StoredOnce` and `QuietNodesAgree` except a node that was sent the message over two
  connections, for that message: it stores it twice, may take one back after its deletion,
  and edits one of the copies only. That is so whenever two nodes name each other in
  `-peers`; `start_cluster.sh` wires one connection per pair. The other nodes are held to
  both properties all the same.
* `QuietNodesAgree` is what is left of "nodes sync seamlessly" (the repository's
  `README.md:18`). It excepts a message that a node missed, because there was no
  connection at that moment or it was lost; one that a change overtook, since an edit
  of an unknown message does nothing and the message then arrives unedited
  (`peer.go:60-66`, `235-239`); and a text edited twice, at different nodes or in
  either order of arrival. In each case the nodes differ for good. Blame is per node: any
  two nodes that are not to blame agree, whatever happened at a third.
* `PagesMissNothing` excepts a walk during which a message was deleted or the node
  restarted: the list gets shorter behind the client and a message slips over the
  edge of a page. `PageIsWindow` is about limits and offsets from 0 on: with a
  negative limit `make` panics (`storage.go:161`); `net/http` recovers the handler.
* `ScreenAgrees` excepts a message posted or changed during the login (shown twice, or
  as it was, since replay and live events are not ordered), one whose events the node
  did not send here (the user was no member, or not there), and one a user reacted to
  twice: the node keeps one reaction and publishes two (`commands.go:134`).
* `BadgesReachable` excepts a pseudo-channel in which a chat was written: the client sends
  chats with its open channel, `dm:<user>` too (`model.go:237`); the node delivers such a
  chat to nobody, stores it, and replays it to everyone who logs in.
* `CursorStays` is about the channels in the sidebar; a channel that gets known moves the
  direct messages below it.
* `ChannelsSurvive` and `ResignedForGood` are about one process whose saves succeed: an
  error of `save` is dropped (`channel.go:93`), and a second process writes its own
  table over the file. `HearsWhereItPosts` excepts a session whose channel another
  session of the same user has left, and one that left `general`, where it stays.
* `DMStaysPrivate` is about the message. `/edit` of a direct message publishes the new text
  in `general`, where the store keeps direct messages, to its members and to every
  peer (`commands.go:82-91`), although "DMs stay local for now" (`node.go:278`).
* A chat dispatched before the hub has inserted its registration is signed with the
  empty name (`client.go:237`), and connections that log in together may exceed the
  limit (`client.go:77`, read long before `HubInsert`).

Deadlock is not checked: every component may come to rest (all clients gone, bounds
exhausted).

### Bounds

* *Hub*: two connections, one input each, and one peer with two messages, since the order
  of a lane needs two and the hub is the other lane. The peer's messages meet clients that
  stay: one that has logged in and posts, the other logging in (`Listening` in `MCHub`);
  what commands and departures do does not depend on who else saves. The races are between one handler, the
  hub and one other actor; a third connection adds queues, not orders between
  these. `SendCap` is 1 or 2, so that buffers overflow; `HistoryLen` is 4 in
  `HubTalk`, more than is ever stored, because a client that may post during a login
  is what `NoGap` is about, not the cut. `ConnLimit` is 1 in `HubLive`, where the
  second connection may find the node full. In `HubTalk` one of the two posts and the
  other types nothing when the first connection has ended (`Talking` in `MCHub`): what
  commands do to each other they do while both are there. In `HubLive` the TLS client
  leaves before the other types (`Leaving`). Reconnecting under the same name is not
  covered.
* *Storage and Paging*: lists of three and five messages, four of one channel, so that
  both lists evict, and the flat list what a channel's list keeps, and so that a
  deletion in the middle leaves an order to keep; one deletion or one change, as each
  concerns one message; one restart, since `Restart` begins from the file alone. A
  client pages through the longer channel while the disk is in order and nothing has
  been changed, and up to a deletion or restart (`Bounded` in `MCStorage`), with limits
  below, at and above its length; what the disk does only matters to a page through the
  list it leaves, and after a deletion or restart nothing is promised.
* *Election*: two nodes reach every order of one connection's end, its timeout, a late
  claim and a restart; the timeout of an open connection and the restart come in
  different runs, each of one node, since either leaves one connection half gone; of a
  third node (`Bounded` in `MCElection`) only that it stops, once, so that two remain to
  disagree. One node refuses peers: to the one that dials, a refusal is a connection that
  ends, whoever refuses.
* *Accounts*: two users and two interchangeable processes; bans and mutes are set and
  writes fail while one process is alone, and of two processes one has a user logged in
  (`Bounded` in `MCAccounts`): every fault is of one process, or of one process between
  two steps of another.
* *Replication*: three nodes are the smallest mesh with two ways from one to another.
  One command for each of three sessions (the author's at two nodes, an
  administrator's at the third), given while one message is posted, since commands
  about different messages do not touch each other; one connection lost, with one
  command under way. The second connection between two of them is given up before
  anything happens, or stays, then without the direct message, which is not relayed, and
  without the author's session at his own node (`Twofold` in `MCReplication`).
* *Channels*: two channels, of which one is created, two sessions of one user, since
  membership belongs to the user, and one of another at a second process. Sessions
  overlap, topics are set, saves fail and a second channel is left while one process is
  alone (`Bounded` in `MCChannels`).
* *Tui*: one message of each kind, two at most at a time; two changes, of a message on
  its own, so that an edit can be followed by a deletion. Notices, answers and the chat
  in a pseudo-channel are not changed (the first two are not stored, and come alone);
  runs with changes leave the sidebar and the connection alone, as the one does not
  look at texts and the other takes what is under way with it (`Bounded` in `MCTui`).
* *RateLimit*, *Lockout*: nine ticks hold more than two fillings of a bucket, a
  whole idle period, and two lockouts.

### Fairness

`Hub!Fairness`: goroutines that can run do (weak fairness per handler, for the hub, and
for a peer reader that has a message). A rendezvous with the hub is strongly fair: the
select chooses at random among the goroutines that offer a value, so one that keeps
offering is not refused for ever, but it is not continuously enabled, as the hub leaves
its select in between. Nothing makes a client type or hang up. `Election!Fairness`:
tickers tick, dials are tried, readers run, and a closed connection is noticed by its
reader; starting, stopping, heartbeats and timeouts are not promised.
`Replication!Fairness`: the goroutines that send and read do, connections that can be
registered are, and a command that was begun goes on; posting, commands and losses are
not promised. The bounds of the instances (`Bounded`) restrict no step that fairness
promises. The other modules have safety properties only.

Every property of a passing run also has a mutant in `PROJECT.json`: a variant of
one definition, as a plausible bug would make it, under which that run finds the
property violated. These variants are the definitions commented `Fault:`.

## 4. Proofs

All theorems hold for every value of the constants that satisfies the named
assumption of the module; the assumptions only type the constants (those of
`Replication` allow any number of connections between two nodes), except
`LimitAssumption`, which says that an idle bucket fills up before it is stale
(10 messages a second, burst 20, 10 minutes in `node.go`).

| Module | Theorem | States |
|---|---|---|
| `HubProofs` | `TypeCorrect` | `Spec => []TypeOK` |
| | `ShownIsSaved` | `Spec => []SavedBeforeShown` |
| | `DMsStayPrivate` | `Spec => []DMStaysPrivate` |
| | `OrderIsTheHistorys` | `Spec => []DeliveredInOrder` |
| | `TLSNeverPanics` | `SSHConns = {} => (Spec => []NoPanic)` |
| | `TLSEntriesAreLive` | `SSHConns = {} => (Spec => []EntriesAreLive)` |
| | `HistoryLeavesNoGap` | `NobodyLeavesGeneral => (Spec => [](Len(stored) <= HistoryLen => NoGap))` |
| `StorageProofs` | `AcknowledgedIsStored`, `OrderIsKept` | `Spec => []AckedIsOnDisk`, `Spec => []SameOrder` |
| | `FinalCompactionLasts`, `RestartKeepsAcknowledged` | `Spec => ShutdownKeepsMessages`, `Spec => AckedSurvivesUndeleted` |
| | `BothListsAgree`, `StoreTypes` | `Spec => []ListsAgree`, `Spec => []TypeOK` |
| | `PagesAreWindows`, `PagingIsComplete` | `WalkSpec => []PageIsWindow`, `WalkSpec => []PagesMissNothing` |
| `ElectionProofs` | `ElectionTypes`, `TablesTrackReaders`, `LeadersNameThemselves`, `ClaimsOnlyWhenAlone` | every safety property of `Election` |
| `LimitsProofs` | `LimiterTypes`, `LimiterIsTokenBucket`, `WindowsAreBounded` | types of `RateLimit`, the refinement, the bound |
| | `LockoutTypes`, `AttemptsAreBounded` | types of `Lockout`, the bound |
| `AccountsProofs` | `AccountTypes` | types |
| | `NoSecondAdmin`, `BansHold` | `Spec => []OneAdmin`, `Spec => BanHolds`, with any number of processes and any failures |
| | `LoneFileIsWhole`, `LoneCleanIsSaved`, `LoneAckedIsOnFile` | what a process on its own guarantees; "on its own", and for the last one "no write has failed", are conditions of the properties |
| `ReplicationProofs` | `ReplicationTypes`, `NothingStoredTwice` | types; `Spec => []StoredOnce` |
| | `QuietClusterAgrees` | `Spec => []QuietNodesAgree`, for any nodes, connections and commands |
| `ChannelsProofs` | `ChannelTypes`, `SessionsHearThemselves` | types; `Spec => []HearsWhereItPosts` |
| | `CreatedChannelsSurvive`, `LeavingIsForGood` | `Spec => []ChannelsSurvive`, `Spec => []ResignedForGood`; that one process runs and its saves succeed is a condition of both |
| `TuiProofs` | `TuiTypes` | types |
| | `BadgesAreReachable`, `TheCursorStays` | `Spec => []BadgesReachable`, `Spec => CursorStays` |
| | `TheScreenAgrees` | `Spec => []ScreenAgrees`, for any channels, messages, users and number of changes |

The arguments:

* **Hub types.** A handler's command decides where it goes, and `Posted`, `Verdict`
  and `WriteBack` are only typed for their commands: `TypeOK` is not inductive and
  is strengthened by `JobOK`. The proof splits it into `Control` (where handlers
  are) and `Data`, with a lemma per way a handler moves.
* **What clients are shown.** `MailInv`: what the hub is about to deliver has been
  stored, an entry that has a channel carries its connection's own user, and whatever
  is buffered or seen satisfies both properties. The entry is the point: a channel
  command may write a stale one back behind the hub's mutex, but never one with
  another user's channel.
* **Order of delivery.** `OrderInv`: the hub has messages of clients, a reader those of its
  peer (`Origins`), so what two goroutines save never has the same number; a handler that
  may still publish, and a reader that may still save, has a number no message has
  (`AllCounted`), so a message is stored once. Others may save between a goroutine's
  save and its fan-out, but not of its own lane (`SameLane`): what it delivers is the last
  of its lane in the history (`LastOfLane`) and nobody has it yet (`DeliverIsLast`), so
  appending it keeps the lane in order in every buffer, and a full buffer only leaves a gap.
* **Why TLS clients never panic the node.** `LifecycleInv` ties each handler's place
  to its entry and its channel: a channel is closed only after its handler has
  returned, because only the handler asks for its own removal; a ghost entry
  created by a channel command before the insertion is overwritten by it. With an
  SSH scanner, a second actor asks for the removal, the invariant fails, and
  `HubSSHPanic` shows the panic: the assumption `SSHConns = {}` is where the
  argument breaks.
* **No gap at login.** `SessionInv`: from the insertion of its registration to its last
  step a TLS handler's channel is open, its entry complete and its user a member of
  `general`. So a fan-out that comes before the handler has copied the history leaves
  the message buffered or dropped, and one that comes after it too; what was stored
  before is in the copy. `GapInv` says it for the moments between: a chat is seen,
  queued, passed by (`missed`) or in the hands of the hub or of a reader. A reader's fan-out
  passes by a session that is not in `n.clients`; as its entry is complete or about to be
  (`OpenSession`), that is while the hub inserts it, which `missed` records, and nothing
  else. The theorem has two conditions: no more is
  stored than the copy holds (the cut is meant), and nobody leaves `general`
  (`NobodyLeavesGeneral`), as a message is not delivered to who is not there.
* **Storage.** `StoreInv`: the ids of memory and file were all given to `Save`, so a
  new one is in neither; and `Near`, for the restart after a crash: while nothing was
  deleted, an acknowledged message is no further from the end of the file than from the
  end of memory, so it is among the newest lines that `LoadAOF` keeps. One deletion breaks
  `Near`: its line is still in the file, takes a place after the crash, and the oldest
  message goes. For a shutdown, `FinalInv`: once its compaction has succeeded, the file is
  the list it wrote followed by lines of messages that were not known then. Saves only
  append, and edits and deletions do not touch the file; another compaction begins a new
  `final`.
* **The two lists.** What the flat list has of a channel is at the end of the channel's
  own list (`EndOf`, in `ListsInv`); it is not the same list, as each evicts on its own.
  `Only`, which selects a channel, is a recursive function, so what it does is shown by
  induction over the lists (`ListInd`; an induction rule for sets of lists, which needs
  no operator as a parameter): it commutes with appending, with changes in place
  (`Mapped`) and with deletion, and takes ends to ends, so every operation keeps
  `EndOf`. Deletion from both needs that no id occurs twice (`OneEach`).
* **Storage types.** The only number that could leave its range is the one of an edit: no
  message in memory or file was edited more often than messages were changed (`Low`).
* **Pages.** While nothing is deleted and the node does not restart, the number of
  messages after one that was there only grows (`Onward`). So a message that a walk has
  still to show has at least `offset` messages behind it (`Ahead`), and the next page,
  which begins there, does not skip it. `ReadersDoNotDisturb` carries the invariants of
  `Storage` over to `Paging`.
* **Election.** `IInv` adds to the types which connections are fresh, which ends
  have a reader, and that an entry of a table has a reader that will delete it.
* **Limiter.** `Paid`: what was let through in the window and what is left in the
  bucket are within a burst and the rate. The refinement needs that a stale bucket
  is full, so that forgetting it leaves `Levels` as they are.
* **Lockout.** `Counted`: the wrong passwords of the window are bounded by the
  count of the entry, or a lockout began in the window and outlasts it.
* **Accounts.** `LoneInv`: while one process writes, the file it writes is the
  temporary one, so only whole files are renamed; `AckInv` adds that nobody
  acknowledged is missing from memory or file. `OneAdmin` needs no such condition:
  `AdminInv` says it of every table, in memory, in the file and in the temporary one,
  since a registration makes an admin only in an empty table and files are never
  merged. `BanHolds` needs that a process that is down has nothing in memory
  (`DownIsEmpty`): a start overwrites no ban.
* **Replication.** `StoredOnce` needs to know where a message can still come from.
  `OneCopyOnTheWay` says that there is one packet at most with a new message for a
  node, unless it is in `doubled`; `NoLateCopy`, with the same exception, that there is
  none once the node has had it, since nobody relays on; `KnownIsPosted` that an unposted
  message is nowhere; and `StoreIsCounted` that what is in a store was had there. With
  them a `Deliver` to a node that is not in `doubled` appends an id that no place of the
  store holds. Ids may occur twice elsewhere, so what the store operations do is shown of
  the oldest place (`FindPlace`), and that none makes an id occur twice that did not
  (`ChangesKeepIds`).
* **Quiet nodes agree.** `AgreeInv` compares every copy with the commands instead of with
  another copy. A change is `Made` once its session's node has it, and `Seen` by a node
  unless it is yet to be published or a packet with it is yet to come. While nobody is to
  blame, a node that has not had a chat is going to, and has seen no change of it
  (`Comes`); a copy is missing only if a deletion was made (`GoneByDelete`); and one that
  is there shows every reaction and the edit the node has seen, and nothing that was not
  made (`CopyShows`). When nothing is on its way everything made is seen everywhere, and
  the copies are equal. `ChangesAreMade` says that no packet tells of anything else, and
  `RelayReaches` that what is published is on its way to each node, or missed: this is
  where blame comes in. Order does not matter because a clean chat is not overtaken, its
  reactions are a set, its deletion is final and it was edited once; two edits would
  need an order, and the code has none.
* **Channels.** `HearsTarget` says of a session in the middle of a command what
  `HearsWhereItPosts` says of the others: it is a member of the channel it is about to
  be in, or somebody is to blame. `GeneralExists`, in every table and in the file,
  gives the login its channel; `OutIsStill` keeps commands to sessions that are there.
  `KeptInv`: while nothing disturbs it, memory is what the file says, the file has every
  channel that was created, and it has the channels that were left, without the old role.

* **Types of the client.** `NodeInv`: the messages of the node, wherever they are, are
  `Proper`: posted, in the channel they belong to, and changed no more often than
  anything was. What the client counts it is told of event by event, so a count has a
  bound only together with what is still on its way: `LikesLow` has a tally of the
  events, which grows by a reaction only with a change, and an arriving copy brings no
  more than the changes there were; hence `2 * MaxChanges`. `ScreenInv`: a room with a pane
  is listed and what is listed has a pane, so that `ensureChannel` lists nothing twice.
* **Counts and cursor.** `BadgeInv` says of a channel with a count that it is a room, the
  pane of a direct message that came, or that of a stray chat. It needs to know what may
  arrive: what this user typed arrives as an event for members, thus in a room, and is
  not in the replay, which is written before the first command is read (`Before` in
  `NodeCore`). The cursor stays because channels are only ever appended.
* **The screen.** `IdInv`: ids occur once, and a message is `Nowhere` until it is posted
  (what was typed waits in `outbox`, once). `CleanInv` says what is true of a clean
  message before everything is quiet. Once the replay has passed it, the events on their
  way turn what is shown into what is stored (`Settles`): there is a sequence of views,
  from the one on the screen to that of the store, each made of the one before by the next
  event (`Leads`). A new event puts a view at its end, reading one takes the first off.
  Before the copy of the store is made, and while the message waits in the replay, it is
  not shown and is `Awaited`: the client ignores its events, all of which are edits or its
  deletion, and the last edit has the text that is stored. So the copy, taken after
  them, agrees, and when it is written (`Copied`: it is still as stored) the edits in front
  of the pump show the text they end with. That is where `raced` comes in: a reaction
  in that time would be counted twice, a change between copy and writing not at all. Nothing
  is on its way when all is quiet, and `Settles` is `ScreenAgrees`.

So every safety property that a passing run checks is stated by a theorem; `NoPanic`,
`EntriesAreLive` and `NoGap` under the conditions in the table, which the instance of
`HubTalk` meets. `HubLive` does not: it has an SSH client, and its `NoPanic`, which does not
hold of every SSH client (`HubSSHPanic`), is only model-checked. So is all liveness
(`GoneIsUnregistered`, `PublishedIsStored`, `HighestLeads`, `AllArrive`), since TLAPS does
not reason about fairness and `ENABLED`. The library's induction theorems take an
operator as a parameter, which the provers cannot instantiate; where induction is needed it
is stated over sets (`NatInd` and `ListInd` in `StorageProofs`) or is the choice of a smallest
or last number (`MinIsMember` and `LastOf` in `TuiProofs`).

## 5. What is not modelled

* Message bodies, encryption, JSON, formatting, logging, metrics: no behaviour of the
  nodes depends on them, except sizes (`big`, `Long`).
* The readers of storage other than `GetChannelMessages` copy or filter the flat list;
  the other requests of the API read, or post like a handler.
* `remoteUsers` and user sync: written, never read. The answer to a sync request: no
  code sends one, so a node that comes late never gets the history.
* Rendering, scrolling and typing of the terminal client; the line and stress clients.
* The runtime's fatal error when a Go map that copies share (`Members`, `Reactions`) is
  read and written at once: it is no value of a model, and ends like a crash.
* `SetRole`, `SetDescription` and other functions without a caller.

## 6. Plan

Done, in this order: `Hub`, `Storage`, `Election`, `TokenBucket` and `RateLimit`,
`Accounts`, `Lockout`, `Paging`, `Replication`, `Channels`, `Tui`, each with its run,
and the proofs above.

Next:

1. Edits of direct messages as inputs of `Hub`, and the answer to a sync request, should
   a node ever send one.
2. A theorem for `NoPanic` with SSH clients, should the node stop closing `Send` under a
   handler that is about to send.
