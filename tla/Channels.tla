------------------------------ MODULE Channels ------------------------------
(***************************************************************************)
(* The channels of internal/channel/channel.go, the commands that create,  *)
(* join, leave and name them (handleChannelCommand, commands.go) and the   *)
(* active channel of each client session.                                  *)
(*                                                                         *)
(* A change and its save are one critical section of m.mu; a session's     *)
(* active channel is set in a later one, of n.mu.  The whole table is      *)
(* written after each change and the error is dropped: unlike the accounts *)
(* (see Accounts, which has the steps of AtomicWriteFile) nothing          *)
(* remembers that a save failed.  Nodes of one directory share the file.   *)
(***************************************************************************)
EXTENDS Integers, FiniteSets

CONSTANTS
  Nodes,     \* the processes started in one directory
  Users,
  Rooms,     \* valid channel names, "general" among them
  General,
  Sessions,  \* client sessions
  NodeOf,    \* the node of a session
  UserOf,    \* its user
  Topics,    \* what /channel topic sets
  MaxFaults  \* bound: saves that fail

ASSUME ChannelsAssumption ==
  /\ General \in Rooms /\ "out" \notin Rooms
  /\ NodeOf \in [Sessions -> Nodes] /\ UserOf \in [Sessions -> Users]
  /\ MaxFaults \in Nat

Roles == {"none", "member", "admin"}
Channel == [by : Users \cup {"system"}, private : BOOLEAN, topic : {""} \cup Topics,
            role : [Users -> Roles]]
NoChannel == [by |-> "nobody"]
Tables == [Rooms -> Channel \cup {NoChannel}]

\* What NewManager begins with when it cannot read channels.json.
Fresh ==
  [r \in Rooms |-> IF r = General
                   THEN [by |-> "system", private |-> FALSE, topic |-> "", role |-> [u \in Users |-> "none"]]
                   ELSE NoChannel]

NoFile == [form |-> "none", table |-> Fresh]
Broken == [form |-> "broken", table |-> Fresh]
Whole(table) == [form |-> "whole", table |-> table]

VARIABLES
  up,        \* the process runs
  started,   \* the nodes that were ever started
  channels,  \* m.channels
  file,      \* channels.json
  active,    \* the Channel of each session's registration; "out": no session
  moving,    \* a command of a session that has yet to set its active channel
  created,   \* rooms created, as the answer says
  resigned,  \* <<room, user>>: an administrator who left
  leavers,   \* <<session, room>>: left since the user last joined
  faults     \* saves that failed so far

procVars == <<up, started>>
tableVars == <<channels, file, faults>>
sessionVars == <<active, moving>>
ghosts == <<created, resigned, leavers>>
vars == <<procVars, tableVars, sessionVars, ghosts>>

Exists(n, r) == channels[n][r] # NoChannel
IsMember(n, r, u) == Exists(n, r) /\ channels[n][r].role[u] # "none"
Still == [op |-> "none"]

Init ==
  /\ up = [n \in Nodes |-> FALSE]
  /\ started = {}
  /\ channels = [n \in Nodes |-> Fresh]
  /\ file = NoFile
  /\ active = [s \in Sessions |-> "out"]
  /\ moving = [s \in Sessions |-> Still]
  /\ created = {}
  /\ resigned = {}
  /\ leavers = {}
  /\ faults = 0

-----------------------------------------------------------------------------
(* Saving *)

\* The table is written whole, or the write fails and the old file stays.  Two
\* processes in AtomicWriteFile at once may leave an empty or a mixed file.
Put(n, table) ==
  \/ file' = Whole(table) /\ UNCHANGED faults
  \/ faults < MaxFaults /\ faults' = faults + 1 /\ UNCHANGED file
  \/ (\E m \in Nodes \ {n} : up[m]) /\ file' = Broken /\ UNCHANGED faults

\* A node changes a channel, and saves.
Change(n, r, channel) ==
  /\ channels' = [channels EXCEPT ![n] = [@ EXCEPT ![r] = channel]]
  /\ Put(n, channels'[n])

-----------------------------------------------------------------------------
(* Sessions *)

Ready(s) == up[NodeOf[s]] /\ active[s] # "out" /\ moving[s] = Still

\* Who is a member already keeps the role, and nothing is saved.
Join(n, r, u) ==
  IF IsMember(n, r, u) THEN UNCHANGED tableVars
                       ELSE Change(n, r, [channels[n][r] EXCEPT !.role[u] = "member"])

\* Fault: the change is not saved.
FaultyLeave(n, r, u) ==
  /\ channels' = [channels EXCEPT ![n] = [@ EXCEPT ![r] = [@ EXCEPT !.role[u] = "none"]]]
  /\ UNCHANGED <<file, faults>>
\* The role goes with the membership.
Leave(n, r, u) == Change(n, r, [channels[n][r] EXCEPT !.role[u] = "none"])

\* The user is in the room again, whoever left it before.
Returned(n, r, u) == {e \in leavers : ~(e[2] = r /\ UserOf[e[1]] = u /\ NodeOf[e[1]] = n)}

\* A login registers the session in "general", and joins it.
Login(s) ==
  /\ up[NodeOf[s]] /\ active[s] = "out"
  /\ active' = [active EXCEPT ![s] = General]
  /\ Join(NodeOf[s], General, UserOf[s])
  /\ leavers' = Returned(NodeOf[s], General, UserOf[s])
  /\ UNCHANGED <<procVars, moving, created, resigned>>

Logout(s) ==
  /\ Ready(s)
  /\ active' = [active EXCEPT ![s] = "out"]
  /\ UNCHANGED <<procVars, tableVars, moving, ghosts>>

\* /channel create: the creator is its administrator, and does not move there.
CreateChannel(s, r, private) ==
  /\ Ready(s) /\ ~Exists(NodeOf[s], r)
  /\ Change(NodeOf[s], r, [by |-> UserOf[s], private |-> private, topic |-> "",
                           role |-> [u \in Users |-> IF u = UserOf[s] THEN "admin" ELSE "none"]])
  /\ created' = created \cup {r}
  /\ leavers' = Returned(NodeOf[s], r, UserOf[s])
  /\ UNCHANGED <<procVars, sessionVars, resigned>>

Begin(s, op, r) == moving' = [moving EXCEPT ![s] = [op |-> op, room |-> r]]

\* /channel join; private channels too.
JoinChannel(s, r) ==
  /\ Ready(s) /\ Exists(NodeOf[s], r)
  /\ Join(NodeOf[s], r, UserOf[s])
  /\ Begin(s, "join", r)
  /\ leavers' = Returned(NodeOf[s], r, UserOf[s])
  /\ UNCHANGED <<procVars, active, created, resigned>>

\* /channel leave
LeaveChannel(s, r) ==
  LET n == NodeOf[s]  u == UserOf[s] IN
    /\ Ready(s)
    /\ IF Exists(n, r) THEN Leave(n, r, u) ELSE UNCHANGED tableVars
    /\ Begin(s, "leave", r)
    /\ resigned' = IF Exists(n, r) /\ channels[n][r].role[u] = "admin"
                   THEN resigned \cup {<<r, u>>} ELSE resigned
    /\ leavers' = leavers \cup {<<s, r>>}
    /\ UNCHANGED <<procVars, active, created>>

\* /channel switch checks the membership; a refusal changes nothing.
SwitchChannel(s, r) ==
  /\ Ready(s) /\ IsMember(NodeOf[s], r, UserOf[s])
  /\ Begin(s, "switch", r)
  /\ UNCHANGED <<procVars, tableVars, active, ghosts>>

\* Fault: a session stays in the room it leaves.
FaultyMoved(s) == IF moving[s].op = "leave" THEN active[s] ELSE moving[s].room
\* Who leaves the active room is back in "general".
Moved(s) ==
  IF moving[s].op # "leave" THEN moving[s].room
  ELSE IF active[s] = moving[s].room THEN General ELSE active[s]

\* The second half of the command, under n.mu.
Move(s) ==
  /\ up[NodeOf[s]] /\ moving[s] # Still
  /\ active' = [active EXCEPT ![s] = Moved(s)]
  /\ moving' = [moving EXCEPT ![s] = Still]
  /\ UNCHANGED <<procVars, tableVars, ghosts>>

\* /channel topic, for anyone.
SetTopic(s, r) ==
  /\ Ready(s) /\ Exists(NodeOf[s], r)
  /\ \E topic \in Topics : Change(NodeOf[s], r, [channels[NodeOf[s]][r] EXCEPT !.topic = topic])
  /\ UNCHANGED <<procVars, sessionVars, ghosts>>

-----------------------------------------------------------------------------
(* Start and crash *)

\* Fault: only the default channel is kept.
FaultyLoaded(f) == [Fresh EXCEPT ![General] = f.table[General]]
Loaded(f) == f.table

\* A file that cannot be read is replaced by a new table, at once.
Start(n) ==
  /\ ~up[n]
  /\ up' = [up EXCEPT ![n] = TRUE]
  /\ started' = started \cup {n}
  /\ IF file.form = "whole"
     THEN channels' = [channels EXCEPT ![n] = Loaded(file)] /\ UNCHANGED <<file, faults>>
     ELSE channels' = [channels EXCEPT ![n] = Fresh] /\ Put(n, Fresh)
  /\ UNCHANGED <<sessionVars, ghosts>>

\* The process is stopped or dies, as when a reader of a channel that List or Get
\* handed out finds its Members map being written.
Crash(n) ==
  /\ up[n]
  /\ up' = [up EXCEPT ![n] = FALSE]
  /\ channels' = [channels EXCEPT ![n] = Fresh]
  /\ active' = [s \in Sessions |-> IF NodeOf[s] = n THEN "out" ELSE active[s]]
  /\ moving' = [s \in Sessions |-> IF NodeOf[s] = n THEN Still ELSE moving[s]]
  /\ UNCHANGED <<started, file, faults, ghosts>>

Next ==
  \/ \E n \in Nodes : Start(n) \/ Crash(n)
  \/ \E s \in Sessions :
       \/ Login(s) \/ Logout(s) \/ Move(s)
       \/ \E r \in Rooms : \/ JoinChannel(s, r) \/ LeaveChannel(s, r) \/ SwitchChannel(s, r)
                           \/ SetTopic(s, r)
                           \/ \E private \in BOOLEAN : CreateChannel(s, r, private)

Spec == Init /\ [][Next]_vars

-----------------------------------------------------------------------------
(* Properties *)

\* Every variable has its type.
TypeOK ==
  /\ up \in [Nodes -> BOOLEAN]
  /\ started \in SUBSET Nodes
  /\ channels \in [Nodes -> Tables]
  /\ file \in [form : {"none", "broken", "whole"}, table : Tables]
  /\ active \in [Sessions -> Rooms \cup {"out"}]
  /\ moving \in [Sessions -> {Still} \cup [op : {"join", "leave", "switch"}, room : Rooms]]
  /\ created \in SUBSET Rooms
  /\ resigned \in SUBSET (Rooms \X Users)
  /\ leavers \in SUBSET (Sessions \X Rooms)
  /\ faults \in 0..MaxFaults

\* No second process was started in the directory, and no save has failed.
Undisturbed == faults = 0 /\ \A m, n \in started : m = n

\* No channel whose creation was answered is ever lost, crashes and restarts
\* included, as long as one process has the directory for itself and no save fails
\* (channel.go:57-69, 80-112, 247-265).
ChannelsSurvive ==
  Undisturbed => \A n \in Nodes, r \in created : up[n] => Exists(n, r)

\* Leaving is for good: an administrator who left a channel comes back as a member,
\* not with the old role from an older file (channel.go:107-127, 247-265).
ResignedForGood ==
  Undisturbed => \A n \in Nodes : \A e \in resigned :
                   up[n] /\ Exists(n, e[1]) => channels[n][e[1]].role[e[2]] # "admin"

\* A session that is not in the middle of a command is a member of the channel it
\* posts to, so it hears itself, unless another session of its user has left that
\* channel or it has left "general" itself (commands.go:324-333, 340-349, 356-365).
HearsWhereItPosts ==
  \A s \in Sessions :
    active[s] # "out" /\ moving[s] = Still =>
      \/ IsMember(NodeOf[s], active[s], UserOf[s])
      \/ active[s] = General /\ <<s, General>> \in leavers
      \/ \E t \in Sessions \ {s} : UserOf[t] = UserOf[s] /\ <<t, active[s]>> \in leavers
=============================================================================
