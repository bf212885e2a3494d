--------------------------- MODULE ChannelsProofs ---------------------------
(***************************************************************************)
(* For any number of processes, users and sessions: the types of Channels, *)
(* that a session hears what it posts, and what the file keeps for a       *)
(* process on its own whose saves succeed.                                 *)
(***************************************************************************)
EXTENDS Channels, TLAPS

Files == [form : {"none", "broken", "whole"}, table : Tables]

\* The constant tables have their types, and "general".
LEMMA ConstantTypes ==
  /\ Fresh \in Tables /\ Fresh[General] # NoChannel
  /\ NoFile \in Files /\ Broken \in Files
  /\ NoFile.table = Fresh /\ Broken.table = Fresh
  /\ \A t \in Tables : Whole(t) \in Files /\ Whole(t).table = t
<1>1. Fresh \in Tables /\ Fresh[General] # NoChannel
  BY ChannelsAssumption DEF Fresh, Tables, Channel, NoChannel, Roles
<1> QED
  BY <1>1 DEF NoFile, Broken, Whole, Files

\* "general" is in every table, in memory and on the disk.
GeneralExists ==
  /\ \A n \in Nodes : Exists(n, General)
  /\ file.table[General] # NoChannel

\* A save.
LEMMA PutKeeps ==
  ASSUME TypeOK, GeneralExists, NEW n \in Nodes, NEW t \in Tables, t[General] # NoChannel, Put(n, t)
  PROVE  file' \in Files /\ faults' \in 0..MaxFaults /\ file'.table[General] # NoChannel
<1>1. file' \in {file, Whole(t), Broken}
  BY DEF Put
<1>2. faults' = faults \/ (faults < MaxFaults /\ faults' = faults + 1)
  BY DEF Put
<1> QED
  BY <1>1, <1>2, ConstantTypes, ChannelsAssumption DEF TypeOK, GeneralExists, Files

\* A change of a channel that is there, or comes to be.
LEMMA ChangeKeeps ==
  ASSUME TypeOK, GeneralExists, NEW n \in Nodes, NEW r \in Rooms, NEW c \in Channel, Change(n, r, c)
  PROVE  /\ channels' \in [Nodes -> Tables] /\ file' \in Files /\ faults' \in 0..MaxFaults
         /\ GeneralExists'
         /\ channels'[n][r] = c
         /\ \A m \in Nodes, q \in Rooms : m # n \/ q # r => channels'[m][q] = channels[m][q]
<1> DEFINE t == [channels[n] EXCEPT ![r] = c]
<1>1. t \in Tables /\ channels' = [channels EXCEPT ![n] = t] /\ channels'[n] = t
  BY DEF Change, TypeOK, Tables
<1>2. c # NoChannel
  <2>1. "topic" \in DOMAIN c
    BY DEF Channel
  <2>2. "topic" \notin DOMAIN NoChannel
    BY DEF NoChannel
  <2> QED
    BY <2>1, <2>2
<1>3. /\ channels' \in [Nodes -> Tables]
      /\ channels'[n][r] = c
      /\ \A m \in Nodes, q \in Rooms : m # n \/ q # r => channels'[m][q] = channels[m][q]
  <2>1. t[r] = c /\ \A q \in Rooms \ {r} : t[q] = channels[n][q]
    BY DEF TypeOK, Tables
  <2>2. \A m \in Nodes \ {n} : channels'[m] = channels[m]
    BY <1>1 DEF TypeOK
  <2>3. channels' \in [Nodes -> Tables]
    <3> HIDE DEF t
    <3> QED
      BY <1>1 DEF TypeOK
  <2> QED
    BY <1>1, <2>1, <2>2, <2>3
<1>4. \A m \in Nodes : channels'[m][General] # NoChannel
  BY <1>2, <1>3, ChannelsAssumption DEF GeneralExists, Exists
<1>5. Put(n, t) /\ t[General] # NoChannel
  BY <1>1, <1>4 DEF Change
<1>6. file' \in Files /\ faults' \in 0..MaxFaults /\ file'.table[General] # NoChannel
  <2> HIDE DEF t
  <2> QED
    BY <1>1, <1>5, PutKeeps
<1> QED
  BY <1>3, <1>4, <1>6 DEF GeneralExists, Exists

\* A channel that is there, with another role for a user.
LEMMA RoleTypes ==
  ASSUME TypeOK, NEW n \in Nodes, NEW r \in Rooms, NEW u \in Users, Exists(n, r), NEW role \in Roles
  PROVE  /\ [channels[n][r] EXCEPT !.role[u] = role] \in Channel
         /\ [channels[n][r] EXCEPT !.role[u] = role].role = [channels[n][r].role EXCEPT ![u] = role]
         /\ channels[n][r].role \in [Users -> Roles]
<1>1. channels[n][r] \in Channel
  BY DEF TypeOK, Tables, Exists
<1> QED
  BY <1>1 DEF Channel

-----------------------------------------------------------------------------
(* The invariant *)

\* A session that is out gives no command, and its process may be down.
OutIsStill ==
  \A s \in Sessions :
    /\ active[s] = "out" => moving[s] = Still
    /\ active[s] # "out" => up[NodeOf[s]]

\* Where a session will be when its command is done, and what it hears.
Target(s) == IF moving[s] = Still THEN active[s] ELSE Moved(s)
Excused(s, r) ==
  \/ r = General /\ <<s, General>> \in leavers
  \/ \E t \in Sessions \ {s} :
       UserOf[t] = UserOf[s] /\ NodeOf[t] = NodeOf[s] /\ <<t, r>> \in leavers
Hears(s, r) == IsMember(NodeOf[s], r, UserOf[s]) \/ Excused(s, r)
HearsTarget == \A s \in Sessions : active[s] # "out" => Hears(s, General) /\ Hears(s, Target(s))

IInv == TypeOK /\ GeneralExists /\ OutIsStill /\ HearsTarget

\* It holds at first.
LEMMA InitHolds == Init => IInv
<1> SUFFICES ASSUME Init PROVE IInv
  OBVIOUS
<1>1. TypeOK
  BY ConstantTypes, ChannelsAssumption DEF Init, TypeOK, Files
<1>2. GeneralExists
  BY ConstantTypes DEF Init, GeneralExists, Exists
<1>3. OutIsStill /\ HearsTarget
  BY DEF Init, OutIsStill, HearsTarget
<1> QED
  BY <1>1, <1>2, <1>3 DEF IInv

Memberships == [op : {"join", "leave", "switch"}, room : Rooms]

\* The user who joins is a member, and nobody stops being one.
LEMMA JoinKeeps ==
  ASSUME TypeOK, GeneralExists, NEW n \in Nodes, NEW r \in Rooms, NEW u \in Users,
         Exists(n, r), Join(n, r, u)
  PROVE  /\ channels' \in [Nodes -> Tables] /\ file' \in Files /\ faults' \in 0..MaxFaults
         /\ GeneralExists'
         /\ IsMember(n, r, u)'
         /\ \A m \in Nodes, q \in Rooms, v \in Users : IsMember(m, q, v) => IsMember(m, q, v)'
<1>1. CASE IsMember(n, r, u)
  BY <1>1 DEF Join, tableVars, TypeOK, Files, GeneralExists, Exists, IsMember
<1>2. CASE ~IsMember(n, r, u)
  <2> DEFINE c == [channels[n][r] EXCEPT !.role[u] = "member"]
  <2>1. /\ c \in Channel /\ Change(n, r, c)
        /\ c.role = [channels[n][r].role EXCEPT ![u] = "member"]
        /\ channels[n][r].role \in [Users -> Roles]
    <3>1. Change(n, r, c)
      BY <1>2 DEF Join
    <3>2. "member" \in Roles
      BY DEF Roles
    <3> QED
      BY <3>1, <3>2, RoleTypes
  <2>2. c # NoChannel
    <3>1. "topic" \in DOMAIN c /\ "topic" \notin DOMAIN NoChannel
      BY <2>1 DEF Channel, NoChannel
    <3> QED
      BY <3>1
  <2> HIDE DEF c
  <2>3. /\ channels' \in [Nodes -> Tables] /\ file' \in Files /\ faults' \in 0..MaxFaults
        /\ GeneralExists'
        /\ channels'[n][r] = c
        /\ \A m \in Nodes, q \in Rooms : m # n \/ q # r => channels'[m][q] = channels[m][q]
    BY <2>1, ChangeKeeps
  <2>4. c.role[u] = "member" /\ \A v \in Users \ {u} : c.role[v] = channels[n][r].role[v]
    BY <2>1
  <2>5. IsMember(n, r, u)'
    BY <2>2, <2>3, <2>4 DEF IsMember, Exists
  <2>6. \A m \in Nodes, q \in Rooms, v \in Users : IsMember(m, q, v) => IsMember(m, q, v)'
    BY <2>2, <2>3, <2>4 DEF IsMember, Exists
  <2> QED
    BY <2>3, <2>5, <2>6
<1> QED
  BY <1>1, <1>2

\* Nobody else stops being a member.
LEMMA LeaveKeeps ==
  ASSUME TypeOK, GeneralExists, NEW n \in Nodes, NEW r \in Rooms, NEW u \in Users,
         Exists(n, r), Leave(n, r, u)
  PROVE  /\ channels' \in [Nodes -> Tables] /\ file' \in Files /\ faults' \in 0..MaxFaults
         /\ GeneralExists'
         /\ \A m \in Nodes, q \in Rooms, v \in Users :
              (m # n \/ q # r \/ v # u) /\ IsMember(m, q, v) => IsMember(m, q, v)'
<1> DEFINE c == [channels[n][r] EXCEPT !.role[u] = "none"]
<1>1. /\ c \in Channel /\ Change(n, r, c)
      /\ c.role = [channels[n][r].role EXCEPT ![u] = "none"]
      /\ channels[n][r].role \in [Users -> Roles]
  <2>1. Change(n, r, c)
    BY DEF Leave
  <2>2. "none" \in Roles
    BY DEF Roles
  <2> QED
    BY <2>1, <2>2, RoleTypes
<1>2. c # NoChannel
  <2>1. "topic" \in DOMAIN c /\ "topic" \notin DOMAIN NoChannel
    BY <1>1 DEF Channel, NoChannel
  <2> QED
    BY <2>1
<1> HIDE DEF c
<1>3. /\ channels' \in [Nodes -> Tables] /\ file' \in Files /\ faults' \in 0..MaxFaults
      /\ GeneralExists'
      /\ channels'[n][r] = c
      /\ \A m \in Nodes, q \in Rooms : m # n \/ q # r => channels'[m][q] = channels[m][q]
  BY <1>1, ChangeKeeps
<1>4. \A v \in Users \ {u} : c.role[v] = channels[n][r].role[v]
  BY <1>1
<1>5. \A m \in Nodes, q \in Rooms, v \in Users :
        (m # n \/ q # r \/ v # u) /\ IsMember(m, q, v) => IsMember(m, q, v)'
  BY <1>2, <1>3, <1>4 DEF IsMember, Exists
<1> QED
  BY <1>3, <1>5

\* A new topic, or a channel that was not there, takes no membership away.
LEMMA NewKeeps ==
  ASSUME TypeOK, GeneralExists, NEW n \in Nodes, NEW r \in Rooms, NEW c \in Channel, Change(n, r, c),
         Exists(n, r) => c.role = channels[n][r].role
  PROVE  /\ channels' \in [Nodes -> Tables] /\ file' \in Files /\ faults' \in 0..MaxFaults
         /\ GeneralExists'
         /\ \A u \in Users : c.role[u] # "none" => IsMember(n, r, u)'
         /\ \A m \in Nodes, q \in Rooms, v \in Users : IsMember(m, q, v) => IsMember(m, q, v)'
<1>1. c # NoChannel
  <2>1. "topic" \in DOMAIN c /\ "topic" \notin DOMAIN NoChannel
    BY DEF Channel, NoChannel
  <2> QED
    BY <2>1
<1>2. /\ channels' \in [Nodes -> Tables] /\ file' \in Files /\ faults' \in 0..MaxFaults
      /\ GeneralExists'
      /\ channels'[n][r] = c
      /\ \A m \in Nodes, q \in Rooms : m # n \/ q # r => channels'[m][q] = channels[m][q]
  BY ChangeKeeps
<1> QED
  BY <1>1, <1>2 DEF IsMember, Exists

\* A user who comes to a room hears it in every session at that node.
LEMMA JoinHears ==
  ASSUME IInv, NEW s \in Sessions, NEW r \in Rooms,
         IsMember(NodeOf[s], r, UserOf[s])',
         \A m \in Nodes, q \in Rooms, v \in Users : IsMember(m, q, v) => IsMember(m, q, v)',
         leavers' = Returned(NodeOf[s], r, UserOf[s])
  PROVE  \A t \in Sessions, q \in Rooms : Hears(t, q) => Hears(t, q)'
<1> SUFFICES ASSUME NEW t \in Sessions, NEW q \in Rooms, Hears(t, q) PROVE Hears(t, q)'
  OBVIOUS
<1>1. NodeOf[t] \in Nodes /\ UserOf[t] \in Users
  BY ChannelsAssumption
<1>2. CASE IsMember(NodeOf[t], q, UserOf[t])
  BY <1>1, <1>2 DEF Hears
<1>3. CASE Excused(t, q)
  <2>1. PICK x \in Sessions :
          /\ UserOf[x] = UserOf[t] /\ NodeOf[x] = NodeOf[t] /\ <<x, q>> \in leavers
          /\ x = t => q = General
    BY <1>3, ChannelsAssumption DEF Excused
  <2>2. CASE <<x, q>> \in leavers'
    BY <2>1, <2>2 DEF Hears, Excused
  <2>3. CASE <<x, q>> \notin leavers'
    <3>1. q = r /\ UserOf[x] = UserOf[s] /\ NodeOf[x] = NodeOf[s]
      BY <2>1, <2>3 DEF Returned
    <3> QED
      BY <2>1, <3>1 DEF Hears
  <2> QED
    BY <2>2, <2>3
<1> QED
  BY <1>2, <1>3 DEF Hears

\* A session that leaves a room is why others of its user do not hear it.
LEMMA LeaveHears ==
  ASSUME IInv, NEW s \in Sessions, NEW r \in Rooms,
         \A m \in Nodes, q \in Rooms, v \in Users :
           (m # NodeOf[s] \/ q # r \/ v # UserOf[s]) /\ IsMember(m, q, v) => IsMember(m, q, v)',
         leavers' = leavers \cup {<<s, r>>}
  PROVE  \A t \in Sessions, q \in Rooms :
           Hears(t, q) /\ ~(t = s /\ q = r /\ r # General) => Hears(t, q)'
<1> SUFFICES ASSUME NEW t \in Sessions, NEW q \in Rooms, Hears(t, q), ~(t = s /\ q = r /\ r # General)
             PROVE  Hears(t, q)'
  OBVIOUS
<1>1. NodeOf[t] \in Nodes /\ UserOf[t] \in Users
  BY ChannelsAssumption
<1>2. CASE Excused(t, q)
  BY <1>2 DEF Hears, Excused
<1>3. CASE IsMember(NodeOf[t], q, UserOf[t]) /\ NodeOf[t] = NodeOf[s] /\ UserOf[t] = UserOf[s] /\ q = r
  BY <1>3 DEF Hears, Excused
<1>4. CASE IsMember(NodeOf[t], q, UserOf[t]) /\ ~(NodeOf[t] = NodeOf[s] /\ UserOf[t] = UserOf[s] /\ q = r)
  BY <1>1, <1>4 DEF Hears
<1> QED
  BY <1>2, <1>3, <1>4 DEF Hears

\* What is heard when nothing is left.
LEMMA SameHears ==
  ASSUME IInv, leavers' = leavers,
         \A m \in Nodes, q \in Rooms, v \in Users : IsMember(m, q, v) => IsMember(m, q, v)'
  PROVE  \A t \in Sessions, q \in Rooms : Hears(t, q) => Hears(t, q)'
BY ChannelsAssumption DEF Hears, Excused

\* The target is a room.
LEMMA TargetTypes ==
  ASSUME IInv, NEW s \in Sessions, active[s] # "out"
  PROVE  Target(s) \in Rooms
<1>1. active[s] \in Rooms /\ (moving[s] # Still => moving[s].room \in Rooms)
  BY DEF IInv, TypeOK
<1> QED
  BY <1>1, ChannelsAssumption DEF Target, Moved

\* A command that begins.
LEMMA BeginTypes ==
  ASSUME IInv, NEW s \in Sessions, NEW op \in {"join", "leave", "switch"}, NEW r \in Rooms, Begin(s, op, r)
  PROVE  /\ moving' \in [Sessions -> {Still} \cup Memberships]
         /\ moving'[s] = [op |-> op, room |-> r] /\ moving'[s] # Still
         /\ \A t \in Sessions \ {s} : moving'[t] = moving[t]
<1>1. [op |-> op, room |-> r] # Still
  BY DEF Still
<1> QED
  BY <1>1 DEF Begin, IInv, TypeOK, Memberships

-----------------------------------------------------------------------------
(* The steps *)

\* The variables that no lemma above is about.
Plain == /\ up' \in [Nodes -> BOOLEAN]
         /\ started' \in SUBSET Nodes
         /\ active' \in [Sessions -> Rooms \cup {"out"}]
         /\ moving' \in [Sessions -> {Still} \cup Memberships]
         /\ created' \in SUBSET Rooms
         /\ resigned' \in SUBSET (Rooms \X Users)
         /\ leavers' \in SUBSET (Sessions \X Rooms)
Tabled == /\ channels' \in [Nodes -> Tables] /\ file' \in Files /\ faults' \in 0..MaxFaults
          /\ GeneralExists'

\* The parts of the invariant, put together.
LEMMA Together ==
  Plain /\ Tabled /\ OutIsStill' /\ HearsTarget' => IInv'
BY DEF Plain, Tabled, IInv, TypeOK, Files, Memberships

\* Login, /channel join and /channel create.
LEMMA ComingKeeps ==
  ASSUME IInv, NEW s \in Sessions, NEW r \in Rooms,
         \/ Login(s) \/ JoinChannel(s, r)
         \/ \E private \in BOOLEAN : CreateChannel(s, r, private)
  PROVE  IInv'
<1> USE DEF IInv
<1>0. NodeOf[s] \in Nodes /\ UserOf[s] \in Users
  BY ChannelsAssumption
<1>1. CASE Login(s)
  <2>1. /\ Tabled /\ IsMember(NodeOf[s], General, UserOf[s])'
        /\ \A m \in Nodes, q \in Rooms, v \in Users : IsMember(m, q, v) => IsMember(m, q, v)'
    BY <1>0, <1>1, JoinKeeps, ChannelsAssumption DEF Login, GeneralExists, Tabled
  <2>2. \A t \in Sessions, q \in Rooms : Hears(t, q) => Hears(t, q)'
    BY <1>1, <2>1, JoinHears, ChannelsAssumption DEF Login
  <2>3. Plain
    BY <1>1, ChannelsAssumption DEF Plain, Login, procVars, Returned, TypeOK, Memberships
  <2>4. OutIsStill'
    BY <1>1, ChannelsAssumption DEF Login, procVars, OutIsStill, TypeOK
  <2>5. HearsTarget'
    <3> SUFFICES ASSUME NEW t \in Sessions, active'[t] # "out"
                 PROVE  Hears(t, General)' /\ Hears(t, Target(t))'
      BY DEF HearsTarget
    <3>1. CASE t = s
      BY <1>1, <2>1, <3>1 DEF Login, OutIsStill, TypeOK, Target, Hears
    <3>2. CASE t # s
      <4>1. active'[t] = active[t] /\ moving'[t] = moving[t]
        BY <1>1, <3>2 DEF Login, TypeOK
      <4>2. Target(t)' = Target(t) /\ Target(t) \in Rooms
        BY <4>1, TargetTypes DEF Target, Moved
      <4> QED
        BY <2>2, <4>1, <4>2, ChannelsAssumption DEF HearsTarget, Hears, Excused
    <3> QED
      BY <3>1, <3>2
  <2> QED
    BY <2>1, <2>3, <2>4, <2>5, Together
<1>2. CASE JoinChannel(s, r)
  <2>1. /\ Tabled /\ IsMember(NodeOf[s], r, UserOf[s])'
        /\ \A m \in Nodes, q \in Rooms, v \in Users : IsMember(m, q, v) => IsMember(m, q, v)'
    BY <1>0, <1>2, JoinKeeps DEF JoinChannel, Tabled
  <2>2. \A t \in Sessions, q \in Rooms : Hears(t, q) => Hears(t, q)'
    BY <1>2, <2>1, JoinHears DEF JoinChannel
  <2>3. /\ moving' \in [Sessions -> {Still} \cup Memberships]
        /\ moving'[s] = [op |-> "join", room |-> r] /\ moving'[s] # Still
        /\ \A t \in Sessions \ {s} : moving'[t] = moving[t]
    BY <1>2, BeginTypes DEF JoinChannel
  <2>4. Plain
    BY <1>2, <2>3 DEF Plain, JoinChannel, procVars, Returned, TypeOK
  <2>5. OutIsStill'
    BY <1>2, <2>3 DEF JoinChannel, Ready, procVars, OutIsStill
  <2>6. HearsTarget'
    <3> SUFFICES ASSUME NEW t \in Sessions, active'[t] # "out"
                 PROVE  Hears(t, General)' /\ Hears(t, Target(t))'
      BY DEF HearsTarget
    <3>1. active' = active
      BY <1>2 DEF JoinChannel
    <3>2. Hears(t, General)'
      BY <2>2, <3>1, ChannelsAssumption DEF HearsTarget
    <3>3. CASE t = s
      <4>1. Target(t)' = r
        <5>1. moving'[t].op # "leave" /\ moving'[t].room = r /\ moving'[t] # Still
          BY <2>3, <3>3
        <5>2. Moved(t)' = r
          BY <5>1 DEF Moved
        <5> QED
          BY <5>1, <5>2 DEF Target
      <4> QED
        BY <2>1, <3>2, <3>3, <4>1 DEF Hears
    <3>4. CASE t # s
      <4>1. Target(t)' = Target(t) /\ Target(t) \in Rooms
        BY <2>3, <3>1, <3>4, TargetTypes DEF Target, Moved
      <4> QED
        BY <2>2, <3>1, <3>2, <4>1, ZenonT(60) DEF HearsTarget, Hears, Excused
    <3> QED
      BY <3>3, <3>4
  <2> QED
    BY <2>1, <2>4, <2>5, <2>6, Together
<1>3. ASSUME NEW private \in BOOLEAN, CreateChannel(s, r, private) PROVE IInv'
  <2> DEFINE c == [by |-> UserOf[s], private |-> private, topic |-> "",
                   role |-> [u \in Users |-> IF u = UserOf[s] THEN "admin" ELSE "none"]]
  <2>1. c \in Channel /\ Change(NodeOf[s], r, c) /\ c.role[UserOf[s]] # "none"
    BY <1>0, <1>3 DEF CreateChannel, Channel, Roles
  <2>2. /\ Tabled /\ IsMember(NodeOf[s], r, UserOf[s])'
        /\ \A m \in Nodes, q \in Rooms, v \in Users : IsMember(m, q, v) => IsMember(m, q, v)'
    <3>1. ~Exists(NodeOf[s], r)
      BY <1>3 DEF CreateChannel
    <3> HIDE DEF c
    <3> QED
      BY <1>0, <2>1, <3>1, NewKeeps DEF Tabled
  <2>3. \A t \in Sessions, q \in Rooms : Hears(t, q) => Hears(t, q)'
    BY <1>3, <2>2, JoinHears DEF CreateChannel
  <2>4. Plain
    BY <1>3 DEF Plain, CreateChannel, procVars, sessionVars, Returned, TypeOK, Memberships
  <2>5. active' = active /\ moving' = moving /\ up' = up
    BY <1>3 DEF CreateChannel, procVars, sessionVars
  <2>6. OutIsStill'
    BY <2>5 DEF OutIsStill
  <2>7. HearsTarget'
    <3> SUFFICES ASSUME NEW t \in Sessions, active'[t] # "out"
                 PROVE  Hears(t, General)' /\ Hears(t, Target(t))'
      BY DEF HearsTarget
    <3>1. Target(t)' = Target(t) /\ Target(t) \in Rooms
      BY <2>5, TargetTypes DEF Target, Moved
    <3> QED
      BY <2>3, <2>5, <3>1, ChannelsAssumption DEF HearsTarget, Hears, Excused
  <2> QED
    BY <2>2, <2>4, <2>6, <2>7, Together
<1> QED
  BY <1>1, <1>2, <1>3

\* /channel leave: the session will be elsewhere, or has left "general".
LEMMA LeavingKeeps ==
  ASSUME IInv, NEW s \in Sessions, NEW r \in Rooms, LeaveChannel(s, r)
  PROVE  IInv'
<1> USE DEF IInv
<1>1. NodeOf[s] \in Nodes /\ UserOf[s] \in Users
  BY ChannelsAssumption
<1>2. /\ Tabled
      /\ \A m \in Nodes, q \in Rooms, v \in Users :
           (m # NodeOf[s] \/ q # r \/ v # UserOf[s]) /\ IsMember(m, q, v) => IsMember(m, q, v)'
  <2>1. CASE Exists(NodeOf[s], r)
    BY <1>1, <2>1, LeaveKeeps DEF LeaveChannel, Tabled
  <2>2. CASE ~Exists(NodeOf[s], r)
    BY <2>2 DEF LeaveChannel, tableVars, Tabled, TypeOK, Files, GeneralExists, Exists, IsMember
  <2> QED
    BY <2>1, <2>2
<1>3. leavers' = leavers \cup {<<s, r>>} /\ active' = active /\ up' = up
  BY DEF LeaveChannel, procVars
<1>4. \A t \in Sessions, q \in Rooms :
        Hears(t, q) /\ ~(t = s /\ q = r /\ r # General) => Hears(t, q)'
  BY <1>2, <1>3, LeaveHears
<1>5. /\ moving' \in [Sessions -> {Still} \cup Memberships]
      /\ moving'[s] = [op |-> "leave", room |-> r] /\ moving'[s] # Still
      /\ \A t \in Sessions \ {s} : moving'[t] = moving[t]
  BY BeginTypes DEF LeaveChannel
<1>6. Plain
  BY <1>1, <1>5 DEF Plain, LeaveChannel, procVars, TypeOK
<1>7. OutIsStill'
  BY <1>3, <1>5 DEF LeaveChannel, Ready, OutIsStill
<1>8. ASSUME NEW t \in Sessions, active'[t] # "out"
      PROVE  Hears(t, General)' /\ Hears(t, Target(t))'
  <2>1. Hears(t, General)'
    BY <1>3, <1>4, <1>8, ChannelsAssumption DEF HearsTarget
  <2>2. CASE t = s
    <3>1. moving[s] = Still /\ Target(s) = active[s]
      BY DEF LeaveChannel, Ready, Target
    <3>2. moving'[s].op = "leave" /\ moving'[s].room = r
      BY <1>5
    <3>3. Target(s)' = IF active[s] = r THEN General ELSE active[s]
      BY <1>3, <1>5, <3>2 DEF Target, Moved
    <3>4. CASE active[s] = r
      BY <2>1, <2>2, <3>3, <3>4 DEF Hears, Excused
    <3>5. CASE active[s] # r
      <4>1. active[s] \in Rooms /\ Hears(s, active[s])
        BY <1>3, <1>8, <2>2, <3>1 DEF HearsTarget, TypeOK
      <4> QED
        BY <1>4, <2>1, <2>2, <3>3, <3>5, <4>1, ZenonT(60) DEF Hears, Excused
    <3> QED
      BY <2>1, <3>4, <3>5
  <2>3. CASE t # s
    <3>1. Target(t)' = Target(t) /\ Target(t) \in Rooms
      BY <1>3, <1>5, <1>8, <2>3, TargetTypes DEF Target, Moved
    <3> QED
      <4>1. Hears(t, Target(t))
        BY <1>3, <1>8 DEF HearsTarget
      <4>2. \A q \in Rooms : Hears(t, q) => Hears(t, q)'
        BY <1>4, <2>3
      <4> QED
        BY <2>1, <3>1, <4>1, <4>2 DEF Hears, Excused
  <2> QED
    BY <2>1, <2>2, <2>3
<1> QED
  BY <1>2, <1>6, <1>7, <1>8, Together DEF HearsTarget

\* Steps of a session after which everyone hears what they heard: the target of the
\* session is a room it hears.
LEMMA SessionKeeps ==
  ASSUME IInv, NEW s \in Sessions, NEW r \in Rooms,
         Logout(s) \/ Move(s) \/ SwitchChannel(s, r) \/ SetTopic(s, r)
  PROVE  IInv'
<1> USE DEF IInv
<1>1. NodeOf[s] \in Nodes /\ UserOf[s] \in Users
  BY ChannelsAssumption
<1>2. Tabled /\ \A m \in Nodes, q \in Rooms, v \in Users : IsMember(m, q, v) => IsMember(m, q, v)'
  <2>1. CASE SetTopic(s, r)
    <3>1. PICK topic \in Topics : Change(NodeOf[s], r, [channels[NodeOf[s]][r] EXCEPT !.topic = topic])
      BY <2>1 DEF SetTopic
    <3> DEFINE c == [channels[NodeOf[s]][r] EXCEPT !.topic = topic]
    <3>2. channels[NodeOf[s]][r] \in Channel
      BY <1>1, <2>1 DEF SetTopic, Exists, TypeOK, Tables
    <3>3. c \in Channel /\ c.role = channels[NodeOf[s]][r].role
      BY <3>2 DEF Channel
    <3> HIDE DEF c
    <3> QED
      BY <1>1, <3>1, <3>3, NewKeeps DEF c, Tabled
  <2>2. CASE UNCHANGED tableVars
    BY <2>2 DEF tableVars, Tabled, TypeOK, Files, GeneralExists, Exists, IsMember
  <2> QED
    BY <2>1, <2>2 DEF Logout, Move, SwitchChannel
<1>3. leavers' = leavers /\ created' = created /\ resigned' = resigned /\ up' = up /\ started' = started
  BY DEF Logout, Move, SwitchChannel, SetTopic, procVars, ghosts
<1>4. \A t \in Sessions, q \in Rooms : Hears(t, q) => Hears(t, q)'
  BY <1>2, <1>3, SameHears
<1>5. /\ moving' \in [Sessions -> {Still} \cup Memberships]
      /\ active' \in [Sessions -> Rooms \cup {"out"}]
      /\ \A t \in Sessions \ {s} : active'[t] = active[t] /\ moving'[t] = moving[t]
      /\ active'[s] = "out" => moving'[s] = Still
      /\ active'[s] # "out" => active[s] # "out"
      /\ active'[s] # "out" => Target(s)' = Target(s) \/ (Target(s)' = r /\ SwitchChannel(s, r))
  <2>1. CASE Logout(s)
    BY <2>1 DEF Logout, Ready, TypeOK, Memberships
  <2>2. CASE Move(s)
    <3>1. active[s] # "out"
      BY <2>2 DEF Move, OutIsStill
    <3>2. Moved(s) = Target(s) /\ Moved(s) \in Rooms
      BY <2>2, <3>1, TargetTypes DEF Move, Target
    <3>3. moving'[s] = Still /\ active'[s] = Moved(s)
      BY <2>2 DEF Move, TypeOK
    <3>4. Target(s)' = Target(s)
      BY <3>2, <3>3 DEF Target
    <3> QED
      BY <2>2, <3>1, <3>2, <3>3, <3>4, ChannelsAssumption DEF Move, TypeOK, Memberships
  <2>3. CASE SwitchChannel(s, r)
    <3>1. /\ moving' \in [Sessions -> {Still} \cup Memberships]
          /\ moving'[s] = [op |-> "switch", room |-> r] /\ moving'[s] # Still
          /\ \A t \in Sessions \ {s} : moving'[t] = moving[t]
      BY <2>3, BeginTypes DEF SwitchChannel
    <3>2. moving'[s].op # "leave" /\ moving'[s].room = r
      BY <3>1
    <3>3. Moved(s)' = r
      BY <3>2 DEF Moved
    <3>4. Target(s)' = r
      BY <3>1, <3>3 DEF Target
    <3> QED
      BY <2>3, <3>1, <3>4 DEF SwitchChannel, Ready, TypeOK
  <2>4. CASE SetTopic(s, r)
    <3>1. active' = active /\ moving' = moving /\ active[s] # "out"
      BY <2>4 DEF SetTopic, sessionVars, Ready
    <3>2. Target(s)' = Target(s)
      BY <3>1 DEF Target, Moved
    <3> QED
      BY <3>1, <3>2 DEF TypeOK, Memberships
  <2> QED
    BY <2>1, <2>2, <2>3, <2>4
<1>6. Plain
  BY <1>3, <1>5 DEF Plain, TypeOK
<1>7. OutIsStill'
  BY <1>3, <1>5 DEF OutIsStill
<1>8. ASSUME NEW t \in Sessions, active'[t] # "out"
      PROVE  Hears(t, General)' /\ Hears(t, Target(t))'
  <2>1. active[t] # "out"
    BY <1>5, <1>8
  <2>2. Hears(t, General)' /\ Hears(t, Target(t)) /\ Target(t) \in Rooms
    BY <1>4, <2>1, TargetTypes, ChannelsAssumption DEF HearsTarget
  <2>3. Target(t)' = Target(t) \/ (t = s /\ Target(t)' = r /\ SwitchChannel(s, r))
    BY <1>5, <1>8 DEF Target, Moved
  <2>4. CASE Target(t)' = Target(t)
    BY <1>4, <2>2, <2>4, ZenonT(60) DEF Hears, Excused
  <2>5. CASE t = s /\ Target(t)' = r /\ SwitchChannel(s, r)
    BY <1>1, <1>2, <2>2, <2>5 DEF SwitchChannel, Hears
  <2> QED
    BY <2>2, <2>3, <2>4, <2>5
<1> QED
  BY <1>2, <1>6, <1>7, <1>8, Together DEF HearsTarget

\* A process starts or dies: its sessions are out.
LEMMA ProcessKeeps ==
  ASSUME IInv, NEW n \in Nodes, Start(n) \/ Crash(n)
  PROVE  IInv'
<1> USE DEF IInv
<1>1. Tabled /\ channels' \in [Nodes -> Tables] /\ \A m \in Nodes \ {n} : channels'[m] = channels[m]
  <2>1. CASE Start(n) /\ file.form = "whole"
    <3>1. channels' = [channels EXCEPT ![n] = file.table] /\ file' = file /\ faults' = faults
      BY <2>1 DEF Start, Loaded
    <3>2. file.table \in Tables
      BY DEF TypeOK
    <3> QED
      BY <3>1, <3>2 DEF Tabled, TypeOK, Files, GeneralExists, Exists
  <2>2. CASE Start(n) /\ file.form # "whole"
    <3>1. channels' = [channels EXCEPT ![n] = Fresh] /\ Put(n, Fresh)
      BY <2>2 DEF Start
    <3>2. file' \in Files /\ faults' \in 0..MaxFaults /\ file'.table[General] # NoChannel
      BY <3>1, ConstantTypes, PutKeeps
    <3> QED
      BY <3>1, <3>2, ConstantTypes DEF Tabled, TypeOK, GeneralExists, Exists
  <2>3. CASE Crash(n)
    BY <2>3, ConstantTypes DEF Crash, Tabled, TypeOK, Files, GeneralExists, Exists
  <2> QED
    BY <2>1, <2>2, <2>3
<1>2. /\ active' \in [Sessions -> Rooms \cup {"out"}]
      /\ moving' \in [Sessions -> {Still} \cup Memberships]
      /\ leavers' = leavers /\ created' = created /\ resigned' = resigned
      /\ \A s \in Sessions :
           IF NodeOf[s] = n THEN active'[s] = "out" /\ moving'[s] = Still
                            ELSE active'[s] = active[s] /\ moving'[s] = moving[s]
  BY DEF Start, Crash, sessionVars, ghosts, TypeOK, Memberships, OutIsStill
<1>3. up' \in [Nodes -> BOOLEAN] /\ started' \in SUBSET Nodes /\ \A m \in Nodes \ {n} : up'[m] = up[m]
  BY DEF Start, Crash, TypeOK
<1>4. Plain
  BY <1>2, <1>3 DEF Plain, TypeOK
<1>5. OutIsStill'
  BY <1>2, <1>3, ChannelsAssumption DEF OutIsStill
<1>6. ASSUME NEW s \in Sessions, active'[s] # "out"
      PROVE  Hears(s, General)' /\ Hears(s, Target(s))'
  <2>1. NodeOf[s] \in Nodes \ {n} /\ active'[s] = active[s] /\ moving'[s] = moving[s]
    BY <1>2, <1>6, ChannelsAssumption
  <2>2. Target(s)' = Target(s)
    BY <2>1 DEF Target, Moved
  <2>3. Hears(s, General) /\ Hears(s, Target(s))
    BY <1>6, <2>1 DEF HearsTarget
  <2> QED
    BY <1>1, <1>2, <2>1, <2>2, <2>3 DEF Hears, Excused, IsMember, Exists
<1> QED
  BY <1>1, <1>4, <1>5, <1>6, Together DEF HearsTarget

\* Every step keeps the invariant.
LEMMA NextKeeps == IInv /\ [Next]_vars => IInv'
<1> SUFFICES ASSUME IInv, [Next]_vars PROVE IInv'
  OBVIOUS
<1>1. CASE UNCHANGED vars
  BY <1>1, ZenonT(60) DEF vars, procVars, tableVars, sessionVars, ghosts, IInv, TypeOK, GeneralExists, Exists,
     OutIsStill, HearsTarget, Hears, Excused, IsMember, Target, Moved
<1>2. CASE Next
  <2>1. General \in Rooms
    BY ChannelsAssumption
  <2> QED
    BY <1>2, <2>1, ProcessKeeps, ComingKeeps, LeavingKeeps, SessionKeeps DEF Next
<1> QED
  BY <1>1, <1>2

\* The invariant always holds.
LEMMA AlwaysIInv == Spec => []IInv
<1>1. IInv /\ [Next]_vars => IInv'
  BY NextKeeps
<1> QED
  BY <1>1, InitHolds, PTL DEF Spec

\* The tables, the file and the sessions have their types.
THEOREM ChannelTypes == Spec => []TypeOK
<1>1. IInv => TypeOK
  BY DEF IInv
<1> QED
  BY <1>1, AlwaysIInv, PTL

\* A session between commands is a member of the channel it posts to, unless another
\* session of its user, or it itself in "general", left (commands.go:324-365,
\* client.go:138-150): whatever fails, crashes or is started again.
THEOREM SessionsHearThemselves == Spec => []HearsWhereItPosts
<1>1. IInv => HearsWhereItPosts
  <2> SUFFICES ASSUME IInv, NEW s \in Sessions, active[s] # "out", moving[s] = Still
               PROVE  \/ IsMember(NodeOf[s], active[s], UserOf[s])
                      \/ active[s] = General /\ <<s, General>> \in leavers
                      \/ \E t \in Sessions \ {s} : UserOf[t] = UserOf[s] /\ <<t, active[s]>> \in leavers
    BY DEF HearsWhereItPosts
  <2> QED
    BY DEF IInv, HearsTarget, Hears, Excused, Target
<1> QED
  BY <1>1, AlwaysIInv, PTL

-----------------------------------------------------------------------------
(* What is kept while one process has the directory and no save fails *)

\* A process that was never started is down.
Down == \A m \in Nodes \ started : ~up[m]

\* Memory is what the file says, the file has every channel that was created, and an
\* administrator who left is none in it.  The channels that were left are in it too:
\* nobody can create one of them anew.
Kept ==
  /\ file.form # "whole" => started = {} /\ created = {} /\ resigned = {}
  /\ \A n \in Nodes : up[n] => channels[n] = file.table
  /\ \A r \in created : file.table[r] # NoChannel
  /\ \A e \in resigned : /\ file.table[e[1]] # NoChannel
                         /\ file.table[e[1]].role[e[2]] # "admin"

KeptInv == Down /\ (Undisturbed => Kept)

\* A save fails, or it does not.
LEMMA PutFaults ==
  ASSUME TypeOK, NEW n \in Nodes, NEW t, Put(n, t)
  PROVE  faults' = 0 => faults = 0
BY ChannelsAssumption DEF Put, TypeOK

\* No step undoes a disturbance.
LEMMA DisturbedStays ==
  ASSUME TypeOK, [Next]_vars
  PROVE  started \subseteq started' /\ (faults' = 0 => faults = 0)
<1>1. ASSUME NEW n \in Nodes, Start(n) \/ Crash(n)
      PROVE  started \subseteq started' /\ (faults' = 0 => faults = 0)
  BY <1>1, PutFaults DEF Start, Crash
<1>2. ASSUME NEW n \in Nodes, NEW r, NEW c, Change(n, r, c)
      PROVE  faults' = 0 => faults = 0
  BY <1>2, PutFaults DEF Change
<1>3. ASSUME NEW s \in Sessions, NEW r \in Rooms,
             \/ Login(s) \/ Logout(s) \/ Move(s) \/ JoinChannel(s, r) \/ LeaveChannel(s, r)
             \/ SwitchChannel(s, r) \/ SetTopic(s, r)
             \/ \E private \in BOOLEAN : CreateChannel(s, r, private)
      PROVE  started' = started /\ (faults' = 0 => faults = 0)
  <2>1. NodeOf[s] \in Nodes
    BY ChannelsAssumption
  <2>2. started' = started
    BY <1>3 DEF Login, Logout, Move, JoinChannel, LeaveChannel, SwitchChannel, SetTopic,
                CreateChannel, procVars
  <2>3. faults' = faults \/ \E q, c : Change(NodeOf[s], q, c)
    BY <1>3 DEF Login, Logout, Move, JoinChannel, LeaveChannel, SwitchChannel, SetTopic,
                CreateChannel, Join, Leave, tableVars
  <2> QED
    BY <1>2, <2>1, <2>2, <2>3
<1>4. CASE UNCHANGED vars
  BY <1>4 DEF vars, procVars, tableVars
<1> QED
  BY <1>1, <1>3, <1>4, ChannelsAssumption DEF Next

\* A process that runs has been started.
LEMMA DownStays == Down /\ TypeOK /\ [Next]_vars => Down'
<1> SUFFICES ASSUME Down, TypeOK, [Next]_vars PROVE Down'
  OBVIOUS
<1>1. ASSUME NEW n \in Nodes, Start(n) \/ Crash(n) PROVE Down'
  BY <1>1 DEF Start, Crash, Down, TypeOK
<1>2. ASSUME UNCHANGED procVars PROVE Down'
  BY <1>2 DEF Down, procVars
<1> QED
  BY <1>1, <1>2 DEF Next, vars, Login, Logout, Move, JoinChannel, LeaveChannel, SwitchChannel,
                    SetTopic, CreateChannel

\* While nothing is disturbed, a save writes the table.
LEMMA PutWhole ==
  ASSUME TypeOK, Down, Undisturbed', NEW n \in Nodes, n \in started', started \subseteq started',
         NEW t, Put(n, t)
  PROVE  file' = Whole(t)
<1>1. ~(\E m \in Nodes \ {n} : up[m])
  BY DEF Undisturbed, Down
<1>2. ~(faults < MaxFaults /\ faults' = faults + 1 /\ UNCHANGED file)
  BY ChannelsAssumption DEF Undisturbed, TypeOK
<1> QED
  BY <1>1, <1>2 DEF Put

\* A change of one channel, which a session of the process that is alone asked for.
LEMMA ChangeIsKept ==
  ASSUME IInv, Down, Kept, Undisturbed', NEW n \in Nodes, up[n], NEW r \in Rooms, NEW c \in Channel,
         Change(n, r, c), UNCHANGED procVars,
         created' \subseteq created \cup {r},
         \A e \in resigned' : e \in resigned \/ e[1] = r,
         \A e \in resigned' : e[1] = r => c.role[e[2]] # "admin"
  PROVE  Kept'
<1>1. c # NoChannel
  <2>1. "topic" \in DOMAIN c /\ "topic" \notin DOMAIN NoChannel
    BY DEF Channel, NoChannel
  <2> QED
    BY <2>1
<1>2. n \in started' /\ up' = up /\ started' = started
  BY DEF Down, procVars
<1>3. file' = Whole(channels'[n])
  BY <1>2, PutWhole DEF Change, IInv
<1>4. file'.form = "whole" /\ file'.table = channels'[n]
  BY <1>3 DEF Whole
<1>5. channels'[n] = [file.table EXCEPT ![r] = c] /\ file.table \in Tables
  BY DEF Change, Kept, IInv, TypeOK
<1>6. channels'[n][r] = c /\ \A q \in Rooms \ {r} : channels'[n][q] = file.table[q]
  BY <1>5 DEF Tables
<1>7. created \subseteq Rooms /\ resigned \subseteq Rooms \X Users
  BY DEF IInv, TypeOK
<1>8. \A m \in Nodes : up'[m] => m = n
  BY <1>2 DEF Undisturbed, Down
<1>9. \A q \in created' : file'.table[q] # NoChannel
  BY <1>1, <1>4, <1>6, <1>7 DEF Kept
<1>10. ASSUME NEW e \in resigned'
       PROVE  file'.table[e[1]] # NoChannel /\ file'.table[e[1]].role[e[2]] # "admin"
  <2>1. CASE e[1] = r
    BY <1>1, <1>4, <1>6, <2>1
  <2>2. CASE e[1] # r
    <3>1. e \in resigned /\ e[1] \in Rooms \ {r}
      BY <1>7, <2>2
    <3> QED
      BY <1>4, <1>6, <3>1 DEF Kept
  <2> QED
    BY <2>1, <2>2
<1> QED
  BY <1>4, <1>8, <1>9, <1>10 DEF Kept

\* Nothing of it changes.
LEMMA SameIsKept ==
  ASSUME Kept, UNCHANGED <<procVars, tableVars, created, resigned>>
  PROVE  Kept'
BY DEF Kept, procVars, tableVars

\* Coming to a room, or creating one, makes nobody who left it an administrator.
LEMMA ComingIsKept ==
  ASSUME IInv, Down, Kept, Undisturbed', NEW s \in Sessions, NEW r \in Rooms,
         \/ Login(s) \/ JoinChannel(s, r)
         \/ \E private \in BOOLEAN : CreateChannel(s, r, private)
  PROVE  Kept'
<1>0. NodeOf[s] \in Nodes /\ UserOf[s] \in Users /\ General \in Rooms
  BY ChannelsAssumption
<1>1. up[NodeOf[s]] /\ channels[NodeOf[s]] = file.table
  BY <1>0 DEF Login, JoinChannel, CreateChannel, Ready, Kept
<1>2. ASSUME NEW q \in Rooms, Exists(NodeOf[s], q), Join(NodeOf[s], q, UserOf[s]),
             UNCHANGED <<procVars, created, resigned>>
      PROVE  Kept'
  <2>1. CASE IsMember(NodeOf[s], q, UserOf[s])
    BY <1>2, <2>1, SameIsKept DEF Join
  <2>2. CASE ~IsMember(NodeOf[s], q, UserOf[s])
    <3> DEFINE c == [channels[NodeOf[s]][q] EXCEPT !.role[UserOf[s]] = "member"]
    <3>1. /\ c \in Channel /\ Change(NodeOf[s], q, c)
          /\ c.role = [channels[NodeOf[s]][q].role EXCEPT ![UserOf[s]] = "member"]
          /\ channels[NodeOf[s]][q].role \in [Users -> Roles]
      <4>1. "member" \in Roles /\ Change(NodeOf[s], q, c)
        BY <1>2, <2>2 DEF Roles, Join
      <4> QED
        BY <1>0, <1>2, <4>1, RoleTypes DEF IInv
    <3> HIDE DEF c
    <3>2. ASSUME NEW e \in resigned, e[1] = q PROVE c.role[e[2]] # "admin"
      <4>1. channels[NodeOf[s]][q].role[e[2]] # "admin" /\ e[2] \in Users
        BY <1>1, <3>2 DEF Kept, IInv, TypeOK
      <4> QED
        BY <3>1, <4>1
    <3>3. /\ UNCHANGED procVars /\ created' \subseteq created \cup {q}
          /\ \A e \in resigned' : e \in resigned \/ e[1] = q
          /\ \A e \in resigned' : e[1] = q => c.role[e[2]] # "admin"
      BY <1>2, <3>2
    <3>4. c \in Channel /\ Change(NodeOf[s], q, c)
      BY <3>1
    <3> QED
      BY <1>0, <1>1, <3>3, <3>4, ChangeIsKept
  <2> QED
    BY <2>1, <2>2
<1>3. CASE Login(s)
  BY <1>0, <1>2, <1>3 DEF Login, IInv, GeneralExists
<1>4. CASE JoinChannel(s, r)
  BY <1>2, <1>4 DEF JoinChannel
<1>5. ASSUME NEW private \in BOOLEAN, CreateChannel(s, r, private) PROVE Kept'
  <2> DEFINE c == [by |-> UserOf[s], private |-> private, topic |-> "",
                   role |-> [u \in Users |-> IF u = UserOf[s] THEN "admin" ELSE "none"]]
  <2>1. c \in Channel /\ Change(NodeOf[s], r, c)
    BY <1>0, <1>5 DEF CreateChannel, Channel, Roles
  <2>2. \A e \in resigned : e[1] # r
    BY <1>1, <1>5 DEF CreateChannel, Exists, Kept
  <2>3. created' = created \cup {r} /\ resigned' = resigned /\ UNCHANGED procVars
    BY <1>5 DEF CreateChannel
  <2> HIDE DEF c
  <2> QED
    BY <1>0, <1>1, <2>1, <2>2, <2>3, ChangeIsKept
<1> QED
  BY <1>3, <1>4, <1>5

\* Leaving takes the role away, in the file too.
LEMMA LeavingIsKept ==
  ASSUME IInv, Down, Kept, Undisturbed', NEW s \in Sessions, NEW r \in Rooms, LeaveChannel(s, r)
  PROVE  Kept'
<1>0. NodeOf[s] \in Nodes /\ UserOf[s] \in Users
  BY ChannelsAssumption
<1>1. up[NodeOf[s]] /\ channels[NodeOf[s]] = file.table
  BY <1>0 DEF LeaveChannel, Ready, Kept
<1>2. UNCHANGED <<procVars, created>>
  BY DEF LeaveChannel
<1>3. CASE Exists(NodeOf[s], r)
  <2> DEFINE c == [channels[NodeOf[s]][r] EXCEPT !.role[UserOf[s]] = "none"]
  <2>1. /\ c \in Channel /\ Change(NodeOf[s], r, c)
        /\ c.role = [channels[NodeOf[s]][r].role EXCEPT ![UserOf[s]] = "none"]
        /\ channels[NodeOf[s]][r].role \in [Users -> Roles]
    <3>1. "none" \in Roles /\ Change(NodeOf[s], r, c)
      BY <1>3 DEF Roles, LeaveChannel, Leave
    <3> QED
      BY <1>0, <1>3, <3>1, RoleTypes DEF IInv
  <2> HIDE DEF c
  <2>2. resigned' \subseteq resigned \cup {<<r, UserOf[s]>>}
    BY <1>3 DEF LeaveChannel
  <2>3. ASSUME NEW e \in resigned', e[1] = r PROVE c.role[e[2]] # "admin"
    <3>1. CASE e[2] = UserOf[s]
      BY <1>0, <2>1, <3>1
    <3>2. CASE e[2] # UserOf[s]
      <4>1. e \in resigned
        BY <2>2, <3>2
      <4>2. channels[NodeOf[s]][r].role[e[2]] # "admin" /\ e[2] \in Users
        BY <1>1, <2>3, <4>1 DEF Kept, IInv, TypeOK
      <4> QED
        BY <2>1, <3>2, <4>2
    <3> QED
      BY <3>1, <3>2
  <2>4. /\ UNCHANGED procVars /\ created' \subseteq created \cup {r}
        /\ \A e \in resigned' : e \in resigned \/ e[1] = r
        /\ \A e \in resigned' : e[1] = r => c.role[e[2]] # "admin"
    BY <1>2, <2>2, <2>3
  <2>5. c \in Channel /\ Change(NodeOf[s], r, c)
    BY <2>1
  <2> QED
    BY <1>0, <1>1, <2>4, <2>5, ChangeIsKept
<1>4. CASE ~Exists(NodeOf[s], r)
  BY <1>2, <1>4, SameIsKept DEF LeaveChannel
<1> QED
  BY <1>3, <1>4

\* A new topic leaves the roles alone; the other steps change no table.
LEMMA SessionIsKept ==
  ASSUME IInv, Down, Kept, Undisturbed', NEW s \in Sessions, NEW r \in Rooms,
         Logout(s) \/ Move(s) \/ SwitchChannel(s, r) \/ SetTopic(s, r)
  PROVE  Kept'
<1>1. CASE SetTopic(s, r)
  <2>0. NodeOf[s] \in Nodes
    BY ChannelsAssumption
  <2>1. up[NodeOf[s]] /\ channels[NodeOf[s]] = file.table
    BY <1>1, <2>0 DEF SetTopic, Ready, Kept
  <2>2. PICK topic \in Topics :
          Change(NodeOf[s], r, [channels[NodeOf[s]][r] EXCEPT !.topic = topic])
    BY <1>1 DEF SetTopic
  <2> DEFINE c == [channels[NodeOf[s]][r] EXCEPT !.topic = topic]
  <2>3. channels[NodeOf[s]][r] \in Channel
    BY <1>1, <2>0 DEF SetTopic, Exists, IInv, TypeOK, Tables
  <2>4. c \in Channel /\ c.role = channels[NodeOf[s]][r].role /\ Change(NodeOf[s], r, c)
    BY <2>2, <2>3 DEF Channel
  <2>5. UNCHANGED <<procVars, created, resigned>>
    BY <1>1 DEF SetTopic, ghosts
  <2> HIDE DEF c
  <2>6. \A e \in resigned : e[1] = r => c.role[e[2]] # "admin"
    BY <2>1, <2>4 DEF Kept
  <2> QED
    BY <2>0, <2>1, <2>4, <2>5, <2>6, ChangeIsKept
<1>2. CASE Logout(s) \/ Move(s) \/ SwitchChannel(s, r)
  BY <1>2, SameIsKept DEF Logout, Move, SwitchChannel, ghosts
<1> QED
  BY <1>1, <1>2

\* A start reads the file, or makes the first one.
LEMMA ProcessIsKept ==
  ASSUME IInv, Down, Kept, Undisturbed', NEW n \in Nodes, Start(n) \/ Crash(n)
  PROVE  Kept'
<1> USE DEF IInv
<1>1. created' = created /\ resigned' = resigned
  BY DEF Start, Crash, ghosts
<1>2. CASE Crash(n)
  <2>1. file' = file /\ started' = started /\ \A m \in Nodes : up'[m] => up[m] /\ channels'[m] = channels[m]
    BY <1>2 DEF Crash, TypeOK
  <2> QED
    BY <1>1, <2>1 DEF Kept
<1>3. CASE Start(n)
  <2>1. n \in started' /\ started' = started \cup {n}
    BY <1>3 DEF Start
  <2>2. \A m \in Nodes : up'[m] => m = n
    BY <1>3, <2>1 DEF Start, Undisturbed, Down, TypeOK
  <2>3. CASE file.form = "whole"
    <3>1. channels'[n] = file.table /\ file' = file
      BY <1>3, <2>3 DEF Start, Loaded, TypeOK
    <3> QED
      BY <1>1, <2>2, <2>3, <3>1 DEF Kept
  <2>4. CASE file.form # "whole"
    <3>1. channels'[n] = Fresh /\ Put(n, Fresh)
      BY <1>3, <2>4 DEF Start, TypeOK
    <3>2. file' = Whole(Fresh)
      BY <2>1, <3>1, PutWhole
    <3>3. file'.form = "whole" /\ file'.table = Fresh
      BY <3>2 DEF Whole
    <3>4. created' = {} /\ resigned' = {}
      BY <1>1, <2>4 DEF Kept
    <3> QED
      BY <2>2, <3>1, <3>3, <3>4 DEF Kept
  <2> QED
    BY <2>3, <2>4
<1> QED
  BY <1>2, <1>3

\* Every step keeps it.
LEMMA NextIsKept == IInv /\ KeptInv /\ [Next]_vars => KeptInv'
<1> SUFFICES ASSUME IInv, KeptInv, [Next]_vars PROVE KeptInv'
  OBVIOUS
<1>1. Down'
  BY DownStays DEF IInv, KeptInv
<1>2. ASSUME Undisturbed' PROVE Kept'
  <2>1. Down /\ Kept
    BY <1>2, DisturbedStays DEF IInv, KeptInv, Undisturbed
  <2>2. CASE UNCHANGED vars
    BY <2>1, <2>2, SameIsKept DEF vars, ghosts
  <2>3. CASE Next
    <3>1. General \in Rooms
      BY ChannelsAssumption
    <3> QED
      BY <1>2, <2>1, <2>3, <3>1, ProcessIsKept, ComingIsKept, LeavingIsKept, SessionIsKept
         DEF Next
  <2> QED
    BY <2>2, <2>3
<1> QED
  BY <1>1, <1>2 DEF KeptInv

\* The invariant always holds.
LEMMA AlwaysKept == Spec => [](IInv /\ KeptInv)
<1>1. Init => KeptInv
  BY DEF Init, KeptInv, Down, Kept
<1>2. IInv /\ KeptInv /\ [Next]_vars => (IInv /\ KeptInv)'
  BY NextKeeps, NextIsKept
<1> QED
  BY <1>1, <1>2, InitHolds, PTL DEF Spec

\* While one process has the directory and no save fails, no channel whose creation
\* was answered is lost, whenever the process dies (channel.go:57-69, 80-112, 247-265).
THEOREM CreatedChannelsSurvive == Spec => []ChannelsSurvive
<1>1. KeptInv => ChannelsSurvive
  BY DEF KeptInv, Kept, ChannelsSurvive, Exists
<1> QED
  BY <1>1, AlwaysKept, PTL

\* Under the same conditions nobody who left a channel is its administrator again,
\* whatever is joined, created or loaded later (channel.go:107-127, 247-265).
THEOREM LeavingIsForGood == Spec => []ResignedForGood
<1>1. KeptInv => ResignedForGood
  BY DEF KeptInv, Kept, ResignedForGood, Exists
<1> QED
  BY <1>1, AlwaysKept, PTL
=============================================================================
