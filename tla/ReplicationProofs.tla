------------------------- MODULE ReplicationProofs -------------------------
(***************************************************************************)
(* For any nodes and any connections between them, several between the   *)
(* same two included:                                                      *)
(*  - the types of Replication;                                            *)
(*  - no node stores a message twice or brings back one that was deleted   *)
(*    there, unless it was sent to that node over two connections;         *)
(*  - once nothing is on its way, the copies of a chat at two nodes agree, *)
(*    unless one of them missed something, heard of a change before the    *)
(*    chat or was sent it twice, or it was edited twice.                   *)
(***************************************************************************)
EXTENDS Replication, SequenceTheorems, FiniteSetTheorems, WellFoundedInduction, TLAPS

-----------------------------------------------------------------------------
(* The operators of the store *)

\* The smallest of a set of numbers is one of them.
LEMMA MinIsMember ==
  ASSUME NEW S \in SUBSET Nat, S # {}
  PROVE  Min(S) \in S
<1> DEFINE Less == {ss \in Nat \X Nat : ss[1] < ss[2]}
<1>1. IsWellFoundedOn(Less, Nat)
  BY NatLessThanWellFounded DEF OpToRel
<1> HIDE DEF Less
<1>2. PICK n \in S : \A m \in S : ~(<<m, n>> \in Less)
  BY <1>1, WFMin
<1>3. \A i, j \in Nat : i < j => <<i, j>> \in Less
  BY DEF Less
<1>4. \A m \in S : ~(m < n)
  BY <1>2, <1>3, Zenon
<1>5. \A m \in S : n <= m
  BY <1>4
<1> QED
  BY <1>5 DEF Min

\* Find gives a place of the message, or 0 when it has none.
LEMMA FindPlace ==
  ASSUME NEW s \in Seq(Stored), NEW i \in Ids
  PROVE  /\ Find(s, i) \in 0..Len(s)
         /\ Find(s, i) # 0 => Find(s, i) \in 1..Len(s) /\ s[Find(s, i)].id = i
         /\ \A k \in Places(s, i) : Find(s, i) \in Places(s, i)
<1>1. Places(s, i) \in SUBSET Nat /\ Len(s) \in Nat
  BY DEF Places
<1>2. Places(s, i) # {} => Min(Places(s, i)) \in Places(s, i)
  BY <1>1, MinIsMember
<1>3. IF Places(s, i) = {} THEN Find(s, i) = 0 ELSE Find(s, i) = Min(Places(s, i))
  BY DEF Find
<1>4. \A k \in Places(s, i) : k \in 1..Len(s) /\ s[k].id = i
  BY DEF Places
<1> QED
  BY <1>1, <1>2, <1>3, <1>4

\* An edit or a reaction leaves the places and the ids.
LEMMA UpdatedKeeps ==
  ASSUME NEW s \in Seq(Stored), NEW i \in Ids, NEW t \in {"first"} \cup Sessions
  PROVE  /\ Updated(s, i, t) \in Seq(Stored)
         /\ Len(Updated(s, i, t)) = Len(s)
         /\ \A k \in 1..Len(s) : Updated(s, i, t)[k].id = s[k].id
<1> DEFINE e(k) == IF k = Find(s, i) THEN [s[k] EXCEPT !.text = t] ELSE s[k]
<1>1. Updated(s, i, t) = [k \in 1..Len(s) |-> e(k)]
  BY DEF Updated
<1>2. \A k \in 1..Len(s) : e(k) \in Stored /\ e(k).id = s[k].id
  <2>1. \A m \in Stored : LET x == [m EXCEPT !.text = t] IN x \in Stored /\ x.id = m.id
    BY DEF Stored
  <2>2. \A k \in 1..Len(s) : s[k] \in Stored
    OBVIOUS
  <2> QED
    BY <2>1, <2>2
<1> HIDE DEF e
<1> QED
  BY <1>1, <1>2, IsASeq, LenProperties

\* A reaction keeps the shape of a store, and every id in its place.
LEMMA LikedKeeps ==
  ASSUME NEW s \in Seq(Stored), NEW i \in Ids, NEW u \in Users
  PROVE  /\ Liked(s, i, u) \in Seq(Stored)
         /\ Len(Liked(s, i, u)) = Len(s)
         /\ \A k \in 1..Len(s) : Liked(s, i, u)[k].id = s[k].id
<1> DEFINE e(k) == IF k = Find(s, i) THEN [s[k] EXCEPT !.likes = s[k].likes \cup {u}] ELSE s[k]
<1>1. Liked(s, i, u) = [k \in 1..Len(s) |-> e(k)]
  BY DEF Liked
<1>2. \A k \in 1..Len(s) : e(k) \in Stored /\ e(k).id = s[k].id
  <2>1. \A m \in Stored : LET x == [m EXCEPT !.likes = m.likes \cup {u}] IN x \in Stored /\ x.id = m.id
    BY DEF Stored
  <2>2. \A k \in 1..Len(s) : s[k] \in Stored
    OBVIOUS
  <2> QED
    BY <2>1, <2>2
<1> HIDE DEF e
<1> QED
  BY <1>1, <1>2, IsASeq, LenProperties

\* A new message comes last.
LEMMA SavedKeeps ==
  ASSUME NEW s \in Seq(Stored), NEW i \in Ids
  PROVE  /\ Saved(s, i) \in Seq(Stored)
         /\ Len(Saved(s, i)) = Len(s) + 1
         /\ \A k \in 1..Len(s) : Saved(s, i)[k] = s[k]
         /\ Saved(s, i)[Len(s) + 1].id = i
<1>1. [id |-> i, text |-> "first", likes |-> {}] \in Stored
  BY DEF Stored
<1> QED
  BY <1>1, AppendProperties DEF Saved

\* A deletion takes the message out and moves what comes after it by one place.
LEMMA WithoutAt ==
  ASSUME NEW s \in Seq(Stored), NEW i \in Ids, Find(s, i) # 0
  PROVE  /\ Find(s, i) \in 1..Len(s) /\ s[Find(s, i)].id = i
         /\ Without(s, i) \in Seq(Stored)
         /\ Len(Without(s, i)) = Len(s) - 1
         /\ \A k \in 1..(Len(s) - 1) :
              IF k =< Find(s, i) - 1 THEN Without(s, i)[k] = s[k] ELSE Without(s, i)[k] = s[k + 1]
<1> DEFINE f == Find(s, i)
           front == SubSeq(s, 1, f - 1)
           back == SubSeq(s, f + 1, Len(s))
<1>1. f \in 1..Len(s) /\ s[f].id = i
  BY FindPlace
<1>2. /\ front \in Seq(Stored) /\ Len(front) = f - 1
      /\ \A k \in 1..(f - 1) : front[k] = s[k]
  <2>1. \A k \in 1..(f - 1) : s[k] \in Stored
    BY <1>1
  <2> HIDE DEF f
  <2> QED
    BY <1>1, <2>1, SubSeqProperties
<1>3. /\ back \in Seq(Stored) /\ Len(back) = Len(s) - f
      /\ \A k \in 1..(Len(s) - f) : back[k] = s[k + f]
  <2>1. \A k \in (f + 1)..Len(s) : s[k] \in Stored
    BY <1>1
  <2> HIDE DEF f
  <2> QED
    BY <1>1, <2>1, SubSeqProperties
<1>4. Without(s, i) = front \o back
  BY DEF Without, RemoveAt
<1> HIDE DEF f, front, back
<1>5. /\ Without(s, i) \in Seq(Stored)
      /\ Len(Without(s, i)) = Len(s) - 1
      /\ \A k \in 1..(Len(s) - 1) :
           Without(s, i)[k] = IF k =< f - 1 THEN front[k] ELSE back[k - (f - 1)]
  <2>1. /\ front \o back \in Seq(Stored)
        /\ Len(front \o back) = Len(front) + Len(back)
        /\ \A k \in 1..(Len(front) + Len(back)) :
             (front \o back)[k] = IF k =< Len(front) THEN front[k] ELSE back[k - Len(front)]
    BY <1>2, <1>3, ConcatProperties
  <2>2. Len(front) + Len(back) = Len(s) - 1 /\ Len(front) = f - 1
    BY <1>1, <1>2, <1>3
  <2> QED
    BY <1>4, <2>1, <2>2
<1>6. \A k \in 1..(Len(s) - 1) :
        IF k =< f - 1 THEN Without(s, i)[k] = s[k] ELSE Without(s, i)[k] = s[k + 1]
  <2> TAKE k \in 1..(Len(s) - 1)
  <2>1. CASE k =< f - 1
    BY <1>1, <1>2, <1>5, <2>1
  <2>2. CASE ~(k =< f - 1)
    <3>1. k - (f - 1) \in 1..(Len(s) - f) /\ k - (f - 1) + f = k + 1
      BY <1>1, <2>2
    <3> QED
      BY <1>3, <1>5, <2>2, <3>1
  <2> QED
    BY <2>1, <2>2
<1> QED
  BY <1>1, <1>5, <1>6 DEF f

\* Whether or not the message is there, what is left keeps its order.
LEMMA WithoutKeeps ==
  ASSUME NEW s \in Seq(Stored), NEW i \in Ids
  PROVE  /\ Without(s, i) \in Seq(Stored)
         /\ Len(Without(s, i)) =< Len(s)
         /\ \E c \in 0..Len(s) : \A k \in 1..Len(Without(s, i)) :
              IF k =< c THEN Without(s, i)[k] = s[k]
                        ELSE k + 1 =< Len(s) /\ Without(s, i)[k] = s[k + 1]
<1>1. CASE Find(s, i) = 0
  <2>1. Without(s, i) = s
    BY <1>1 DEF Without
  <2> QED
    BY <2>1
<1>2. CASE Find(s, i) # 0
  <2> DEFINE w == Without(s, i)  c == Find(s, i) - 1
  <2>1. /\ w \in Seq(Stored) /\ Len(w) = Len(s) - 1 /\ c \in 0..Len(s) /\ c + 1 =< Len(s)
        /\ \A k \in 1..(Len(s) - 1) : IF k =< c THEN w[k] = s[k] ELSE w[k] = s[k + 1]
    BY <1>2, WithoutAt
  <2> HIDE DEF w, c
  <2>2. \A k \in 1..Len(w) : IF k =< c THEN w[k] = s[k] ELSE k + 1 =< Len(s) /\ w[k] = s[k + 1]
    BY <2>1
  <2>3. Len(w) =< Len(s)
    BY <2>1
  <2>4. \E d \in 0..Len(s) : \A k \in 1..Len(w) :
          IF k =< d THEN w[k] = s[k] ELSE k + 1 =< Len(s) /\ w[k] = s[k + 1]
    BY <2>1, <2>2
  <2> QED
    BY <2>1, <2>3, <2>4 DEF w
<1> QED
  BY <1>1, <1>2

-----------------------------------------------------------------------------
(* Types *)

\* What the hub of a node sends, over connections that are its own.
LEMMA PacketFacts ==
  ASSUME NEW n \in Nodes, NEW m \in Messages,
         peers[n] \subseteq Conns, \A c \in peers[n] : n \in Ends[c]
  PROVE  /\ PacketsOf(n, m) \in SUBSET Packets
         /\ \A p \in PacketsOf(n, m) : p.msg = m /\ p.to # n
         /\ \A p, q \in PacketsOf(n, m) : p.to = q.to => p = q \/ p.to \in Twice(n)
<1>1. \A c \in peers[n] : Other(n, c) \in Nodes /\ Other(n, c) # n /\ Ends[c] = {n, Other(n, c)}
  BY ReplicationAssumption DEF Other
<1>2. \A c, d \in peers[n] : Other(n, c) = Other(n, d) => c = d \/ Other(n, c) \in Twice(n)
  BY <1>1 DEF Twice
<1>3. \A p \in PacketsOf(n, m) : \E c \in peers[n] : p = [conn |-> c, to |-> Other(n, c), msg |-> m]
  BY DEF PacketsOf, Targets
<1> QED
  BY <1>1, <1>2, <1>3 DEF Packets

\* The invariant: a message that a node has stored, or that is on its way to one, was
\* posted; what is in a store was counted; and of a message that the node was not sent
\* twice, one copy is on its way to it, or was, and one is in its store.
PeersAreEnds == \A n \in Nodes : \A c \in peers[n] : n \in Ends[c]
Carries(p, i) == p.msg.kind \in {"chat", "notice"} /\ p.msg.id = i
KnownIsPosted ==
  \A i \in Ids \ posted :
    /\ \A n \in Nodes : i \notin had[n]
    /\ \A p \in wire : ~Carries(p, i)
OneCopyOnTheWay ==
  \A i \in Ids : \A p, q \in wire :
    Carries(p, i) /\ Carries(q, i) /\ p.to = q.to => p = q \/ <<p.to, i>> \in doubled
NoLateCopy ==
  \A n \in Nodes : \A i \in had[n] : \A p \in wire :
    p.to = n /\ Carries(p, i) => <<n, i>> \in doubled
Once(s, i) == \A k, l \in Places(s, i) : k = l
IdsIn(s, S) == \A k \in 1..Len(s) : s[k].id \in S
StoreIsCounted ==
  \A n \in Nodes :
    /\ IdsIn(store[n], had[n])
    /\ \A i \in Ids : <<n, i>> \notin doubled => Once(store[n], i)

IInv ==
  /\ TypeOK
  /\ PeersAreEnds
  /\ KnownIsPosted
  /\ OneCopyOnTheWay
  /\ NoLateCopy
  /\ StoreIsCounted

\* It holds at first.
LEMMA InitHolds == Init => IInv
BY DEF Init, IInv, TypeOK, PeersAreEnds, KnownIsPosted, OneCopyOnTheWay, NoLateCopy, StoreIsCounted,
   Once, Places, IdsIn, Idle

\* It says that no message is stored twice.
LEMMA InvStoredOnce == IInv => StoredOnce
BY DEF IInv, StoredOnce, NoLateCopy, StoreIsCounted, Once, Carries, TypeOK

\* The hub takes a message and relays it.
LEMMA RelayTypes ==
  ASSUME IInv, NEW n \in Nodes, NEW m \in Messages, Relay(n, m)
  PROVE  /\ wire' \in SUBSET Packets
         /\ missed' \in SUBSET (Nodes \X Ids)
         /\ overtaken' = overtaken
         /\ doubled' \in SUBSET (Nodes \X Ids) /\ doubled \subseteq doubled'
         /\ m.kind \notin {"chat", "notice"} => doubled' = doubled
         /\ m.kind \in {"chat", "notice"} => \A o \in Twice(n) : <<o, m.id>> \in doubled'
         /\ wire' = wire \cup PacketsOf(n, m)
<1>1. PacketsOf(n, m) \in SUBSET Packets
  BY PacketFacts DEF IInv, TypeOK, PeersAreEnds
<1>2. m.id \in Ids
  BY DEF Messages
<1>3. Twice(n) \subseteq Nodes
  BY DEF Twice
<1> QED
  BY <1>1, <1>2, <1>3 DEF Relay, IInv, TypeOK

\* The stage of a command.
LEMMA StageTypes ==
  ASSUME IInv, NEW s \in Sessions, NEW op \in {"edit", "delete", "react"}, NEW i \in Ids,
         NEW stage \in {"found", "changed", "published"}, Stage(s, op, i, stage)
  PROVE  doing' \in [Sessions -> {Idle} \cup [op : {"edit", "delete", "react"}, id : Ids,
                                             stage : {"found", "changed", "published"}]]
BY DEF Stage, IInv, TypeOK

\* What handlePeerMessage makes of a store.
LEMMA AppliedTypes ==
  ASSUME NEW s \in Seq(Stored), NEW m \in Messages
  PROVE  Applied(s, m) \in Seq(Stored)
<1>1. m.id \in Ids /\ m.text \in {"first"} \cup Sessions /\ m.user \in Users
  BY DEF Messages
<1> QED
  BY <1>1, SavedKeeps, UpdatedKeeps, WithoutKeeps, LikedKeeps DEF Applied

\* Every step keeps the types.
LEMMA NextTypes == IInv /\ [Next]_vars => TypeOK'
<1> SUFFICES ASSUME IInv, [Next]_vars PROVE TypeOK'
  OBVIOUS
<1> USE DEF IInv
<1>1. ASSUME NEW i \in Ids, Post(i) PROVE TypeOK'
  <2> DEFINE n == PostedAt[i]
             m == [kind |-> KindOf[i], id |-> i, text |-> "first", user |-> AuthorOf[i]]
  <2>1. n \in Nodes /\ m \in Messages /\ Relay(n, m)
    BY <1>1, ReplicationAssumption DEF Post, Messages, Kinds
  <2>2. /\ wire' \in SUBSET Packets /\ missed' \in SUBSET (Nodes \X Ids) /\ overtaken' = overtaken
        /\ doubled' \in SUBSET (Nodes \X Ids)
    <3> HIDE DEF n, m
    <3> QED
      BY <2>1, RelayTypes
  <2>3. Saved(store[n], i) \in Seq(Stored)
    BY <2>1, SavedKeeps DEF TypeOK
  <2>4. store' \in [Nodes -> Seq(Stored)] /\ had' \in [Nodes -> SUBSET Ids]
    <3>1. \/ store' = store /\ had' = had
          \/ /\ store' = [store EXCEPT ![n] = Saved(store[n], i)]
             /\ had' = [had EXCEPT ![n] = @ \cup {i}]
      BY <1>1 DEF Post, nodeVars
    <3> HIDE DEF n, m
    <3>2. CASE store' = store /\ had' = had
      BY <3>2 DEF TypeOK
    <3>3. CASE store' = [store EXCEPT ![n] = Saved(store[n], i)] /\ had' = [had EXCEPT ![n] = @ \cup {i}]
      <4>1. store' \in [Nodes -> Seq(Stored)]
        BY <2>1, <2>3, <3>3 DEF TypeOK
      <4>2. had' \in [Nodes -> SUBSET Ids]
        BY <2>1, <3>3 DEF TypeOK
      <4> QED
        BY <4>1, <4>2
    <3> QED
      BY <3>1, <3>2, <3>3
  <2> QED
    BY <1>1, <2>2, <2>4 DEF Post, linkVars, TypeOK
<1>2. ASSUME NEW n \in Nodes, NEW c \in Conns, Register(n, c) PROVE TypeOK'
  BY <1>2 DEF Register, nodeVars, blame, TypeOK
<1>3. ASSUME NEW c \in Conns, Cut(c) PROVE TypeOK'
  <2>1. wire' \in SUBSET Packets
    BY <1>3 DEF Cut, TypeOK
  <2>2. missed' \in SUBSET (Nodes \X Ids)
    BY <1>3 DEF Cut, TypeOK, Packets, Messages
  <2> QED
    BY <1>3, <2>1, <2>2 DEF Cut, nodeVars, TypeOK
<1>4. ASSUME NEW p \in wire, Deliver(p) PROVE TypeOK'
  <2>1. p.to \in Nodes /\ p.msg \in Messages /\ p.msg.id \in Ids
    BY DEF TypeOK, Packets, Messages
  <2>2. Applied(store[p.to], p.msg) \in Seq(Stored)
    BY <2>1, AppliedTypes DEF TypeOK
  <2>3. store' \in [Nodes -> Seq(Stored)]
    BY <1>4, <2>1, <2>2 DEF Deliver, TypeOK
  <2>4. wire' \in SUBSET Packets
    BY <1>4 DEF Deliver, Onward, TypeOK
  <2>5. had' \in [Nodes -> SUBSET Ids] /\ overtaken' \in SUBSET (Nodes \X Ids)
    <3>1. \/ had' = [had EXCEPT ![p.to] = @ \cup {p.msg.id}] /\ overtaken' = overtaken
          \/ had' = had /\ overtaken' \in {overtaken, overtaken \cup {<<p.to, p.msg.id>>}}
      BY <1>4 DEF Deliver
    <3>2. had' \in [Nodes -> SUBSET Ids]
      BY <2>1, <3>1 DEF TypeOK
    <3> QED
      BY <2>1, <3>1, <3>2 DEF TypeOK
  <2> QED
    BY <1>4, <2>3, <2>4, <2>5 DEF Deliver, linkVars, TypeOK
<1>5. ASSUME NEW s \in Sessions, ChangeIt(s) PROVE TypeOK'
  <2> DEFINE n == NodeOf[s]  i == doing[s].id  op == doing[s].op
  <2>1. n \in Nodes /\ i \in Ids /\ op \in {"edit", "delete", "react"}
    BY <1>5, ReplicationAssumption DEF ChangeIt, TypeOK
  <2>2. Updated(store[n], i, s) \in Seq(Stored) /\ Without(store[n], i) \in Seq(Stored)
    BY <2>1, UpdatedKeeps, WithoutKeeps DEF TypeOK
  <2>3. doing' \in [Sessions -> {Idle} \cup [op : {"edit", "delete", "react"}, id : Ids,
                                            stage : {"found", "changed", "published"}]]
    BY <1>5, <2>1, StageTypes DEF ChangeIt
  <2> QED
    BY <1>5, <2>1, <2>2, <2>3 DEF ChangeIt, linkVars, blame, TypeOK
<1>6. ASSUME NEW s \in Sessions, Publish(s) PROVE TypeOK'
  <2> DEFINE m == [kind |-> doing[s].op, id |-> doing[s].id,
                   text |-> IF doing[s].op = "edit" THEN s ELSE "first", user |-> UserOf[s]]
  <2>1. doing[s].id \in Ids /\ doing[s].op \in {"edit", "delete", "react"}
    BY <1>6 DEF Publish, TypeOK
  <2>2. NodeOf[s] \in Nodes /\ m \in Messages /\ Relay(NodeOf[s], m)
    BY <1>6, <2>1, ReplicationAssumption DEF Publish, Messages, Kinds
  <2>3. /\ wire' \in SUBSET Packets /\ missed' \in SUBSET (Nodes \X Ids) /\ overtaken' = overtaken
        /\ doubled' \in SUBSET (Nodes \X Ids)
    <3> HIDE DEF m
    <3> QED
      BY <2>2, RelayTypes
  <2>4. doing' \in [Sessions -> {Idle} \cup [op : {"edit", "delete", "react"}, id : Ids,
                                            stage : {"found", "changed", "published"}]]
    BY <1>6, <2>1, StageTypes DEF Publish
  <2> QED
    BY <1>6, <2>3, <2>4 DEF Publish, nodeVars, linkVars, TypeOK
<1>7. ASSUME NEW s \in Sessions, NEW i \in Ids, LookUp(s, i) PROVE TypeOK'
  <2>1. doing' \in [Sessions -> {Idle} \cup [op : {"edit", "delete", "react"}, id : Ids,
                                            stage : {"found", "changed", "published"}]]
    BY <1>7, StageTypes DEF LookUp
  <2> QED
    BY <1>7, <2>1 DEF LookUp, nodeVars, linkVars, blame, TypeOK
<1>8. ASSUME NEW s \in Sessions, NEW i \in Ids, React(s, i) PROVE TypeOK'
  <2>1. doing' \in [Sessions -> {Idle} \cup [op : {"edit", "delete", "react"}, id : Ids,
                                            stage : {"found", "changed", "published"}]]
    BY <1>8, StageTypes DEF React
  <2>2. NodeOf[s] \in Nodes /\ UserOf[s] \in Users
    BY ReplicationAssumption
  <2>3. Liked(store[NodeOf[s]], i, UserOf[s]) \in Seq(Stored)
    BY <2>2, LikedKeeps DEF TypeOK
  <2> QED
    BY <1>8, <2>1, <2>2, <2>3 DEF React, linkVars, blame, TypeOK
<1>9. CASE UNCHANGED vars
  BY <1>9 DEF vars, nodeVars, linkVars, blame, TypeOK
<1> QED
  BY <1>1, <1>2, <1>3, <1>4, <1>5, <1>6, <1>7, <1>8, <1>9 DEF Next

-----------------------------------------------------------------------------
(* The invariant *)

\* Where the ids stay in their places, so does every message.
LEMMA SameIds ==
  ASSUME NEW s \in Seq(Stored), NEW w \in Seq(Stored), NEW S,
         Len(w) = Len(s), \A k \in 1..Len(s) : w[k].id = s[k].id, IdsIn(s, S)
  PROVE  /\ IdsIn(w, S)
         /\ \A j \in Ids : Once(s, j) => Once(w, j)
<1>1. \A j \in Ids : Places(w, j) = Places(s, j)
  BY DEF Places
<1> QED
  BY <1>1 DEF IdsIn, Once

\* The changes of a store double no message, and add none but a new one.
LEMMA ChangesKeepIds ==
  ASSUME NEW s \in Seq(Stored), NEW S, NEW i \in Ids, IdsIn(s, S)
  PROVE  /\ \A t \in {"first"} \cup Sessions :
              /\ IdsIn(Updated(s, i, t), S)
              /\ \A j \in Ids : Once(s, j) => Once(Updated(s, i, t), j)
         /\ \A u \in Users :
              /\ IdsIn(Liked(s, i, u), S)
              /\ \A j \in Ids : Once(s, j) => Once(Liked(s, i, u), j)
         /\ IdsIn(Without(s, i), S)
         /\ \A j \in Ids : Once(s, j) => Once(Without(s, i), j)
         /\ IdsIn(Saved(s, i), S \cup {i})
         /\ \A j \in Ids : Once(s, j) /\ (j = i => i \notin S) => Once(Saved(s, i), j)
<1>1. ASSUME NEW t \in {"first"} \cup Sessions
      PROVE  /\ IdsIn(Updated(s, i, t), S)
             /\ \A j \in Ids : Once(s, j) => Once(Updated(s, i, t), j)
  BY UpdatedKeeps, SameIds
<1>2. ASSUME NEW u \in Users
      PROVE  /\ IdsIn(Liked(s, i, u), S)
             /\ \A j \in Ids : Once(s, j) => Once(Liked(s, i, u), j)
  BY LikedKeeps, SameIds
<1>3. IdsIn(Without(s, i), S) /\ \A j \in Ids : Once(s, j) => Once(Without(s, i), j)
  <2> DEFINE w == Without(s, i)
  <2>1. w \in Seq(Stored) /\ Len(w) =< Len(s)
    BY WithoutKeeps
  <2>2. PICK c \in 0..Len(s) : \A k \in 1..Len(w) :
          IF k =< c THEN w[k] = s[k] ELSE k + 1 =< Len(s) /\ w[k] = s[k + 1]
    BY WithoutKeeps
  <2> HIDE DEF w
  <2>3. IdsIn(w, S)
    BY <2>1, <2>2 DEF IdsIn
  <2>4. ASSUME NEW j \in Ids, Once(s, j) PROVE Once(w, j)
    <3> SUFFICES ASSUME NEW k \in Places(w, j), NEW l \in Places(w, j) PROVE k = l
      BY DEF Once
    <3> DEFINE at(x) == IF x =< c THEN x ELSE x + 1
    <3>1. k \in 1..Len(w) /\ l \in 1..Len(w) /\ w[k].id = j /\ w[l].id = j
      BY DEF Places
    <3>2. /\ at(k) \in 1..Len(s) /\ w[k] = s[at(k)]
          /\ at(l) \in 1..Len(s) /\ w[l] = s[at(l)]
      BY <2>1, <2>2, <3>1
    <3>3. at(k) = at(l)
      <4> HIDE DEF at
      <4> QED
        BY <2>4, <3>1, <3>2 DEF Once, Places
    <3> QED
      BY <3>1, <3>3
  <2> QED
    BY <2>3, <2>4 DEF w
<1>4. /\ IdsIn(Saved(s, i), S \cup {i})
      /\ \A j \in Ids : Once(s, j) /\ (j = i => i \notin S) => Once(Saved(s, i), j)
  <2> DEFINE w == Saved(s, i)
  <2>1. /\ Len(w) = Len(s) + 1 /\ \A k \in 1..Len(s) : w[k] = s[k]
        /\ w[Len(s) + 1].id = i
    BY SavedKeeps
  <2> HIDE DEF w
  <2>2. \A k \in 1..Len(w) : \/ k \in 1..Len(s) /\ w[k] = s[k]
                             \/ k = Len(s) + 1 /\ w[k].id = i
    BY <2>1
  <2>3. IdsIn(w, S \cup {i})
    BY <2>2 DEF IdsIn
  <2>4. ASSUME NEW j \in Ids, Once(s, j), j = i => i \notin S PROVE Once(w, j)
    BY <2>2, <2>4 DEF IdsIn, Once, Places
  <2> QED
    BY <2>3, <2>4 DEF w
<1> QED
  BY <1>1, <1>2, <1>3, <1>4

\* Relaying a change, or nothing new, leaves the copies on their way as they are.
LEMMA RelayKeeps ==
  ASSUME IInv, NEW n \in Nodes, NEW m \in Messages, Relay(n, m),
         m.kind \notin {"chat", "notice"}, posted' = posted, had' = had
  PROVE  KnownIsPosted' /\ OneCopyOnTheWay' /\ NoLateCopy'
<1>1. /\ wire' = wire \cup PacketsOf(n, m) /\ \A p \in PacketsOf(n, m) : p.msg = m
      /\ doubled' = doubled
  BY RelayTypes, PacketFacts DEF IInv, TypeOK, PeersAreEnds
<1>2. \A i \in Ids, p \in wire' : Carries(p, i) => p \in wire
  BY <1>1 DEF Carries
<1> QED
  BY <1>1, <1>2 DEF IInv, TypeOK, KnownIsPosted, OneCopyOnTheWay, NoLateCopy

\* The store of one node changes, without a new message.
LEMMA StoreStep ==
  ASSUME IInv, NEW n \in Nodes, NEW s, store' = [store EXCEPT ![n] = s], IdsIn(s, had[n]),
         \A i \in Ids : Once(store[n], i) => Once(s, i), had' = had, doubled' = doubled
  PROVE  StoreIsCounted'
BY DEF IInv, TypeOK, StoreIsCounted

\* A node takes a message from its hub or from a peer, for the first time if it is not
\* sent it twice.
LEMMA SaveStep ==
  ASSUME IInv, NEW n \in Nodes, NEW i \in Ids, i \in had[n] => <<n, i>> \in doubled',
         doubled \subseteq doubled',
         store' = [store EXCEPT ![n] = Saved(store[n], i)], had' = [had EXCEPT ![n] = @ \cup {i}]
  PROVE  StoreIsCounted'
<1>1. store[n] \in Seq(Stored) /\ IdsIn(store[n], had[n])
  BY DEF IInv, TypeOK, StoreIsCounted
<1>2. /\ IdsIn(Saved(store[n], i), had[n] \cup {i})
      /\ \A j \in Ids : Once(store[n], j) /\ (j = i => i \notin had[n]) => Once(Saved(store[n], i), j)
  BY <1>1, ChangesKeepIds
<1>3. /\ store'[n] = Saved(store[n], i) /\ had'[n] = had[n] \cup {i}
      /\ \A m \in Nodes \ {n} : store'[m] = store[m] /\ had'[m] = had[m]
  BY DEF IInv, TypeOK
<1> QED
  BY <1>2, <1>3 DEF IInv, StoreIsCounted

\* A message that is posted is new everywhere.
LEMMA PostKeeps ==
  ASSUME IInv, NEW i \in Ids, Post(i)
  PROVE  KnownIsPosted' /\ OneCopyOnTheWay' /\ NoLateCopy' /\ StoreIsCounted'
<1> DEFINE n == PostedAt[i]
           m == [kind |-> KindOf[i], id |-> i, text |-> "first", user |-> AuthorOf[i]]
<1>1. n \in Nodes /\ m \in Messages /\ m.id = i /\ Relay(n, m)
  BY ReplicationAssumption DEF Post, Messages, Kinds
<1>2. \/ store' = store /\ had' = had
      \/ /\ store' = [store EXCEPT ![n] = Saved(store[n], i)]
         /\ had' = [had EXCEPT ![n] = @ \cup {i}]
  BY DEF Post, nodeVars
<1>3. i \notin posted /\ posted' = posted \cup {i}
  BY DEF Post
<1> HIDE DEF n, m
<1>4. /\ wire' = wire \cup PacketsOf(n, m) /\ doubled \subseteq doubled'
      /\ \A p \in PacketsOf(n, m) : p.msg = m /\ p.to # n
      /\ m.kind \in {"chat", "notice"} =>
           \A p, q \in PacketsOf(n, m) : p.to = q.to => p = q \/ <<p.to, i>> \in doubled'
  <2>1. peers[n] \subseteq Conns /\ \A c \in peers[n] : n \in Ends[c]
    BY <1>1 DEF IInv, TypeOK, PeersAreEnds
  <2> QED
    BY <1>1, <2>1, RelayTypes, PacketFacts
<1>5. (\A o \in Nodes : i \notin had[o]) /\ \A p \in wire : ~Carries(p, i)
  BY <1>3 DEF IInv, KnownIsPosted
<1>6. \A o \in Nodes : had'[o] = had[o] \/ (o = n /\ had'[o] = had[o] \cup {i})
  BY <1>1, <1>2 DEF IInv, TypeOK
<1>7. \A j \in Ids : \A p \in wire' :
        Carries(p, j) => (p \in wire /\ j # i) \/ (p \in PacketsOf(n, m) /\ j = i)
  BY <1>1, <1>4, <1>5 DEF Carries
<1>8. KnownIsPosted'
  BY <1>3, <1>6, <1>7 DEF IInv, KnownIsPosted
<1>9. OneCopyOnTheWay'
  BY <1>4, <1>7 DEF IInv, OneCopyOnTheWay, Carries
<1>10. NoLateCopy'
  <2> SUFFICES ASSUME NEW o \in Nodes, NEW j \in had'[o], NEW p \in wire', p.to = o, Carries(p, j)
               PROVE  <<o, j>> \in doubled'
    BY DEF NoLateCopy
  <2>1. j \in Ids
    BY <1>1, <1>6, SMTT(40) DEF IInv, TypeOK
  <2>2. CASE p \in wire /\ j # i
    BY <1>4, <1>6, <2>2 DEF IInv, NoLateCopy
  <2>3. CASE p \in PacketsOf(n, m) /\ j = i
    BY <1>4, <1>5, <1>6, <2>3
  <2> QED
    BY <1>7, <2>1, <2>2, <2>3
<1>11. StoreIsCounted'
  BY <1>1, <1>2, <1>4, <1>5, SaveStep DEF IInv, StoreIsCounted
<1> QED
  BY <1>8, <1>9, <1>10, <1>11

\* What is delivered is the only copy, and new to the node, if it was not sent twice.
LEMMA DeliverKeeps ==
  ASSUME IInv, NEW p \in wire, Deliver(p)
  PROVE  KnownIsPosted' /\ OneCopyOnTheWay' /\ NoLateCopy' /\ StoreIsCounted'
<1> DEFINE n == p.to  i == p.msg.id
<1>1. n \in Nodes /\ p.msg \in Messages /\ i \in Ids
  BY DEF IInv, TypeOK, Packets, Messages
<1>2. /\ wire' = wire \ {p} /\ posted' = posted /\ doubled' = doubled
      /\ store' = [store EXCEPT ![n] = Applied(store[n], p.msg)]
  BY DEF Deliver, Onward
<1>3. store[n] \in Seq(Stored) /\ IdsIn(store[n], had[n])
  BY <1>1 DEF IInv, TypeOK, StoreIsCounted
<1>4. OneCopyOnTheWay'
  BY <1>2 DEF IInv, OneCopyOnTheWay
<1>5. CASE Carries(p, i)
  <2>1. had' = [had EXCEPT ![n] = @ \cup {i}]
    BY <1>5 DEF Deliver, Carries
  <2>2. \A o \in Nodes : had'[o] = had[o] \/ (o = n /\ had'[o] = had[o] \cup {i})
    BY <1>1, <2>1 DEF IInv, TypeOK
  <2>3. i \in posted /\ (i \in had[n] => <<n, i>> \in doubled)
    BY <1>1, <1>5 DEF IInv, KnownIsPosted, NoLateCopy
  <2>4. KnownIsPosted'
    BY <1>2, <2>2, <2>3 DEF IInv, KnownIsPosted
  <2>5. NoLateCopy'
    <3> SUFFICES ASSUME NEW o \in Nodes, NEW j \in had'[o], NEW q \in wire', q.to = o, Carries(q, j)
                 PROVE  <<o, j>> \in doubled'
      BY DEF NoLateCopy
    <3>1. CASE j \in had[o]
      BY <1>2, <3>1 DEF IInv, NoLateCopy
    <3>2. CASE o = n /\ j = i
      BY <1>1, <1>2, <1>5, <3>2 DEF IInv, OneCopyOnTheWay
    <3> QED
      BY <2>2, <3>1, <3>2
  <2>6. Applied(store[n], p.msg) = Saved(store[n], i)
    BY <1>5 DEF Applied, Carries
  <2>7. StoreIsCounted'
    <3> HIDE DEF n, i
    <3> QED
      BY <1>1, <1>2, <2>1, <2>3, <2>6, SaveStep
  <2> QED
    BY <1>4, <2>4, <2>5, <2>7
<1>6. CASE ~Carries(p, i)
  <2>1. had' = had
    BY <1>6 DEF Deliver, Carries
  <2>2. KnownIsPosted' /\ NoLateCopy'
    BY <1>2, <2>1 DEF IInv, KnownIsPosted, NoLateCopy
  <2>3. /\ IdsIn(Applied(store[n], p.msg), had[n])
        /\ \A j \in Ids : Once(store[n], j) => Once(Applied(store[n], p.msg), j)
    <3>1. p.msg.text \in {"first"} \cup Sessions /\ p.msg.user \in Users
      BY <1>1 DEF Messages
    <3>2. \/ Applied(store[n], p.msg) = Updated(store[n], i, p.msg.text)
          \/ Applied(store[n], p.msg) = Without(store[n], i)
          \/ Applied(store[n], p.msg) = Liked(store[n], i, p.msg.user)
          \/ Applied(store[n], p.msg) = store[n]
      BY <1>6 DEF Applied, Carries
    <3> DEFINE w == Applied(store[n], p.msg)
               Keeps(x) == IdsIn(x, had[n]) /\ \A j \in Ids : Once(store[n], j) => Once(x, j)
    <3> HIDE DEF n, i
    <3>3. /\ \A t \in {"first"} \cup Sessions : Keeps(Updated(store[n], i, t))
          /\ \A u \in Users : Keeps(Liked(store[n], i, u))
          /\ Keeps(Without(store[n], i)) /\ Keeps(store[n])
      BY <1>1, <1>3, ChangesKeepIds
    <3> HIDE DEF w, Keeps
    <3>4. Keeps(w)
      BY <3>1, <3>2, <3>3 DEF w
    <3> QED
      BY <3>4 DEF w, Keeps
  <2>4. StoreIsCounted'
    <3> HIDE DEF n, i
    <3> QED
      BY <1>1, <1>2, <2>1, <2>3, StoreStep
  <2> QED
    BY <1>4, <2>2, <2>4
<1> QED
  BY <1>5, <1>6

\* Every step keeps the invariant.
LEMMA NextKeeps == IInv /\ [Next]_vars => IInv'
<1> SUFFICES ASSUME IInv, [Next]_vars PROVE IInv'
  OBVIOUS
<1> DEFINE Rest == KnownIsPosted' /\ OneCopyOnTheWay' /\ NoLateCopy' /\ StoreIsCounted'
<1>1. ASSUME NEW i \in Ids, Post(i) PROVE PeersAreEnds' /\ Rest
  BY <1>1, PostKeeps DEF Post, linkVars, IInv, PeersAreEnds
<1>2. ASSUME NEW n \in Nodes, NEW c \in Conns, Register(n, c) PROVE PeersAreEnds' /\ Rest
  <2>1. PeersAreEnds'
    BY <1>2 DEF Register, IInv, TypeOK, PeersAreEnds
  <2> QED
    BY <1>2, <2>1 DEF Register, nodeVars, blame, IInv, KnownIsPosted, OneCopyOnTheWay, NoLateCopy, StoreIsCounted
<1>3. ASSUME NEW c \in Conns, Cut(c) PROVE PeersAreEnds' /\ Rest
  <2>1. PeersAreEnds'
    BY <1>3 DEF Cut, IInv, TypeOK, PeersAreEnds
  <2>2. wire' \subseteq wire
    BY <1>3 DEF Cut
  <2> QED
    BY <1>3, <2>1, <2>2 DEF Cut, nodeVars, IInv, KnownIsPosted, OneCopyOnTheWay, NoLateCopy, StoreIsCounted
<1>4. ASSUME NEW p \in wire, Deliver(p) PROVE PeersAreEnds' /\ Rest
  BY <1>4, DeliverKeeps DEF Deliver, linkVars, IInv, PeersAreEnds
<1>5. ASSUME NEW s \in Sessions, ChangeIt(s) PROVE PeersAreEnds' /\ Rest
  <2> DEFINE n == NodeOf[s]  i == doing[s].id
             t == IF doing[s].op = "edit" THEN Updated(store[n], i, s) ELSE Without(store[n], i)
  <2>1. n \in Nodes /\ i \in Ids /\ store' = [store EXCEPT ![n] = t] /\ had' = had /\ doubled' = doubled
    BY <1>5, ReplicationAssumption DEF ChangeIt, blame, IInv, TypeOK
  <2>2. IdsIn(t, had[n]) /\ \A j \in Ids : Once(store[n], j) => Once(t, j)
    <3>1. store[n] \in Seq(Stored) /\ IdsIn(store[n], had[n]) /\ s \in {"first"} \cup Sessions
      BY <2>1 DEF IInv, TypeOK, StoreIsCounted
    <3> HIDE DEF n, i
    <3> QED
      BY <2>1, <3>1, ChangesKeepIds
  <2>3. StoreIsCounted'
    <3> HIDE DEF n, t
    <3> QED
      BY <2>1, <2>2, StoreStep
  <2> QED
    BY <1>5, <2>3 DEF ChangeIt, linkVars, blame, IInv, PeersAreEnds, KnownIsPosted, OneCopyOnTheWay, NoLateCopy
<1>6. ASSUME NEW s \in Sessions, Publish(s) PROVE PeersAreEnds' /\ Rest
  <2> DEFINE m == [kind |-> doing[s].op, id |-> doing[s].id,
                   text |-> IF doing[s].op = "edit" THEN s ELSE "first", user |-> UserOf[s]]
  <2>1. doing[s].id \in Ids /\ doing[s].op \in {"edit", "delete", "react"}
    BY <1>6 DEF Publish, IInv, TypeOK
  <2>2. NodeOf[s] \in Nodes /\ m \in Messages /\ m.kind \notin {"chat", "notice"} /\ Relay(NodeOf[s], m)
    BY <1>6, <2>1, ReplicationAssumption DEF Publish, Messages, Kinds
  <2>3. /\ posted' = posted /\ had' = had /\ store' = store /\ peers' = peers
        /\ doubled \subseteq doubled'
    BY <1>6 DEF Publish, Relay, nodeVars, linkVars
  <2>4. KnownIsPosted' /\ OneCopyOnTheWay' /\ NoLateCopy'
    <3> HIDE DEF m
    <3> QED
      BY <2>2, <2>3, RelayKeeps
  <2> QED
    BY <2>3, <2>4 DEF IInv, PeersAreEnds, StoreIsCounted
<1>7. ASSUME NEW s \in Sessions, NEW i \in Ids, LookUp(s, i) PROVE PeersAreEnds' /\ Rest
  BY <1>7 DEF LookUp, nodeVars, linkVars, blame, IInv, PeersAreEnds, KnownIsPosted, OneCopyOnTheWay,
     NoLateCopy, StoreIsCounted
<1>8. ASSUME NEW s \in Sessions, NEW i \in Ids, React(s, i) PROVE PeersAreEnds' /\ Rest
  <2> DEFINE n == NodeOf[s]  t == Liked(store[n], i, UserOf[s])
  <2>1. n \in Nodes /\ store' = [store EXCEPT ![n] = t] /\ had' = had /\ doubled' = doubled
    BY <1>8, ReplicationAssumption DEF React, blame
  <2>2. IdsIn(t, had[n]) /\ \A j \in Ids : Once(store[n], j) => Once(t, j)
    <3>1. store[n] \in Seq(Stored) /\ IdsIn(store[n], had[n]) /\ UserOf[s] \in Users
      BY <2>1, ReplicationAssumption DEF IInv, TypeOK, StoreIsCounted
    <3> HIDE DEF n
    <3> QED
      BY <2>1, <3>1, ChangesKeepIds
  <2>3. StoreIsCounted'
    <3> HIDE DEF n, t
    <3> QED
      BY <2>1, <2>2, StoreStep
  <2> QED
    BY <1>8, <2>3 DEF React, linkVars, blame, IInv, PeersAreEnds, KnownIsPosted, OneCopyOnTheWay, NoLateCopy
<1>9. ASSUME UNCHANGED vars PROVE PeersAreEnds' /\ Rest
  BY <1>9 DEF vars, nodeVars, linkVars, blame, IInv, PeersAreEnds, KnownIsPosted, OneCopyOnTheWay,
     NoLateCopy, StoreIsCounted
<1>10. PeersAreEnds' /\ Rest
  <2> HIDE DEF Rest
  <2> QED
    BY <1>1, <1>2, <1>3, <1>4, <1>5, <1>6, <1>7, <1>8, <1>9 DEF Next, Rest
<1> QED
  BY <1>10, NextTypes DEF IInv

\* The invariant always holds.
LEMMA AlwaysIInv == Spec => []IInv
<1>1. IInv /\ [Next]_vars => IInv'
  BY NextKeeps
<1> QED
  BY <1>1, InitHolds, PTL DEF Spec

-----------------------------------------------------------------------------
(* Copies in a store *)

CopiesOf(s, i) == {s[k] : k \in Places(s, i)}
WithText(m, t) == [m EXCEPT !.text = t]
LikedBy(m, u) == [m EXCEPT !.likes = m.likes \cup {u}]
New(i) == [id |-> i, text |-> "first", likes |-> {}]

\* Where a message is once, its place is the place Find gives.
LEMMA PlaceFound ==
  ASSUME NEW s \in Seq(Stored), NEW i \in Ids, Once(s, i), NEW k \in Places(s, i)
  PROVE  k = Find(s, i)
BY FindPlace DEF Once

\* A copy is a message with that id.
LEMMA CopyFacts ==
  ASSUME NEW s \in Seq(Stored), NEW i \in Ids, NEW m \in CopiesOf(s, i)
  PROVE  m \in Stored /\ m.id = i
BY DEF CopiesOf, Places

\* An edit changes the text of the copy, and no other message.
LEMMA UpdatedCopies ==
  ASSUME NEW s \in Seq(Stored), NEW i \in Ids, NEW j \in Ids, j = i => Once(s, i),
         NEW t \in {"first"} \cup Sessions
  PROVE  CopiesOf(Updated(s, i, t), j) =
           IF j = i THEN {WithText(m, t) : m \in CopiesOf(s, i)} ELSE CopiesOf(s, j)
<1> DEFINE w == Updated(s, i, t)
<1>1. Len(w) = Len(s) /\ \A k \in 1..Len(s) : w[k].id = s[k].id
  BY UpdatedKeeps
<1>2. \A k \in 1..Len(s) : w[k] = IF k = Find(s, i) THEN WithText(s[k], t) ELSE s[k]
  BY DEF Updated, WithText
<1> HIDE DEF w
<1>3. Places(w, j) = Places(s, j)
  BY <1>1 DEF Places
<1>4. CASE j = i
  <2>1. \A k \in Places(s, i) : w[k] = WithText(s[k], t)
    BY <1>2, <1>4, PlaceFound DEF Places
  <2> QED
    BY <1>3, <1>4, <2>1 DEF CopiesOf, w
<1>5. CASE j # i
  <2>1. \A k \in Places(s, j) : k \in 1..Len(s) /\ k # Find(s, i)
    BY <1>5, FindPlace DEF Places
  <2>2. \A k \in Places(s, j) : w[k] = s[k]
    BY <1>2, <2>1
  <2> QED
    BY <1>3, <1>5, <2>2 DEF CopiesOf, w
<1> QED
  BY <1>4, <1>5

\* A reaction adds a user to the copy, and changes no other message.
LEMMA LikedCopies ==
  ASSUME NEW s \in Seq(Stored), NEW i \in Ids, NEW j \in Ids, j = i => Once(s, i), NEW u \in Users
  PROVE  CopiesOf(Liked(s, i, u), j) =
           IF j = i THEN {LikedBy(m, u) : m \in CopiesOf(s, i)}
                    ELSE CopiesOf(s, j)
<1> DEFINE w == Liked(s, i, u)
<1>1. Len(w) = Len(s) /\ \A k \in 1..Len(s) : w[k].id = s[k].id
  BY LikedKeeps
<1>2. \A k \in 1..Len(s) :
        w[k] = IF k = Find(s, i) THEN LikedBy(s[k], u) ELSE s[k]
  <2>1. w = [k \in 1..Len(s) |-> IF k = Find(s, i) THEN LikedBy(s[k], u) ELSE s[k]]
    BY DEF Liked, LikedBy
  <2> HIDE DEF w
  <2> QED
    BY <2>1
<1> HIDE DEF w
<1>3. Places(w, j) = Places(s, j)
  BY <1>1 DEF Places
<1>4. CASE j = i
  <2>1. \A k \in Places(s, i) : w[k] = LikedBy(s[k], u)
    BY <1>2, <1>4, PlaceFound DEF Places
  <2> QED
    BY <1>3, <1>4, <2>1 DEF CopiesOf, w
<1>5. CASE j # i
  <2>1. \A k \in Places(s, j) : k \in 1..Len(s) /\ k # Find(s, i)
    BY <1>5, FindPlace DEF Places
  <2>2. \A k \in Places(s, j) : w[k] = s[k]
    BY <1>2, <2>1
  <2> QED
    BY <1>3, <1>5, <2>2 DEF CopiesOf, w
<1> QED
  BY <1>4, <1>5

\* A deletion leaves no copy, and every copy of the others.
LEMMA WithoutCopies ==
  ASSUME NEW s \in Seq(Stored), NEW i \in Ids, NEW j \in Ids, j = i => Once(s, i)
  PROVE  CopiesOf(Without(s, i), j) = IF j = i THEN {} ELSE CopiesOf(s, j)
<1>1. CASE Find(s, i) = 0
  <2>1. Without(s, i) = s
    BY <1>1 DEF Without
  <2>2. Places(s, i) = {}
    BY <1>1, FindPlace DEF Places
  <2> QED
    BY <2>1, <2>2 DEF CopiesOf
<1>2. CASE Find(s, i) # 0
  <2> DEFINE w == Without(s, i)  f == Find(s, i)
  <2>1. /\ f \in 1..Len(s) /\ s[f].id = i
        /\ Len(w) = Len(s) - 1
        /\ \A k \in 1..(Len(s) - 1) : IF k =< f - 1 THEN w[k] = s[k] ELSE w[k] = s[k + 1]
    BY <1>2, WithoutAt
  <2> HIDE DEF w, f
  <2>2. \A k \in 1..Len(w) : \E l \in 1..Len(s) : l # f /\ w[k] = s[l]
    <3> TAKE k \in 1..Len(w)
    <3>1. CASE k =< f - 1
      BY <2>1, <3>1
    <3>2. CASE ~(k =< f - 1)
      <4>1. k + 1 \in 1..Len(s) /\ k + 1 # f /\ w[k] = s[k + 1]
        BY <2>1, <3>2
      <4> QED
        BY <4>1
    <3> QED
      BY <3>1, <3>2
  <2>3. \A l \in 1..Len(s) : l # f => \E k \in 1..Len(w) : w[k] = s[l]
    <3> SUFFICES ASSUME NEW l \in 1..Len(s), l # f PROVE \E k \in 1..Len(w) : w[k] = s[l]
      OBVIOUS
    <3>1. CASE l =< f - 1
      BY <2>1, <3>1
    <3>2. CASE ~(l =< f - 1)
      <4>1. l - 1 \in 1..Len(w) /\ ~(l - 1 =< f - 1) /\ l - 1 + 1 = l
        BY <2>1, <3>2
      <4> QED
        BY <2>1, <4>1
    <3> QED
      BY <3>1, <3>2
  <2>4. CASE j = i
    <3>1. \A k \in 1..Len(w) : w[k].id # i
      BY <2>1, <2>2, <2>4 DEF Once, Places
    <3> QED
      BY <2>4, <3>1 DEF CopiesOf, Places, w
  <2>5. CASE j # i
    <3>1. \A m : m \in CopiesOf(w, j) => m \in CopiesOf(s, j)
      BY <2>2 DEF CopiesOf, Places
    <3>2. \A m : m \in CopiesOf(s, j) => m \in CopiesOf(w, j)
      <4> SUFFICES ASSUME NEW l \in 1..Len(s), s[l].id = j PROVE s[l] \in CopiesOf(w, j)
        BY DEF CopiesOf, Places
      <4>1. l # f
        BY <2>1, <2>5
      <4> QED
        BY <2>3, <4>1 DEF CopiesOf, Places
    <3> QED
      BY <2>5, <3>1, <3>2 DEF w
  <2> QED
    BY <2>4, <2>5
<1> QED
  BY <1>1, <1>2

\* A message that is saved is one more copy.
LEMMA SavedCopies ==
  ASSUME NEW s \in Seq(Stored), NEW i \in Ids, NEW j \in Ids
  PROVE  CopiesOf(Saved(s, i), j) =
           IF j = i THEN CopiesOf(s, i) \cup {New(i)} ELSE CopiesOf(s, j)
<1> DEFINE w == Saved(s, i)
<1>1. /\ Len(w) = Len(s) + 1 /\ \A k \in 1..Len(s) : w[k] = s[k]
      /\ w[Len(s) + 1] = New(i)
  <2>1. New(i) \in Stored
    BY DEF New, Stored
  <2> QED
    BY <2>1, AppendProperties DEF Saved, New
<1> HIDE DEF w
<1>2. Places(w, j) = IF j = i THEN Places(s, j) \cup {Len(s) + 1} ELSE Places(s, j)
  <2>1. New(i).id = i
    BY DEF New
  <2> QED
    BY <1>1, <2>1 DEF Places
<1>3. \A k \in Places(s, j) : w[k] = s[k]
  BY <1>1 DEF Places
<1> QED
  BY <1>1, <1>2, <1>3 DEF CopiesOf, w

-----------------------------------------------------------------------------
(* The invariant of the agreement *)

\* A session has made its change at its node when its command is past "found"; Tells
\* is what it publishes of it.
Commands == [op : {"edit", "delete", "react"}, id : Ids, stage : {"found", "changed", "published"}]
Made(op, i) == {s \in Sessions : doing[s] # Idle /\ doing[s].op = op /\ doing[s].id = i
                                                 /\ doing[s].stage # "found"}
Tells(s) == [kind |-> doing[s].op, id |-> doing[s].id,
             text |-> IF doing[s].op = "edit" THEN s ELSE "first", user |-> UserOf[s]]
OnTheWay(n, m) == \E p \in wire : p.to = n /\ p.msg = m

\* A change that n is still going to hear of, and the changes that it has seen.
Unseen(n, s) == NodeOf[s] # n /\ (doing[s].stage = "changed" \/ OnTheWay(n, Tells(s)))
Seen(n, op, i) == {s \in Made(op, i) : ~Unseen(n, s)}

\* What is on its way tells of messages and of changes that were made; commands are
\* about messages that their node has had.
ChangesAreMade ==
  \A p \in wire : p.msg.kind \notin {"chat", "notice"} =>
    \E s \in Sessions : doing[s] # Idle /\ doing[s].stage = "published" /\ p.msg = Tells(s)
CommandsKnown ==
  \A s \in Sessions : doing[s] # Idle =>
    /\ doing[s].id \in had[NodeOf[s]]
    /\ doing[s].stage = "found" => doing[s].op # "react"
Giving == {s \in Sessions : doing[s] # Idle}

\* A node that has not had message i is going to, and has seen no change of it.
Comes(n, i) ==
  i \notin had[n] => /\ \E p \in wire : p.to = n /\ Carries(p, i)
                     /\ \A op \in {"edit", "delete", "react"} : Seen(n, op, i) = {}
\* A copy is missing only because of a deletion,
GoneByDelete(n, i) == i \in had[n] /\ Copies(n, i) = {} => Made("delete", i) # {}
\* and one that is there shows what the node has seen, and nothing else.
CopyShows(n, i) ==
  \A m \in Copies(n, i) :
    /\ Seen(n, "delete", i) = {}
    /\ \A u \in m.likes : \E s \in Made("react", i) : UserOf[s] = u
    /\ \A s \in Seen(n, "react", i) : UserOf[s] \in m.likes
    /\ m.text = "first" \/ m.text \in Made("edit", i)
    /\ \A s \in Seen(n, "edit", i) : (\A t \in Edits(i) : t = s) => m.text = s
CopyInv(n, i) == Comes(n, i) /\ GoneByDelete(n, i) /\ CopyShows(n, i)

Clean(n, i) == KindOf[i] = "chat" /\ ~Blamed(n, i)
CopiesAgree == \A i \in posted, n \in Nodes : Clean(n, i) => CopyInv(n, i)

AgreeInv ==
  /\ IInv
  /\ ChangesAreMade
  /\ CommandsKnown
  /\ IsFiniteSet(Giving)
  /\ CopiesAgree

\* It holds at first.
LEMMA InitAgrees == Init => AgreeInv
<1> SUFFICES ASSUME Init PROVE AgreeInv
  OBVIOUS
<1>1. Giving = {}
  BY DEF Init, Giving
<1>2. IsFiniteSet(Giving)
  BY <1>1, FS_EmptySet
<1> QED
  BY <1>2, InitHolds DEF Init, AgreeInv, ChangesAreMade, CommandsKnown, CopiesAgree

\* What happens elsewhere, or to other messages, and what only adds to the changes a
\* node has not seen, keeps the invariant of its copy.
LEMMA Frame ==
  ASSUME NEW n \in Nodes, NEW i \in Ids, CopyInv(n, i),
         Copies(n, i)' = Copies(n, i), i \in had[n] <=> i \in had'[n],
         \A op \in {"edit", "delete", "react"} :
           Made(op, i) \subseteq Made(op, i)' /\ Seen(n, op, i)' \subseteq Seen(n, op, i),
         Edits(i) \subseteq Edits(i)',
         i \notin had[n] => \A p \in wire : p.to = n /\ Carries(p, i) => p \in wire'
  PROVE  CopyInv(n, i)'
<1>1. Comes(n, i)'
  BY DEF CopyInv, Comes
<1>2. GoneByDelete(n, i)'
  BY DEF CopyInv, GoneByDelete
<1>3. CopyShows(n, i)'
  <2> SUFFICES ASSUME NEW m \in Copies(n, i)
               PROVE  /\ Seen(n, "delete", i)' = {}
                      /\ \A u \in m.likes : \E s \in Made("react", i)' : UserOf[s] = u
                      /\ \A s \in Seen(n, "react", i)' : UserOf[s] \in m.likes
                      /\ m.text = "first" \/ m.text \in Made("edit", i)'
                      /\ \A s \in Seen(n, "edit", i)' : (\A t \in Edits(i)' : t = s) => m.text = s
    BY DEF CopyShows
  <2>1. /\ Seen(n, "delete", i) = {}
        /\ \A u \in m.likes : \E s \in Made("react", i) : UserOf[s] = u
        /\ \A s \in Seen(n, "react", i) : UserOf[s] \in m.likes
        /\ m.text = "first" \/ m.text \in Made("edit", i)
        /\ \A s \in Seen(n, "edit", i) : (\A t \in Edits(i) : t = s) => m.text = s
    BY DEF CopyInv, CopyShows
  <2> QED
    BY <2>1
<1> QED
  BY <1>1, <1>2, <1>3 DEF CopyInv

\* While the commands stay as they are, what is still on its way is still unseen.
LEMMA SameCommands ==
  ASSUME doing' = doing, NEW n \in Nodes, NEW i \in Ids,
         \A p \in wire : p.to = n /\ p.msg.id = i => p \in wire'
  PROVE  /\ Edits(i)' = Edits(i)
         /\ \A op \in {"edit", "delete", "react"} :
              Made(op, i)' = Made(op, i) /\ Seen(n, op, i)' \subseteq Seen(n, op, i)
<1>1. Edits(i)' = Edits(i) /\ \A op \in {"edit", "delete", "react"} : Made(op, i)' = Made(op, i)
  BY DEF Edits, Made
<1>2. ASSUME NEW op \in {"edit", "delete", "react"}, NEW s \in Made(op, i), Unseen(n, s)
      PROVE  Unseen(n, s)'
  <2>1. Tells(s)' = Tells(s) /\ Tells(s).id = i
    BY <1>2 DEF Tells, Made
  <2>2. OnTheWay(n, Tells(s)) => OnTheWay(n, Tells(s))'
    BY <2>1 DEF OnTheWay
  <2> QED
    BY <1>2, <2>2 DEF Unseen
<1> QED
  BY <1>1, <1>2 DEF Seen

\* What a node publishes is on its way to every node, or missed.
LEMMA RelayReaches ==
  ASSUME IInv, NEW n \in Nodes, NEW m \in Messages, Relay(n, m), Relayed(m),
         NEW o \in Nodes, o # n, <<o, m.id>> \notin missed'
  PROVE  \E p \in wire' : p.to = o /\ p.msg = m
<1>1. PICK c \in peers[n] : o = Other(n, c)
  BY DEF Relay
<1>2. [conn |-> c, to |-> o, msg |-> m] \in wire'
  BY <1>1 DEF Relay, PacketsOf, Targets
<1> QED
  BY <1>2

\* A command that goes on, or begins, keeps the invariant where the store is as it was.
LEMMA CommandStep ==
  ASSUME AgreeInv, NEW s \in Sessions, NEW c \in Commands, doing' = [doing EXCEPT ![s] = c],
         doing[s] # Idle => doing[s].op = c.op /\ doing[s].id = c.id,
         doing[s] # Idle /\ doing[s].stage # "found" => c.stage # "found",
         NEW i \in Ids, NEW n \in Nodes,
         \A p \in wire : p.to = n /\ p.msg.id = i => p \in wire',
         c.id = i /\ c.stage # "found" => Unseen(n, s)' \/ (s \in Made(c.op, i) /\ ~Unseen(n, s))
  PROVE  /\ Edits(i) \subseteq Edits(i)'
         /\ \A op \in {"edit", "delete", "react"} :
              Made(op, i) \subseteq Made(op, i)' /\ Seen(n, op, i)' \subseteq Seen(n, op, i)
<1>1. /\ doing'[s] = c /\ c # Idle
      /\ \A t \in Sessions \ {s} : doing'[t] = doing[t]
  BY DEF AgreeInv, IInv, TypeOK, Idle, Commands
<1>2. Edits(i) \subseteq Edits(i)'
  BY <1>1 DEF Edits
<1>3. ASSUME NEW op \in {"edit", "delete", "react"} PROVE Made(op, i) \subseteq Made(op, i)'
  BY <1>1 DEF Made
<1>4. ASSUME NEW op \in {"edit", "delete", "react"}, NEW t \in Seen(n, op, i)'
      PROVE  t \in Seen(n, op, i)
  <2>1. CASE t = s
    BY <1>1, <1>4, <2>1 DEF Seen, Made
  <2>2. CASE t # s
    <3>1. t \in Made(op, i) /\ doing'[t] = doing[t]
      BY <1>1, <1>4, <2>2 DEF Seen, Made
    <3>2. Tells(t)' = Tells(t) /\ Tells(t).id = i
      BY <3>1 DEF Tells, Made
    <3>3. Unseen(n, t) => Unseen(n, t)'
      BY <3>1, <3>2 DEF Unseen, OnTheWay
    <3> QED
      BY <1>4, <3>1, <3>3 DEF Seen
  <2> QED
    BY <2>1, <2>2
<1> QED
  BY <1>2, <1>3, <1>4

\* What is not to blame now was not before.
LEMMA StillClean ==
  ASSUME AgreeInv, missed \subseteq missed', overtaken \subseteq overtaken', doubled \subseteq doubled',
         NEW i \in posted, NEW n \in Nodes, Clean(n, i)'
  PROVE  /\ i \in Ids /\ KindOf[i] = "chat" /\ CopyInv(n, i)
         /\ <<n, i>> \notin missed' /\ <<n, i>> \notin overtaken' /\ <<n, i>> \notin doubled
BY DEF AgreeInv, IInv, TypeOK, CopiesAgree, Clean, Blamed

\* A store's copies are CopiesOf it.
LEMMA StoreFacts ==
  ASSUME AgreeInv, NEW n \in Nodes, NEW i \in Ids
  PROVE  /\ store[n] \in Seq(Stored) /\ Copies(n, i) = CopiesOf(store[n], i)
         /\ Copies(n, i)' = CopiesOf(store'[n], i)
         /\ i \notin had[n] => Copies(n, i) = {}
<1>1. store[n] \in Seq(Stored) /\ IdsIn(store[n], had[n])
  BY DEF AgreeInv, IInv, TypeOK, StoreIsCounted
<1>2. i \notin had[n] => Places(store[n], i) = {}
  BY <1>1 DEF IdsIn, Places
<1> QED
  BY <1>1, <1>2 DEF Copies, CopiesOf

\* A message that was not sent to a node twice is once in its store.
LEMMA OnceThere ==
  ASSUME AgreeInv, NEW n \in Nodes, NEW i \in Ids, <<n, i>> \notin doubled
  PROVE  Once(store[n], i)
BY DEF AgreeInv, IInv, StoreIsCounted

\* A message is posted.
LEMMA PostAgrees ==
  ASSUME AgreeInv, NEW j \in Ids, Post(j)
  PROVE  CopiesAgree'
<1> DEFINE o == PostedAt[j]
           m == [kind |-> KindOf[j], id |-> j, text |-> "first", user |-> AuthorOf[j]]
<1>1. /\ o \in Nodes /\ m \in Messages /\ m.id = j /\ m.kind = KindOf[j]
      /\ Relay(o, m) /\ doing' = doing /\ j \notin posted /\ posted' = posted \cup {j}
  BY ReplicationAssumption DEF Post, Messages, Kinds
<1>2. missed \subseteq missed' /\ overtaken' = overtaken /\ doubled \subseteq doubled' /\ wire \subseteq wire'
  BY <1>1 DEF Relay
<1>3. \/ store' = store /\ had' = had
      \/ /\ store' = [store EXCEPT ![o] = Saved(store[o], j)]
         /\ had' = [had EXCEPT ![o] = @ \cup {j}]
  BY DEF Post, nodeVars
<1>4. KindOf[j] = "chat" => /\ store' = [store EXCEPT ![o] = Saved(store[o], j)]
                            /\ had' = [had EXCEPT ![o] = @ \cup {j}]
  BY DEF Post
<1> HIDE DEF o, m
<1>5. ASSUME NEW i \in posted, NEW n \in Nodes, Clean(n, i)' PROVE CopyInv(n, i)'
  <2>1. i \in Ids /\ i # j /\ CopyInv(n, i)
    BY <1>1, <1>2, <1>5, StillClean
  <2>2. Copies(n, i)' = Copies(n, i)
    <3>1. store'[n] = store[n] \/ store'[n] = Saved(store[n], j)
      BY <1>1, <1>3 DEF AgreeInv, IInv, TypeOK
    <3> QED
      BY <2>1, <3>1, StoreFacts, SavedCopies
  <2>3. i \in had[n] <=> i \in had'[n]
    <3>1. had'[n] = had[n] \/ had'[n] = had[n] \cup {j}
      BY <1>1, <1>3 DEF AgreeInv, IInv, TypeOK
    <3> QED
      BY <2>1, <3>1
  <2>4. /\ Edits(i)' = Edits(i)
        /\ \A op \in {"edit", "delete", "react"} :
             Made(op, i)' = Made(op, i) /\ Seen(n, op, i)' \subseteq Seen(n, op, i)
    BY <1>1, <1>2, <2>1, SameCommands
  <2> QED
    BY <1>2, <2>1, <2>2, <2>3, <2>4, Frame
<1>6. ASSUME NEW n \in Nodes, Clean(n, j)' PROVE CopyInv(n, j)'
  <2>1. KindOf[j] = "chat" /\ <<n, j>> \notin missed'
    BY <1>6 DEF Clean, Blamed
  <2>2. j \notin had[n] /\ \A s \in Sessions : doing[s] # Idle => doing[s].id # j
    BY <1>1, ReplicationAssumption DEF AgreeInv, IInv, KnownIsPosted, CommandsKnown
  <2>3. \A op \in {"edit", "delete", "react"} : Made(op, j)' = {} /\ Seen(n, op, j)' = {}
    BY <1>1, <2>2 DEF Made, Seen
  <2>4. CASE n = o
    <3>1. j \in had'[n]
      BY <1>4, <2>1, <2>4 DEF AgreeInv, IInv, TypeOK
    <3>2. Copies(n, j)' = {New(j)}
      <4>1. store'[n] = Saved(store[n], j)
        BY <1>4, <2>1, <2>4 DEF AgreeInv, IInv, TypeOK
      <4> QED
        BY <2>2, <4>1, StoreFacts, SavedCopies
    <3>3. New(j).likes = {} /\ New(j).text = "first"
      BY DEF New
    <3> QED
      BY <2>3, <3>1, <3>2, <3>3 DEF CopyInv, Comes, GoneByDelete, CopyShows
  <2>5. CASE n # o
    <3>1. j \notin had'[n] /\ store'[n] = store[n]
      BY <1>1, <1>3, <2>2, <2>5 DEF AgreeInv, IInv, TypeOK
    <3>2. Copies(n, j)' = {}
      BY <2>2, <3>1, StoreFacts
    <3>3. PICK p \in wire' : p.to = n /\ p.msg = m
      <4>1. Relayed(m)
        BY <1>1, <2>1 DEF Relayed
      <4> QED
        BY <1>1, <2>1, <2>5, <4>1, RelayReaches DEF AgreeInv
    <3>4. Carries(p, j)
      BY <1>1, <2>1, <3>3 DEF Carries
    <3> QED
      BY <2>3, <3>1, <3>2, <3>3, <3>4 DEF CopyInv, Comes, GoneByDelete, CopyShows, Carries
  <2> QED
    BY <2>4, <2>5
<1> QED
  BY <1>1, <1>5, <1>6 DEF CopiesAgree

\* A connection is registered, or lost with what is on it, or nothing happens.
LEMMA LinkAgrees ==
  ASSUME AgreeInv, \/ \E n \in Nodes, c \in Conns : Register(n, c)
                   \/ \E c \in Conns : Cut(c)
                   \/ UNCHANGED vars
  PROVE  CopiesAgree'
<1>1. /\ doing' = doing /\ store' = store /\ had' = had /\ posted' = posted
      /\ overtaken' = overtaken /\ doubled' = doubled
      /\ missed \subseteq missed' /\ \A p \in wire \ wire' : <<p.to, p.msg.id>> \in missed'
  BY DEF Register, Cut, vars, nodeVars, blame
<1>2. ASSUME NEW i \in posted, NEW n \in Nodes, Clean(n, i)' PROVE CopyInv(n, i)'
  <2>1. i \in Ids /\ CopyInv(n, i) /\ <<n, i>> \notin missed'
    BY <1>1, <1>2, StillClean
  <2>2. \A p \in wire : p.to = n /\ p.msg.id = i => p \in wire'
    BY <1>1, <2>1
  <2>3. Copies(n, i)' = Copies(n, i)
    BY <1>1 DEF Copies
  <2>4. \A p \in wire : p.to = n /\ Carries(p, i) => p \in wire'
    BY <2>2 DEF Carries
  <2>5. /\ Edits(i)' = Edits(i)
        /\ \A op \in {"edit", "delete", "react"} :
             Made(op, i)' = Made(op, i) /\ Seen(n, op, i)' \subseteq Seen(n, op, i)
    BY <1>1, <2>1, <2>2, SameCommands
  <2> QED
    BY <1>1, <2>1, <2>3, <2>4, <2>5, Frame
<1> QED
  BY <1>1, <1>2 DEF CopiesAgree

\* A command looks its message up, or the hub takes what it publishes.
LEMMA TellAgrees ==
  ASSUME AgreeInv, NEW s \in Sessions, NEW j \in Ids, LookUp(s, j) \/ Publish(s)
  PROVE  CopiesAgree'
<1>1. /\ store' = store /\ had' = had /\ posted' = posted /\ overtaken' = overtaken
      /\ missed \subseteq missed' /\ doubled \subseteq doubled' /\ wire \subseteq wire'
  BY DEF LookUp, Publish, Relay, nodeVars, blame
<1>2. ASSUME NEW i \in posted, NEW n \in Nodes, Clean(n, i)' PROVE CopyInv(n, i)'
  <2>1. i \in Ids /\ CopyInv(n, i) /\ <<n, i>> \notin missed'
    BY <1>1, <1>2, StillClean
  <2>2. /\ Edits(i) \subseteq Edits(i)'
        /\ \A op \in {"edit", "delete", "react"} :
             Made(op, i) \subseteq Made(op, i)' /\ Seen(n, op, i)' \subseteq Seen(n, op, i)
    <3>1. CASE LookUp(s, j)
      <4>1. PICK c \in Commands : c.stage = "found" /\ doing' = [doing EXCEPT ![s] = c]
        BY <3>1 DEF LookUp, Stage, Commands
      <4>2. doing[s] = Idle
        BY <3>1 DEF LookUp
      <4> QED
        BY <1>1, <2>1, <4>1, <4>2, CommandStep
    <3>2. CASE Publish(s)
      <4> DEFINE c == [op |-> doing[s].op, id |-> doing[s].id, stage |-> "published"]
      <4>1. /\ doing[s] # Idle /\ doing[s] \in Commands /\ doing[s].stage = "changed"
            /\ doing' = [doing EXCEPT ![s] = c] /\ Relay(NodeOf[s], Tells(s))
        BY <3>2 DEF Publish, Stage, Tells, AgreeInv, IInv, TypeOK, Commands
      <4>2. c \in Commands /\ c.stage # "found" /\ c.op = doing[s].op /\ c.id = doing[s].id
        BY <4>1 DEF Commands
      <4>3. c.id = i => Unseen(n, s)' \/ (s \in Made(c.op, i) /\ ~Unseen(n, s))
        <5> SUFFICES ASSUME c.id = i, Unseen(n, s) PROVE Unseen(n, s)'
          BY <4>1, <4>2 DEF Made
        <5>1. NodeOf[s] # n /\ NodeOf[s] \in Nodes
          BY ReplicationAssumption DEF Unseen
        <5>2. Tells(s) \in Messages /\ Tells(s).id = i /\ Relayed(Tells(s))
          BY <4>1, <4>2, ReplicationAssumption DEF Tells, Messages, Kinds, Commands, Relayed
        <5>3. \E p \in wire' : p.to = n /\ p.msg = Tells(s)
          BY <2>1, <4>1, <5>1, <5>2, RelayReaches DEF AgreeInv
        <5>4. Tells(s)' = Tells(s)
          <6>1. doing'[s] = c
            BY <4>1 DEF AgreeInv, IInv, TypeOK
          <6> QED
            BY <4>2, <6>1 DEF Tells
        <5> QED
          BY <5>1, <5>3, <5>4 DEF Unseen, OnTheWay
      <4> HIDE DEF c
      <4> QED
        BY <1>1, <2>1, <4>1, <4>2, <4>3, CommandStep
    <3> QED
      BY <3>1, <3>2
  <2>3. Copies(n, i)' = Copies(n, i)
    BY <1>1 DEF Copies
  <2> QED
    BY <1>1, <2>1, <2>2, <2>3, Frame
<1> QED
  BY <1>1, <1>2 DEF CopiesAgree

\* Where the change of a session comes to a copy, the copy shows it.
LEMMA ChangeShown ==
  ASSUME NEW n \in Nodes, NEW i \in Ids, CopyInv(n, i), i \in had[n], i \in had'[n],
         NEW op \in {"edit", "delete", "react"}, NEW s \in Made(op, i)',
         Edits(i) \subseteq Edits(i)',
         \A o \in {"edit", "delete", "react"} : Made(o, i) \subseteq Made(o, i)',
         \A o \in {"edit", "delete", "react"} : \A t \in Seen(n, o, i)' :
           \/ t \in Seen(n, o, i)
           \/ o = op /\ (op = "edit" => t = s) /\ UserOf[t] = UserOf[s],
         Copies(n, i) \subseteq Stored,
         op = "edit" => Copies(n, i)' = {WithText(m, s) : m \in Copies(n, i)},
         op = "delete" => Copies(n, i)' = {},
         op = "react" => Copies(n, i)' = {LikedBy(m, UserOf[s]) : m \in Copies(n, i)}
  PROVE  CopyInv(n, i)'
<1>1. Comes(n, i)'
  BY DEF Comes
<1>2. GoneByDelete(n, i)'
  BY DEF CopyInv, GoneByDelete
<1>3. ASSUME NEW m \in Copies(n, i)
      PROVE  /\ Seen(n, "delete", i) = {}
             /\ \A u \in m.likes : \E t \in Made("react", i) : UserOf[t] = u
             /\ \A t \in Seen(n, "react", i) : UserOf[t] \in m.likes
             /\ m.text = "first" \/ m.text \in Made("edit", i)
             /\ \A t \in Seen(n, "edit", i) : (\A u \in Edits(i) : u = t) => m.text = t
  BY DEF CopyInv, CopyShows
<1>4. CopyShows(n, i)'
  <2>1. CASE op = "edit"
    <3> SUFFICES ASSUME NEW m \in Copies(n, i)
                 PROVE  LET w == WithText(m, s) IN
                        /\ Seen(n, "delete", i)' = {}
                        /\ \A u \in w.likes : \E t \in Made("react", i)' : UserOf[t] = u
                        /\ \A t \in Seen(n, "react", i)' : UserOf[t] \in w.likes
                        /\ w.text = "first" \/ w.text \in Made("edit", i)'
                        /\ \A t \in Seen(n, "edit", i)' : (\A u \in Edits(i)' : u = t) => w.text = t
      BY <2>1 DEF CopyShows
    <3>1. WithText(m, s).likes = m.likes /\ WithText(m, s).text = s
      BY DEF WithText, Stored
    <3>2. s \in Edits(i)'
      BY <2>1 DEF Made, Edits
    <3> QED
      BY <1>3, <2>1, <3>1, <3>2
  <2>2. CASE op = "delete"
    BY <2>2 DEF CopyShows
  <2>3. CASE op = "react"
    <3> SUFFICES ASSUME NEW m \in Copies(n, i)
                 PROVE  LET w == LikedBy(m, UserOf[s]) IN
                        /\ Seen(n, "delete", i)' = {}
                        /\ \A u \in w.likes : \E t \in Made("react", i)' : UserOf[t] = u
                        /\ \A t \in Seen(n, "react", i)' : UserOf[t] \in w.likes
                        /\ w.text = "first" \/ w.text \in Made("edit", i)'
                        /\ \A t \in Seen(n, "edit", i)' : (\A u \in Edits(i)' : u = t) => w.text = t
      BY <2>3 DEF CopyShows
    <3>1. LikedBy(m, UserOf[s]).likes = m.likes \cup {UserOf[s]} /\ LikedBy(m, UserOf[s]).text = m.text
      BY DEF LikedBy, Stored
    <3> QED
      BY <1>3, <2>3, <3>1
  <2> QED
    BY <2>1, <2>2, <2>3
<1> QED
  BY <1>1, <1>2, <1>4 DEF CopyInv

\* A session changes its node's copy.
LEMMA ChangeAgrees ==
  ASSUME AgreeInv, NEW s \in Sessions, NEW j \in Ids, NEW c \in Commands, c.stage = "changed", c.id = j,
         doing' = [doing EXCEPT ![s] = c], j \in had[NodeOf[s]],
         doing[s] # Idle => doing[s].op = c.op /\ doing[s].id = j /\ doing[s].stage = "found",
         c.op = "edit" => store' = [store EXCEPT ![NodeOf[s]] = Updated(store[NodeOf[s]], j, s)],
         c.op = "delete" => store' = [store EXCEPT ![NodeOf[s]] = Without(store[NodeOf[s]], j)],
         c.op = "react" => store' = [store EXCEPT ![NodeOf[s]] = Liked(store[NodeOf[s]], j, UserOf[s])],
         had' = had, wire' = wire, posted' = posted, UNCHANGED blame
  PROVE  CopiesAgree'
<1> DEFINE o == NodeOf[s]
<1>1. o \in Nodes /\ UserOf[s] \in Users /\ s \in {"first"} \cup Sessions
  BY ReplicationAssumption
<1>2. c.op \in {"edit", "delete", "react"} /\ doing'[s] = c /\ c # Idle
  BY DEF AgreeInv, IInv, TypeOK, Commands, Idle
<1>3. ASSUME NEW i \in posted, NEW n \in Nodes, Clean(n, i)' PROVE CopyInv(n, i)'
  <2>1. i \in Ids /\ CopyInv(n, i) /\ <<n, i>> \notin doubled
    BY <1>3, StillClean DEF blame
  <2>2. CASE n # o \/ i # j
    <3>1. Copies(n, i)' = Copies(n, i)
      <4>1. CASE n # o
        BY <1>2, <4>1 DEF AgreeInv, IInv, TypeOK, Copies
      <4>2. CASE n = o /\ i # j
        <5>1. store'[n] \in {Updated(store[n], j, s), Without(store[n], j), Liked(store[n], j, UserOf[s])}
          BY <1>2, <4>2 DEF AgreeInv, IInv, TypeOK
        <5>2. /\ store[n] \in Seq(Stored)
              /\ Copies(n, i) = CopiesOf(store[n], i) /\ Copies(n, i)' = CopiesOf(store'[n], i)
          BY <2>1, StoreFacts
        <5>3. CASE store'[n] = Updated(store[n], j, s)
          BY <1>1, <2>1, <4>2, <5>2, <5>3, UpdatedCopies
        <5>4. CASE store'[n] = Without(store[n], j)
          BY <2>1, <4>2, <5>2, <5>4, WithoutCopies
        <5>5. CASE store'[n] = Liked(store[n], j, UserOf[s])
          BY <1>1, <2>1, <4>2, <5>2, <5>5, LikedCopies
        <5> QED
          BY <5>1, <5>3, <5>4, <5>5
      <4> QED
        BY <2>2, <4>1, <4>2
    <3>2. c.id = i => Unseen(n, s)'
      BY <1>2, <2>2 DEF Unseen
    <3>3. /\ Edits(i) \subseteq Edits(i)'
          /\ \A op \in {"edit", "delete", "react"} :
               Made(op, i) \subseteq Made(op, i)' /\ Seen(n, op, i)' \subseteq Seen(n, op, i)
      <4>1. doing[s] # Idle => doing[s].op = c.op /\ doing[s].id = c.id
        OBVIOUS
      <4>2. doing[s] # Idle /\ doing[s].stage # "found" => c.stage # "found"
        OBVIOUS
      <4> HIDE DEF o
      <4> QED
        BY <2>1, <3>2, <4>1, <4>2, CommandStep
    <3> QED
      BY <2>1, <3>1, <3>3, Frame
  <2>3. CASE n = o /\ i = j
    <3>1. \A t \in Sessions \ {s} : doing'[t] = doing[t]
      BY DEF AgreeInv, IInv, TypeOK
    <3>2. s \in Made(c.op, i)'
      BY <1>2, <2>3 DEF Made
    <3>3. /\ Edits(i) \subseteq Edits(i)'
          /\ \A op \in {"edit", "delete", "react"} : Made(op, i) \subseteq Made(op, i)'
      BY <1>2, <3>1 DEF Edits, Made
    <3>4. \A op \in {"edit", "delete", "react"} : \A t \in Seen(n, op, i)' :
            t \in Seen(n, op, i) \/ (op = c.op /\ t = s)
      <4> TAKE op \in {"edit", "delete", "react"}
      <4> TAKE t \in Seen(n, op, i)'
      <4>1. CASE t = s
        BY <1>2, <4>1 DEF Seen, Made
      <4>2. CASE t # s
        <5>1. t \in Made(op, i) /\ doing'[t] = doing[t]
          BY <3>1, <4>2 DEF Seen, Made
        <5>2. Tells(t)' = Tells(t)
          BY <5>1 DEF Tells
        <5>3. Unseen(n, t) => Unseen(n, t)'
          BY <5>1, <5>2 DEF Unseen, OnTheWay
        <5> QED
          BY <5>1, <5>3 DEF Seen
      <4> QED
        BY <4>1, <4>2
    <3>5. /\ Copies(n, i) \subseteq Stored
          /\ c.op = "edit" => Copies(n, i)' = {WithText(m, s) : m \in Copies(n, i)}
          /\ c.op = "delete" => Copies(n, i)' = {}
          /\ c.op = "react" => Copies(n, i)' = {LikedBy(m, UserOf[s]) : m \in Copies(n, i)}
      <4>1. /\ c.op = "edit" => store'[n] = Updated(store[n], i, s)
            /\ c.op = "delete" => store'[n] = Without(store[n], i)
            /\ c.op = "react" => store'[n] = Liked(store[n], i, UserOf[s])
        BY <2>3 DEF AgreeInv, IInv, TypeOK
      <4>2. Copies(n, i) \subseteq Stored
        BY <2>1, StoreFacts, CopyFacts
      <4>3. /\ store[n] \in Seq(Stored) /\ Once(store[n], i)
            /\ Copies(n, i) = CopiesOf(store[n], i) /\ Copies(n, i)' = CopiesOf(store'[n], i)
        BY <2>1, StoreFacts, OnceThere
      <4>4. c.op = "edit" => Copies(n, i)' = {WithText(m, s) : m \in Copies(n, i)}
        BY <1>1, <2>1, <4>1, <4>3, UpdatedCopies
      <4>5. c.op = "delete" => Copies(n, i)' = {}
        BY <2>1, <4>1, <4>3, WithoutCopies
      <4>6. c.op = "react" => Copies(n, i)' = {LikedBy(m, UserOf[s]) : m \in Copies(n, i)}
        BY <1>1, <2>1, <4>1, <4>3, LikedCopies
      <4> QED
        BY <4>2, <4>4, <4>5, <4>6
    <3> HIDE DEF o
    <3> QED
      BY <1>2, <2>1, <2>3, <3>2, <3>3, <3>4, <3>5, ChangeShown DEF o
  <2> QED
    BY <2>2, <2>3
<1> QED
  BY <1>3 DEF CopiesAgree

\* A node applies what a peer sent.
LEMMA DeliverAgrees ==
  ASSUME AgreeInv, NEW p \in wire, Deliver(p)
  PROVE  CopiesAgree'
<1> DEFINE o == p.to  j == p.msg.id
<1>1. /\ o \in Nodes /\ p.msg \in Messages /\ j \in Ids
      /\ p.msg.text \in {"first"} \cup Sessions /\ p.msg.user \in Users
  BY DEF AgreeInv, IInv, TypeOK, Packets, Messages
<1>2. /\ wire' = wire \ {p} /\ posted' = posted /\ doing' = doing
      /\ missed' = missed /\ doubled' = doubled
      /\ store' = [store EXCEPT ![o] = Applied(store[o], p.msg)]
  BY DEF Deliver, Onward
<1>3. /\ Carries(p, j) => /\ had' = [had EXCEPT ![o] = had[o] \cup {j}] /\ overtaken' = overtaken
                          /\ Applied(store[o], p.msg) = Saved(store[o], j)
      /\ ~Carries(p, j) => /\ had' = had
                           /\ overtaken' = IF j \in had[o] THEN overtaken
                                                           ELSE overtaken \cup {<<o, j>>}
                           /\ p.msg.kind \notin {"chat", "notice"}
  BY DEF Deliver, Carries, Applied
<1> HIDE DEF o, j
<1>4. store'[o] = Applied(store[o], p.msg) /\ \A n \in Nodes \ {o} : store'[n] = store[n]
  BY <1>1, <1>2 DEF AgreeInv, IInv, TypeOK
<1>5. ASSUME NEW i \in posted, NEW n \in Nodes, Clean(n, i)' PROVE CopyInv(n, i)'
  <2>1. i \in Ids /\ CopyInv(n, i) /\ <<n, i>> \notin overtaken' /\ <<n, i>> \notin doubled
    BY <1>2, <1>3, <1>5, StillClean
  <2>2. /\ store[n] \in Seq(Stored) /\ Once(store[n], i)
        /\ Copies(n, i) = CopiesOf(store[n], i) /\ Copies(n, i)' = CopiesOf(store'[n], i)
        /\ i \notin had[n] => Copies(n, i) = {}
    BY <2>1, StoreFacts, OnceThere
  <2>3. CASE n # o \/ i # j
    <3>1. Copies(n, i)' = Copies(n, i)
      <4>1. CASE n # o
        BY <1>4, <2>2, <4>1
      <4>2. CASE n = o /\ i # j
        <5>1. \/ store'[n] = Saved(store[n], j)
              \/ store'[n] = Updated(store[n], j, p.msg.text)
              \/ store'[n] = Without(store[n], j)
              \/ store'[n] = Liked(store[n], j, p.msg.user)
              \/ store'[n] = store[n]
          BY <1>4, <4>2 DEF Applied, j
        <5>2. CASE store'[n] = Saved(store[n], j)
          BY <1>1, <2>1, <2>2, <4>2, <5>2, SavedCopies
        <5>3. CASE store'[n] = Updated(store[n], j, p.msg.text)
          <6>1. \A t \in {"first"} \cup Sessions : CopiesOf(Updated(store[n], j, t), i) = CopiesOf(store[n], i)
            BY <1>1, <2>1, <2>2, <4>2, UpdatedCopies
          <6> QED
            BY <1>1, <2>2, <5>3, <6>1
        <5>4. CASE store'[n] = Without(store[n], j)
          BY <1>1, <2>1, <2>2, <4>2, <5>4, WithoutCopies
        <5>5. CASE store'[n] = Liked(store[n], j, p.msg.user)
          BY <1>1, <2>1, <2>2, <4>2, <5>5, LikedCopies
        <5> QED
          BY <2>2, <5>1, <5>2, <5>3, <5>4, <5>5
      <4> QED
        BY <2>3, <4>1, <4>2
    <3>2. i \in had[n] <=> i \in had'[n]
      <4>1. had'[n] = had[n] \/ (n = o /\ had'[n] = had[n] \cup {j})
        BY <1>1, <1>3 DEF AgreeInv, IInv, TypeOK
      <4> QED
        BY <2>3, <4>1
    <3>3. \A q \in wire : q.to = n /\ q.msg.id = i => q \in wire'
      BY <1>2, <2>3 DEF o, j
    <3>4. \A q \in wire : q.to = n /\ Carries(q, i) => q \in wire'
      BY <3>3 DEF Carries
    <3>5. /\ Edits(i)' = Edits(i)
          /\ \A op \in {"edit", "delete", "react"} :
               Made(op, i)' = Made(op, i) /\ Seen(n, op, i)' \subseteq Seen(n, op, i)
      BY <1>2, <2>1, <3>3, SameCommands
    <3> QED
      BY <2>1, <3>1, <3>2, <3>4, <3>5, Frame
  <2>4. CASE n = o /\ i = j
    <3>1. /\ Edits(i)' = Edits(i)
          /\ \A op \in {"edit", "delete", "react"} : Made(op, i)' = Made(op, i)
      BY <1>2 DEF Edits, Made
    <3>2. ASSUME NEW op \in {"edit", "delete", "react"}, NEW t \in Seen(n, op, i)', t \notin Seen(n, op, i)
          PROVE  p.msg = Tells(t) /\ t \in Made(op, i)
      <4>1. t \in Made(op, i) /\ ~Unseen(n, t)' /\ Unseen(n, t)
        BY <3>1, <3>2 DEF Seen
      <4>2. Tells(t)' = Tells(t)
        BY <1>2 DEF Tells
      <4> QED
        BY <1>2, <4>1, <4>2 DEF Unseen, OnTheWay
    <3>3. CASE Carries(p, j)
      <4>1. i \notin had[n]
        BY <1>1, <2>1, <2>4, <3>3 DEF AgreeInv, IInv, NoLateCopy, o
      <4>2. \A op \in {"edit", "delete", "react"} : Seen(n, op, i)' = {}
        <5> SUFFICES ASSUME NEW op \in {"edit", "delete", "react"}, NEW t \in Seen(n, op, i)' PROVE FALSE
          OBVIOUS
        <5>1. t \notin Seen(n, op, i)
          BY <2>1, <4>1 DEF CopyInv, Comes
        <5>2. p.msg = Tells(t) /\ t \in Made(op, i)
          BY <3>2, <5>1
        <5>3. p.msg.kind = op
          BY <5>2 DEF Tells, Made
        <5> QED
          BY <3>3, <5>3 DEF Carries
      <4>3. Copies(n, i)' = {New(i)} /\ New(i).likes = {} /\ New(i).text = "first"
        <5>1. Copies(n, i)' = CopiesOf(store[n], i) \cup {New(i)}
          BY <1>3, <1>4, <2>1, <2>2, <2>4, <3>3, SavedCopies
        <5> QED
          BY <2>2, <4>1, <5>1 DEF New
      <4>4. i \in had'[n]
        BY <1>1, <1>3, <2>4, <3>3 DEF AgreeInv, IInv, TypeOK
      <4> QED
        BY <4>2, <4>3, <4>4 DEF CopyInv, Comes, GoneByDelete, CopyShows
    <3>4. CASE ~Carries(p, j)
      <4>1. i \in had[n] /\ i \in had'[n]
        BY <1>3, <2>1, <2>4, <3>4
      <4>2. PICK s \in Sessions : doing[s] # Idle /\ doing[s].stage = "published" /\ p.msg = Tells(s)
        BY <1>3, <3>4 DEF AgreeInv, ChangesAreMade
      <4>3. PICK c \in {"edit", "delete", "react"} :
              /\ doing[s].op = c /\ doing[s].id = i
              /\ p.msg.kind = c /\ p.msg.user = UserOf[s] /\ (c = "edit" => p.msg.text = s)
        BY <2>4, <4>2 DEF AgreeInv, IInv, TypeOK, Tells, j
      <4>4. s \in Made(c, i)'
        BY <1>2, <4>2, <4>3 DEF Made
      <4>5. \A op \in {"edit", "delete", "react"} : \A t \in Seen(n, op, i)' :
              \/ t \in Seen(n, op, i)
              \/ op = c /\ (c = "edit" => t = s) /\ UserOf[t] = UserOf[s]
        <5> SUFFICES ASSUME NEW op \in {"edit", "delete", "react"}, NEW t \in Seen(n, op, i)',
                            t \notin Seen(n, op, i)
                     PROVE  op = c /\ (c = "edit" => t = s) /\ UserOf[t] = UserOf[s]
          OBVIOUS
        <5>1. p.msg = Tells(t) /\ t \in Made(op, i)
          BY <3>2
        <5>2. p.msg.kind = op /\ p.msg.user = UserOf[t] /\ (op = "edit" => p.msg.text = t)
          BY <5>1 DEF Tells, Made
        <5> QED
          BY <4>3, <5>2
      <4>6. Copies(n, i) \subseteq Stored
        BY <2>1, <2>2, CopyFacts
      <4>7. c = "edit" => Copies(n, i)' = {WithText(m, s) : m \in Copies(n, i)}
        <5> SUFFICES ASSUME c = "edit" PROVE Copies(n, i)' = {WithText(m, s) : m \in Copies(n, i)}
          OBVIOUS
        <5>1. store'[n] = Updated(store[n], i, s) /\ s \in {"first"} \cup Sessions
          BY <1>4, <2>4, <4>3 DEF Applied, j
        <5> QED
          BY <2>1, <2>2, <5>1, UpdatedCopies
      <4>8. c = "delete" => Copies(n, i)' = {}
        <5> SUFFICES ASSUME c = "delete" PROVE Copies(n, i)' = {}
          OBVIOUS
        <5>1. store'[n] = Without(store[n], i)
          BY <1>4, <2>4, <4>3 DEF Applied, j
        <5> QED
          BY <2>1, <2>2, <5>1, WithoutCopies
      <4>9. c = "react" => Copies(n, i)' = {LikedBy(m, UserOf[s]) : m \in Copies(n, i)}
        <5> SUFFICES ASSUME c = "react" PROVE Copies(n, i)' = {LikedBy(m, UserOf[s]) : m \in Copies(n, i)}
          OBVIOUS
        <5>1. store'[n] = Liked(store[n], i, UserOf[s]) /\ UserOf[s] \in Users
          BY <1>1, <1>4, <2>4, <4>3 DEF Applied, j
        <5> QED
          BY <2>1, <2>2, <5>1, LikedCopies
      <4>10. /\ Edits(i) \subseteq Edits(i)'
             /\ \A op \in {"edit", "delete", "react"} : Made(op, i) \subseteq Made(op, i)'
        BY <3>1
      <4> QED
        BY <2>1, <4>1, <4>4, <4>5, <4>6, <4>7, <4>8, <4>9, <4>10, ChangeShown
    <3> QED
      BY <3>3, <3>4
  <2> QED
    BY <2>3, <2>4
<1> QED
  BY <1>2, <1>5 DEF CopiesAgree

\* Commands stay about messages their node has had, and what is sent tells of changes
\* that were made.
LEMMA CommandsKeep ==
  ASSUME AgreeInv, [Next]_vars
  PROVE  ChangesAreMade' /\ CommandsKnown' /\ IsFiniteSet(Giving)'
<1> DEFINE Old(s) == /\ \A t \in Sessions \ {s} : doing'[t] = doing[t]
                     /\ doing[s] = Idle \/ (doing'[s].op = doing[s].op /\ doing'[s].id = doing[s].id)
                     /\ doing[s] # Idle => doing[s].stage # "published"
                     /\ doing'[s] \in Commands /\ doing'[s].id \in had[NodeOf[s]]
                     /\ doing'[s].stage = "found" => doing'[s].op # "react"
<1>1. \A n \in Nodes : had[n] \subseteq had'[n]
  <2>1. \/ had' = had
        \/ \E n \in Nodes, i \in Ids : had' = [had EXCEPT ![n] = had[n] \cup {i}]
    BY ReplicationAssumption DEF Next, vars, nodeVars, Post, Register, Cut, Deliver, LookUp, ChangeIt, React,
       Publish, AgreeInv, IInv, TypeOK, Packets, Messages
  <2> QED
    BY <2>1 DEF AgreeInv, IInv, TypeOK
<1>2. doing' = doing \/ \E s \in Sessions : Old(s)
  <2>1. ASSUME NEW s \in Sessions, NEW op \in {"edit", "delete", "react"}, NEW i \in Ids,
               NEW stage \in {"found", "changed", "published"}, Stage(s, op, i, stage),
               doing[s] = Idle \/ (doing[s].op = op /\ doing[s].id = i),
               doing[s] # Idle => doing[s].stage # "published",
               i \in had[NodeOf[s]], stage = "found" => op # "react"
        PROVE  Old(s)
    <3> DEFINE c == [op |-> op, id |-> i, stage |-> stage]
    <3>1. doing' = [doing EXCEPT ![s] = c] /\ c \in Commands /\ c.op = op /\ c.id = i /\ c.stage = stage
      BY <2>1 DEF Stage, Commands
    <3>2. doing'[s] = c /\ \A t \in Sessions \ {s} : doing'[t] = doing[t]
      BY <3>1 DEF AgreeInv, IInv, TypeOK
    <3> HIDE DEF c
    <3> QED
      BY <2>1, <3>1, <3>2
  <2>2. \A s \in Sessions, i \in Ids : Has(NodeOf[s], i) => i \in had[NodeOf[s]]
    <3> SUFFICES ASSUME NEW s \in Sessions, NEW i \in Ids, Has(NodeOf[s], i) PROVE i \in had[NodeOf[s]]
      OBVIOUS
    <3>1. NodeOf[s] \in Nodes
      BY ReplicationAssumption
    <3>2. store[NodeOf[s]] \in Seq(Stored) /\ IdsIn(store[NodeOf[s]], had[NodeOf[s]])
      BY <3>1 DEF AgreeInv, IInv, TypeOK, StoreIsCounted
    <3> QED
      BY <3>2, FindPlace DEF Has, IdsIn
  <2>3. \A s \in Sessions : doing[s] # Idle =>
          doing[s].op \in {"edit", "delete", "react"} /\ doing[s].id \in Ids /\ doing[s].id \in had[NodeOf[s]]
    BY DEF AgreeInv, IInv, TypeOK, CommandsKnown
  <2> HIDE DEF Old
  <2>4. ASSUME NEW s \in Sessions, NEW i \in Ids, LookUp(s, i) PROVE Old(s)
    BY <2>1, <2>2, <2>4 DEF LookUp
  <2>5. ASSUME NEW s \in Sessions, NEW i \in Ids, React(s, i) PROVE Old(s)
    BY <2>1, <2>2, <2>5 DEF React
  <2>6. ASSUME NEW s \in Sessions, ChangeIt(s) PROVE Old(s)
    BY <2>1, <2>3, <2>6 DEF ChangeIt
  <2>7. ASSUME NEW s \in Sessions, Publish(s) PROVE Old(s)
    BY <2>1, <2>3, <2>7 DEF Publish
  <2>8. \/ doing' = doing
        \/ \E s \in Sessions : ChangeIt(s) \/ Publish(s) \/ \E i \in Ids : LookUp(s, i) \/ React(s, i)
    BY DEF Next, vars, Post, Register, Cut, Deliver
  <2> QED
    BY <2>4, <2>5, <2>6, <2>7, <2>8
<1>3. CommandsKnown'
  <2>1. ASSUME NEW s \in Sessions, doing'[s] # Idle
        PROVE  /\ doing'[s].id \in had[NodeOf[s]]
               /\ doing'[s].stage = "found" => doing'[s].op # "react"
    BY <1>2, <2>1 DEF AgreeInv, CommandsKnown
  <2> QED
    BY <1>1, <2>1, ReplicationAssumption DEF CommandsKnown
<1>4. IsFiniteSet(Giving)'
  <2>1. Giving' = Giving \/ \E s \in Sessions : Giving' = Giving \cup {s}
    <3>1. CASE doing' = doing
      BY <3>1 DEF Giving
    <3>2. ASSUME NEW s \in Sessions, Old(s) PROVE Giving' = Giving \cup {s}
      <4>1. doing'[s] # Idle
        BY <3>2 DEF Commands, Idle
      <4> QED
        BY <3>2, <4>1 DEF Giving
    <3> QED
      BY <1>2, <3>1, <3>2
  <2> QED
    BY <2>1, FS_AddElement DEF AgreeInv
<1>5. ChangesAreMade'
  <2>1. ASSUME NEW s \in Sessions, doing[s] # Idle, doing[s].stage = "published"
        PROVE  doing'[s] = doing[s] /\ Tells(s)' = Tells(s)
    <3>1. doing'[s] = doing[s]
      BY <1>2, <2>1
    <3> QED
      BY <3>1 DEF Tells
  <2>2. ASSUME NEW p \in wire' \ wire, p.msg.kind \notin {"chat", "notice"}
        PROVE  \E s \in Sessions : doing'[s] # Idle /\ doing'[s].stage = "published" /\ p.msg = Tells(s)'
    <3>1. CASE \E i \in Ids : Post(i)
      <4>1. PICK i \in Ids : Post(i)
        BY <3>1
      <4> DEFINE m == [kind |-> KindOf[i], id |-> i, text |-> "first", user |-> AuthorOf[i]]
      <4>2. p \in PacketsOf(PostedAt[i], m) /\ KindOf[i] \in {"chat", "dm", "notice"}
        BY <2>2, <4>1, ReplicationAssumption DEF Post, Relay
      <4>3. p.msg = m /\ m.kind # "dm"
        <5> HIDE DEF m
        <5> QED
          BY <4>2 DEF PacketsOf, Relayed
      <4> QED
        BY <2>2, <4>2, <4>3
    <3>2. CASE \E s \in Sessions : Publish(s)
      <4>1. PICK s \in Sessions : Publish(s)
        BY <3>2
      <4>2. Relay(NodeOf[s], Tells(s)) /\ doing[s] # Idle
        BY <4>1 DEF Publish, Tells
      <4>3. p.msg = Tells(s)
        BY <2>2, <4>2 DEF Relay, PacketsOf
      <4> DEFINE c == [op |-> doing[s].op, id |-> doing[s].id, stage |-> "published"]
      <4>4. doing'[s] = c
        BY <4>1 DEF Publish, Stage, AgreeInv, IInv, TypeOK
      <4>5. c # Idle /\ c.stage = "published" /\ c.op = doing[s].op /\ c.id = doing[s].id
        BY DEF Idle
      <4>6. Tells(s)' = Tells(s)
        BY <4>4, <4>5 DEF Tells
      <4> QED
        BY <4>3, <4>4, <4>5, <4>6
    <3> QED
      BY <2>2, <3>1, <3>2 DEF Next, vars, Register, Cut, Deliver, Onward, LookUp, ChangeIt, React
  <2>3. ASSUME NEW p \in wire', p.msg.kind \notin {"chat", "notice"}
        PROVE  \E s \in Sessions : doing'[s] # Idle /\ doing'[s].stage = "published" /\ p.msg = Tells(s)'
    <3>1. CASE p \in wire
      <4>1. PICK s \in Sessions : doing[s] # Idle /\ doing[s].stage = "published" /\ p.msg = Tells(s)
        BY <2>3, <3>1 DEF AgreeInv, ChangesAreMade
      <4> QED
        BY <2>1, <4>1
    <3> QED
      BY <2>2, <2>3, <3>1
  <2> QED
    BY <2>3 DEF ChangesAreMade
<1> QED
  BY <1>3, <1>4, <1>5

\* Every step keeps the copies as the changes say.
LEMMA NextAgrees == AgreeInv /\ [Next]_vars => AgreeInv'
<1> SUFFICES ASSUME AgreeInv, [Next]_vars PROVE AgreeInv'
  OBVIOUS
<1>1. IInv' /\ ChangesAreMade' /\ CommandsKnown' /\ IsFiniteSet(Giving)'
  BY NextKeeps, CommandsKeep DEF AgreeInv
<1>2. ASSUME NEW s \in Sessions, ChangeIt(s) PROVE CopiesAgree'
  <2> DEFINE c == [op |-> doing[s].op, id |-> doing[s].id, stage |-> "changed"]
  <2>1. /\ doing[s] # Idle /\ doing[s] \in Commands /\ doing[s].stage = "found" /\ doing[s].op # "react"
        /\ doing[s].id \in had[NodeOf[s]]
    BY <1>2 DEF ChangeIt, AgreeInv, IInv, TypeOK, Commands, CommandsKnown
  <2>2. c \in Commands /\ c.stage = "changed" /\ c.op = doing[s].op /\ c.id = doing[s].id
    BY <2>1 DEF Commands
  <2>3. doing[s].op \in {"edit", "delete"} /\ doing[s].id \in Ids
    BY <2>1 DEF Commands
  <2>4. /\ doing' = [doing EXCEPT ![s] = c] /\ had' = had /\ wire' = wire /\ posted' = posted
        /\ UNCHANGED blame
        /\ store' = [store EXCEPT ![NodeOf[s]] =
                       IF doing[s].op = "edit" THEN Updated(store[NodeOf[s]], doing[s].id, s)
                                               ELSE Without(store[NodeOf[s]], doing[s].id)]
    BY <1>2 DEF ChangeIt, Stage
  <2>5. PICK d \in Commands, i \in Ids :
          /\ d.stage = "changed" /\ d.id = i /\ doing' = [doing EXCEPT ![s] = d] /\ i \in had[NodeOf[s]]
          /\ doing[s].op = d.op /\ doing[s].id = i /\ d.op # "react"
          /\ d.op = "edit" => store' = [store EXCEPT ![NodeOf[s]] = Updated(store[NodeOf[s]], i, s)]
          /\ d.op = "delete" => store' = [store EXCEPT ![NodeOf[s]] = Without(store[NodeOf[s]], i)]
    <3> HIDE DEF c
    <3> QED
      BY <2>1, <2>2, <2>3, <2>4
  <2> QED
    BY <2>1, <2>4, <2>5, ChangeAgrees
<1>3. ASSUME NEW s \in Sessions, NEW i \in Ids, React(s, i) PROVE CopiesAgree'
  <2> DEFINE c == [op |-> "react", id |-> i, stage |-> "changed"]
  <2>1. c \in Commands /\ c.stage = "changed" /\ c.op = "react" /\ c.id = i
    BY DEF Commands
  <2>2. /\ doing[s] = Idle /\ doing' = [doing EXCEPT ![s] = c] /\ had' = had /\ wire' = wire
        /\ posted' = posted /\ UNCHANGED blame
        /\ store' = [store EXCEPT ![NodeOf[s]] = Liked(store[NodeOf[s]], i, UserOf[s])]
    BY <1>3 DEF React, Stage
  <2>3. i \in had[NodeOf[s]]
    <3>1. doing'[s] = c /\ c # Idle
      BY <2>2 DEF AgreeInv, IInv, TypeOK, Idle
    <3> HIDE DEF c
    <3> QED
      BY <1>1, <2>1, <2>2, <3>1 DEF CommandsKnown
  <2> HIDE DEF c
  <2>4. PICK d \in Commands : d = c
    BY <2>1
  <2> QED
    BY <2>1, <2>2, <2>3, <2>4, ChangeAgrees
<1>4. ASSUME NEW i \in Ids, Post(i) PROVE CopiesAgree'
  BY <1>4, PostAgrees
<1>5. ASSUME NEW n \in Nodes, NEW c \in Conns, Register(n, c) PROVE CopiesAgree'
  BY <1>5, LinkAgrees
<1>6. ASSUME NEW c \in Conns, Cut(c) PROVE CopiesAgree'
  BY <1>6, LinkAgrees
<1>7. ASSUME NEW p \in wire, Deliver(p) PROVE CopiesAgree'
  BY <1>7, DeliverAgrees
<1>8. ASSUME NEW s \in Sessions, NEW i \in Ids, LookUp(s, i) PROVE CopiesAgree'
  BY <1>8, TellAgrees
<1>9. ASSUME NEW s \in Sessions, Publish(s) PROVE CopiesAgree'
  <2>1. doing[s].id \in Ids
    BY <1>9 DEF Publish, AgreeInv, IInv, TypeOK
  <2> QED
    BY <1>9, <2>1, TellAgrees
<1>10. ASSUME UNCHANGED vars PROVE CopiesAgree'
  BY <1>10, LinkAgrees
<1>11. CopiesAgree'
  BY <1>2, <1>3, <1>4, <1>5, <1>6, <1>7, <1>8, <1>9, <1>10 DEF Next
<1> QED
  BY <1>1, <1>11 DEF AgreeInv

\* When nothing is on its way, every change of a clean chat was seen everywhere.
LEMMA QuietCopies ==
  ASSUME AgreeInv, Quiet, NEW i \in posted, Cardinality(Edits(i)) <= 1,
         NEW n \in Nodes, NEW m \in Nodes, Clean(n, i), Clean(m, i)
  PROVE  Copies(n, i) \subseteq Copies(m, i)
<1>1. i \in Ids /\ CopyInv(n, i) /\ CopyInv(m, i)
  BY DEF AgreeInv, IInv, TypeOK, CopiesAgree
<1>2. \A o \in Nodes, op \in {"edit", "delete", "react"} : Seen(o, op, i) = Made(op, i)
  <2>1. \A s \in Sessions, op \in {"edit", "delete", "react"} : s \in Made(op, i) => doing[s].stage = "published"
    BY DEF Quiet, Made
  <2>2. \A o \in Nodes, s \in Sessions : doing[s].stage = "published" => ~Unseen(o, s)
    BY DEF Quiet, Unseen, OnTheWay
  <2> QED
    BY <2>1, <2>2 DEF Seen, Made
<1>3. i \in had[m]
  BY <1>1 DEF Quiet, CopyInv, Comes
<1>4. \A s, t \in Edits(i) : s = t
  <2> SUFFICES ASSUME NEW s \in Edits(i), NEW t \in Edits(i), s # t PROVE FALSE
    OBVIOUS
  <2>1. Edits(i) \subseteq Giving /\ IsFiniteSet(Giving)
    BY DEF Edits, Giving, AgreeInv
  <2>2. IsFiniteSet(Edits(i)) /\ Cardinality(Edits(i)) \in Nat
    BY <2>1, FS_Subset, FS_CardinalityType
  <2>3. {s, t} \subseteq Edits(i)
    OBVIOUS
  <2>4. Cardinality({s, t}) <= Cardinality(Edits(i))
    BY <2>2, <2>3, FS_Subset
  <2>5. Cardinality({s, t}) = 2
    <3>1. IsFiniteSet({s}) /\ Cardinality({s}) = 1
      BY FS_Singleton
    <3>2. {s, t} = {s} \cup {t} /\ t \notin {s}
      OBVIOUS
    <3> QED
      BY <3>1, <3>2, FS_AddElement
  <2> QED
    BY <2>2, <2>4, <2>5
<1>5. SUFFICES ASSUME NEW x \in Copies(n, i) PROVE x \in Copies(m, i)
  OBVIOUS
<1>6. PICK y \in Copies(m, i) : TRUE
  BY <1>1, <1>2, <1>3 DEF CopyInv, CopyShows, GoneByDelete
<1>7. x \in Stored /\ y \in Stored /\ x.id = i /\ y.id = i
  BY <1>1, <1>6, StoreFacts, CopyFacts
<1>8. \A z \in {x, y} :
        /\ \A u \in z.likes : \E s \in Made("react", i) : UserOf[s] = u
        /\ \A s \in Made("react", i) : UserOf[s] \in z.likes
        /\ z.text = "first" \/ z.text \in Made("edit", i)
        /\ \A s \in Made("edit", i) : (\A t \in Edits(i) : t = s) => z.text = s
  <2>1. \A o \in {n, m} : \A z \in Copies(o, i) :
          /\ \A u \in z.likes : \E s \in Made("react", i) : UserOf[s] = u
          /\ \A s \in Made("react", i) : UserOf[s] \in z.likes
          /\ z.text = "first" \/ z.text \in Made("edit", i)
          /\ \A s \in Made("edit", i) : (\A t \in Edits(i) : t = s) => z.text = s
    BY <1>1, <1>2 DEF CopyInv, CopyShows
  <2> QED
    BY <1>6, <2>1
<1>9. x.likes = y.likes
  BY <1>8
<1>10. x.text = y.text
  <2>1. \A s \in Made("edit", i) : s \in Edits(i) /\ \A t \in Edits(i) : t = s
    BY <1>4 DEF Made, Edits
  <2> QED
    BY <1>8, <2>1
<1> QED
  BY <1>6, <1>7, <1>9, <1>10 DEF Stored

\* The invariant always holds.
LEMMA AlwaysAgreeInv == Spec => []AgreeInv
<1>1. AgreeInv /\ [Next]_vars => AgreeInv'
  BY NextAgrees
<1> QED
  BY <1>1, InitAgrees, PTL DEF Spec

\* Stores, connections, messages on their way and commands have their types.
THEOREM ReplicationTypes == Spec => []TypeOK
<1>1. IInv => TypeOK
  BY DEF IInv
<1> QED
  BY <1>1, AlwaysIInv, PTL

\* However messages, their copies and the changes to them overtake each other, no node
\* stores a message twice, and none comes back after it was deleted, where the message was
\* not sent to the node over two connections (node.go:278-281, peer.go:213-247).
THEOREM NothingStoredTwice == Spec => []StoredOnce
BY AlwaysIInv, InvStoredOnce, PTL

\* Once nothing is on its way, any two nodes have the same copy of a chat, with its text
\* and its reactions, or both have none, unless one of them missed something about it, heard
\* of a change before the chat or was sent the chat over two connections, or it was edited
\* twice (peer.go:51-67, 213-244, commands.go:61-147).
THEOREM QuietClusterAgrees == Spec => []QuietNodesAgree
<1>1. AgreeInv => QuietNodesAgree
  <2> SUFFICES ASSUME AgreeInv, Quiet, NEW i \in posted, KindOf[i] = "chat",
                      Cardinality(Edits(i)) <= 1, NEW n \in Nodes, NEW m \in Nodes,
                      ~Blamed(n, i), ~Blamed(m, i)
               PROVE  Copies(n, i) = Copies(m, i)
    BY DEF QuietNodesAgree
  <2>1. Clean(n, i) /\ Clean(m, i)
    BY DEF Clean
  <2>2. Copies(n, i) \subseteq Copies(m, i)
    BY <2>1, QuietCopies
  <2>3. Copies(m, i) \subseteq Copies(n, i)
    BY <2>1, QuietCopies
  <2> QED
    BY <2>2, <2>3
<1> QED
  BY <1>1, AlwaysAgreeInv, PTL
=============================================================================
