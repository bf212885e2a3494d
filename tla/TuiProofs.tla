----------------------------- MODULE TuiProofs -----------------------------
(***************************************************************************)
(* For any rooms, messages and users, and any number of changes:           *)
(*  - the types of Tui;                                                    *)
(*  - counts of unread messages can be reached, and what arrives leaves    *)
(*    the cursor on its channel;                                           *)
(*  - when nothing is under way the screen shows what is stored, but for   *)
(*    what was caught in the login, what the node did not send here and    *)
(*    what somebody reacted to twice.                                      *)
(***************************************************************************)
EXTENDS Tui, FiniteSetTheorems, SequenceTheorems, WellFoundedInduction, TLAPS

-----------------------------------------------------------------------------
(* Sequences of messages *)

In(s, i) == \E k \in 1..Len(s) : s[k].id = i
OneEach(s) == \A k, l \in 1..Len(s) : s[k].id = s[l].id => k = l

\* The smallest of a set of numbers is one of them.
LEMMA MinIsMember ==
  ASSUME NEW S \in SUBSET Nat, S # {}
  PROVE  Min(S) \in S
<1> DEFINE Less == {ss \in Nat \X Nat : ss[1] < ss[2]}
<1>1. IsWellFoundedOn(Less, Nat)
  BY NatLessThanWellFounded DEF OpToRel
<1> HIDE DEF Less
<1>2. PICK n \in S : \A m \in S : ~(<<m, n>> \in Less)
  BY <1>1, WFMin
<1>3. \A i, j \in Nat : i < j => <<i, j>> \in Less
  BY DEF Less
<1>4. \A m \in S : ~(m < n)
  BY <1>2, <1>3, Zenon
<1>5. \A m \in S : n <= m
  BY <1>4
<1> QED
  BY <1>5 DEF Min

\* The last of some places of a sequence.
LEMMA LastOf ==
  ASSUME NEW n \in Nat, NEW S \in SUBSET (1..n), S # {}
  PROVE  \E k \in S : \A l \in S : l <= k
<1> DEFINE T == {n - k : k \in S}
<1>1. T \in SUBSET Nat /\ T # {}
  OBVIOUS
<1>2. Min(T) \in T /\ \A t \in T : Min(T) <= t
  <2>1. Min(T) \in T
    BY <1>1, MinIsMember
  <2> DEFINE Less == {ss \in Nat \X Nat : ss[1] < ss[2]}
  <2>2. IsWellFoundedOn(Less, Nat)
    BY NatLessThanWellFounded DEF OpToRel
  <2>3. \A i, j \in Nat : i < j => <<i, j>> \in Less
    OBVIOUS
  <2> HIDE DEF Less, T
  <2>4. PICK m \in T : \A t \in T : ~(<<t, m>> \in Less)
    BY <1>1, <2>2, WFMin
  <2>5. \A t \in T : ~(t < m)
    BY <1>1, <2>3, <2>4, Zenon
  <2>6. \A t \in T : m <= t
    BY <1>1, <2>5
  <2> QED
    BY <2>1, <2>6 DEF Min
<1>3. PICK k \in S : Min(T) = n - k
  BY <1>2
<1>4. \A l \in S : Min(T) <= n - l
  BY <1>2
<1> HIDE DEF T
<1> QED
  BY <1>3, <1>4

\* A message is found at one of its places, or has none.
LEMMA FindIs ==
  ASSUME NEW S, NEW s \in Seq(S), NEW i
  PROVE  /\ Find(s, i) \in 0..Len(s)
         /\ Find(s, i) # 0 => Find(s, i) \in 1..Len(s) /\ s[Find(s, i)].id = i
         /\ Has(s, i) <=> In(s, i)
<1> DEFINE I == {k \in 1..Len(s) : s[k].id = i}
<1>1. Find(s, i) = IF I # {} THEN Min(I) ELSE 0
  BY DEF Find, SelectInSeq
<1>2. I \in SUBSET Nat /\ I \subseteq 1..Len(s) /\ Len(s) \in Nat
  OBVIOUS
<1>3. I # {} <=> In(s, i)
  BY DEF In
<1>4. \A k \in I : k # 0 /\ k \in 1..Len(s) /\ s[k].id = i
  BY <1>2
<1> HIDE DEF I
<1>5. I # {} => Min(I) \in I
  BY <1>2, MinIsMember
<1>6. Has(s, i) <=> Find(s, i) # 0
  BY DEF Has
<1>7. CASE I = {}
  BY <1>1, <1>2, <1>3, <1>6, <1>7
<1>8. CASE I # {}
  <2>1. Find(s, i) = Min(I)
    BY <1>1, <1>8
  <2>2. Find(s, i) \in I
    BY <1>5, <1>8, <2>1
  <2>3. Find(s, i) # 0 /\ Find(s, i) \in 1..Len(s) /\ s[Find(s, i)].id = i
    BY <1>4, <2>2
  <2>4. Find(s, i) \in 0..Len(s)
    BY <1>2, <2>3
  <2> QED
    BY <1>3, <1>6, <1>8, <2>3, <2>4, Zenon
<1> QED
  BY <1>7, <1>8

\* An empty text has no message.
LEMMA NothingInEmpty == \A S, i : <<>> \in Seq(S) /\ ~In(<<>>, i) /\ ~Has(<<>>, i)
<1> SUFFICES ASSUME NEW S, NEW i PROVE <<>> \in Seq(S) /\ ~In(<<>>, i) /\ ~Has(<<>>, i)
  OBVIOUS
<1>1. <<>> \in Seq(S) /\ Len(<<>>) = 0 /\ 1..0 = {}
  OBVIOUS
<1>2. ~In(<<>>, i)
  BY <1>1 DEF In
<1> QED
  BY <1>1, <1>2, FindIs, Zenon

\* A place taken out of a sequence: what is after it moves by one.
LEMMA RemovedIs ==
  ASSUME NEW S, NEW s \in Seq(S), NEW f \in 1..Len(s)
  PROVE  /\ RemoveAt(s, f) \in Seq(S) /\ Len(RemoveAt(s, f)) = Len(s) - 1
         /\ \A k \in 1..(Len(s) - 1) : RemoveAt(s, f)[k] = IF k < f THEN s[k] ELSE s[k + 1]
<1> DEFINE a == SubSeq(s, 1, f - 1)
           b == SubSeq(s, f + 1, Len(s))
<1>1. RemoveAt(s, f) = a \o b
  BY DEF RemoveAt
<1>2. a \in Seq(S) /\ Len(a) = f - 1 /\ \A k \in 1..(f - 1) : a[k] = s[k]
  OBVIOUS
<1>3. b \in Seq(S) /\ Len(b) = Len(s) - f /\ \A k \in 1..(Len(s) - f) : b[k] = s[f + k]
  OBVIOUS
<1> HIDE DEF a, b
<1>4. /\ a \o b \in Seq(S) /\ Len(a \o b) = Len(a) + Len(b)
      /\ \A k \in 1..(Len(a) + Len(b)) : (a \o b)[k] = IF k <= Len(a) THEN a[k] ELSE b[k - Len(a)]
  BY <1>2, <1>3, ConcatProperties
<1>5. Len(s) \in Nat
  OBVIOUS
<1>6. ASSUME NEW k \in 1..(Len(s) - 1)
      PROVE  (a \o b)[k] = IF k < f THEN s[k] ELSE s[k + 1]
  <2>1. k \in 1..(Len(a) + Len(b))
    BY <1>2, <1>3, <1>5
  <2>2. CASE k < f
    BY <1>2, <1>4, <1>5, <2>1, <2>2
  <2>3. CASE ~(k < f)
    <3>1. k - (f - 1) \in 1..(Len(s) - f) /\ f + (k - (f - 1)) = k + 1
      BY <1>5, <2>3
    <3> QED
      BY <1>2, <1>3, <1>4, <1>5, <2>1, <2>3, <3>1
  <2> QED
    BY <2>2, <2>3
<1> QED
  BY <1>1, <1>2, <1>3, <1>4, <1>5, <1>6

\* What an append makes of the messages of a sequence.
LEMMA AppendIs ==
  ASSUME NEW S, NEW s \in Seq(S), NEW m \in S
  PROVE  /\ Append(s, m) \in Seq(S) /\ Len(Append(s, m)) = Len(s) + 1 /\ Len(s) + 1 \in 1..(Len(s) + 1)
         /\ \A k \in 1..Len(s) : k \in 1..(Len(s) + 1) /\ Append(s, m)[k] = s[k]
         /\ Append(s, m)[Len(s) + 1] = m
         /\ \A k \in 1..(Len(s) + 1) : k \in 1..Len(s) \/ k = Len(s) + 1
         /\ \A i : In(Append(s, m), i) <=> In(s, i) \/ m.id = i
         /\ OneEach(s) /\ ~In(s, m.id) => OneEach(Append(s, m))
<1> DEFINE t == Append(s, m)
           n == Len(s)
<1>1. /\ t \in Seq(S) /\ Len(t) = n + 1 /\ n \in Nat
      /\ \A k \in 1..n : t[k] = s[k]
      /\ t[n + 1] = m
  OBVIOUS
<1> HIDE DEF t, n
<1>2. n + 1 \in 1..(n + 1) /\ \A k \in 1..n : k \in 1..(n + 1)
  BY <1>1
<1>3. \A k \in 1..(n + 1) : k \in 1..n \/ k = n + 1
  BY <1>1
<1>4. \A i : In(t, i) <=> In(s, i) \/ m.id = i
  BY <1>1, <1>2, <1>3 DEF In, n
<1>5. OneEach(s) /\ ~In(s, m.id) => OneEach(t)
  BY <1>1, <1>3 DEF OneEach, In, n
<1> QED
  BY <1>1, <1>2, <1>3, <1>4, <1>5 DEF t, n

\* What is left after the first.
LEMMA TailIs ==
  ASSUME NEW S, NEW s \in Seq(S), s # <<>>
  PROVE  /\ Len(s) \in Nat \ {0} /\ 1 \in 1..Len(s) /\ Head(s) = s[1] /\ Head(s) \in S
         /\ Tail(s) \in Seq(S) /\ Len(Tail(s)) = Len(s) - 1 /\ Len(s) - 1 \in Nat
         /\ \A k \in 1..(Len(s) - 1) : k + 1 \in 1..Len(s) /\ Tail(s)[k] = s[k + 1]
         /\ \A k \in 2..Len(s) : k \in 1..Len(s) /\ k - 1 \in 1..(Len(s) - 1) /\ Tail(s)[k - 1] = s[k]
         /\ \A i : In(Tail(s), i) => In(s, i)
         /\ OneEach(s) => OneEach(Tail(s)) /\ \A i : In(Tail(s), i) <=> In(s, i) /\ i # s[1].id
<1> DEFINE t == Tail(s)
           n == Len(s)
<1>1. /\ t \in Seq(S) /\ Len(t) = n - 1 /\ n \in Nat \ {0} /\ n - 1 \in Nat
      /\ \A k \in 1..(n - 1) : t[k] = s[k + 1]
      /\ Head(s) = s[1] /\ Head(s) \in S
  OBVIOUS
<1> HIDE DEF t, n
<1>2. 1 \in 1..n /\ \A k \in 1..(n - 1) : k + 1 \in 1..n /\ k + 1 # 1
  BY <1>1
<1>3. \A k \in 2..n : k \in 1..n /\ k - 1 \in 1..(n - 1) /\ t[k - 1] = s[k]
  BY <1>1
<1>4. \A k \in 1..n : k = 1 \/ k \in 2..n
  BY <1>1
<1>5. \A i : In(t, i) => In(s, i)
  BY <1>1, <1>2 DEF In, n
<1>6. ASSUME OneEach(s) PROVE OneEach(t) /\ \A i : In(t, i) <=> In(s, i) /\ i # s[1].id
  <2>1. \A k, l \in 1..(n - 1) : k + 1 = l + 1 => k = l
    BY <1>1
  <2>2. OneEach(t)
    BY <1>1, <1>2, <1>6, <2>1 DEF OneEach, n
  <2>3. \A k \in 2..n : s[k].id # s[1].id
    BY <1>2, <1>3, <1>6 DEF OneEach, n
  <2>4. \A i : In(t, i) => i # s[1].id
    <3>1. \A k \in 1..(n - 1) : t[k].id # s[1].id
      BY <1>1, <1>2, <1>6 DEF OneEach, n
    <3> QED
      BY <1>1, <3>1 DEF In
  <2>5. \A i : In(s, i) /\ i # s[1].id => In(t, i)
    BY <1>1, <1>3, <1>4 DEF In, n
  <2> QED
    BY <1>5, <2>2, <2>4, <2>5
<1> QED
  BY <1>1, <1>2, <1>3, <1>5, <1>6 DEF t, n
-----------------------------------------------------------------------------
(* The invariants *)

Command == [op : {"chat"}, id : Ids, pane : Panes] \cup [op : {"join", "leave"}, id : {"none"}, pane : Rooms]
PaneType == [msgs : Seq(Shown), unread : Nat]

\* A message as the node may have it: posted, where it belongs, and changed no more
\* often than anything was (n times).  What was typed comes from the replay of no
\* login, and is told of in rooms only.
ProperAt(m, ids, n) ==
  /\ m \in Message /\ m.id \in ids
  /\ KindOf[m.id] # "typed" => m.pane = PaneOf[m.id]
  /\ m.rev <= n /\ IsFiniteSet(m.likes) /\ Cardinality(m.likes) <= n
ReplayableAt(m, ids, n) == ProperAt(m, ids, n) /\ KindOf[m.id] # "typed"
ProperEventAt(e, ids, n) ==
  /\ e \in Events /\ ProperAt(e.msg, ids, n)
  /\ e.op = "new" /\ KindOf[e.msg.id] = "typed" => e.msg.pane \in Rooms

Proper(m) == ProperAt(m, sent, changes)
Replayable(m) == ReplayableAt(m, sent, changes)
ProperEvent(e) == ProperEventAt(e, sent, changes)

Before == phase \in {"out", "registered", "joined"}

\* The node's part: the types, proper messages, and what is empty when.
NodeCore ==
  /\ stored \in Seq(Message) /\ history \in Seq(Message) /\ live \in Seq(Events)
  /\ \A k \in 1..Len(stored) : Proper(stored[k]) /\ (Before => Replayable(stored[k]))
  /\ \A k \in 1..Len(history) : Replayable(history[k])
  /\ \A k \in 1..Len(live) : ProperEvent(live[k])
  /\ phase \in {"out", "registered", "joined", "replay", "lost"}
  /\ phase = "out" => live = <<>>
  /\ phase # "replay" => history = <<>>
  /\ members \subseteq Rooms /\ sent \subseteq Ids /\ changes \in 0..MaxChanges
  /\ raced \cup unheard \cup again \subseteq Ids
\* And what the client has sent: a message was typed here.
TypedHere(o) == o.op = "chat" => o.id \in sent /\ KindOf[o.id] = "typed"
NodeInv == NodeCore /\ outbox \in Seq(Command) /\ \A k \in 1..Len(outbox) : TypedHere(outbox[k])

\* The messages of a channel on the screen.
Text(p) == IF p \in DOMAIN panes THEN panes[p].msgs ELSE <<>>

\* The reactions the client has been told of, and will have been told of once it has
\* read k more events, are no more than there were changes.
Tallies == [0..Len(live) -> 0..changes]
Tally(c) == \A k \in 1..Len(live) : c[k] = c[k - 1] + IF live[k].op = "like" THEN 1 ELSE 0
LikesLow ==
  \E c \in Tallies :
    Tally(c) /\ \A p \in Panes : \A k \in 1..Len(Text(p)) : Text(p)[k].likes <= changes + c[0]

\* The screen's part: every room with a pane is listed, and whatever is listed has one.
ScreenInv ==
  /\ panes \in [DOMAIN panes -> PaneType] /\ DOMAIN panes \subseteq Panes
  /\ channels \in Seq(Rooms) /\ IsInjective(channels)
  /\ dms \in Seq(DmPanes) /\ IsInjective(dms)
  /\ active \in DOMAIN panes
  /\ \A k \in 1..Len(channels) : channels[k] \in DOMAIN panes
  /\ \A k \in 1..Len(dms) : dms[k] \in DOMAIN panes
  /\ \A p \in DOMAIN panes \cap Rooms : \E k \in 1..Len(channels) : channels[k] = p
  /\ cursor \in 1..(Len(channels) + Len(dms)) /\ focus \in {"input", "sidebar"}

-----------------------------------------------------------------------------
(* Ids *)

\* An event about i is on its way; i was typed and waits at the place k, or somewhere;
\* there is nothing of i anywhere.
InLive(i) == \E k \in 1..Len(live) : live[k].msg.id = i

Waits(i, k) == outbox[k].op = "chat" /\ outbox[k].id = i
Waiting(i) == \E k \in 1..Len(outbox) : Waits(i, k)
Nowhere(i) ==
  ~In(stored, i) /\ ~In(history, i) /\ ~InLive(i) /\ \A p \in Panes : ~In(Text(p), i)

\* Ids occur once in the store, in the replay and among what is about to be posted, and
\* until it is posted a message is nowhere.
IdInv ==
  /\ OneEach(stored) /\ OneEach(history)
  /\ \A i \in Ids : \A k, l \in 1..Len(outbox) : Waits(i, k) /\ Waits(i, l) => k = l
  /\ \A i \in Ids : i \notin sent \/ Waiting(i) => Nowhere(i)

-----------------------------------------------------------------------------
(* Views *)

\* What can be seen of a message.
View == [pane : Panes, rev : Nat, likes : Nat]

\* The sequence s, on the screen in p, shows i as the view v says.
ShowsIn(s, i, p, v) ==
  /\ (\A x \in v : x.pane # p) => ~In(s, i)
  /\ \A x \in v : x.pane = p =>
       \E k \in 1..Len(s) : /\ s[k] = [id |-> i, rev |-> x.rev, likes |-> x.likes]
                            /\ \A l \in 1..Len(s) : s[l].id = i => l = k
Shows(i, v) == \A p \in Panes : ShowsIn(Text(p), i, p, v)

\* What should be seen of it, as it is stored.
ViewOf(m) == [pane |-> m.pane, rev |-> m.rev, likes |-> Cardinality(m.likes)]
AsStored(i) == {ViewOf(stored[k]) : k \in {l \in 1..Len(stored) : stored[l].id = i}}

\* What an event makes of a view.
After(e, v) ==
  CASE e.op = "new" -> {ViewOf(e.msg)}
    [] e.op = "edit" -> {[x EXCEPT !.rev = e.msg.rev] : x \in v}
    [] e.op = "delete" -> {}
    [] e.op = "like" -> {[x EXCEPT !.likes = @ + 1] : x \in v}

\* f[k] is the view once k more events have been read.
Leads(i, f) ==
  \A k \in 1..Len(live) :
    IF live[k].msg.id = i
    THEN (live[k].op = "new" => f[k - 1] = {}) /\ f[k] = After(live[k], f[k - 1])
    ELSE f[k] = f[k - 1]

\* The events that are on their way make the view w of the view v, and what is
\* stored of what is shown.
Becomes(i, v, w) ==
  \E f \in [0..Len(live) -> SUBSET View] : Leads(i, f) /\ f[0] = v /\ f[Len(live)] = w
Settles(i) == \E v \in SUBSET View : Shows(i, v) /\ Becomes(i, v, AsStored(i))

\* Not shown yet: the replay is to come, and events are edits or a deletion.
Awaited(i) ==
  /\ Shows(i, {})
  /\ \A k \in 1..Len(live) : live[k].msg.id = i => live[k].op \in {"edit", "delete"}
  /\ \A s \in 1..Len(stored) : stored[s].id = i =>
       /\ KindOf[i] # "dm"
       /\ \A k \in 1..Len(live) : live[k].msg.id = i =>
            /\ live[k].op = "edit"
            /\ (\A l \in (k + 1)..Len(live) : live[l].msg.id # i) => live[k].msg.rev = stored[s].rev

\* The messages ScreenAgrees is about.
Clean(i) ==
  i \in sent /\ i \notin raced \cup unheard \cup again /\ KindOf[i] \in {"chat", "dm", "typed"}

\* The copy in the replay is the message as it is stored.
Copied(i) == \A h \in 1..Len(history) : history[h].id = i => \E s \in 1..Len(stored) : stored[s] = history[h]

\* Before the copy of the store is made, and until its replay is written, a clean message
\* is awaited; from then on the events on their way settle it.
CleanOK(i) ==
  /\ Before => Awaited(i)
  /\ phase = "replay" => IF In(history, i) THEN Awaited(i) /\ Copied(i) ELSE Settles(i)

CleanInv == \A i \in Ids : Clean(i) => CleanOK(i)

-----------------------------------------------------------------------------
(* What the screen shows *)

\* Another message leaves the view of this one.
LEMMA ShowsAppend ==
  ASSUME NEW s \in Seq(Shown), NEW m \in Shown, NEW i, m.id # i, NEW p, NEW v, ShowsIn(s, i, p, v)
  PROVE  ShowsIn(Append(s, m), i, p, v)
<1> DEFINE t == Append(s, m)
<1>1. /\ Len(t) = Len(s) + 1 /\ t[Len(s) + 1] = m /\ Len(s) + 1 \in 1..(Len(s) + 1)
      /\ \A k \in 1..Len(s) : k \in 1..(Len(s) + 1) /\ t[k] = s[k]
      /\ \A k \in 1..(Len(s) + 1) : k \in 1..Len(s) \/ k = Len(s) + 1
      /\ In(t, i) <=> In(s, i)
  BY AppendIs
<1> HIDE DEF t
<1>2. \A l \in 1..Len(t) : t[l].id = i => l \in 1..Len(s) /\ s[l].id = i
  BY <1>1
<1>3. ASSUME NEW x \in v, x.pane = p
      PROVE  \E k \in 1..Len(t) : /\ t[k] = [id |-> i, rev |-> x.rev, likes |-> x.likes]
                                  /\ \A l \in 1..Len(t) : t[l].id = i => l = k
  <2>1. PICK k \in 1..Len(s) : /\ s[k] = [id |-> i, rev |-> x.rev, likes |-> x.likes]
                               /\ \A l \in 1..Len(s) : s[l].id = i => l = k
    BY <1>3 DEF ShowsIn
  <2>2. k \in 1..Len(t) /\ t[k] = s[k]
    BY <1>1
  <2> QED
    BY <1>2, <2>1, <2>2
<1>4. (\A x \in v : x.pane # p) => ~In(t, i)
  BY <1>1 DEF ShowsIn
<1> QED
  BY <1>3, <1>4 DEF ShowsIn, t

\* A message that was not there is shown as it comes.
LEMMA ShowsNew ==
  ASSUME NEW s \in Seq(Shown), NEW m \in Shown, NEW i, m.id = i, NEW p, NEW x,
         ~In(s, i), x.pane = p, x.rev = m.rev, x.likes = m.likes
  PROVE  ShowsIn(Append(s, m), i, p, {x})
<1> DEFINE t == Append(s, m)
<1>1. /\ Len(t) = Len(s) + 1 /\ t[Len(s) + 1] = m /\ Len(s) + 1 \in 1..(Len(s) + 1)
      /\ \A k \in 1..Len(s) : t[k] = s[k]
      /\ \A k \in 1..(Len(s) + 1) : k \in 1..Len(s) \/ k = Len(s) + 1
  BY AppendIs
<1> HIDE DEF t
<1>2. m = [id |-> i, rev |-> x.rev, likes |-> x.likes]
  BY DEF Shown
<1>3. \A l \in 1..Len(t) : t[l].id = i => l = Len(s) + 1
  BY <1>1 DEF In
<1> QED
  BY <1>1, <1>2, <1>3 DEF ShowsIn, t

\* A change of other messages in place leaves the view.
LEMMA ShowsInPlace ==
  ASSUME NEW s \in Seq(Shown), NEW t \in Seq(Shown), Len(t) = Len(s), NEW i,
         \A k \in 1..Len(s) : t[k].id = s[k].id /\ (s[k].id = i => t[k] = s[k]),
         NEW p, NEW v, ShowsIn(s, i, p, v)
  PROVE  ShowsIn(t, i, p, v)
<1>1. In(t, i) <=> In(s, i)
  BY DEF In
<1>2. ASSUME NEW x \in v, x.pane = p
      PROVE  \E k \in 1..Len(t) : /\ t[k] = [id |-> i, rev |-> x.rev, likes |-> x.likes]
                                  /\ \A l \in 1..Len(t) : t[l].id = i => l = k
  <2>1. PICK k \in 1..Len(s) : /\ s[k] = [id |-> i, rev |-> x.rev, likes |-> x.likes]
                               /\ \A l \in 1..Len(s) : s[l].id = i => l = k
    BY <1>2 DEF ShowsIn
  <2>2. s[k].id = i
    BY <2>1
  <2>3. k \in 1..Len(t) /\ t[k] = s[k]
    BY <2>2
  <2> QED
    BY <2>1, <2>3
<1> QED
  BY <1>1, <1>2 DEF ShowsIn

\* What the client makes of a text: the first copy is changed, if there is one.
Edited(s, i, r) == IF Has(s, i) THEN [s EXCEPT ![Find(s, i)].rev = r] ELSE s
Liked(s, i) == IF Has(s, i) THEN [s EXCEPT ![Find(s, i)].likes = @ + 1] ELSE s
Deleted(s, i) == IF Has(s, i) THEN RemoveAt(s, Find(s, i)) ELSE s

\* An edit keeps the places, and changes the first copy.
LEMMA EditedIs ==
  ASSUME NEW s \in Seq(Shown), NEW i \in Ids, NEW r \in 0..MaxChanges
  PROVE  /\ Edited(s, i, r) \in Seq(Shown) /\ Len(Edited(s, i, r)) = Len(s)
         /\ \A k \in 1..Len(s) : /\ Edited(s, i, r)[k].id = s[k].id
                                 /\ Edited(s, i, r)[k].likes = s[k].likes
                                 /\ k = Find(s, i) => Edited(s, i, r)[k].rev = r
                                 /\ k # Find(s, i) => Edited(s, i, r)[k] = s[k]
<1>1. CASE ~Has(s, i)
  BY <1>1, FindIs DEF Edited, Has
<1>2. CASE Has(s, i)
  <2> DEFINE f == Find(s, i)
             e == [s[f] EXCEPT !.rev = r]
  <2>1. f \in 1..Len(s)
    BY <1>2, FindIs DEF Has
  <2> HIDE DEF f
  <2>2. s[f] \in Shown
    BY <2>1
  <2>3. e \in Shown /\ e.id = s[f].id /\ e.likes = s[f].likes /\ e.rev = r
    BY <2>2 DEF Shown
  <2>4. Edited(s, i, r) = [s EXCEPT ![f] = e]
    BY <1>2 DEF Edited, f
  <2> HIDE DEF e
  <2>5. /\ [s EXCEPT ![f] = e] \in Seq(Shown) /\ Len([s EXCEPT ![f] = e]) = Len(s)
        /\ \A k \in 1..Len(s) : [s EXCEPT ![f] = e][k] = IF k = f THEN e ELSE s[k]
    BY <2>1, <2>3, ExceptSeq
  <2> QED
    BY <2>3, <2>4, <2>5 DEF f
<1> QED
  BY <1>1, <1>2

\* So does a reaction, if the number is not at its end.
LEMMA LikedIs ==
  ASSUME NEW s \in Seq(Shown), NEW i \in Ids, \A k \in 1..Len(s) : s[k].likes + 1 <= 2 * MaxChanges
  PROVE  /\ Liked(s, i) \in Seq(Shown) /\ Len(Liked(s, i)) = Len(s)
         /\ \A k \in 1..Len(s) : /\ Liked(s, i)[k].id = s[k].id
                                 /\ Liked(s, i)[k].rev = s[k].rev
                                 /\ k = Find(s, i) => Liked(s, i)[k].likes = s[k].likes + 1
                                 /\ k # Find(s, i) => Liked(s, i)[k] = s[k]
<1>1. CASE ~Has(s, i)
  BY <1>1, FindIs DEF Liked, Has
<1>2. CASE Has(s, i)
  <2> DEFINE f == Find(s, i)
             e == [s[f] EXCEPT !.likes = @ + 1]
  <2>1. f \in 1..Len(s)
    BY <1>2, FindIs DEF Has
  <2> HIDE DEF f
  <2>2. s[f] \in Shown /\ s[f].likes + 1 <= 2 * MaxChanges
    BY <2>1
  <2>3. e \in Shown /\ e.id = s[f].id /\ e.rev = s[f].rev /\ e.likes = s[f].likes + 1
    <3>1. s[f].likes + 1 \in 0..(2 * MaxChanges)
      <4>1. s[f].likes \in Nat
        BY <2>2 DEF Shown
      <4> QED
        BY <2>2, <4>1, TuiAssumption
    <3> QED
      BY <2>2, <3>1 DEF Shown
  <2>4. Liked(s, i) = [s EXCEPT ![f] = e]
    BY <1>2 DEF Liked, f
  <2> HIDE DEF e
  <2>5. /\ [s EXCEPT ![f] = e] \in Seq(Shown) /\ Len([s EXCEPT ![f] = e]) = Len(s)
        /\ \A k \in 1..Len(s) : [s EXCEPT ![f] = e][k] = IF k = f THEN e ELSE s[k]
    BY <2>1, <2>3, ExceptSeq
  <2> QED
    BY <2>3, <2>4, <2>5 DEF f
<1> QED
  BY <1>1, <1>2

\* An edit is seen on the copy that is there.
LEMMA ShowsEdited ==
  ASSUME NEW s \in Seq(Shown), NEW i \in Ids, NEW r \in 0..MaxChanges, NEW p, NEW v \in SUBSET View,
         ShowsIn(s, i, p, v)
  PROVE  ShowsIn(Edited(s, i, r), i, p, {[x EXCEPT !.rev = r] : x \in v})
<1> DEFINE t == Edited(s, i, r)
           w == {[x EXCEPT !.rev = r] : x \in v}
<1>1. /\ t \in Seq(Shown) /\ Len(t) = Len(s)
      /\ \A k \in 1..Len(s) : /\ t[k].id = s[k].id
                              /\ t[k].likes = s[k].likes
                              /\ k = Find(s, i) => t[k].rev = r
                              /\ k # Find(s, i) => t[k] = s[k]
  BY EditedIs, Zenon
<1> HIDE DEF t
<1>0. Len(t) = Len(s) /\ \A k \in 1..Len(s) : t[k].id = s[k].id
  BY <1>1
<1>2. In(t, i) <=> In(s, i)
  BY <1>0 DEF In
<1>3. ASSUME NEW y \in w
      PROVE  \E x \in v : y.pane = x.pane /\ y.rev = r /\ y.likes = x.likes
  <2>1. PICK x \in v : y = [x EXCEPT !.rev = r]
    OBVIOUS
  <2>2. x \in View
    BY <2>1
  <2> QED
    BY <2>1, <2>2 DEF View
<1>4. \A x \in v : \E y \in w : y.pane = x.pane
  <2> SUFFICES ASSUME NEW x \in v PROVE \E y \in w : y.pane = x.pane
    OBVIOUS
  <2>1. x \in View /\ [x EXCEPT !.rev = r] \in w
    OBVIOUS
  <2>2. [x EXCEPT !.rev = r].pane = x.pane
    BY <2>1 DEF View
  <2> HIDE DEF w
  <2> QED
    BY <2>1, <2>2
<1> HIDE DEF w
<1>5. (\A y \in w : y.pane # p) => ~In(t, i)
  BY <1>2, <1>4 DEF ShowsIn
<1>6. ASSUME NEW y \in w, y.pane = p
      PROVE  \E k \in 1..Len(t) : /\ t[k] = [id |-> i, rev |-> y.rev, likes |-> y.likes]
                                  /\ \A l \in 1..Len(t) : t[l].id = i => l = k
  <2>1. PICK x \in v : y.pane = x.pane /\ y.rev = r /\ y.likes = x.likes
    BY <1>3
  <2>2. PICK k \in 1..Len(s) : /\ s[k] = [id |-> i, rev |-> x.rev, likes |-> x.likes]
                               /\ \A l \in 1..Len(s) : s[l].id = i => l = k
    BY <1>6, <2>1 DEF ShowsIn
  <2>3. s[k].id = i /\ s[k].likes = x.likes
    BY <2>2
  <2>4. k = Find(s, i)
    BY <2>2, <2>3, FindIs DEF In, Has
  <2>0. k \in 1..Len(t) /\ t[k] \in Shown
    BY <1>1
  <2>5. t[k].id = i /\ t[k].likes = y.likes /\ t[k].rev = y.rev /\ t[k] \in Shown
    <3>1. t[k].id = s[k].id /\ t[k].likes = s[k].likes /\ t[k].rev = r
      BY <1>1, <2>4
    <3> QED
      BY <2>0, <2>1, <2>3, <3>1, Zenon
  <2>6. t[k] = [id |-> i, rev |-> y.rev, likes |-> y.likes]
    BY <2>5 DEF Shown
  <2>7. \A l \in 1..Len(t) : t[l].id = i => l = k
    BY <1>0, <2>2
  <2> QED
    BY <2>0, <2>6, <2>7
<1> QED
  BY <1>5, <1>6 DEF ShowsIn, t, w

\* So is a reaction.
LEMMA ShowsLiked ==
  ASSUME NEW s \in Seq(Shown), NEW i \in Ids, \A k \in 1..Len(s) : s[k].likes + 1 <= 2 * MaxChanges,
         NEW p, NEW v \in SUBSET View, ShowsIn(s, i, p, v)
  PROVE  ShowsIn(Liked(s, i), i, p, {[x EXCEPT !.likes = @ + 1] : x \in v})
<1> DEFINE t == Liked(s, i)
           w == {[x EXCEPT !.likes = @ + 1] : x \in v}
<1>1. /\ t \in Seq(Shown) /\ Len(t) = Len(s)
      /\ \A k \in 1..Len(s) : /\ t[k].id = s[k].id
                              /\ t[k].rev = s[k].rev
                              /\ k = Find(s, i) => t[k].likes = s[k].likes + 1
                              /\ k # Find(s, i) => t[k] = s[k]
  BY LikedIs, Zenon
<1> HIDE DEF t
<1>0. Len(t) = Len(s) /\ \A k \in 1..Len(s) : t[k].id = s[k].id
  BY <1>1
<1>2. In(t, i) <=> In(s, i)
  BY <1>0 DEF In
<1>3. ASSUME NEW y \in w
      PROVE  \E x \in v : y.pane = x.pane /\ y.rev = x.rev /\ y.likes = x.likes + 1
  <2>1. PICK x \in v : y = [x EXCEPT !.likes = @ + 1]
    OBVIOUS
  <2>2. x \in View
    BY <2>1
  <2> QED
    BY <2>1, <2>2 DEF View
<1>4. \A x \in v : \E y \in w : y.pane = x.pane
  <2> SUFFICES ASSUME NEW x \in v PROVE \E y \in w : y.pane = x.pane
    OBVIOUS
  <2>1. x \in View /\ [x EXCEPT !.likes = @ + 1] \in w
    OBVIOUS
  <2>2. [x EXCEPT !.likes = @ + 1].pane = x.pane
    BY <2>1 DEF View
  <2> HIDE DEF w
  <2> QED
    BY <2>1, <2>2
<1> HIDE DEF w
<1>5. (\A y \in w : y.pane # p) => ~In(t, i)
  BY <1>2, <1>4 DEF ShowsIn
<1>6. ASSUME NEW y \in w, y.pane = p
      PROVE  \E k \in 1..Len(t) : /\ t[k] = [id |-> i, rev |-> y.rev, likes |-> y.likes]
                                  /\ \A l \in 1..Len(t) : t[l].id = i => l = k
  <2>1. PICK x \in v : y.pane = x.pane /\ y.rev = x.rev /\ y.likes = x.likes + 1
    BY <1>3
  <2>2. PICK k \in 1..Len(s) : /\ s[k] = [id |-> i, rev |-> x.rev, likes |-> x.likes]
                               /\ \A l \in 1..Len(s) : s[l].id = i => l = k
    BY <1>6, <2>1 DEF ShowsIn
  <2>3. s[k].id = i /\ s[k].rev = x.rev /\ s[k].likes = x.likes
    BY <2>2
  <2>4. k = Find(s, i)
    BY <2>2, <2>3, FindIs DEF In, Has
  <2>0. k \in 1..Len(t) /\ t[k] \in Shown
    BY <1>1
  <2>5. t[k].id = i /\ t[k].likes = y.likes /\ t[k].rev = y.rev /\ t[k] \in Shown
    <3>1. t[k].id = s[k].id /\ t[k].likes = s[k].likes + 1 /\ t[k].rev = s[k].rev
      BY <1>1, <2>4
    <3> QED
      BY <2>0, <2>1, <2>3, <3>1, Zenon
  <2>6. t[k] = [id |-> i, rev |-> y.rev, likes |-> y.likes]
    BY <2>5 DEF Shown
  <2>7. \A l \in 1..Len(t) : t[l].id = i => l = k
    BY <1>0, <2>2
  <2> QED
    BY <2>0, <2>6, <2>7
<1> QED
  BY <1>5, <1>6 DEF ShowsIn, t, w

\* What a deletion leaves.
LEMMA DeletedIs ==
  ASSUME NEW s \in Seq(Shown), NEW j \in Ids
  PROVE  /\ Deleted(s, j) \in Seq(Shown)
         /\ \A k \in 1..Len(Deleted(s, j)) : \E l \in 1..Len(s) : Deleted(s, j)[k] = s[l]
<1> DEFINE f == Find(s, j)
<1>1. CASE ~Has(s, j)
  BY <1>1 DEF Deleted
<1>2. CASE Has(s, j)
  <2>1. f \in 1..Len(s)
    BY <1>2, FindIs DEF Has
  <2> HIDE DEF f
  <2>2. /\ RemoveAt(s, f) \in Seq(Shown) /\ Len(RemoveAt(s, f)) = Len(s) - 1
        /\ \A k \in 1..(Len(s) - 1) : RemoveAt(s, f)[k] = IF k < f THEN s[k] ELSE s[k + 1]
    BY <2>1, RemovedIs
  <2>3. Deleted(s, j) = RemoveAt(s, f)
    BY <1>2 DEF Deleted, f
  <2>4. \A k \in 1..(Len(s) - 1) : k \in 1..Len(s) /\ k + 1 \in 1..Len(s)
    OBVIOUS
  <2>5. \A k \in 1..(Len(s) - 1) : \E l \in 1..Len(s) : RemoveAt(s, f)[k] = s[l]
    BY <2>2, <2>4
  <2> QED
    BY <2>2, <2>3, <2>5
<1> QED
  BY <1>1, <1>2

\* A message deleted is not shown, if it was shown once.
LEMMA ShowsGone ==
  ASSUME NEW s \in Seq(Shown), NEW i \in Ids, NEW p, NEW v, ShowsIn(s, i, p, v)
  PROVE  ShowsIn(Deleted(s, i), i, p, {})
<1> SUFFICES ~In(Deleted(s, i), i)
  BY DEF ShowsIn
<1>1. CASE ~Has(s, i)
  BY <1>1, FindIs DEF Deleted
<1>2. CASE Has(s, i)
  <2> DEFINE f == Find(s, i)
  <2>1. f \in 1..Len(s) /\ s[f].id = i /\ In(s, i)
    BY <1>2, FindIs DEF Has
  <2>2. \A l \in 1..Len(s) : s[l].id = i => l = f
    <3>1. PICK x \in v : x.pane = p
      BY <2>1 DEF ShowsIn
    <3>2. PICK k \in 1..Len(s) : \A l \in 1..Len(s) : s[l].id = i => l = k
      BY <3>1 DEF ShowsIn
    <3> QED
      BY <2>1, <3>2
  <2>3. Deleted(s, i) = RemoveAt(s, f)
    BY <1>2 DEF Deleted
  <2> HIDE DEF f
  <2>4. /\ RemoveAt(s, f) \in Seq(Shown) /\ Len(RemoveAt(s, f)) = Len(s) - 1
        /\ \A k \in 1..(Len(s) - 1) : RemoveAt(s, f)[k] = IF k < f THEN s[k] ELSE s[k + 1]
    BY <2>1, RemovedIs
  <2>5. ASSUME NEW k \in 1..(Len(s) - 1) PROVE RemoveAt(s, f)[k].id # i
    <3>1. k \in 1..Len(s) /\ k + 1 \in 1..Len(s) /\ (k < f => k # f) /\ (~(k < f) => k + 1 # f)
      BY <2>1
    <3> QED
      BY <2>2, <2>4, <3>1
  <2> QED
    BY <2>3, <2>4, <2>5 DEF In
<1> QED
  BY <1>1, <1>2

\* The deletion of another leaves the view.
LEMMA ShowsDeleted ==
  ASSUME NEW s \in Seq(Shown), NEW j \in Ids, NEW i, i # j, NEW p, NEW v, ShowsIn(s, i, p, v)
  PROVE  ShowsIn(Deleted(s, j), i, p, v)
<1>1. CASE ~Has(s, j)
  BY <1>1 DEF Deleted
<1>2. CASE Has(s, j)
  <2> DEFINE f == Find(s, j)
             t == RemoveAt(s, f)
             n == Len(s)
  <2>1. f \in 1..n /\ s[f].id = j
    BY <1>2, FindIs DEF Has
  <2>2. Deleted(s, j) = t
    BY <1>2 DEF Deleted
  <2> HIDE DEF f
  <2>3. /\ t \in Seq(Shown) /\ Len(t) = n - 1 /\ n \in Nat
        /\ \A k \in 1..(n - 1) : t[k] = IF k < f THEN s[k] ELSE s[k + 1]
    BY <2>1, RemovedIs
  <2> HIDE DEF t
  <2>4. \A k \in 1..n : k # f => \E l \in 1..(n - 1) : t[l] = s[k]
    <3> SUFFICES ASSUME NEW k \in 1..n, k # f PROVE \E l \in 1..(n - 1) : t[l] = s[k]
      OBVIOUS
    <3>1. CASE k < f
      <4>1. k \in 1..(n - 1)
        BY <2>1, <2>3, <3>1
      <4> QED
        BY <2>3, <3>1, <4>1
    <3>2. CASE k > f
      <4>1. k - 1 \in 1..(n - 1) /\ ~(k - 1 < f) /\ (k - 1) + 1 = k
        BY <2>1, <2>3, <3>2
      <4> QED
        BY <2>3, <4>1
    <3> QED
      BY <2>1, <2>3, <3>1, <3>2
  <2>5. \A l \in 1..(n - 1) : l \in 1..n /\ l + 1 \in 1..n
    BY <2>3
  <2>6. ~In(s, i) => ~In(t, i)
    BY <2>3, <2>5 DEF In
  <2>7. ASSUME NEW x \in v, x.pane = p
        PROVE  \E k \in 1..Len(t) : /\ t[k] = [id |-> i, rev |-> x.rev, likes |-> x.likes]
                                    /\ \A l \in 1..Len(t) : t[l].id = i => l = k
    <3>1. PICK k \in 1..n : /\ s[k] = [id |-> i, rev |-> x.rev, likes |-> x.likes]
                            /\ \A l \in 1..n : s[l].id = i => l = k
      BY <2>7 DEF ShowsIn
    <3>2. s[k].id = i /\ k # f
      BY <2>1, <3>1
    <3>3. PICK h \in 1..(n - 1) : t[h] = s[k]
      BY <2>4, <3>2
    <3>4. ASSUME NEW l \in 1..(n - 1), t[l].id = i PROVE l = h
      <4>1. /\ l \in 1..n /\ l + 1 \in 1..n /\ h \in 1..n /\ h + 1 \in 1..n
            /\ t[h].id = i
        BY <2>5, <3>2, <3>3
      <4>2. (IF l < f THEN l ELSE l + 1) = k
        BY <2>3, <3>1, <3>4, <4>1
      <4>3. (IF h < f THEN h ELSE h + 1) = k
        BY <2>3, <3>1, <4>1
      <4> QED
        BY <2>1, <2>3, <4>2, <4>3
    <3> QED
      BY <2>3, <3>1, <3>3, <3>4
  <2> QED
    BY <2>2, <2>6, <2>7 DEF ShowsIn
<1> QED
  BY <1>1, <1>2

-----------------------------------------------------------------------------
(* What the client's steps make of the texts *)

\* A pane is what it is known by, or empty; so is its text.
LEMMA PaneIs ==
  ASSUME ScreenInv, NEW p
  PROVE  Pane(p) \in PaneType /\ Pane(p).msgs = Text(p) /\ Text(p) \in Seq(Shown)
<1>1. CASE p \in DOMAIN panes
  BY <1>1 DEF ScreenInv, Pane, Known, Text, PaneType
<1>2. CASE p \notin DOMAIN panes
  <2>1. <<>> \in Seq(Shown)
    OBVIOUS
  <2> QED
    BY <1>2, <2>1 DEF Pane, Known, Text, PaneType
<1> QED
  BY <1>1, <1>2

\* One pane is replaced.
LEMMA WithPaneIs ==
  ASSUME ScreenInv, NEW p \in Panes, NEW x \in PaneType, panes' = WithPane(p, x)
  PROVE  /\ panes' \in [DOMAIN panes' -> PaneType] /\ DOMAIN panes' = DOMAIN panes \cup {p}
         /\ DOMAIN panes' \subseteq Panes
         /\ \A q : Text(q)' = IF q = p THEN x.msgs ELSE Text(q)
         /\ panes'[p] = x /\ \A q \in DOMAIN panes : q # p => panes'[q] = panes[q]
<1>1. panes' = [q \in DOMAIN panes \cup {p} |-> IF q = p THEN x ELSE panes[q]]
  BY DEF WithPane
<1>2. \A q \in DOMAIN panes : panes[q] \in PaneType
  BY DEF ScreenInv
<1>3. DOMAIN panes' = DOMAIN panes \cup {p}
  BY <1>1
<1>4. panes' \in [DOMAIN panes \cup {p} -> PaneType]
  BY <1>1, <1>2
<1>5. panes'[p] = x /\ \A q \in DOMAIN panes : q # p => panes'[q] = panes[q]
  BY <1>1
<1>6. DOMAIN panes \subseteq Panes
  BY DEF ScreenInv
<1>7. \A q : Text(q)' = IF q = p THEN x.msgs ELSE Text(q)
  BY <1>3, <1>5 DEF Text
<1> QED
  BY <1>3, <1>4, <1>5, <1>6, <1>7

\* Going to a channel changes no text.
LEMMA SwitchIs ==
  ASSUME ScreenInv, NEW p \in Panes, SwitchTo(p)
  PROVE  /\ panes' \in [DOMAIN panes' -> PaneType] /\ DOMAIN panes' = DOMAIN panes \cup {p}
         /\ DOMAIN panes' \subseteq Panes
         /\ \A q : Text(q)' = Text(q)
         /\ panes'[p].unread = 0 /\ \A q \in DOMAIN panes : q # p => panes'[q] = panes[q]
<1>1. Visited(p) \in PaneType /\ Visited(p).msgs = Text(p) /\ Visited(p).unread = 0
  <2>1. Pane(p) \in PaneType /\ Pane(p).msgs = Text(p)
    BY PaneIs
  <2> QED
    BY <2>1 DEF Visited, PaneType
<1>2. panes' = WithPane(p, Visited(p))
  BY DEF SwitchTo
<1> QED
  BY <1>1, <1>2, WithPaneIs

\* A message as it is put on the screen.
AsShown(m) == [id |-> m.id, rev |-> m.rev, likes |-> Cardinality(m.likes)]

\* What the screen keeps of a proper message has its type.
LEMMA AsShownIs ==
  ASSUME NEW m, Proper(m), changes \in 0..MaxChanges
  PROVE  /\ AsShown(m) \in Shown /\ AsShown(m).id = m.id /\ AsShown(m).rev = m.rev
         /\ AsShown(m).likes = Cardinality(m.likes) /\ AsShown(m).likes <= changes
<1>1. Cardinality(m.likes) \in Nat /\ Cardinality(m.likes) <= changes
  BY FS_CardinalityType DEF Proper, ProperAt
<1>2. Cardinality(m.likes) \in 0..(2 * MaxChanges)
  BY <1>1, TuiAssumption
<1>3. m.id \in Ids /\ m.rev \in 0..MaxChanges
  BY DEF Proper, ProperAt, Message
<1> QED
  BY <1>1, <1>2, <1>3 DEF AsShown, Shown

\* A message that arrives comes last in its channel.
LEMMA ArrivesIs ==
  ASSUME ScreenInv, NEW m, Proper(m), changes \in 0..MaxChanges, Arrives(m)
  PROVE  /\ panes' \in [DOMAIN panes' -> PaneType] /\ DOMAIN panes' = DOMAIN panes \cup {m.pane}
         /\ DOMAIN panes' \subseteq Panes
         /\ \A q : Text(q)' = IF q = m.pane THEN Append(Text(q), AsShown(m)) ELSE Text(q)
         /\ panes'[m.pane].unread = Pane(m.pane).unread + IF Counts(m.pane, m.id) THEN 1 ELSE 0
         /\ \A q \in DOMAIN panes : q # m.pane => panes'[q] = panes[q]
<1> DEFINE p == m.pane
           x == [msgs |-> Append(Pane(p).msgs, AsShown(m)),
                 unread |-> Pane(p).unread + IF Counts(p, m.id) THEN 1 ELSE 0]
<1>1. m.pane \in Panes
  BY DEF Proper, ProperAt, Message
<1>2. Pane(p) \in PaneType /\ Pane(p).msgs = Text(p) /\ Text(p) \in Seq(Shown)
  BY PaneIs
<1>3. AsShown(m) \in Shown
  BY AsShownIs
<1>4. Append(Text(p), AsShown(m)) \in Seq(Shown)
  BY <1>2, <1>3, AppendIs
<1>5. Pane(p).unread \in Nat
  BY <1>2 DEF PaneType
<1>6. x \in PaneType /\ x.msgs = Append(Text(p), AsShown(m))
      /\ x.unread = Pane(p).unread + IF Counts(p, m.id) THEN 1 ELSE 0
  BY <1>2, <1>4, <1>5 DEF PaneType
<1>7. panes' = WithPane(p, x)
  BY DEF Arrives, AsShown
<1> HIDE DEF x
<1>8. /\ panes' \in [DOMAIN panes' -> PaneType] /\ DOMAIN panes' = DOMAIN panes \cup {p}
      /\ DOMAIN panes' \subseteq Panes
      /\ \A q : Text(q)' = IF q = p THEN x.msgs ELSE Text(q)
      /\ panes'[p] = x /\ \A q \in DOMAIN panes : q # p => panes'[q] = panes[q]
  BY <1>1, <1>6, <1>7, WithPaneIs, Zenon
<1> QED
  BY <1>6, <1>8

\* A change of texts in place.
LEMMA ChangeIs ==
  ASSUME ScreenInv, NEW g, panes' \in [DOMAIN panes -> PaneType],
         \A p \in DOMAIN panes : panes'[p].msgs = g[Text(p)] /\ panes'[p].unread = panes[p].unread,
         g[<<>>] = <<>>
  PROVE  /\ panes' \in [DOMAIN panes' -> PaneType] /\ DOMAIN panes' = DOMAIN panes
         /\ \A q : Text(q)' = g[Text(q)]
         /\ \A q \in DOMAIN panes : panes'[q].unread = panes[q].unread
<1>1. DOMAIN panes' = DOMAIN panes
  OBVIOUS
<1> QED
  BY <1>1 DEF Text

\* A pane whose text has the message changes there, the others do not.
LEMMA EditShownIs ==
  ASSUME ScreenInv, NEW m, Proper(m), EditShown(m)
  PROVE  /\ panes' \in [DOMAIN panes' -> PaneType] /\ DOMAIN panes' = DOMAIN panes
         /\ \A q : Text(q)' = Edited(Text(q), m.id, m.rev)
         /\ \A q \in DOMAIN panes : panes'[q].unread = panes[q].unread
<1> DEFINE g == [s \in Seq(Shown) |-> Edited(s, m.id, m.rev)]
           e(p) == IF p \in OnScreen(m.id)
                   THEN [panes[p] EXCEPT !.msgs[Find(panes[p].msgs, m.id)].rev = m.rev] ELSE panes[p]
<1>1. m.id \in Ids /\ m.rev \in 0..MaxChanges
  BY DEF Proper, ProperAt, Message
<1>2. ASSUME NEW p \in DOMAIN panes
      PROVE  /\ e(p) \in PaneType /\ e(p).msgs = Edited(Text(p), m.id, m.rev)
             /\ e(p).unread = panes[p].unread
  <2>1. panes[p] \in PaneType /\ panes[p].msgs = Text(p) /\ Text(p) \in Seq(Shown)
    BY PaneIs DEF ScreenInv, Text
  <2>2. Edited(Text(p), m.id, m.rev) \in Seq(Shown)
    BY <1>1, <2>1, EditedIs
  <2>3. e(p).msgs = Edited(Text(p), m.id, m.rev) /\ e(p).unread = panes[p].unread
    BY <2>1 DEF OnScreen, Edited, PaneType
  <2>4. e(p) = [msgs |-> Edited(Text(p), m.id, m.rev), unread |-> panes[p].unread]
    BY <2>1 DEF OnScreen, Edited, PaneType
  <2> QED
    BY <2>1, <2>2, <2>3, <2>4 DEF PaneType
<1>3. panes' = [p \in DOMAIN panes |-> e(p)]
  BY DEF EditShown
<1> HIDE DEF e
<1>4. panes' \in [DOMAIN panes -> PaneType] /\ \A p \in DOMAIN panes : panes'[p] = e(p)
  BY <1>2, <1>3
<1>5. \A s \in Seq(Shown) : g[s] = Edited(s, m.id, m.rev)
  OBVIOUS
<1>6. g[<<>>] = <<>>
  <2>1. <<>> \in Seq(Shown) /\ ~Has(<<>>, m.id)
    BY NothingInEmpty
  <2> QED
    BY <1>5, <2>1 DEF Edited
<1> HIDE DEF g
<1>7. /\ panes' \in [DOMAIN panes' -> PaneType] /\ DOMAIN panes' = DOMAIN panes
      /\ \A q : Text(q)' = g[Text(q)]
      /\ \A q \in DOMAIN panes : panes'[q].unread = panes[q].unread
  <2>1. \A p \in DOMAIN panes : panes'[p].msgs = g[Text(p)] /\ panes'[p].unread = panes[p].unread
    BY <1>2, <1>4, <1>5, PaneIs
  <2> QED
    BY <1>4, <1>6, <2>1, ChangeIs
<1> QED
  BY <1>5, <1>7, PaneIs

\* A reaction is counted at the first copy in each channel, and at no other message.
LEMMA LikeShownIs ==
  ASSUME ScreenInv, NEW m, Proper(m), LikeShown(m),
         \A p \in Panes : \A k \in 1..Len(Text(p)) : Text(p)[k].likes + 1 <= 2 * MaxChanges
  PROVE  /\ panes' \in [DOMAIN panes' -> PaneType] /\ DOMAIN panes' = DOMAIN panes
         /\ \A q : Text(q)' = Liked(Text(q), m.id)
         /\ \A q \in DOMAIN panes : panes'[q].unread = panes[q].unread
<1> DEFINE g == [s \in Seq(Shown) |-> Liked(s, m.id)]
           e(p) == IF p \in OnScreen(m.id)
                   THEN [panes[p] EXCEPT !.msgs[Find(panes[p].msgs, m.id)].likes = @ + 1] ELSE panes[p]
<1>1. m.id \in Ids
  BY DEF Proper, ProperAt, Message
<1>2. ASSUME NEW p \in DOMAIN panes
      PROVE  e(p) \in PaneType /\ e(p).msgs = Liked(Text(p), m.id) /\ e(p).unread = panes[p].unread
  <2>1. panes[p] \in PaneType /\ panes[p].msgs = Text(p) /\ Text(p) \in Seq(Shown) /\ p \in Panes
    BY PaneIs DEF ScreenInv, Text
  <2>2. Liked(Text(p), m.id) \in Seq(Shown)
    BY <1>1, <2>1, LikedIs
  <2>3. e(p).msgs = Liked(Text(p), m.id) /\ e(p).unread = panes[p].unread
    BY <2>1 DEF OnScreen, Liked, PaneType
  <2>4. e(p) = [msgs |-> Liked(Text(p), m.id), unread |-> panes[p].unread]
    BY <2>1 DEF OnScreen, Liked, PaneType
  <2> QED
    BY <2>1, <2>2, <2>3, <2>4 DEF PaneType
<1>3. panes' = [p \in DOMAIN panes |-> e(p)]
  BY DEF LikeShown
<1> HIDE DEF e
<1>4. panes' \in [DOMAIN panes -> PaneType] /\ \A p \in DOMAIN panes : panes'[p] = e(p)
  BY <1>2, <1>3
<1>5. \A s \in Seq(Shown) : g[s] = Liked(s, m.id)
  OBVIOUS
<1>6. g[<<>>] = <<>>
  <2>1. <<>> \in Seq(Shown) /\ ~Has(<<>>, m.id)
    BY NothingInEmpty
  <2> QED
    BY <1>5, <2>1 DEF Liked
<1> HIDE DEF g
<1>7. /\ panes' \in [DOMAIN panes' -> PaneType] /\ DOMAIN panes' = DOMAIN panes
      /\ \A q : Text(q)' = g[Text(q)]
      /\ \A q \in DOMAIN panes : panes'[q].unread = panes[q].unread
  <2>1. \A p \in DOMAIN panes : panes'[p].msgs = g[Text(p)] /\ panes'[p].unread = panes[p].unread
    BY <1>2, <1>4, <1>5, PaneIs
  <2> QED
    BY <1>4, <1>6, <2>1, ChangeIs
<1> QED
  BY <1>5, <1>7, PaneIs

\* A deletion takes the first copy from each channel.
LEMMA DeleteShownIs ==
  ASSUME ScreenInv, NEW m, Proper(m), DeleteShown(m)
  PROVE  /\ panes' \in [DOMAIN panes' -> PaneType] /\ DOMAIN panes' = DOMAIN panes
         /\ \A q : Text(q)' = Deleted(Text(q), m.id)
         /\ \A q \in DOMAIN panes : panes'[q].unread = panes[q].unread
<1> DEFINE g == [s \in Seq(Shown) |-> Deleted(s, m.id)]
           e(p) == IF p \in OnScreen(m.id)
                   THEN [panes[p] EXCEPT !.msgs = RemoveAt(@, Find(@, m.id))] ELSE panes[p]
<1>1. m.id \in Ids
  BY DEF Proper, ProperAt, Message
<1>2. ASSUME NEW p \in DOMAIN panes
      PROVE  e(p) \in PaneType /\ e(p).msgs = Deleted(Text(p), m.id) /\ e(p).unread = panes[p].unread
  <2>1. panes[p] \in PaneType /\ panes[p].msgs = Text(p) /\ Text(p) \in Seq(Shown)
    BY PaneIs DEF ScreenInv, Text
  <2>2. Deleted(Text(p), m.id) \in Seq(Shown)
    BY <1>1, <2>1, DeletedIs
  <2>3. e(p).msgs = Deleted(Text(p), m.id) /\ e(p).unread = panes[p].unread
    BY <2>1 DEF OnScreen, Deleted, PaneType
  <2>4. e(p) = [msgs |-> Deleted(Text(p), m.id), unread |-> panes[p].unread]
    BY <2>1 DEF OnScreen, Deleted, PaneType
  <2> QED
    BY <2>1, <2>2, <2>3, <2>4 DEF PaneType
<1>3. panes' = [p \in DOMAIN panes |-> e(p)]
  BY DEF DeleteShown
<1> HIDE DEF e
<1>4. panes' \in [DOMAIN panes -> PaneType] /\ \A p \in DOMAIN panes : panes'[p] = e(p)
  BY <1>2, <1>3
<1>5. \A s \in Seq(Shown) : g[s] = Deleted(s, m.id)
  OBVIOUS
<1>6. g[<<>>] = <<>>
  <2>1. <<>> \in Seq(Shown) /\ ~Has(<<>>, m.id)
    BY NothingInEmpty
  <2> QED
    BY <1>5, <2>1 DEF Deleted
<1> HIDE DEF g
<1>7. /\ panes' \in [DOMAIN panes' -> PaneType] /\ DOMAIN panes' = DOMAIN panes
      /\ \A q : Text(q)' = g[Text(q)]
      /\ \A q \in DOMAIN panes : panes'[q].unread = panes[q].unread
  <2>1. \A p \in DOMAIN panes : panes'[p].msgs = g[Text(p)] /\ panes'[p].unread = panes[p].unread
    BY <1>2, <1>4, <1>5, PaneIs
  <2> QED
    BY <1>4, <1>6, <2>1, ChangeIs
<1> QED
  BY <1>5, <1>7, PaneIs

-----------------------------------------------------------------------------
(* The node's messages keep their types *)

\* A proper message stays one while more is posted and changed.
LEMMA ProperStays ==
  ASSUME changes \in Nat, changes' \in Nat, changes <= changes', sent \subseteq sent'
  PROVE  /\ \A m : Proper(m) => ProperAt(m, sent', changes')
         /\ \A m : Replayable(m) => ReplayableAt(m, sent', changes')
         /\ \A e : ProperEvent(e) => ProperEventAt(e, sent', changes')
<1>1. ASSUME NEW m, Proper(m) PROVE ProperAt(m, sent', changes')
  <2>1. m.rev \in Nat /\ Cardinality(m.likes) \in Nat
    <3>1. 0..MaxChanges \subseteq Nat
      BY TuiAssumption
    <3> QED
      BY <1>1, <3>1, FS_CardinalityType DEF Proper, ProperAt, Message
  <2> QED
    BY <1>1, <2>1 DEF Proper, ProperAt
<1> QED
  BY <1>1 DEF Proper, Replayable, ReplayableAt, ProperEvent, ProperEventAt

\* Telling puts at most a proper event at the end.
LEMMA TellKeeps ==
  ASSUME NodeCore, NEW op \in {"new", "edit", "delete", "like"}, NEW m, ProperAt(m, sent', changes'),
         Tell(op, m), changes' \in 0..MaxChanges, changes <= changes', sent \subseteq sent'
  PROVE  /\ live' \in Seq(Events) /\ \A k \in 1..Len(live') : ProperEventAt(live'[k], sent', changes')
         /\ raced' \cup unheard' \subseteq Ids
         /\ phase = "out" => live' = <<>>
         /\ \/ live' = live
            \/ live' = Append(live, [op |-> op, msg |-> m])
<1> DEFINE e == [op |-> op, msg |-> m]
<1>1. e \in Events /\ e.op = op /\ e.msg = m
  BY DEF Events, ProperAt
<1>2. m.id \in Ids
  BY DEF ProperAt, Message
<1>3. \A f : ProperEvent(f) => ProperEventAt(f, sent', changes')
  <2>1. changes \in Nat /\ changes' \in Nat
    BY TuiAssumption DEF NodeCore
  <2> QED
    BY <2>1, ProperStays
<1>4. Registered /\ Wants(op, m) => ProperEventAt(e, sent', changes')
  <2> SUFFICES ASSUME Registered, Wants(op, m), op = "new", KindOf[m.id] = "typed" PROVE m.pane \in Rooms
    BY <1>1 DEF ProperEventAt
  <2> QED
    BY DEF Wants, ChannelOf, NodeCore
<1>5. live' = IF Registered /\ Wants(op, m) THEN Append(live, e) ELSE live
  BY DEF Tell
<1>6. live \in Seq(Events) /\ \A k \in 1..Len(live) : ProperEvent(live[k])
  BY DEF NodeCore
<1> HIDE DEF e
<1>7. live' \in Seq(Events) /\ \A k \in 1..Len(live') : ProperEventAt(live'[k], sent', changes')
  <2>1. CASE Registered /\ Wants(op, m)
    <3>1. live' = Append(live, e)
      BY <1>5, <2>1
    <3>2. /\ Append(live, e) \in Seq(Events) /\ Len(Append(live, e)) = Len(live) + 1
          /\ \A k \in 1..Len(live) : Append(live, e)[k] = live[k]
          /\ Append(live, e)[Len(live) + 1] = e
          /\ \A k \in 1..(Len(live) + 1) : k \in 1..Len(live) \/ k = Len(live) + 1
      BY <1>1, <1>6, AppendIs
    <3>3. \A k \in 1..(Len(live) + 1) : ProperEventAt(Append(live, e)[k], sent', changes')
      BY <1>3, <1>4, <1>6, <2>1, <3>2
    <3> QED
      BY <3>1, <3>2, <3>3
  <2>2. CASE ~(Registered /\ Wants(op, m))
    BY <1>3, <1>5, <1>6, <2>2
  <2> QED
    BY <2>1, <2>2
<1>8. raced' \cup unheard' \subseteq Ids
  BY <1>2 DEF Tell, NodeCore
<1>9. phase = "out" => live' = <<>>
  BY <1>5 DEF NodeCore, Registered
<1> QED
  BY <1>5, <1>7, <1>8, <1>9 DEF e

\* A message is published: it is at the end of the store, if it is stored.
LEMMA PublishKeeps ==
  ASSUME NodeCore, NEW i \in Ids, NEW pane \in Panes, Publish(i, pane), i \in sent',
         KindOf[i] # "typed" => pane = PaneOf[i], Before => KindOf[i] # "typed",
         sent \subseteq sent', sent' \subseteq Ids, UNCHANGED <<phase, history, changes>>,
         members' \subseteq Rooms
  PROVE  NodeCore'
<1> DEFINE m == [id |-> i, pane |-> pane, rev |-> 0, likes |-> {}]
<1>1. m \in Message /\ changes \in 0..MaxChanges
  BY TuiAssumption DEF Message, NodeCore
<1>2. changes \in Nat /\ changes' = changes
  BY TuiAssumption DEF NodeCore
<1>3. ProperAt(m, sent', changes') /\ (Before => ReplayableAt(m, sent', changes'))
  <2>1. IsFiniteSet({}) /\ Cardinality({}) = 0
    BY FS_EmptySet
  <2> QED
    BY <1>1, <1>2, <2>1 DEF ProperAt, ReplayableAt
<1>4. Tell("new", m) /\ stored' = IF KindOf[i] \in {"notice", "answer"} THEN stored ELSE Append(stored, m)
  BY DEF Publish
<1>5. again' = again /\ Before' = Before
  BY DEF Publish, Before
<1> HIDE DEF m
<1>6. /\ live' \in Seq(Events) /\ \A k \in 1..Len(live') : ProperEventAt(live'[k], sent', changes')
      /\ raced' \cup unheard' \subseteq Ids
      /\ phase = "out" => live' = <<>>
  <2>1. changes' \in 0..MaxChanges /\ changes <= changes' /\ "new" \in {"new", "edit", "delete", "like"}
    BY <1>1, <1>2
  <2> QED
    BY <1>3, <1>4, <2>1, TellKeeps, Zenon
<1>7. \A x : /\ Proper(x) => ProperAt(x, sent', changes')
             /\ Replayable(x) => ReplayableAt(x, sent', changes')
  BY <1>2, ProperStays
<1>8. \A k \in 1..Len(stored) : /\ ProperAt(stored[k], sent', changes')
                                /\ Before => ReplayableAt(stored[k], sent', changes')
  BY <1>7 DEF NodeCore
<1>9. /\ stored' \in Seq(Message)
      /\ \A k \in 1..Len(stored') : /\ ProperAt(stored'[k], sent', changes')
                                    /\ Before => ReplayableAt(stored'[k], sent', changes')
  <2>1. CASE stored' = stored
    BY <1>8, <2>1 DEF NodeCore
  <2>2. CASE stored' = Append(stored, m)
    <3>1. stored \in Seq(Message)
      BY DEF NodeCore
    <3>2. /\ Append(stored, m) \in Seq(Message) /\ Len(Append(stored, m)) = Len(stored) + 1
          /\ \A k \in 1..Len(stored) : Append(stored, m)[k] = stored[k]
          /\ Append(stored, m)[Len(stored) + 1] = m
          /\ \A k \in 1..(Len(stored) + 1) : k \in 1..Len(stored) \/ k = Len(stored) + 1
      BY <1>1, <3>1, AppendIs
    <3> QED
      BY <1>3, <1>8, <2>2, <3>2
  <2> QED
    BY <1>4, <2>1, <2>2
<1>10. history' = history /\ \A k \in 1..Len(history) : ReplayableAt(history[k], sent', changes')
  BY <1>7 DEF NodeCore
<1>11. /\ phase' \in {"out", "registered", "joined", "replay", "lost"}
       /\ phase' = "out" => live' = <<>>
       /\ phase' # "replay" => history' = <<>>
       /\ history' \in Seq(Message) /\ again' \subseteq Ids
  BY <1>5, <1>6, <1>10 DEF NodeCore
<1>12. /\ (\A k \in 1..Len(stored) : Proper(stored[k]) /\ (Before => Replayable(stored[k])))'
       /\ (\A k \in 1..Len(history) : Replayable(history[k]))'
       /\ (\A k \in 1..Len(live) : ProperEvent(live[k]))'
  BY <1>5, <1>6, <1>9, <1>10 DEF Proper, Replayable, ProperEvent
<1> QED
  BY <1>1, <1>2, <1>6, <1>9, <1>11, <1>12 DEF NodeCore

\* A stored message is replaced.
LEMMA ChangedIs ==
  ASSUME NEW i, NEW m \in Message, stored \in Seq(Message)
  PROVE  /\ Changed(i, m) \in Seq(Message) /\ Len(Changed(i, m)) = Len(stored)
         /\ \A k \in 1..Len(stored) : Changed(i, m)[k] = IF k = Find(stored, i) THEN m ELSE stored[k]
<1>1. DOMAIN stored = 1..Len(stored) /\ Len(stored) \in Nat /\ \A k \in 1..Len(stored) : stored[k] \in Message
  OBVIOUS
<1>2. Changed(i, m) = [k \in 1..Len(stored) |-> IF k = Find(stored, i) THEN m ELSE stored[k]]
  BY <1>1 DEF Changed
<1> DEFINE c == Changed(i, m)
<1>3. c \in [1..Len(stored) -> Message]
  BY <1>1, <1>2
<1> HIDE DEF c
<1>4. c \in Seq(Message) /\ Len(c) = Len(stored)
  BY <1>1, <1>3
<1> QED
  BY <1>2, <1>4 DEF c

\* A change: of the message i, at place f of the store, told of as m.
Modified(i, op, f, m) ==
  /\ f \in 1..Len(stored) /\ stored[f].id = i
  /\ m.id = i /\ m.pane = stored[f].pane /\ ProperAt(m, sent, changes + 1)
  /\ Tell(op, m)
  /\ stored' \in Seq(Message)
  /\ op = "delete" =>
       /\ Len(stored') = Len(stored) - 1
       /\ \A k \in 1..(Len(stored) - 1) : stored'[k] = IF k < f THEN stored[k] ELSE stored[k + 1]
  /\ op # "delete" =>
       /\ Len(stored') = Len(stored)
       /\ \A k \in 1..Len(stored) : stored'[k] = IF k = f THEN m ELSE stored[k]
  /\ op = "edit" => m.likes = stored[f].likes
  /\ op = "like" =>
       /\ m.rev = stored[f].rev
       /\ i \notin again' => Cardinality(m.likes) = Cardinality(stored[f].likes) + 1
  /\ again \subseteq again' /\ again' \subseteq again \cup {i}

\* A command that changes a message changes one place of the store, and tells of it.
LEMMA ModifyIs ==
  ASSUME NodeCore, NEW i \in Ids, Modify(i)
  PROVE  \E op \in {"edit", "delete", "like"}, f \in 1..Len(stored), m \in Message : Modified(i, op, f, m)
<1> DEFINE f == Find(stored, i)
           o == stored[f]
<1>1. stored \in Seq(Message) /\ \A k \in 1..Len(stored) : Proper(stored[k])
  BY DEF NodeCore
<1>2. f \in 1..Len(stored) /\ o.id = i
  BY <1>1, FindIs DEF Modify, Has
<1>3. Proper(o) /\ o \in Message
  BY <1>1, <1>2 DEF Proper, ProperAt
<1>4. changes + 1 \in 0..MaxChanges /\ changes \in Nat /\ MaxChanges \in Nat
  BY TuiAssumption DEF Modify, NodeCore
<1>5. /\ o.rev \in Nat /\ o.rev <= changes /\ IsFiniteSet(o.likes) /\ Cardinality(o.likes) \in Nat
      /\ Cardinality(o.likes) <= changes /\ o.likes \subseteq Users /\ o.pane \in Panes /\ i \in sent
      /\ KindOf[i] # "typed" => o.pane = PaneOf[i]
  <2>1. IsFiniteSet(o.likes) /\ Cardinality(o.likes) \in Nat
    BY <1>3, FS_CardinalityType DEF Proper, ProperAt
  <2> QED
    BY <1>2, <1>3, <1>4, <2>1 DEF Proper, ProperAt, Message
<1>0. o = [id |-> i, pane |-> o.pane, rev |-> o.rev, likes |-> o.likes]
  BY <1>2, <1>3 DEF Message
<1>6. CASE Edit(i)
  <2> DEFINE m == [o EXCEPT !.rev = @ + 1]
  <2>1. m = [id |-> i, pane |-> o.pane, rev |-> o.rev + 1, likes |-> o.likes]
    BY <1>2, <1>3 DEF Message
  <2>2. stored' = Changed(i, m) /\ Tell("edit", m) /\ again' = again
    BY <1>6 DEF Edit
  <2> HIDE DEF m, f
  <2>3. m \in Message /\ ProperAt(m, sent, changes + 1)
    BY <1>4, <1>5, <2>1 DEF Message, ProperAt
  <2>4. /\ stored' \in Seq(Message) /\ Len(stored') = Len(stored)
        /\ \A k \in 1..Len(stored) : stored'[k] = IF k = f THEN m ELSE stored[k]
    BY <1>1, <2>2, <2>3, ChangedIs DEF f
  <2>5. Modified(i, "edit", f, m)
    BY <1>2, <2>1, <2>2, <2>3, <2>4 DEF Modified
  <2> QED
    BY <1>2, <2>3, <2>5
<1>7. CASE Delete(i)
  <2>1. stored' = RemoveAt(stored, f) /\ Tell("delete", o) /\ again' = again
    BY <1>7 DEF Delete
  <2> HIDE DEF f
  <2>2. ProperAt(o, sent, changes + 1)
    BY <1>2, <1>3, <1>5, <1>4 DEF ProperAt
  <2>3. /\ stored' \in Seq(Message) /\ Len(stored') = Len(stored) - 1
        /\ \A k \in 1..(Len(stored) - 1) : stored'[k] = IF k < f THEN stored[k] ELSE stored[k + 1]
    BY <1>1, <1>2, <2>1, RemovedIs
  <2>4. Modified(i, "delete", f, o)
    BY <1>2, <2>1, <2>2, <2>3 DEF Modified
  <2> QED
    BY <1>2, <1>3, <2>4
<1>8. ASSUME NEW u \in Users, React(i, u)
      PROVE  \E op \in {"edit", "delete", "like"}, g \in 1..Len(stored), m \in Message : Modified(i, op, g, m)
  <2> DEFINE m == [o EXCEPT !.likes = @ \cup {u}]
  <2>1. m = [id |-> i, pane |-> o.pane, rev |-> o.rev, likes |-> o.likes \cup {u}]
    <3> HIDE DEF o
    <3> QED
      BY <1>0
  <2>2. /\ stored' = Changed(i, m) /\ Tell("like", m)
        /\ again' = IF u \in o.likes THEN again \cup {i} ELSE again
    BY <1>8 DEF React
  <2> HIDE DEF m, f
  <2>3. /\ IsFiniteSet(m.likes) /\ Cardinality(m.likes) \in Nat
        /\ Cardinality(m.likes) = IF u \in o.likes THEN Cardinality(o.likes) ELSE Cardinality(o.likes) + 1
    BY <1>5, <2>1, FS_AddElement, FS_CardinalityType
  <2>4. m \in Message /\ ProperAt(m, sent, changes + 1)
    BY <1>4, <1>5, <2>1, <2>3 DEF Message, ProperAt
  <2>5. /\ stored' \in Seq(Message) /\ Len(stored') = Len(stored)
        /\ \A k \in 1..Len(stored) : stored'[k] = IF k = f THEN m ELSE stored[k]
    BY <1>1, <2>2, <2>4, ChangedIs DEF f
  <2>6. i \notin again' => Cardinality(m.likes) = Cardinality(o.likes) + 1
    BY <2>2, <2>3
  <2>7. Modified(i, "like", f, m)
    BY <1>2, <2>1, <2>2, <2>4, <2>5, <2>6 DEF Modified
  <2> QED
    BY <1>2, <2>4, <2>7
<1> QED
  BY <1>6, <1>7, <1>8 DEF Modify

\* A change leaves the node's messages proper.
LEMMA ModifyKeeps ==
  ASSUME NodeCore, NEW i \in Ids, Modify(i)
  PROVE  NodeCore'
<1>1. PICK op \in {"edit", "delete", "like"}, f \in 1..Len(stored), m \in Message : Modified(i, op, f, m)
  BY ModifyIs, Zenon
<1>2. /\ changes' = changes + 1 /\ changes' \in 0..MaxChanges /\ changes <= changes'
      /\ changes \in Nat /\ changes' \in Nat
  BY TuiAssumption DEF Modify, NodeCore
<1>3. UNCHANGED <<phase, history, members, sent>> /\ Before' = Before
  BY DEF Modify, Before
<1>4. ProperAt(m, sent', changes') /\ Tell(op, m)
  BY <1>1, <1>2, <1>3 DEF Modified
<1>5. /\ live' \in Seq(Events) /\ \A k \in 1..Len(live') : ProperEventAt(live'[k], sent', changes')
      /\ raced' \cup unheard' \subseteq Ids
      /\ phase = "out" => live' = <<>>
  <2>1. op \in {"new", "edit", "delete", "like"} /\ sent \subseteq sent'
    BY <1>3
  <2> QED
    BY <1>2, <1>4, <2>1, TellKeeps, Zenon
<1>6. \A x : /\ Proper(x) => ProperAt(x, sent', changes')
             /\ Replayable(x) => ReplayableAt(x, sent', changes')
  <2>1. sent \subseteq sent'
    BY <1>3
  <2> QED
    BY <1>2, <2>1, ProperStays, Zenon
<1>7. \A k \in 1..Len(stored) : /\ ProperAt(stored[k], sent', changes')
                                /\ Before => ReplayableAt(stored[k], sent', changes')
  BY <1>6 DEF NodeCore
<1>8. Before => ReplayableAt(m, sent', changes')
  <2>1. Before => KindOf[stored[f].id] # "typed" /\ f \in 1..Len(stored)
    BY <1>1 DEF Modified, NodeCore, Replayable, ReplayableAt
  <2> QED
    BY <1>1, <1>4, <2>1 DEF Modified, ReplayableAt
<1>9. /\ stored' \in Seq(Message)
      /\ \A k \in 1..Len(stored') : /\ ProperAt(stored'[k], sent', changes')
                                    /\ Before => ReplayableAt(stored'[k], sent', changes')
  <2>1. stored' \in Seq(Message)
    BY <1>1 DEF Modified
  <2>2. CASE op = "delete"
    <3>1. /\ Len(stored') = Len(stored) - 1 /\ Len(stored) \in Nat
          /\ \A k \in 1..(Len(stored) - 1) : stored'[k] = IF k < f THEN stored[k] ELSE stored[k + 1]
      BY <1>1, <2>2 DEF Modified, NodeCore
    <3>2. \A k \in 1..(Len(stored) - 1) : k \in 1..Len(stored) /\ k + 1 \in 1..Len(stored)
      BY <3>1
    <3> QED
      BY <1>7, <2>1, <3>1, <3>2
  <2>3. CASE op # "delete"
    <3>1. Len(stored') = Len(stored) /\ \A k \in 1..Len(stored) : stored'[k] = IF k = f THEN m ELSE stored[k]
      BY <1>1, <2>3 DEF Modified
    <3> QED
      BY <1>4, <1>7, <1>8, <2>1, <3>1
  <2> QED
    BY <2>2, <2>3
<1>10. history' = history /\ \A k \in 1..Len(history) : ReplayableAt(history[k], sent', changes')
  BY <1>3, <1>6 DEF NodeCore
<1>11. /\ phase' \in {"out", "registered", "joined", "replay", "lost"}
       /\ phase' = "out" => live' = <<>>
       /\ phase' # "replay" => history' = <<>>
       /\ history' \in Seq(Message) /\ again' \subseteq Ids
  BY <1>1, <1>3, <1>5, <1>10 DEF NodeCore, Modified
<1>12. /\ (\A k \in 1..Len(stored) : Proper(stored[k]) /\ (Before => Replayable(stored[k])))'
       /\ (\A k \in 1..Len(history) : Replayable(history[k]))'
       /\ (\A k \in 1..Len(live) : ProperEvent(live[k]))'
  BY <1>3, <1>5, <1>9, <1>10 DEF Proper, Replayable, ProperEvent
<1>13. members' \subseteq Rooms /\ sent' \subseteq Ids
  BY <1>3 DEF NodeCore
<1> QED
  BY <1>2, <1>5, <1>9, <1>11, <1>12, <1>13 DEF NodeCore

\* What does not post or change keeps what is stored, and reads or forgets the rest.
LEMMA StillCore ==
  ASSUME NodeCore, UNCHANGED <<stored, sent, changes, raced, unheard, again>>,
         live' \in Seq(Events), \A k \in 1..Len(live') : \E l \in 1..Len(live) : live'[k] = live[l],
         history' \in Seq(Message),
         \A k \in 1..Len(history') : Replayable(history'[k]),
         phase' \in {"out", "registered", "joined", "replay", "lost"}, Before' => Before,
         phase' = "out" => live' = <<>>, phase' # "replay" => history' = <<>>,
         members' \subseteq Rooms
  PROVE  NodeCore'
<1>1. \A x : /\ Proper(x)' <=> Proper(x)
             /\ Replayable(x)' <=> Replayable(x)
             /\ ProperEvent(x)' <=> ProperEvent(x)
  BY DEF Proper, Replayable, ProperEvent
<1>2. /\ (\A k \in 1..Len(stored) : Proper(stored[k]) /\ (Before => Replayable(stored[k])))'
      /\ (\A k \in 1..Len(history) : Replayable(history[k]))'
  BY <1>1 DEF NodeCore
<1>3. (\A k \in 1..Len(live) : ProperEvent(live[k]))'
  BY <1>1 DEF NodeCore
<1> QED
  BY <1>2, <1>3 DEF NodeCore

\* The steps of the connection and of the client that post nothing.
LEMMA ConnectionKeeps ==
  ASSUME NodeCore, Register \/ JoinGeneral \/ Snapshot \/ Disconnect \/ ReceiveLive \/ ReceiveHistory
  PROVE  NodeCore'
<1>0. /\ live \in Seq(Events) /\ history \in Seq(Message) /\ stored \in Seq(Message) /\ members \subseteq Rooms
      /\ \A k \in 1..Len(history) : Replayable(history[k])
      /\ phase \in {"out", "registered", "joined", "replay", "lost"}
      /\ phase = "out" => live = <<>>
      /\ phase # "replay" => history = <<>>
  BY DEF NodeCore
<1>1. CASE Register
  <2>1. phase = "out" /\ phase' = "registered" /\ Before /\ UNCHANGED <<live, history, nodeVars, ghosts>>
    BY <1>1 DEF Register, Before
  <2> QED
    BY <1>0, <2>1, StillCore DEF nodeVars, ghosts
<1>2. CASE JoinGeneral
  <2>1. /\ phase = "registered" /\ phase' = "joined" /\ Before
        /\ UNCHANGED <<live, history, stored, sent, changes, ghosts>> /\ members' \subseteq Rooms
    BY <1>0, <1>2, TuiAssumption DEF JoinGeneral, Before
  <2> QED
    BY <1>0, <2>1, StillCore DEF ghosts
<1>3. CASE Snapshot
  <2>1. /\ phase = "joined" /\ phase' = "replay" /\ history' = stored /\ ~Before'
        /\ UNCHANGED <<live, nodeVars, ghosts>>
    BY <1>3 DEF Snapshot, Before
  <2>2. \A k \in 1..Len(stored) : Replayable(stored[k])
    BY <2>1 DEF NodeCore, Before
  <2> QED
    BY <1>0, <2>1, <2>2, StillCore DEF nodeVars, ghosts
<1>4. CASE Disconnect
  <2>1. phase' = "lost" /\ live' = <<>> /\ history' = <<>> /\ UNCHANGED <<nodeVars, ghosts>> /\ ~Before'
    BY <1>4 DEF Disconnect, Before
  <2>2. <<>> \in Seq(Events) /\ <<>> \in Seq(Message) /\ 1..Len(<<>>) = {}
    OBVIOUS
  <2> QED
    BY <1>0, <2>1, <2>2, StillCore DEF nodeVars, ghosts
<1>5. CASE ReceiveLive
  <2>1. live # <<>> /\ live' = Tail(live) /\ UNCHANGED <<phase, history, nodeVars, ghosts>>
    BY <1>5 DEF ReceiveLive
  <2>2. /\ Tail(live) \in Seq(Events)
        /\ \A k \in 1..Len(Tail(live)) : k + 1 \in 1..Len(live) /\ Tail(live)[k] = live[k + 1]
    BY <1>0, <2>1, TailIs
  <2>3. phase # "out" /\ (Before' => Before)
    BY <1>0, <2>1 DEF Before
  <2> QED
    BY <1>0, <2>1, <2>2, <2>3, StillCore DEF nodeVars, ghosts
<1>6. CASE ReceiveHistory
  <2>1. history # <<>> /\ history' = Tail(history) /\ UNCHANGED <<phase, live, nodeVars, ghosts>>
    BY <1>6 DEF ReceiveHistory
  <2>2. /\ Tail(history) \in Seq(Message)
        /\ \A k \in 1..Len(Tail(history)) : k + 1 \in 1..Len(history) /\ Tail(history)[k] = history[k + 1]
    BY <1>0, <2>1, TailIs
  <2>3. phase = "replay" /\ (Before' => Before)
    BY <1>0, <2>1 DEF Before
  <2>4. \A k \in 1..Len(Tail(history)) : Replayable(Tail(history)[k])
    BY <1>0, <2>2
  <2> QED
    BY <1>0, <2>1, <2>2, <2>3, <2>4, StillCore DEF nodeVars, ghosts
<1> QED
  BY <1>1, <1>2, <1>3, <1>4, <1>5, <1>6

\* Posting by others, and the node's reading of what the client has sent.
LEMMA PostKeeps ==
  ASSUME NodeCore, NEW i \in Ids, Post(i)
  PROVE  NodeCore'
<1>1. /\ KindOf[i] # "typed" /\ sent' = sent \cup {i} /\ Publish(i, PaneOf[i])
      /\ UNCHANGED <<phase, history, changes, members>>
  BY DEF Post
<1>2. PaneOf[i] \in Panes /\ members \subseteq Rooms /\ sent \subseteq Ids
  BY TuiAssumption DEF NodeCore
<1> QED
  BY <1>1, <1>2, PublishKeeps

\* So does what the client has sent.
LEMMA HandleKeeps ==
  ASSUME NodeInv, Handle
  PROVE  NodeCore'
<1> DEFINE o == Head(outbox)
<1>1. /\ phase = "replay" /\ outbox # <<>> /\ outbox \in Seq(Command) /\ NodeCore
      /\ UNCHANGED <<phase, history, sent, changes>>
  BY DEF NodeInv, Handle
<1>2. o = outbox[1] /\ 1 \in 1..Len(outbox) /\ o \in Command
  BY <1>1, TailIs
<1>3. TypedHere(o)
  BY <1>2 DEF NodeInv
<1>4. CASE o.op = "chat" /\ Publish(o.id, o.pane) /\ UNCHANGED members
  <2>1. o.id \in Ids /\ o.pane \in Panes /\ o.id \in sent /\ KindOf[o.id] = "typed"
    BY <1>2, <1>3, <1>4 DEF Command, TypedHere
  <2>2. ~Before /\ members' \subseteq Rooms /\ sent' = sent /\ sent \subseteq Ids
    BY <1>1, <1>4 DEF Before, NodeCore
  <2> HIDE DEF o
  <2> QED
    BY <1>1, <1>4, <2>1, <2>2, PublishKeeps
<1>5. ASSUME UNCHANGED <<stored, live, ghosts>>,
             members' = members \cup ({o.pane} \cap Rooms) \/ members' = members \ {o.pane}
      PROVE  NodeCore'
  <2>1. /\ members \subseteq Rooms /\ live \in Seq(Events) /\ history \in Seq(Message)
        /\ \A k \in 1..Len(history) : Replayable(history[k])
    BY <1>1 DEF NodeCore
  <2>2. members' \subseteq Rooms /\ ~Before'
    BY <1>1, <1>5, <2>1 DEF Before
  <2> HIDE DEF o
  <2> QED
    BY <1>1, <1>5, <2>1, <2>2, StillCore DEF ghosts
<1>6. \/ o.op = "chat" /\ Publish(o.id, o.pane) /\ UNCHANGED members
      \/ UNCHANGED <<stored, live, ghosts>>
         /\ (members' = members \cup ({o.pane} \cap Rooms) \/ members' = members \ {o.pane})
  BY DEF Handle
<1> QED
  BY <1>4, <1>5, <1>6

\* Keys that send nothing.
Looks ==
  \/ Esc \/ Open
  \/ \E step \in {-1, 1} : Tab(step) \/ MoveCursor(step)
  \/ \E p \in Panes : SwitchCommand(p)
Sends == (\E i \in Ids : Type(i)) \/ \E r \in Rooms, op \in {"join", "leave"} : MemberCommand(op, r)

\* Keys that only look around change neither the node nor the connection.
LEMMA LooksOnly ==
  Looks => UNCHANGED <<dms, phase, live, history, outbox, stored, members, sent, changes, raced, unheard, again>>
BY DEF Looks, Esc, Open, Tab, MoveCursor, SwitchCommand, Keys, nodeVars, ghosts

\* What the client sends is a command.
LEMMA SendIs ==
  ASSUME outbox \in Seq(Command), NEW o \in Command, Send(o)
  PROVE  /\ outbox' \in Seq(Command)
         /\ \A k \in 1..Len(outbox') : outbox'[k] = o \/ \E l \in 1..Len(outbox) : outbox'[k] = outbox[l]
<1>1. /\ Append(outbox, o) \in Seq(Command) /\ Len(Append(outbox, o)) = Len(outbox) + 1
      /\ \A k \in 1..Len(outbox) : Append(outbox, o)[k] = outbox[k]
      /\ Append(outbox, o)[Len(outbox) + 1] = o
      /\ \A k \in 1..(Len(outbox) + 1) : k \in 1..Len(outbox) \/ k = Len(outbox) + 1
  BY AppendIs
<1>2. CASE outbox' = outbox
  BY <1>2
<1>3. CASE outbox' = Append(outbox, o)
  BY <1>1, <1>3
<1> QED
  BY <1>2, <1>3 DEF Send

\* Keys that send add a command of the right type.
LEMMA SendsKeeps ==
  ASSUME NodeInv, active \in Panes, Sends
  PROVE  NodeInv'
<1>0. NodeCore /\ outbox \in Seq(Command) /\ \A k \in 1..Len(outbox) : TypedHere(outbox[k])
  BY DEF NodeInv
<1>1. ASSUME NEW i \in Ids, Type(i) PROVE NodeInv'
  <2> DEFINE o == [op |-> "chat", id |-> i, pane |-> active]
  <2>1. /\ sent' = sent \cup {i} /\ Send(o) /\ KindOf[i] = "typed"
        /\ UNCHANGED <<phase, live, history, stored, members, changes, ghosts>>
    BY <1>1 DEF Type
  <2>2. o \in Command /\ o.id = i
    BY DEF Command
  <2> HIDE DEF o
  <2>3. /\ outbox' \in Seq(Command)
        /\ \A k \in 1..Len(outbox') : outbox'[k] = o \/ \E l \in 1..Len(outbox) : outbox'[k] = outbox[l]
    BY <1>0, <2>1, <2>2, SendIs
  <2>4. (\A k \in 1..Len(outbox) : TypedHere(outbox[k]))'
    BY <1>0, <2>1, <2>2, <2>3 DEF TypedHere
  <2>5. \A x : /\ Proper(x) => Proper(x)'
               /\ Replayable(x) => Replayable(x)'
               /\ ProperEvent(x) => ProperEvent(x)'
    <3>1. changes \in Nat /\ changes' = changes
      BY <1>0, <2>1, TuiAssumption DEF NodeCore
    <3>2. changes' \in Nat /\ changes <= changes' /\ sent \subseteq sent'
      BY <2>1, <3>1
    <3>3. /\ \A m : Proper(m) => ProperAt(m, sent', changes')
          /\ \A m : Replayable(m) => ReplayableAt(m, sent', changes')
          /\ \A e : ProperEvent(e) => ProperEventAt(e, sent', changes')
      BY <3>1, <3>2, ProperStays, Zenon
    <3> QED
      BY <3>3 DEF Proper, Replayable, ProperEvent
  <2>6. NodeCore'
    BY <1>0, <2>1, <2>5 DEF NodeCore, ghosts, Before
  <2> QED
    BY <2>3, <2>4, <2>6 DEF NodeInv
<1>2. ASSUME NEW r \in Rooms, NEW op \in {"join", "leave"}, MemberCommand(op, r) PROVE NodeInv'
  <2> DEFINE o == [op |-> op, id |-> "none", pane |-> r]
  <2>1. Send(o) /\ UNCHANGED <<phase, live, history, stored, members, sent, changes, raced, unheard, again>>
    BY <1>2 DEF MemberCommand, Keys, nodeVars, ghosts
  <2>2. o \in Command /\ o.op # "chat"
    BY DEF Command
  <2> HIDE DEF o
  <2>3. /\ outbox' \in Seq(Command)
        /\ \A k \in 1..Len(outbox') : outbox'[k] = o \/ \E l \in 1..Len(outbox) : outbox'[k] = outbox[l]
    BY <1>0, <2>1, <2>2, SendIs
  <2>4. (\A k \in 1..Len(outbox) : TypedHere(outbox[k]))'
    BY <1>0, <2>1, <2>2, <2>3 DEF TypedHere
  <2>5. NodeCore'
    BY <1>0, <2>1 DEF NodeCore, Proper, Replayable, ProperEvent, Before
  <2> QED
    BY <2>3, <2>4, <2>5 DEF NodeInv
<1> QED
  BY <1>1, <1>2 DEF Sends

\* The steps of Next.
LEMMA Steps ==
  [Next]_vars =>
    \/ Looks \/ Sends \/ (\E i \in Ids : Post(i) \/ Modify(i)) \/ Handle
    \/ Register \/ JoinGeneral \/ Snapshot \/ Disconnect \/ ReceiveLive \/ ReceiveHistory
    \/ UNCHANGED vars
BY DEF Next, Key, Node, Looks, Sends

\* The node's part of the types is kept by every step.
LEMMA NodeKeeps ==
  ASSUME NodeInv, active \in Panes, [Next]_vars
  PROVE  NodeInv'
<1>0. NodeCore /\ outbox \in Seq(Command) /\ \A k \in 1..Len(outbox) : TypedHere(outbox[k])
  BY DEF NodeInv
<1>1. ASSUME NodeCore', outbox' \in Seq(Command), sent \subseteq sent',
             \A k \in 1..Len(outbox') : \E l \in 1..Len(outbox) : outbox'[k] = outbox[l]
      PROVE  NodeInv'
  BY <1>0, <1>1 DEF NodeInv, TypedHere
<1>2. CASE Looks \/ UNCHANGED vars
  <2>1. UNCHANGED <<phase, live, history, outbox, stored, members, sent, changes, raced, unheard, again>>
    BY <1>2, LooksOnly DEF vars, connVars, nodeVars, ghosts
  <2>2. NodeCore'
    BY <1>0, <2>1 DEF NodeCore, Proper, Replayable, ProperEvent, Before
  <2> QED
    BY <1>0, <1>1, <2>1, <2>2
<1>3. CASE Sends
  BY <1>3, SendsKeeps
<1>4. ASSUME NEW i \in Ids, Post(i) \/ Modify(i) PROVE NodeInv'
  <2>1. NodeCore'
    BY <1>0, <1>4, PostKeeps, ModifyKeeps
  <2>2. outbox' = outbox /\ sent \subseteq sent'
    BY <1>4 DEF Post, Modify
  <2> QED
    BY <1>0, <1>1, <2>1, <2>2
<1>5. CASE Handle
  <2>1. outbox # <<>> /\ outbox' = Tail(outbox) /\ sent' = sent
    BY <1>5 DEF Handle
  <2>2. /\ Tail(outbox) \in Seq(Command)
        /\ \A k \in 1..Len(Tail(outbox)) : k + 1 \in 1..Len(outbox) /\ Tail(outbox)[k] = outbox[k + 1]
    BY <1>0, <2>1, TailIs
  <2>3. NodeCore'
    BY <1>5, HandleKeeps
  <2> QED
    BY <1>1, <2>1, <2>2, <2>3
<1>6. CASE Register \/ JoinGeneral \/ Snapshot \/ Disconnect \/ ReceiveLive \/ ReceiveHistory
  <2>1. NodeCore'
    BY <1>0, <1>6, ConnectionKeeps
  <2>2. (outbox' = outbox \/ outbox' = <<>>) /\ sent' = sent
    BY <1>6 DEF Register, JoinGeneral, Snapshot, Disconnect, ReceiveLive, ReceiveHistory, nodeVars
  <2>3. <<>> \in Seq(Command) /\ 1..Len(<<>>) = {}
    OBVIOUS
  <2> QED
    BY <1>0, <1>1, <2>1, <2>2, <2>3
<1> QED
  BY <1>2, <1>3, <1>4, <1>5, <1>6, Steps

-----------------------------------------------------------------------------
(* The client's screen keeps its types *)

\* A channel is listed when it gets its pane.
LEMMA ListedIs ==
  ASSUME ScreenInv, NEW p \in Panes, channels' = Listed(p)
  PROVE  /\ channels' \in Seq(Rooms) /\ IsInjective(channels')
         /\ Len(channels) \in Nat /\ Len(channels') \in Nat /\ Len(channels) <= Len(channels')
         /\ \A k \in 1..Len(channels) : k \in 1..Len(channels') /\ channels'[k] = channels[k]
         /\ \A k \in 1..Len(channels') : channels'[k] \in DOMAIN panes \cup {p}
         /\ \A q \in (DOMAIN panes \cup {p}) \cap Rooms : \E k \in 1..Len(channels') : channels'[k] = q
<1>0. /\ channels \in Seq(Rooms) /\ IsInjective(channels) /\ Len(channels) \in Nat
      /\ DOMAIN channels = 1..Len(channels)
      /\ \A k \in 1..Len(channels) : channels[k] \in DOMAIN panes
      /\ \A q \in DOMAIN panes \cap Rooms : \E k \in 1..Len(channels) : channels[k] = q
  BY DEF ScreenInv
<1>1. CASE p \in DOMAIN panes \/ p \in DmPanes
  <2>1. channels' = channels
    BY <1>1 DEF Listed
  <2>2. (DOMAIN panes \cup {p}) \cap Rooms = DOMAIN panes \cap Rooms
    BY <1>1, TuiAssumption
  <2> QED
    BY <1>0, <2>1, <2>2
<1>2. CASE ~(p \in DOMAIN panes \/ p \in DmPanes)
  <2> DEFINE c == Append(channels, p)
  <2>1. channels' = c /\ p \in Rooms
    BY <1>2 DEF Listed, Panes
  <2>2. /\ c \in Seq(Rooms) /\ Len(c) = Len(channels) + 1 /\ Len(channels) + 1 \in 1..(Len(channels) + 1)
        /\ \A k \in 1..Len(channels) : k \in 1..(Len(channels) + 1) /\ c[k] = channels[k]
        /\ c[Len(channels) + 1] = p
        /\ \A k \in 1..(Len(channels) + 1) : k \in 1..Len(channels) \/ k = Len(channels) + 1
    BY <1>0, <2>1, AppendIs
  <2> HIDE DEF c
  <2>3. DOMAIN c = 1..(Len(channels) + 1)
    BY <2>2
  <2>4. IsInjective(c)
    BY <1>0, <1>2, <2>2, <2>3 DEF IsInjective
  <2>5. \A k \in 1..(Len(channels) + 1) : c[k] \in DOMAIN panes \cup {p}
    BY <1>0, <2>2
  <2>6. \A q \in (DOMAIN panes \cup {p}) \cap Rooms : \E k \in 1..(Len(channels) + 1) : c[k] = q
    BY <1>0, <2>2
  <2>7. Len(channels) + 1 \in Nat /\ Len(channels) <= Len(channels) + 1
    BY <1>0
  <2> QED
    BY <1>0, <2>1, <2>2, <2>4, <2>5, <2>6, <2>7
<1> QED
  BY <1>1, <1>2

\* A change in the panes that are there.
LEMMA InPlaceKeeps ==
  ASSUME ScreenInv, panes' \in [DOMAIN panes' -> PaneType], DOMAIN panes' = DOMAIN panes,
         UNCHANGED <<channels, dms, active>>, cursor' \in 1..(Len(channels) + Len(dms)),
         focus' \in {"input", "sidebar"}
  PROVE  ScreenInv'
BY DEF ScreenInv

\* The open channel changes.
LEMMA SwitchKeeps ==
  ASSUME ScreenInv, NEW p \in Panes, SwitchTo(p), UNCHANGED <<dms, cursor>>, focus' \in {"input", "sidebar"}
  PROVE  ScreenInv'
<1>1. /\ panes' \in [DOMAIN panes' -> PaneType] /\ DOMAIN panes' = DOMAIN panes \cup {p}
      /\ DOMAIN panes' \subseteq Panes
  BY SwitchIs
<1>2. active' = p /\ channels' = Listed(p)
  BY DEF SwitchTo
<1>3. /\ channels' \in Seq(Rooms) /\ IsInjective(channels')
      /\ Len(channels) \in Nat /\ Len(channels') \in Nat /\ Len(channels) <= Len(channels')
      /\ \A k \in 1..Len(channels') : channels'[k] \in DOMAIN panes \cup {p}
      /\ \A q \in (DOMAIN panes \cup {p}) \cap Rooms : \E k \in 1..Len(channels') : channels'[k] = q
  BY <1>2, ListedIs
<1>4. dms \in Seq(DmPanes) /\ IsInjective(dms) /\ \A k \in 1..Len(dms) : dms[k] \in DOMAIN panes'
  BY <1>1 DEF ScreenInv
<1>5. cursor \in 1..(Len(channels') + Len(dms))
  <2>1. Len(dms) \in Nat /\ cursor \in 1..(Len(channels) + Len(dms))
    BY DEF ScreenInv
  <2> QED
    BY <1>3, <2>1
<1> QED
  BY <1>1, <1>2, <1>3, <1>4, <1>5 DEF ScreenInv

\* A message arrives.
LEMMA ArrivesKeeps ==
  ASSUME ScreenInv, NEW m, Proper(m), changes \in 0..MaxChanges, Arrives(m), UNCHANGED <<active, cursor, focus>>
  PROVE  ScreenInv'
<1> DEFINE p == m.pane
<1>1. p \in Panes /\ m.id \in Ids
  BY DEF Proper, ProperAt, Message
<1>2. /\ panes' \in [DOMAIN panes' -> PaneType] /\ DOMAIN panes' = DOMAIN panes \cup {p}
      /\ DOMAIN panes' \subseteq Panes
  BY ArrivesIs
<1>3. channels' = Listed(p) /\ dms' = IF KindOf[m.id] = "dm" /\ ~Contains(dms, p) THEN Append(dms, p) ELSE dms
  BY DEF Arrives
<1>4. KindOf[m.id] = "dm" => p \in DmPanes
  BY <1>1, TuiAssumption DEF Proper, ProperAt
<1> HIDE DEF p
<1>5. /\ channels' \in Seq(Rooms) /\ IsInjective(channels')
      /\ Len(channels) \in Nat /\ Len(channels') \in Nat /\ Len(channels) <= Len(channels')
      /\ \A k \in 1..Len(channels') : channels'[k] \in DOMAIN panes \cup {p}
      /\ \A q \in (DOMAIN panes \cup {p}) \cap Rooms : \E k \in 1..Len(channels') : channels'[k] = q
  BY <1>1, <1>3, ListedIs
<1>6. /\ dms \in Seq(DmPanes) /\ IsInjective(dms) /\ Len(dms) \in Nat /\ DOMAIN dms = 1..Len(dms)
      /\ \A k \in 1..Len(dms) : dms[k] \in DOMAIN panes
  BY DEF ScreenInv
<1>7. /\ dms' \in Seq(DmPanes) /\ IsInjective(dms') /\ Len(dms') \in Nat /\ Len(dms) <= Len(dms')
      /\ \A k \in 1..Len(dms') : dms'[k] \in DOMAIN panes \cup {p}
  <2>1. CASE dms' = dms
    BY <1>6, <2>1
  <2>2. CASE p \in DmPanes /\ ~Contains(dms, p) /\ dms' = Append(dms, p)
    <3> DEFINE d == Append(dms, p)
    <3>1. /\ d \in Seq(DmPanes) /\ Len(d) = Len(dms) + 1
          /\ \A k \in 1..Len(dms) : d[k] = dms[k]
          /\ d[Len(dms) + 1] = p
          /\ \A k \in 1..(Len(dms) + 1) : k \in 1..Len(dms) \/ k = Len(dms) + 1
      BY <1>6, <2>2, AppendIs
    <3> HIDE DEF d
    <3>2. DOMAIN d = 1..(Len(dms) + 1) /\ Len(dms) + 1 \in Nat /\ Len(dms) <= Len(dms) + 1
      BY <1>6, <3>1
    <3>3. \A k \in 1..Len(dms) : dms[k] # p
      BY <2>2 DEF Contains
    <3>4. IsInjective(d)
      BY <1>6, <3>1, <3>2, <3>3 DEF IsInjective
    <3>5. \A k \in 1..(Len(dms) + 1) : d[k] \in DOMAIN panes \cup {p}
      BY <1>6, <3>1
    <3> QED
      BY <2>2, <3>1, <3>2, <3>4, <3>5 DEF d
  <2> QED
    BY <1>3, <1>4, <2>1, <2>2
<1>8. cursor' \in 1..(Len(channels') + Len(dms'))
  <2>1. cursor \in 1..(Len(channels) + Len(dms)) /\ cursor' = cursor
    BY DEF ScreenInv
  <2> QED
    BY <1>5, <1>6, <1>7, <2>1
<1> QED
  BY <1>2, <1>5, <1>7, <1>8 DEF ScreenInv

\* The items of the sidebar have panes.
LEMMA ItemsIs ==
  ASSUME ScreenInv
  PROVE  /\ Items \in Seq(Panes) /\ Len(Items) = Len(channels) + Len(dms)
         /\ Len(channels) \in Nat /\ Len(dms) \in Nat
         /\ \A k \in 1..Len(Items) : Items[k] = IF k <= Len(channels) THEN channels[k] ELSE dms[k - Len(channels)]
         /\ \A k \in 1..Len(Items) : Items[k] \in DOMAIN panes /\ Items[k] \in Panes
<1>0. DOMAIN panes \subseteq Panes
  BY DEF ScreenInv
<1>1. /\ channels \in Seq(Panes) /\ dms \in Seq(Panes)
      /\ Len(channels) \in Nat /\ Len(dms) \in Nat
      /\ \A k \in 1..Len(channels) : channels[k] \in DOMAIN panes
      /\ \A k \in 1..Len(dms) : dms[k] \in DOMAIN panes
  BY DEF ScreenInv, Panes
<1>2. /\ channels \o dms \in Seq(Panes) /\ Len(channels \o dms) = Len(channels) + Len(dms)
      /\ \A k \in 1..(Len(channels) + Len(dms)) :
           (channels \o dms)[k] = IF k <= Len(channels) THEN channels[k] ELSE dms[k - Len(channels)]
  BY <1>1, ConcatProperties
<1>3. \A k \in 1..(Len(channels) + Len(dms)) : k <= Len(channels) => k \in 1..Len(channels)
  BY <1>1
<1>4. \A k \in 1..(Len(channels) + Len(dms)) : ~(k <= Len(channels)) => k - Len(channels) \in 1..Len(dms)
  BY <1>1
<1> DEFINE s == channels \o dms
<1> HIDE DEF s
<1>5. \A k \in 1..(Len(channels) + Len(dms)) : s[k] \in DOMAIN panes
  BY <1>1, <1>2, <1>3, <1>4 DEF s
<1> QED
  BY <1>0, <1>1, <1>2, <1>5 DEF Items, s

\* So has what tab leads to.
LEMMA NeighbourIs ==
  ASSUME ScreenInv, Position # 0, NEW step \in {-1, 1}
  PROVE  Items[((Position - 1 + step) % Len(Items)) + 1] \in Panes
<1> DEFINE I == {k \in 1..Len(Items) : Items[k] = active}
           n == Len(Items)
<1>1. Position = IF I # {} THEN Min(I) ELSE 0
  BY DEF Position, SelectInSeq
<1>2. n \in Nat /\ \A k \in 1..n : Items[k] \in Panes
  BY ItemsIs
<1>3. I \in SUBSET Nat /\ I \subseteq 1..n
  BY <1>2
<1> HIDE DEF I, n
<1>4. Position \in 1..n
  BY <1>1, <1>3, MinIsMember
<1>5. (Position - 1 + step) % n \in 0..(n - 1)
  BY <1>2, <1>4
<1>6. ((Position - 1 + step) % n) + 1 \in 1..n
  BY <1>2, <1>5
<1> QED
  BY <1>2, <1>6 DEF n

\* Looking around keeps the screen in order: what is opened is listed, or is not to be.
LEMMA LooksKeep ==
  ASSUME ScreenInv, Looks
  PROVE  ScreenInv'
<1>0. /\ cursor \in 1..(Len(channels) + Len(dms)) /\ focus \in {"input", "sidebar"}
      /\ panes \in [DOMAIN panes -> PaneType]
  BY DEF ScreenInv
<1>1. CASE Esc
  <2>1. UNCHANGED <<channels, dms, panes, active, cursor>> /\ focus' \in {"input", "sidebar"}
    BY <1>1 DEF Esc, Keys
  <2> QED
    BY <1>0, <2>1, InPlaceKeeps
<1>2. CASE Open
  <2>1. cursor <= Len(Items) /\ cursor \in Nat /\ 1 <= cursor
    BY <1>0, <1>2, ItemsIs DEF Open
  <2>2. Items[cursor] \in Panes
    BY <2>1, ItemsIs
  <2>3. SwitchTo(Items[cursor]) /\ UNCHANGED <<dms, cursor>> /\ focus' = "input"
    BY <1>2 DEF Open, Keys
  <2> QED
    BY <2>2, <2>3, SwitchKeeps
<1>3. ASSUME NEW step \in {-1, 1}, Tab(step) PROVE ScreenInv'
  <2>1. /\ Position # 0 /\ SwitchTo(Items[((Position - 1 + step) % Len(Items)) + 1])
        /\ UNCHANGED <<dms, cursor, focus>>
    BY <1>3 DEF Tab, Keys
  <2> QED
    BY <1>0, <2>1, NeighbourIs, SwitchKeeps
<1>4. ASSUME NEW step \in {-1, 1}, MoveCursor(step) PROVE ScreenInv'
  <2>1. UNCHANGED <<channels, dms, panes, active, focus>> /\ cursor' = cursor + step /\ cursor + step \in 1..Len(Items)
    BY <1>4 DEF MoveCursor, Keys
  <2>2. cursor' \in 1..(Len(channels) + Len(dms))
    BY <2>1, ItemsIs
  <2> QED
    BY <1>0, <2>1, <2>2, InPlaceKeeps
<1>5. ASSUME NEW p \in Panes, SwitchCommand(p) PROVE ScreenInv'
  BY <1>0, <1>5, SwitchKeeps DEF SwitchCommand, Keys
<1> QED
  BY <1>1, <1>2, <1>3, <1>4, <1>5 DEF Looks

\* What is received is proper.
LEMMA LiveIs ==
  ASSUME NodeCore, live # <<>>
  PROVE  /\ ProperEvent(Head(live)) /\ Head(live) = live[1] /\ Proper(Head(live).msg)
         /\ Head(live) \in Events /\ Len(live) \in Nat \ {0} /\ 1 \in 1..Len(live)
<1>1. Head(live) = live[1] /\ 1 \in 1..Len(live) /\ Len(live) \in Nat \ {0}
  BY TailIs DEF NodeCore
<1> QED
  BY <1>1 DEF NodeCore, ProperEvent, ProperEventAt, Proper

\* A copy that is replayed is proper as it is written, with the reactions of the store.
LEMMA HistoryIs ==
  ASSUME NodeCore, history # <<>>
  PROVE  /\ Proper(AsWritten(Head(history))) /\ Head(history) = history[1] /\ Head(history) \in Message
         /\ AsWritten(Head(history)).id = Head(history).id /\ AsWritten(Head(history)).pane = Head(history).pane
         /\ AsWritten(Head(history)).rev = Head(history).rev /\ Replayable(Head(history))
<1> DEFINE m == Head(history)
           f == Find(stored, m.id)
<1>1. /\ m = history[1] /\ m \in Message /\ Replayable(m) /\ stored \in Seq(Message)
      /\ \A k \in 1..Len(stored) : Proper(stored[k]) /\ stored[k] \in Message
  BY TailIs DEF NodeCore
<1>2. Proper(m)
  BY <1>1 DEF Replayable, ReplayableAt, Proper
<1>3. m = [id |-> m.id, pane |-> m.pane, rev |-> m.rev, likes |-> m.likes]
  BY <1>1 DEF Message
<1>4. CASE m.likes # {} /\ Has(stored, m.id)
  <2>1. f \in 1..Len(stored)
    BY <1>1, <1>4, FindIs DEF Has
  <2> DEFINE l == stored[f].likes
  <2>2. l \subseteq Users /\ IsFiniteSet(l) /\ Cardinality(l) <= changes
    BY <1>1, <2>1 DEF Proper, ProperAt, Message
  <2>3. AsWritten(m) = [m EXCEPT !.likes = l]
    BY <1>4 DEF AsWritten
  <2> HIDE DEF l, m
  <2>4. AsWritten(m) = [id |-> m.id, pane |-> m.pane, rev |-> m.rev, likes |-> l]
    BY <1>3, <2>3
  <2>5. Proper(AsWritten(m))
    BY <1>1, <1>2, <2>2, <2>4 DEF Proper, ProperAt, Message
  <2> QED
    BY <1>1, <2>4, <2>5 DEF m
<1>5. CASE ~(m.likes # {} /\ Has(stored, m.id))
  <2>1. AsWritten(m) = m
    BY <1>5 DEF AsWritten
  <2> QED
    BY <1>1, <1>2, <2>1
<1> QED
  BY <1>4, <1>5

-----------------------------------------------------------------------------
(* Reactions on the screen are bounded *)

Low(n) == \A p \in Panes : \A k \in 1..Len(Text(p)) : Text(p)[k].likes <= n

\* Tallies are numbers no larger than the number of changes.
LEMMA TallyIs ==
  ASSUME NodeCore, NEW c \in Tallies
  PROVE  /\ changes \in Nat /\ Len(live) \in Nat /\ \A k \in 0..Len(live) : c[k] \in Nat /\ c[k] <= changes
         /\ 0 \in 0..Len(live) /\ \A k \in 1..Len(live) : k \in 0..Len(live) /\ k - 1 \in 0..Len(live)
<1>1. changes \in Nat /\ Len(live) \in Nat
  BY TuiAssumption DEF NodeCore
<1> QED
  BY <1>1 DEF Tallies

\* Events that come, a reaction only with a change.
LEMMA TallyGrows ==
  ASSUME NodeCore, NEW c \in Tallies, Tally(c), changes' \in Nat, changes <= changes',
         \/ live' = live
         \/ \E e \in Events : live' = Append(live, e) /\ (e.op = "like" => changes' = changes + 1)
  PROVE  \E d \in Tallies' : Tally(d)' /\ d[0] = c[0]
<1> DEFINE n == Len(live)
<1>0. /\ changes \in Nat /\ n \in Nat /\ \A k \in 0..n : c[k] \in Nat /\ c[k] <= changes
      /\ live \in Seq(Events)
  BY TallyIs DEF NodeCore
<1>1. \A k \in 1..n : c[k] = c[k - 1] + IF live[k].op = "like" THEN 1 ELSE 0
  BY DEF Tally
<1>2. CASE live' = live
  <2>1. c \in [0..n -> 0..changes'] /\ c \in Tallies' /\ Tally(c)'
    BY <1>0, <1>1, <1>2 DEF Tallies, Tally
  <2> QED
    BY <2>1
<1>3. ASSUME NEW e \in Events, live' = Append(live, e), e.op = "like" => changes' = changes + 1
      PROVE  \E d \in Tallies' : Tally(d)' /\ d[0] = c[0]
  <2>0. PICK d : d = [k \in 0..(n + 1) |-> IF k = n + 1 THEN c[n] + (IF e.op = "like" THEN 1 ELSE 0) ELSE c[k]]
    OBVIOUS
  <2>1. /\ live' \in Seq(Events) /\ Len(live') = n + 1 /\ live'[n + 1] = e
        /\ \A k \in 1..n : live'[k] = live[k]
        /\ \A k \in 1..(n + 1) : k \in 1..n \/ k = n + 1
    BY <1>0, <1>3, AppendIs
  <2>2. \A k \in 0..n : k \in 0..(n + 1) /\ k # n + 1
    BY <1>0
  <2>3. n \in 0..n /\ n + 1 \in 0..(n + 1) /\ 0 \in 0..n
    BY <1>0
  <2>4. /\ d[n + 1] = c[n] + (IF e.op = "like" THEN 1 ELSE 0)
        /\ \A k \in 0..n : d[k] = c[k]
    BY <2>0, <2>2, <2>3
  <2>5. d \in [0..(n + 1) -> 0..changes']
    <3> SUFFICES ASSUME NEW k \in 0..(n + 1) PROVE d[k] \in 0..changes'
      BY <2>0
    <3>1. k \in 0..n \/ k = n + 1
      BY <1>0
    <3> QED
      BY <1>0, <1>3, <2>3, <2>4, <3>1
  <2>6. ASSUME NEW k \in 1..(n + 1)
        PROVE  d[k] = d[k - 1] + IF live'[k].op = "like" THEN 1 ELSE 0
    <3>1. CASE k \in 1..n
      <4>1. k \in 0..n /\ k - 1 \in 0..n
        BY <1>0, <3>1
      <4> QED
        BY <1>1, <2>1, <2>4, <3>1, <4>1
    <3>2. CASE k = n + 1
      BY <1>0, <2>1, <2>3, <2>4, <3>2
    <3> QED
      BY <2>1, <3>1, <3>2
  <2>7. d \in Tallies' /\ Tally(d)' /\ d[0] = c[0]
    BY <2>1, <2>3, <2>4, <2>5, <2>6 DEF Tallies, Tally
  <2> QED
    BY <2>7
<1> QED
  BY <1>2, <1>3

\* The first event is read.
LEMMA TallyMoves ==
  ASSUME NodeCore, NEW c \in Tallies, Tally(c), live # <<>>, live' = Tail(live), changes' = changes
  PROVE  \E d \in Tallies' : /\ Tally(d)' /\ d[0] = c[1] /\ c[1] \in Nat /\ c[1] <= changes
                             /\ c[1] = c[0] + IF live[1].op = "like" THEN 1 ELSE 0
<1> DEFINE n == Len(live)
<1>0. /\ changes \in Nat /\ n \in Nat \ {0} /\ \A k \in 0..n : c[k] \in Nat /\ c[k] <= changes
      /\ live \in Seq(Events)
  BY TallyIs, LiveIs DEF NodeCore
<1>1. \A k \in 1..n : c[k] = c[k - 1] + IF live[k].op = "like" THEN 1 ELSE 0
  BY DEF Tally
<1>2. Len(live') = n - 1 /\ \A k \in 1..(n - 1) : k + 1 \in 1..n /\ live'[k] = live[k + 1]
  BY <1>0, TailIs
<1>d. PICK d : d = [k \in 0..(n - 1) |-> c[k + 1]]
  OBVIOUS
<1>3. \A k \in 0..(n - 1) : k + 1 \in 0..n /\ d[k] = c[k + 1]
  BY <1>0, <1>d
<1>4. d \in [0..(n - 1) -> 0..changes]
  BY <1>0, <1>d, <1>3
<1>5. \A k \in 1..(n - 1) : k \in 0..(n - 1) /\ k - 1 \in 0..(n - 1) /\ (k - 1) + 1 = k /\ (k + 1) - 1 = k
  BY <1>0
<1>6. \A k \in 1..(n - 1) : d[k] = d[k - 1] + IF live'[k].op = "like" THEN 1 ELSE 0
  BY <1>1, <1>2, <1>3, <1>5
<1>7. d \in Tallies' /\ Tally(d)'
  BY <1>2, <1>4, <1>6 DEF Tallies, Tally
<1>8. 0 \in 0..(n - 1) /\ 1 \in 1..n /\ 1 \in 0..n /\ 0 + 1 = 1 /\ 1 - 1 = 0
  BY <1>0
<1>9. d[0] = c[1] /\ c[1] \in Nat /\ c[1] <= changes /\ c[1] = c[0] + IF live[1].op = "like" THEN 1 ELSE 0
  BY <1>0, <1>1, <1>3, <1>8
<1> QED
  BY <1>7, <1>9

\* There is room for one reaction more, when one is to be read.
LEMMA LikeFits ==
  ASSUME NodeCore, LikesLow, live # <<>>, live[1].op = "like", ScreenInv
  PROVE  \A p \in Panes : \A k \in 1..Len(Text(p)) : Text(p)[k].likes + 1 <= 2 * MaxChanges
<1>1. PICK c \in Tallies : Tally(c) /\ \A p \in Panes : \A k \in 1..Len(Text(p)) : Text(p)[k].likes <= changes + c[0]
  BY DEF LikesLow
<1>2. /\ changes \in Nat /\ Len(live) \in Nat /\ 1 \in 1..Len(live) /\ 0 \in 0..Len(live) /\ 1 \in 0..Len(live)
      /\ \A k \in 0..Len(live) : c[k] \in Nat /\ c[k] <= changes
  BY TallyIs, LiveIs
<1>3. c[1] = c[1 - 1] + 1 /\ 1 - 1 = 0
  BY <1>1, <1>2 DEF Tally
<1>4. c[0] + 1 <= changes /\ changes <= MaxChanges /\ MaxChanges \in Nat
  BY <1>2, <1>3, TuiAssumption DEF NodeCore
<1> SUFFICES ASSUME NEW p \in Panes, NEW k \in 1..Len(Text(p)) PROVE Text(p)[k].likes + 1 <= 2 * MaxChanges
  OBVIOUS
<1>5. Text(p)[k].likes \in Nat
  <2>1. Text(p) \in Seq(Shown)
    BY PaneIs
  <2>2. Text(p)[k] \in Shown
    BY <2>1
  <2> QED
    BY <2>2, TuiAssumption DEF Shown
<1>6. Text(p)[k].likes <= changes + c[0]
  BY <1>1
<1> QED
  BY <1>2, <1>4, <1>5, <1>6

-----------------------------------------------------------------------------
(* Types *)

TypeInv == NodeInv /\ ScreenInv /\ LikesLow

\* What arrives keeps the screen in order; a count of reactions stays in its range because
\* no more of them are on their way than changes are left.
LEMMA ReceivesKeep ==
  ASSUME NodeCore, ScreenInv, LikesLow, ReceiveLive \/ ReceiveHistory
  PROVE  ScreenInv'
<1>0. /\ changes \in 0..MaxChanges /\ panes \in [DOMAIN panes -> PaneType]
      /\ cursor \in 1..(Len(channels) + Len(dms)) /\ focus \in {"input", "sidebar"}
  BY DEF NodeCore, ScreenInv
<1>1. CASE ReceiveLive
  <2> DEFINE e == Head(live)
  <2>1. live # <<>> /\ Show(e) /\ UNCHANGED <<active, cursor, focus>>
    BY <1>1 DEF ReceiveLive
  <2>2. e = live[1] /\ Proper(e.msg)
    BY <2>1, LiveIs
  <2>3. CASE e.op = "new" /\ Arrives(e.msg)
    BY <1>0, <2>1, <2>2, <2>3, ArrivesKeeps
  <2>4. CASE e.op = "edit" /\ EditShown(e.msg) /\ UNCHANGED <<channels, dms>>
    BY <1>0, <2>1, <2>2, <2>4, EditShownIs, InPlaceKeeps
  <2>5. CASE e.op = "delete" /\ DeleteShown(e.msg) /\ UNCHANGED <<channels, dms>>
    BY <1>0, <2>1, <2>2, <2>5, DeleteShownIs, InPlaceKeeps
  <2>6. CASE e.op = "like" /\ LikeShown(e.msg) /\ UNCHANGED <<channels, dms>>
    <3>1. \A p \in Panes : \A k \in 1..Len(Text(p)) : Text(p)[k].likes + 1 <= 2 * MaxChanges
      BY <2>1, <2>2, <2>6, LikeFits
    <3> QED
      BY <1>0, <2>1, <2>2, <2>6, <3>1, LikeShownIs, InPlaceKeeps
  <2> QED
    BY <2>1, <2>3, <2>4, <2>5, <2>6 DEF Show
<1>2. CASE ReceiveHistory
  <2>1. history # <<>> /\ UNCHANGED <<active, cursor, focus>>
    BY <1>2 DEF ReceiveHistory
  <2>2. CASE UNCHANGED <<channels, dms, panes>>
    BY <1>0, <2>1, <2>2, InPlaceKeeps
  <2>3. CASE Arrives(AsWritten(Head(history)))
    BY <1>0, <2>1, <2>3, HistoryIs, ArrivesKeeps
  <2> QED
    BY <1>2, <2>2, <2>3 DEF ReceiveHistory
<1> QED
  BY <1>1, <1>2

\* Keys change no text, and the node's steps do not touch the client.
LEMMA LooksTexts ==
  ASSUME ScreenInv, Looks
  PROVE  \A q : Text(q)' = Text(q)
<1>1. ASSUME NEW p \in Panes, SwitchTo(p) PROVE \A q : Text(q)' = Text(q)
  BY <1>1, SwitchIs
<1>2. CASE panes' = panes
  BY <1>2 DEF Text
<1>3. CASE Open
  <2>1. cursor <= Len(Items) /\ cursor \in Nat /\ 1 <= cursor
    BY <1>3, ItemsIs DEF Open, ScreenInv
  <2>2. Items[cursor] \in Panes /\ SwitchTo(Items[cursor])
    BY <1>3, <2>1, ItemsIs DEF Open
  <2> QED
    BY <1>1, <2>2
<1>4. ASSUME NEW step \in {-1, 1}, Tab(step) PROVE \A q : Text(q)' = Text(q)
  <2>1. /\ SwitchTo(Items[((Position - 1 + step) % Len(Items)) + 1])
        /\ Items[((Position - 1 + step) % Len(Items)) + 1] \in Panes
    BY <1>4, NeighbourIs DEF Tab
  <2> QED
    BY <1>1, <2>1
<1> QED
  BY <1>1, <1>2, <1>3, <1>4 DEF Looks, Esc, MoveCursor, SwitchCommand

\* The node's steps that tell of something: an event at most, a reaction only with a
\* change.
LEMMA NodeTells ==
  ASSUME NodeInv, Handle \/ \E i \in Ids : Post(i) \/ Modify(i)
  PROVE  /\ panes' = panes /\ changes \in Nat /\ changes' \in Nat /\ changes <= changes'
         /\ \/ live' = live
            \/ \E e \in Events : live' = Append(live, e) /\ (e.op = "like" => changes' = changes + 1)
<1>0. NodeCore /\ changes \in Nat
  BY TuiAssumption DEF NodeInv, NodeCore
<1>1. ASSUME NEW i \in Ids, NEW p \in Panes, Publish(i, p)
      PROVE  live' = live \/ \E e \in Events : live' = Append(live, e) /\ e.op = "new"
  <2> DEFINE m == [id |-> i, pane |-> p, rev |-> 0, likes |-> {}]
             e == [op |-> "new", msg |-> m]
  <2>1. m \in Message
    BY TuiAssumption DEF Message
  <2>2. e \in Events /\ e.op = "new"
    BY <2>1 DEF Events
  <2>3. live' = live \/ live' = Append(live, e)
    BY <1>1 DEF Publish, Tell
  <2> HIDE DEF e
  <2> QED
    BY <2>2, <2>3
<1>2. ASSUME NEW i \in Ids, Post(i)
      PROVE  /\ panes' = panes /\ changes' = changes
             /\ live' = live \/ \E e \in Events : live' = Append(live, e) /\ e.op = "new"
  <2>1. PaneOf[i] \in Panes /\ Publish(i, PaneOf[i]) /\ panes' = panes /\ changes' = changes
    BY <1>2, TuiAssumption DEF Post, uiVars
  <2> QED
    BY <1>1, <2>1
<1>3. ASSUME NEW i \in Ids, Modify(i)
      PROVE  panes' = panes /\ changes' = changes + 1 /\ (live' = live \/ \E e \in Events : live' = Append(live, e))
  <2>1. PICK op \in {"edit", "delete", "like"}, f \in 1..Len(stored), m \in Message : Modified(i, op, f, m)
    BY <1>0, <1>3, ModifyIs, Zenon
  <2>2. Tell(op, m) /\ m \in Message
    BY <2>1 DEF Modified, ProperAt
  <2>3. [op |-> op, msg |-> m] \in Events
    BY <2>2 DEF Events
  <2>4. live' = live \/ live' = Append(live, [op |-> op, msg |-> m])
    BY <2>2 DEF Tell
  <2> QED
    BY <1>3, <2>3, <2>4 DEF Modify, uiVars
<1>4. CASE Handle
  <2> DEFINE o == Head(outbox)
  <2>1. panes' = panes /\ changes' = changes
    BY <1>4 DEF Handle, uiVars
  <2>2. CASE o.op = "chat" /\ Publish(o.id, o.pane)
    <3>1. o \in Command
      BY <1>4, TailIs DEF NodeInv, Handle
    <3>2. o.id \in Ids /\ o.pane \in Panes
      BY <2>2, <3>1 DEF Command
    <3> QED
      BY <1>0, <1>1, <2>1, <2>2, <3>2
  <2>3. live' = live \/ (o.op = "chat" /\ Publish(o.id, o.pane))
    BY <1>4 DEF Handle
  <2> QED
    BY <1>0, <2>1, <2>2, <2>3
<1>5. ASSUME NEW n \in Nat PROVE n \in Nat /\ n + 1 \in Nat /\ n <= n /\ n <= n + 1 /\ n # n + 1
  OBVIOUS
<1> QED
  BY <1>0, <1>2, <1>3, <1>4, <1>5

\* What the client reads: texts stay low.
LEMMA LiveTexts ==
  ASSUME NodeCore, ScreenInv, LikesLow, live # <<>>, Show(Head(live)), NEW b \in Nat, NEW l \in Nat,
         changes <= b, Low(b), l = b + IF live[1].op = "like" THEN 1 ELSE 0
  PROVE  \A p \in Panes : \A k \in 1..Len(Text(p)') : Text(p)'[k].likes <= l
<1> DEFINE e == Head(live)
           m == e.msg
<1>0. e = live[1] /\ Proper(m) /\ changes \in 0..MaxChanges /\ changes \in Nat
  BY LiveIs, TuiAssumption DEF NodeCore
<1>1. m.id \in Ids /\ m.rev \in 0..MaxChanges
  BY <1>0 DEF Proper, ProperAt, Message
<1>2. \A p \in Panes : /\ Text(p) \in Seq(Shown)
                       /\ \A k \in 1..Len(Text(p)) : Text(p)[k].likes \in Nat /\ Text(p)[k].likes <= b
  <2> SUFFICES ASSUME NEW p \in Panes
               PROVE  /\ Text(p) \in Seq(Shown)
                      /\ \A k \in 1..Len(Text(p)) : Text(p)[k].likes \in Nat /\ Text(p)[k].likes <= b
    OBVIOUS
  <2>1. Text(p) \in Seq(Shown)
    BY PaneIs
  <2>2. \A k \in 1..Len(Text(p)) : Text(p)[k] \in Shown
    BY <2>1
  <2>3. \A x \in Shown : x.likes \in Nat
    BY TuiAssumption DEF Shown
  <2> QED
    BY <2>1, <2>2, <2>3 DEF Low
<1> SUFFICES ASSUME NEW p \in Panes, NEW k \in 1..Len(Text(p)') PROVE Text(p)'[k].likes <= l
  OBVIOUS
<1> DEFINE s == Text(p)
<1>3. b <= l
  OBVIOUS
<1>4. CASE e.op = "new" /\ Arrives(m)
  <2>1. Text(p)' = IF p = m.pane THEN Append(s, AsShown(m)) ELSE s
    BY <1>0, <1>4, ArrivesIs
  <2>2. AsShown(m) \in Shown /\ AsShown(m).likes <= b
    <3>1. AsShown(m) \in Shown /\ AsShown(m).likes <= changes
      BY <1>0, AsShownIs
    <3>2. AsShown(m).likes \in Nat
      BY <3>1, TuiAssumption DEF Shown
    <3> QED
      BY <1>0, <3>1, <3>2
  <2>3. /\ Len(Append(s, AsShown(m))) = Len(s) + 1
        /\ \A j \in 1..Len(s) : Append(s, AsShown(m))[j] = s[j]
        /\ Append(s, AsShown(m))[Len(s) + 1] = AsShown(m)
        /\ \A j \in 1..(Len(s) + 1) : j \in 1..Len(s) \/ j = Len(s) + 1
    BY <1>2, <2>2, AppendIs
  <2>4. Text(p)'[k].likes \in Nat /\ Text(p)'[k].likes <= b
    <3>1. AsShown(m).likes \in Nat
      BY <2>2, TuiAssumption DEF Shown
    <3> QED
      BY <1>2, <2>1, <2>2, <2>3, <3>1
  <2> QED
    BY <1>3, <2>4
<1>5. CASE e.op = "edit" /\ EditShown(m)
  <2>1. Text(p)' = Edited(s, m.id, m.rev)
    BY <1>0, <1>5, EditShownIs
  <2>2. Len(Text(p)') = Len(s) /\ \A j \in 1..Len(s) : Text(p)'[j].likes = s[j].likes
    BY <1>1, <1>2, <2>1, EditedIs
  <2> QED
    BY <1>2, <1>3, <2>2
<1>6. CASE e.op = "delete" /\ DeleteShown(m)
  <2>1. Text(p)' = Deleted(s, m.id)
    BY <1>0, <1>6, DeleteShownIs
  <2>2. s \in Seq(Shown)
    BY <1>2
  <2>3. \A j \in 1..Len(Deleted(s, m.id)) : \E i \in 1..Len(s) : Deleted(s, m.id)[j] = s[i]
    BY <1>1, <2>2, DeletedIs, Zenon
  <2> QED
    BY <1>2, <1>3, <2>1, <2>3
<1>7. CASE e.op = "like" /\ LikeShown(m)
  <2>1. \A q \in Panes : \A j \in 1..Len(Text(q)) : Text(q)[j].likes + 1 <= 2 * MaxChanges
    BY <1>0, <1>7, LikeFits
  <2>2. Text(p)' = Liked(s, m.id)
    BY <1>0, <1>7, <2>1, LikeShownIs
  <2>3. /\ Len(Text(p)') = Len(s)
        /\ \A j \in 1..Len(s) : Text(p)'[j].likes = s[j].likes + 1 \/ Text(p)'[j] = s[j]
    BY <1>1, <1>2, <2>1, <2>2, LikedIs
  <2>4. l = b + 1
    BY <1>0, <1>7
  <2>5. s[k].likes \in Nat /\ s[k].likes <= b /\ k \in 1..Len(s)
    BY <1>2, <2>3
  <2> QED
    BY <2>3, <2>4, <2>5
<1> QED
  BY <1>4, <1>5, <1>6, <1>7 DEF Show

\* The tally is kept: an event that comes is a change more, one that is read moves a
\* reaction from the way to the screen.
LEMMA LikesKeep ==
  ASSUME TypeInv, [Next]_vars
  PROVE  LikesLow'
<1>0. /\ NodeInv /\ NodeCore /\ ScreenInv /\ LikesLow /\ changes \in Nat
  BY TuiAssumption DEF TypeInv, NodeInv, NodeCore
<1>1. PICK c \in Tallies : Tally(c) /\ Low(changes + c[0])
  BY <1>0 DEF LikesLow, Low
<1>2. /\ Len(live) \in Nat /\ 0 \in 0..Len(live) /\ c[0] \in Nat /\ changes + c[0] \in Nat
      /\ \A p \in Panes : \A k \in 1..Len(Text(p)) : Text(p)[k].likes \in Nat
  <2>1. Len(live) \in Nat /\ 0 \in 0..Len(live) /\ c[0] \in Nat
    BY <1>0, TallyIs
  <2>2. ASSUME NEW p \in Panes, NEW k \in 1..Len(Text(p)) PROVE Text(p)[k].likes \in Nat
    <3>1. Text(p) \in Seq(Shown)
      BY <1>0, PaneIs
    <3>2. Text(p)[k] \in Shown
      BY <3>1
    <3> QED
      BY <3>2, TuiAssumption DEF Shown
  <2> QED
    BY <1>0, <2>1, <2>2
\* Texts that stay, and a tally that begins as before.
<1>3. ASSUME \A q : Text(q)' = Text(q), changes' \in Nat, changes <= changes',
             \E d \in Tallies' : Tally(d)' /\ d[0] = c[0]
      PROVE  LikesLow'
  <2>1. PICK d \in Tallies' : Tally(d)' /\ d[0] = c[0]
    BY <1>3
  <2>2. \A p \in Panes : \A k \in 1..Len(Text(p)) : Text(p)[k].likes <= changes' + c[0]
    BY <1>0, <1>1, <1>2, <1>3 DEF Low
  <2>3. \A p \in Panes : \A k \in 1..Len(Text(p)') : Text(p)'[k].likes <= changes' + d[0]
    BY <1>3, <2>1, <2>2
  <2> QED
    BY <2>1, <2>3 DEF LikesLow
<1>4. live' = live /\ changes' = changes => \E d \in Tallies' : Tally(d)' /\ d[0] = c[0]
  BY <1>1 DEF Tallies, Tally
<1>5. CASE Looks
  <2>1. live' = live /\ changes' = changes /\ \A q : Text(q)' = Text(q)
    BY <1>0, <1>5, LooksOnly, LooksTexts
  <2> QED
    BY <1>0, <1>3, <1>4, <2>1
<1>6. CASE Sends \/ Register \/ JoinGeneral \/ Snapshot \/ UNCHANGED vars
  <2>1. live' = live /\ changes' = changes /\ panes' = panes
    BY <1>6 DEF Sends, Type, MemberCommand, Keys, Register, JoinGeneral, Snapshot, vars, uiVars, connVars, nodeVars
  <2>2. \A q : Text(q)' = Text(q)
    BY <2>1 DEF Text
  <2> QED
    BY <1>0, <1>3, <1>4, <2>1, <2>2
<1>7. CASE Handle \/ \E i \in Ids : Post(i) \/ Modify(i)
  <2>1. /\ panes' = panes /\ changes' \in Nat /\ changes <= changes'
        /\ \/ live' = live
           \/ \E e \in Events : live' = Append(live, e) /\ (e.op = "like" => changes' = changes + 1)
    BY <1>0, <1>7, NodeTells
  <2>2. \E d \in Tallies' : Tally(d)' /\ d[0] = c[0]
    BY <1>0, <1>1, <2>1, TallyGrows
  <2>3. \A q : Text(q)' = Text(q)
    BY <2>1 DEF Text
  <2> QED
    BY <1>3, <2>1, <2>2, <2>3
<1>8. CASE Disconnect
  <2>1. live' = <<>> /\ changes' = changes /\ panes' = panes
    BY <1>8 DEF Disconnect, uiVars, nodeVars
  <2>2. PICK d : d = [k \in 0..0 |-> c[0]]
    OBVIOUS
  <2>3. d \in Tallies' /\ Tally(d)' /\ d[0] = c[0]
    <3>1. Len(<<>>) = 0 /\ 1..0 = {} /\ 0 \in 0..0
      OBVIOUS
    <3>2. c[0] \in 0..changes
      BY <1>2 DEF Tallies
    <3> QED
      BY <2>1, <2>2, <3>1, <3>2 DEF Tallies, Tally
  <2>4. \A q : Text(q)' = Text(q)
    BY <2>1 DEF Text
  <2> QED
    BY <1>0, <1>3, <2>1, <2>3, <2>4
<1>9. CASE ReceiveLive
  <2>1. live # <<>> /\ live' = Tail(live) /\ changes' = changes /\ Show(Head(live))
    BY <1>9 DEF ReceiveLive, nodeVars
  <2>2. PICK d \in Tallies' : /\ Tally(d)' /\ d[0] = c[1] /\ c[1] \in Nat /\ c[1] <= changes
                              /\ c[1] = c[0] + IF live[1].op = "like" THEN 1 ELSE 0
    BY <1>0, <1>1, <2>1, TallyMoves
  <2>3. /\ changes <= changes + c[0] /\ changes + c[1] \in Nat
        /\ changes + c[1] = (changes + c[0]) + IF live[1].op = "like" THEN 1 ELSE 0
    BY <1>0, <1>2, <2>2
  <2>4. \A p \in Panes : \A k \in 1..Len(Text(p)') : Text(p)'[k].likes <= changes + c[1]
    BY <1>0, <1>1, <1>2, <2>1, <2>3, LiveTexts
  <2> QED
    BY <2>1, <2>2, <2>4 DEF LikesLow
<1>10. CASE ReceiveHistory
  <2>1. history # <<>> /\ live' = live /\ changes' = changes
    BY <1>10 DEF ReceiveHistory, nodeVars
  <2>2. CASE UNCHANGED <<channels, dms, panes>>
    <3>1. \A q : Text(q)' = Text(q)
      BY <2>2 DEF Text
    <3> QED
      BY <1>0, <1>3, <1>4, <2>1, <3>1
  <2>3. CASE Arrives(AsWritten(Head(history)))
    <3> DEFINE m == AsWritten(Head(history))
    <3>1. Proper(m) /\ changes \in 0..MaxChanges
      BY <1>0, <2>1, HistoryIs DEF NodeCore
    <3>2. AsShown(m) \in Shown /\ AsShown(m).likes <= changes /\ AsShown(m).likes \in Nat
      BY <3>1, AsShownIs, TuiAssumption DEF Shown
    <3>3. \A q : Text(q)' = IF q = m.pane THEN Append(Text(q), AsShown(m)) ELSE Text(q)
      BY <1>0, <2>3, <3>1, ArrivesIs
    <3> HIDE DEF m
    <3>4. AsShown(m).likes <= changes + c[0]
      BY <1>0, <1>2, <3>2
    <3>5. ASSUME NEW p \in Panes, NEW k \in 1..Len(Text(p)') PROVE Text(p)'[k].likes <= changes + c[0]
      <4>1. Text(p) \in Seq(Shown)
        BY <1>0, PaneIs
      <4>2. /\ Len(Append(Text(p), AsShown(m))) = Len(Text(p)) + 1
            /\ \A j \in 1..Len(Text(p)) : Append(Text(p), AsShown(m))[j] = Text(p)[j]
            /\ Append(Text(p), AsShown(m))[Len(Text(p)) + 1] = AsShown(m)
            /\ \A j \in 1..(Len(Text(p)) + 1) : j \in 1..Len(Text(p)) \/ j = Len(Text(p)) + 1
        BY <3>2, <4>1, AppendIs
      <4> QED
        BY <1>1, <3>3, <3>4, <4>2 DEF Low
    <3> QED
      BY <1>1, <1>4, <2>1, <3>5 DEF LikesLow
  <2> QED
    BY <1>10, <2>2, <2>3 DEF ReceiveHistory
<1> QED
  BY <1>5, <1>6, <1>7, <1>8, <1>9, <1>10, Steps

\* The screen's part of the types is kept by every step.
LEMMA ScreenKeeps ==
  ASSUME TypeInv, [Next]_vars
  PROVE  ScreenInv'
<1>0. NodeCore /\ ScreenInv /\ LikesLow
  BY DEF TypeInv, NodeInv
<1>1. CASE UNCHANGED uiVars
  BY <1>0, <1>1 DEF ScreenInv, uiVars
<1>2. UNCHANGED vars => UNCHANGED uiVars
  BY DEF vars
<1>3. Sends => UNCHANGED uiVars
  BY DEF Sends, Type, MemberCommand, Keys, uiVars
<1>4. Register \/ JoinGeneral \/ Snapshot \/ Disconnect \/ Handle \/ (\E i \in Ids : Post(i) \/ Modify(i))
      => UNCHANGED uiVars
  BY DEF Register, JoinGeneral, Snapshot, Disconnect, Handle, Post, Modify
<1> QED
  BY <1>0, <1>1, <1>2, <1>3, <1>4, LooksKeep, ReceivesKeep, Steps

\* The invariant of the types holds at the start.
LEMMA TypeInit == Init => TypeInv
<1> SUFFICES ASSUME Init PROVE TypeInv
  OBVIOUS
<1>1. /\ <<>> \in Seq(Message) /\ <<>> \in Seq(Events) /\ <<>> \in Seq(Command) /\ <<>> \in Seq(Shown)
      /\ <<>> \in Seq(DmPanes) /\ Len(<<>>) = 0 /\ 1..0 = {} /\ DOMAIN <<>> = {}
  OBVIOUS
<1>2. MaxChanges \in Nat /\ General \in Rooms /\ General \in Panes
  BY TuiAssumption DEF Panes
<1>3. NodeInv
  BY <1>1, <1>2 DEF Init, NodeInv, NodeCore
<1>4. ScreenInv
  <2>1. /\ channels \in Seq(Rooms) /\ Len(channels) = 1 /\ channels[1] = General /\ DOMAIN channels = {1}
        /\ 1 \in 1..1 /\ \A k \in 1..1 : k = 1
    BY <1>2 DEF Init
  <2>2. panes \in [{General} -> PaneType] /\ DOMAIN panes = {General}
    BY <1>1 DEF Init, PaneType
  <2>3. dms = <<>> /\ active = General /\ cursor = 1 /\ focus = "input"
    BY DEF Init
  <2> QED
    BY <1>1, <1>2, <2>1, <2>2, <2>3 DEF ScreenInv, IsInjective
<1>5. LikesLow
  <2>1. PICK c : c = [k \in 0..0 |-> 0]
    OBVIOUS
  <2>2. c \in Tallies /\ Tally(c) /\ c[0] = 0
    BY <1>1, <1>2, <2>1 DEF Init, Tallies, Tally
  <2>3. \A p \in Panes : Text(p) = <<>>
    BY DEF Init, Text
  <2> QED
    BY <1>1, <2>2, <2>3 DEF LikesLow
<1> QED
  BY <1>3, <1>4, <1>5 DEF TypeInv

\* And every step keeps it.
LEMMA TypeStep == TypeInv /\ [Next]_vars => TypeInv'
<1> SUFFICES ASSUME TypeInv, [Next]_vars PROVE TypeInv'
  OBVIOUS
<1>1. active \in Panes
  BY DEF TypeInv, ScreenInv
<1> QED
  BY <1>1, NodeKeeps, ScreenKeeps, LikesKeep DEF TypeInv

\* The state has its types: the open channel has a pane, the pseudo-channels are
\* listed apart from the channels and once each, the cursor is on an item of the
\* sidebar.  Init and Update of internal/tui/model.go, and what client.go and the
\* commands of the node do to its messages.
THEOREM TuiTypes == Spec => []TypeOK
<1>1. TypeInv => TypeOK
  <2> SUFFICES ASSUME TypeInv PROVE TypeOK
    OBVIOUS
  <2>1. \A p \in DOMAIN panes : p \in Panes /\ panes[p].msgs \in Seq(Shown) /\ panes[p].unread \in Nat
    BY DEF TypeInv, ScreenInv, PaneType
  <2>2. ToSet(Items) \subseteq DOMAIN panes /\ cursor \in 1..Len(Items)
    <3>1. /\ Items \in Seq(Panes) /\ Len(Items) = Len(channels) + Len(dms)
          /\ \A k \in 1..Len(Items) : Items[k] \in DOMAIN panes
      BY ItemsIs DEF TypeInv
    <3>2. DOMAIN Items = 1..Len(Items)
      BY <3>1
    <3> QED
      BY <3>1, <3>2 DEF ToSet, TypeInv, ScreenInv
  <2> QED
    BY <2>1, <2>2 DEF TypeInv, NodeInv, NodeCore, ScreenInv, TypeOK
<1> QED
  BY <1>1, TypeInit, TypeStep, PTL DEF Spec

-----------------------------------------------------------------------------
(* Counts of unread messages, and the cursor *)

\* A channel, a pane of a direct message that came, or of a stray chat.
Reached(p) ==
  \/ p \in Rooms
  \/ \E k \in 1..Len(dms) : dms[k] = p
  \/ \E i \in sent : KindOf[i] = "chat" /\ PaneOf[i] = p
BadgeInv == \A p \in DOMAIN panes : panes[p].unread > 0 => p # active /\ Reached(p)

\* What is reached is in the sidebar, or excepted.
LEMMA BadgesFrom == ScreenInv /\ BadgeInv => BadgesReachable
<1> SUFFICES ASSUME ScreenInv, BadgeInv, NEW p \in DOMAIN panes, panes[p].unread > 0
             PROVE  /\ p # active
                    /\ \/ p \in ToSet(Items)
                       \/ p \in DmPanes /\ \E i \in sent : KindOf[i] = "chat" /\ PaneOf[i] = p
  BY DEF BadgesReachable
<1>0. p # active /\ Reached(p) /\ p \in Panes
  BY DEF BadgeInv, ScreenInv
<1>1. /\ Len(Items) = Len(channels) + Len(dms) /\ Len(channels) \in Nat /\ Len(dms) \in Nat
      /\ DOMAIN Items = 1..Len(Items)
      /\ \A k \in 1..Len(Items) : Items[k] = IF k <= Len(channels) THEN channels[k] ELSE dms[k - Len(channels)]
  BY ItemsIs
<1>2. CASE p \in Rooms
  <2>1. PICK k \in 1..Len(channels) : channels[k] = p
    BY <1>2 DEF ScreenInv
  <2>2. k \in DOMAIN Items /\ Items[k] = p
    BY <1>1, <2>1
  <2> QED
    BY <1>0, <2>2 DEF ToSet
<1>3. ASSUME NEW k \in 1..Len(dms), dms[k] = p PROVE p \in ToSet(Items)
  <2>1. Len(channels) + k \in DOMAIN Items /\ Items[Len(channels) + k] = p
    BY <1>1, <1>3
  <2> QED
    BY <2>1 DEF ToSet
<1> QED
  BY <1>0, <1>2, <1>3 DEF Reached, Panes

\* What was reached stays so.
LEMMA ReachedStays ==
  ASSUME sent \subseteq sent', NEW p, Reached(p), \A k \in 1..Len(dms) : \E l \in 1..Len(dms') : dms'[l] = dms[k]
  PROVE  Reached(p)'
BY DEF Reached

\* What arrives counts in a channel that can be reached.
LEMMA ArriveBadges ==
  ASSUME ScreenInv, BadgeInv, NEW m, Proper(m), changes \in 0..MaxChanges, Arrives(m), UNCHANGED <<active, sent>>,
         KindOf[m.id] = "typed" => m.pane \in Rooms
  PROVE  BadgeInv'
<1> DEFINE p == m.pane
<1>0. p \in Panes /\ m.id \in Ids /\ m.id \in sent /\ (KindOf[m.id] # "typed" => p = PaneOf[m.id])
  BY DEF Proper, ProperAt, Message
<1>1. /\ DOMAIN panes' = DOMAIN panes \cup {p}
      /\ panes'[p].unread = Pane(p).unread + IF Counts(p, m.id) THEN 1 ELSE 0
      /\ \A q \in DOMAIN panes : q # p => panes'[q] = panes[q]
  BY ArrivesIs
<1>2. dms \in Seq(DmPanes) /\ dms' = IF KindOf[m.id] = "dm" /\ ~Contains(dms, p) THEN Append(dms, p) ELSE dms
  BY DEF Arrives, ScreenInv
<1>3. KindOf[m.id] = "dm" => p \in DmPanes
  BY <1>0, TuiAssumption
<1> HIDE DEF p
<1>4. /\ \A k \in 1..Len(dms) : \E l \in 1..Len(dms') : dms'[l] = dms[k]
      /\ KindOf[m.id] = "dm" => \E l \in 1..Len(dms') : dms'[l] = p
  <2>1. CASE dms' = dms /\ (KindOf[m.id] = "dm" => Contains(dms, p))
    BY <2>1 DEF Contains
  <2>2. CASE p \in DmPanes /\ dms' = Append(dms, p)
    <3>1. /\ Len(Append(dms, p)) = Len(dms) + 1 /\ Len(dms) + 1 \in 1..(Len(dms) + 1)
          /\ \A k \in 1..Len(dms) : k \in 1..(Len(dms) + 1) /\ Append(dms, p)[k] = dms[k]
          /\ Append(dms, p)[Len(dms) + 1] = p
      BY <1>2, <2>2, AppendIs
    <3> QED
      BY <2>2, <3>1
  <2> QED
    BY <1>2, <1>3, <2>1, <2>2
<1>5. ASSUME NEW q \in DOMAIN panes, q # p, panes'[q].unread > 0 PROVE q # active' /\ Reached(q)'
  <2>1. q # active /\ Reached(q)
    BY <1>1, <1>5 DEF BadgeInv
  <2> QED
    BY <1>4, <2>1, ReachedStays
<1>6. ASSUME panes'[p].unread > 0 PROVE p # active' /\ Reached(p)'
  <2>1. CASE p \in DOMAIN panes /\ panes[p].unread > 0
    <3>1. p # active /\ Reached(p)
      BY <2>1 DEF BadgeInv
    <3> QED
      BY <1>4, <3>1, ReachedStays
  <2>2. CASE ~(p \in DOMAIN panes /\ panes[p].unread > 0)
    <3>1. Pane(p).unread \in Nat /\ ~(Pane(p).unread > 0)
      BY <2>2, PaneIs DEF Pane, Known, PaneType
    <3>2. Counts(p, m.id)
      BY <1>1, <1>6, <3>1
    <3>3. p # active /\ KindOf[m.id] # "notice"
      BY <3>2 DEF Counts
    <3>4. KindOf[m.id] \in Kinds /\ General \in Rooms
      BY <1>0, TuiAssumption
    <3>5. CASE KindOf[m.id] = "dm"
      BY <1>4, <3>3, <3>5 DEF Reached
    <3>6. CASE KindOf[m.id] = "chat"
      BY <1>0, <3>3, <3>6 DEF Reached, p
    <3>7. CASE KindOf[m.id] = "answer"
      <4>1. p \in Rooms
        BY <1>0, <3>4, <3>7, TuiAssumption DEF p
      <4> QED
        BY <3>3, <4>1 DEF Reached
    <3>8. CASE KindOf[m.id] = "typed"
      BY <3>3, <3>8 DEF Reached, p
    <3> QED
      BY <3>3, <3>4, <3>5, <3>6, <3>7, <3>8 DEF Kinds
  <2> QED
    BY <2>1, <2>2
<1> QED
  BY <1>1, <1>5, <1>6 DEF BadgeInv

\* Every step keeps counts where they can be reached.
LEMMA BadgeStep ==
  ASSUME TypeInv, BadgeInv, [Next]_vars
  PROVE  BadgeInv'
<1>0. NodeCore /\ ScreenInv /\ LikesLow /\ changes \in 0..MaxChanges
  BY DEF TypeInv, NodeInv, NodeCore
<1>1. ASSUME DOMAIN panes' = DOMAIN panes, UNCHANGED <<active, dms>>, sent \subseteq sent',
             \A p \in DOMAIN panes : panes'[p].unread = panes[p].unread
      PROVE  BadgeInv'
  BY <1>1, ReachedStays DEF BadgeInv
<1>2. ASSUME NEW p \in Panes, SwitchTo(p), UNCHANGED <<dms, sent>> PROVE BadgeInv'
  <2>1. /\ DOMAIN panes' = DOMAIN panes \cup {p} /\ active' = p
        /\ panes'[p].unread = 0 /\ \A q \in DOMAIN panes : q # p => panes'[q] = panes[q]
    BY <1>0, <1>2, SwitchIs DEF SwitchTo
  <2> QED
    BY <1>2, <2>1 DEF BadgeInv, Reached
<1>3. CASE Looks
  <2>1. dms' = dms /\ sent' = sent
    BY <1>3, LooksOnly
  <2>2. CASE Esc \/ \E step \in {-1, 1} : MoveCursor(step)
    BY <1>1, <2>1, <2>2 DEF Esc, MoveCursor
  <2>3. CASE Open
    <3>1. cursor <= Len(Items) /\ cursor \in Nat /\ 1 <= cursor
      BY <1>0, <2>3, ItemsIs DEF Open, ScreenInv
    <3>2. Items[cursor] \in Panes /\ SwitchTo(Items[cursor])
      BY <1>0, <2>3, <3>1, ItemsIs DEF Open
    <3> QED
      BY <1>2, <2>1, <3>2
  <2>4. ASSUME NEW step \in {-1, 1}, Tab(step) PROVE BadgeInv'
    <3>1. /\ SwitchTo(Items[((Position - 1 + step) % Len(Items)) + 1])
          /\ Items[((Position - 1 + step) % Len(Items)) + 1] \in Panes
      BY <1>0, <2>4, NeighbourIs DEF Tab
    <3> QED
      BY <1>2, <2>1, <3>1
  <2>5. ASSUME NEW p \in Panes, SwitchCommand(p) PROVE BadgeInv'
    BY <1>2, <2>1, <2>5 DEF SwitchCommand
  <2> QED
    BY <1>3, <2>2, <2>3, <2>4, <2>5 DEF Looks
<1>4. CASE UNCHANGED uiVars /\ sent \subseteq sent'
  BY <1>1, <1>4 DEF uiVars
<1>5. Sends \/ Handle \/ Register \/ JoinGeneral \/ Snapshot \/ Disconnect \/ UNCHANGED vars
      \/ (\E i \in Ids : Post(i) \/ Modify(i))
      => UNCHANGED uiVars /\ sent \subseteq sent'
  BY DEF Sends, Type, MemberCommand, Keys, Handle, Register, JoinGeneral, Snapshot, Disconnect, Post, Modify,
         vars, uiVars, nodeVars
<1>6. CASE ReceiveLive
  <2> DEFINE e == Head(live)
  <2>1. live # <<>> /\ Show(e) /\ UNCHANGED <<active, sent>>
    BY <1>6 DEF ReceiveLive, nodeVars
  <2>2. e = live[1] /\ Proper(e.msg) /\ ProperEvent(e)
    BY <1>0, <2>1, LiveIs
  <2>3. CASE e.op = "new" /\ Arrives(e.msg)
    <3>1. KindOf[e.msg.id] = "typed" => e.msg.pane \in Rooms
      BY <2>2, <2>3 DEF ProperEvent, ProperEventAt
    <3> QED
      BY <1>0, <2>1, <2>2, <2>3, <3>1, ArriveBadges
  <2>4. CASE e.op = "edit" /\ EditShown(e.msg) /\ UNCHANGED <<channels, dms>>
    BY <1>0, <1>1, <2>1, <2>2, <2>4, EditShownIs
  <2>5. CASE e.op = "delete" /\ DeleteShown(e.msg) /\ UNCHANGED <<channels, dms>>
    BY <1>0, <1>1, <2>1, <2>2, <2>5, DeleteShownIs
  <2>6. CASE e.op = "like" /\ LikeShown(e.msg) /\ UNCHANGED <<channels, dms>>
    <3>1. \A p \in Panes : \A k \in 1..Len(Text(p)) : Text(p)[k].likes + 1 <= 2 * MaxChanges
      BY <1>0, <2>1, <2>2, <2>6, LikeFits
    <3> QED
      BY <1>0, <1>1, <2>1, <2>2, <2>6, <3>1, LikeShownIs
  <2> QED
    BY <2>1, <2>3, <2>4, <2>5, <2>6 DEF Show
<1>7. CASE ReceiveHistory
  <2>1. history # <<>> /\ UNCHANGED <<active, sent>>
    BY <1>7 DEF ReceiveHistory, nodeVars
  <2>2. CASE UNCHANGED <<channels, dms, panes>>
    BY <1>1, <2>1, <2>2
  <2>3. CASE Arrives(AsWritten(Head(history)))
    <3>1. Proper(AsWritten(Head(history))) /\ KindOf[AsWritten(Head(history)).id] # "typed"
      BY <1>0, <2>1, HistoryIs DEF Replayable, ReplayableAt
    <3> QED
      BY <1>0, <2>1, <2>3, <3>1, ArriveBadges
  <2> QED
    BY <1>7, <2>2, <2>3 DEF ReceiveHistory
<1> QED
  BY <1>3, <1>4, <1>5, <1>6, <1>7, Steps

\* Whoever is written to finds the channel: the open one shows no count, and another
\* that has one is in the sidebar, except for the pseudo-channel of a chat somebody
\* wrote with a direct message open.  Model.ensureChannel and handleServerMessage,
\* internal/tui/model.go, and the replay of handleConnection.
THEOREM BadgesAreReachable == Spec => []BadgesReachable
<1>1. Init => BadgeInv
  BY DEF Init, BadgeInv
<1>2. TypeInv /\ BadgeInv /\ [Next]_vars => (TypeInv /\ BadgeInv)'
  BY TypeStep, BadgeStep
<1>3. TypeInv /\ BadgeInv => BadgesReachable
  BY BadgesFrom DEF TypeInv
<1> QED
  BY <1>1, <1>2, <1>3, TypeInit, PTL DEF Spec

\* Channels are listed after those that are.
LEMMA ChannelsGrow ==
  ASSUME TypeInv, [Next]_vars
  PROVE  /\ Len(channels) \in Nat /\ Len(channels) <= Len(channels')
         /\ \A k \in 1..Len(channels) : channels'[k] = channels[k]
<1>0. NodeCore /\ ScreenInv /\ LikesLow /\ Len(channels) \in Nat
  BY DEF TypeInv, NodeInv, ScreenInv
<1>1. CASE channels' = channels
  BY <1>0, <1>1
<1>2. ASSUME NEW p \in Panes, channels' = Listed(p)
      PROVE  Len(channels) <= Len(channels') /\ \A k \in 1..Len(channels) : channels'[k] = channels[k]
  BY <1>0, <1>2, ListedIs
<1>3. CASE Looks
  <2>1. CASE Open
    <3>1. cursor <= Len(Items) /\ cursor \in Nat /\ 1 <= cursor
      BY <1>0, <2>1, ItemsIs DEF Open, ScreenInv
    <3>2. Items[cursor] \in Panes /\ channels' = Listed(Items[cursor])
      BY <1>0, <2>1, <3>1, ItemsIs DEF Open, SwitchTo
    <3> QED
      BY <1>0, <1>2, <3>2
  <2>2. ASSUME NEW step \in {-1, 1}, Tab(step) PROVE \E p \in Panes : channels' = Listed(p)
    BY <1>0, <2>2, NeighbourIs DEF Tab, SwitchTo
  <2>3. ASSUME NEW p \in Panes, SwitchCommand(p) PROVE channels' = Listed(p)
    BY <2>3 DEF SwitchCommand, SwitchTo
  <2>4. Esc \/ (\E step \in {-1, 1} : MoveCursor(step)) => channels' = channels
    BY DEF Esc, MoveCursor
  <2> QED
    BY <1>0, <1>1, <1>2, <1>3, <2>1, <2>2, <2>3, <2>4 DEF Looks
<1>4. CASE ReceiveLive
  <2>1. live # <<>> /\ Show(Head(live))
    BY <1>4 DEF ReceiveLive
  <2>2. Head(live).msg.pane \in Panes
    BY <1>0, <2>1, LiveIs DEF Proper, ProperAt, Message
  <2>3. channels' = channels \/ channels' = Listed(Head(live).msg.pane)
    BY <2>1 DEF Show, Arrives
  <2> QED
    BY <1>0, <1>1, <1>2, <2>2, <2>3
<1>5. CASE ReceiveHistory
  <2>1. history # <<>> /\ (channels' = channels \/ channels' = Listed(AsWritten(Head(history)).pane))
    BY <1>5 DEF ReceiveHistory, Arrives
  <2>2. AsWritten(Head(history)).pane \in Panes
    BY <1>0, <2>1, HistoryIs DEF Proper, ProperAt, Message
  <2> QED
    BY <1>0, <1>1, <1>2, <2>1, <2>2
<1>6. Sends \/ Handle \/ Register \/ JoinGeneral \/ Snapshot \/ Disconnect \/ UNCHANGED vars
      \/ (\E i \in Ids : Post(i) \/ Modify(i))
      => channels' = channels
  BY DEF Sends, Type, MemberCommand, Handle, Register, JoinGeneral, Snapshot, Disconnect, Post, Modify, vars, uiVars
<1> QED
  BY <1>0, <1>1, <1>3, <1>4, <1>5, <1>6, Steps

\* The sidebar, after a step.
LEMMA ItemsAfter ==
  ScreenInv' =>
    (/\ Items \in Seq(Panes) /\ Len(Items) = Len(channels) + Len(dms)
     /\ Len(channels) \in Nat /\ Len(dms) \in Nat
     /\ \A k \in 1..Len(Items) : Items[k] = IF k <= Len(channels) THEN channels[k] ELSE dms[k - Len(channels)])'
<1>1. ScreenInv => /\ Items \in Seq(Panes) /\ Len(Items) = Len(channels) + Len(dms)
                   /\ Len(channels) \in Nat /\ Len(dms) \in Nat
                   /\ \A k \in 1..Len(Items) :
                        Items[k] = IF k <= Len(channels) THEN channels[k] ELSE dms[k - Len(channels)]
  BY ItemsIs
<1> QED
  BY <1>1, PTL

\* What arrives never moves the cursor from one channel to another, and what the user
\* opens does not either: enter opens what was looked at.  Model.ensureChannel appends
\* to m.channels, and the sidebar shows m.channels first.
THEOREM TheCursorStays == Spec => CursorStays
<1>1. ASSUME TypeInv, TypeInv', [Next]_vars
      PROVE  cursor <= Len(channels) /\ cursor' = cursor => Items'[cursor] = Items[cursor]
  <2> SUFFICES ASSUME cursor <= Len(channels), cursor' = cursor PROVE Items'[cursor] = Items[cursor]
    OBVIOUS
  <2>1. /\ ScreenInv /\ cursor \in 1..(Len(channels) + Len(dms)) /\ Len(channels) \in Nat /\ Len(dms) \in Nat
        /\ Len(channels) <= Len(channels') /\ \A k \in 1..Len(channels) : channels'[k] = channels[k]
    BY <1>1, ItemsIs, ChannelsGrow DEF TypeInv, ScreenInv
  <2>2. /\ Len(Items) = Len(channels) + Len(dms)
        /\ \A k \in 1..Len(Items) : Items[k] = IF k <= Len(channels) THEN channels[k] ELSE dms[k - Len(channels)]
    BY <2>1, ItemsIs
  <2>3. (/\ Items \in Seq(Panes) /\ Len(Items) = Len(channels) + Len(dms)
         /\ Len(channels) \in Nat /\ Len(dms) \in Nat
         /\ \A k \in 1..Len(Items) : Items[k] = IF k <= Len(channels) THEN channels[k] ELSE dms[k - Len(channels)])'
    <3>1. ScreenInv'
      BY <1>1 DEF TypeInv
    <3> QED
      BY <3>1, ItemsAfter
  <2>4. cursor \in 1..Len(channels) /\ cursor \in 1..Len(Items) /\ cursor \in 1..Len(Items')
    BY <2>1, <2>2, <2>3
  <2>5. Items[cursor] = channels[cursor] /\ Items'[cursor] = channels'[cursor]
    BY <2>1, <2>2, <2>3, <2>4
  <2> QED
    BY <2>1, <2>4, <2>5
<1>2. TypeInv /\ TypeInv' /\ [Next]_vars
      => [cursor <= Len(channels) /\ cursor' = cursor => Items'[cursor] = Items[cursor]]_vars
  BY <1>1
<1> QED
  BY <1>2, TypeInit, TypeStep, PTL DEF Spec, CursorStays

-----------------------------------------------------------------------------
(* Ids are posted once *)

NewMessage(i, p) == [id |-> i, pane |-> p, rev |-> 0, likes |-> {}]

\* A new message, as the hub stores it.
LEMMA NewIs ==
  ASSUME NEW i \in Ids, NEW p \in Panes
  PROVE  NewMessage(i, p) \in Message /\ NewMessage(i, p).id = i /\ NewMessage(i, p).pane = p
         /\ NewMessage(i, p).rev = 0 /\ NewMessage(i, p).likes = {}
BY TuiAssumption DEF NewMessage, Message

\* What is published comes last, in the store and among the events.
LEMMA PublishIs ==
  ASSUME NodeCore, NEW j \in Ids, NEW p \in Panes, Publish(j, p)
  PROVE  /\ Tell("new", NewMessage(j, p)) /\ again' = again
         /\ stored' = IF KindOf[j] \in {"notice", "answer"} THEN stored ELSE Append(stored, NewMessage(j, p))
         /\ live' = live \/ live' = Append(live, [op |-> "new", msg |-> NewMessage(j, p)])
         /\ \A i : In(stored', i) => In(stored, i) \/ i = j
         /\ \A i : InLive(i)' => InLive(i) \/ i = j
<1> DEFINE m == NewMessage(j, p)
           e == [op |-> "new", msg |-> m]
<1>1. /\ Tell("new", m) /\ again' = again
      /\ stored' = IF KindOf[j] \in {"notice", "answer"} THEN stored ELSE Append(stored, m)
  BY DEF Publish, NewMessage
<1>2. live' = live \/ live' = Append(live, e)
  BY <1>1 DEF Tell
<1>3. m \in Message /\ m.id = j /\ stored \in Seq(Message) /\ live \in Seq(Events)
  BY NewIs DEF NodeCore
<1>4. e \in Events /\ e.msg.id = j
  BY <1>3 DEF Events
<1> HIDE DEF m, e
<1>5. \A i : In(stored', i) => In(stored, i) \/ i = j
  <2>1. \A i : In(Append(stored, m), i) <=> In(stored, i) \/ m.id = i
    BY <1>3, AppendIs
  <2> QED
    BY <1>1, <1>3, <2>1
<1>6. \A i : InLive(i)' => InLive(i) \/ i = j
  <2>1. /\ Len(Append(live, e)) = Len(live) + 1
        /\ \A k \in 1..Len(live) : Append(live, e)[k] = live[k]
        /\ Append(live, e)[Len(live) + 1] = e
        /\ \A k \in 1..(Len(live) + 1) : k \in 1..Len(live) \/ k = Len(live) + 1
    BY <1>3, <1>4, AppendIs
  <2> QED
    BY <1>2, <1>4, <2>1 DEF InLive
<1> QED
  BY <1>1, <1>2, <1>5, <1>6 DEF m, e

\* A change is of what is stored, and told of.
LEMMA ModifiedIds ==
  ASSUME NodeCore, NEW j \in Ids, NEW op \in {"edit", "delete", "like"}, NEW f, NEW m, Modified(j, op, f, m)
  PROVE  /\ In(stored, j) /\ m \in Message
         /\ live' = live \/ live' = Append(live, [op |-> op, msg |-> m])
         /\ \A i : In(stored', i) => In(stored, i)
         /\ \A i : InLive(i)' => InLive(i) \/ i = j
         /\ OneEach(stored) => OneEach(stored')
<1> DEFINE e == [op |-> op, msg |-> m]
<1>1. /\ f \in 1..Len(stored) /\ stored[f].id = j /\ m.id = j /\ m \in Message /\ Tell(op, m)
      /\ stored' \in Seq(Message)
  BY DEF Modified, ProperAt
<1>2. live' = live \/ live' = Append(live, e)
  BY <1>1 DEF Tell
<1>3. e \in Events /\ e.msg.id = j /\ live \in Seq(Events) /\ Len(stored) \in Nat
  BY <1>1 DEF Events, NodeCore
<1> HIDE DEF e
<1>4. \A i : InLive(i)' => InLive(i) \/ i = j
  <2>1. /\ Len(Append(live, e)) = Len(live) + 1
        /\ \A k \in 1..Len(live) : Append(live, e)[k] = live[k]
        /\ Append(live, e)[Len(live) + 1] = e
        /\ \A k \in 1..(Len(live) + 1) : k \in 1..Len(live) \/ k = Len(live) + 1
    BY <1>3, AppendIs
  <2> QED
    BY <1>2, <1>3, <2>1 DEF InLive
<1>5. CASE op = "delete"
  <2>1. /\ Len(stored') = Len(stored) - 1
        /\ \A k \in 1..(Len(stored) - 1) : stored'[k] = IF k < f THEN stored[k] ELSE stored[k + 1]
    BY <1>5 DEF Modified
  <2>2. \A k \in 1..(Len(stored) - 1) : k \in 1..Len(stored) /\ k + 1 \in 1..Len(stored)
    BY <1>3
  <2>3. \A i : In(stored', i) => In(stored, i)
    BY <2>1, <2>2 DEF In
  <2>4. ASSUME OneEach(stored) PROVE OneEach(stored')
    <3> SUFFICES ASSUME NEW k \in 1..(Len(stored) - 1), NEW l \in 1..(Len(stored) - 1), stored'[k].id = stored'[l].id
                 PROVE  k = l
      BY <2>1 DEF OneEach
    <3>1. \A a, b \in 1..Len(stored) : stored[a].id = stored[b].id => a = b
      BY <2>4 DEF OneEach
    <3>2. (IF k < f THEN k ELSE k + 1) = (IF l < f THEN l ELSE l + 1)
      BY <2>1, <2>2, <3>1
    <3> QED
      BY <1>1, <1>3, <3>2
  <2> QED
    BY <1>1, <1>2, <1>4, <2>3, <2>4 DEF e, In
<1>6. CASE op # "delete"
  <2>1. Len(stored') = Len(stored) /\ \A k \in 1..Len(stored) : stored'[k] = IF k = f THEN m ELSE stored[k]
    BY <1>6 DEF Modified
  <2>2. \A k \in 1..Len(stored) : stored'[k].id = stored[k].id
    BY <1>1, <2>1
  <2>3. (\A i : In(stored', i) => In(stored, i)) /\ (OneEach(stored) => OneEach(stored'))
    BY <2>1, <2>2 DEF In, OneEach
  <2> QED
    BY <1>1, <1>2, <1>4, <2>3 DEF e, In
<1> QED
  BY <1>5, <1>6

\* The ids in a text after an event was read.
LEMMA ShownIds ==
  ASSUME TypeInv, ReceiveLive \/ ReceiveHistory, NEW p \in Panes, NEW i, In(Text(p)', i)
  PROVE  In(Text(p), i) \/ InLive(i) \/ In(history, i)
<1>0. /\ NodeCore /\ ScreenInv /\ LikesLow /\ changes \in 0..MaxChanges /\ Text(p) \in Seq(Shown)
  BY PaneIs DEF TypeInv, NodeInv, NodeCore
<1>1. ASSUME NEW m, Proper(m), Arrives(m) PROVE In(Text(p), i) \/ m.id = i
  <2>1. AsShown(m) \in Shown /\ AsShown(m).id = m.id
    BY <1>0, <1>1, AsShownIs
  <2>2. Text(p)' = IF p = m.pane THEN Append(Text(p), AsShown(m)) ELSE Text(p)
    BY <1>0, <1>1, ArrivesIs
  <2>3. In(Append(Text(p), AsShown(m)), i) <=> In(Text(p), i) \/ AsShown(m).id = i
    BY <1>0, <2>1, AppendIs
  <2> QED
    BY <2>1, <2>2, <2>3
<1>2. CASE ReceiveLive
  <2> DEFINE m == Head(live).msg
  <2>1. live # <<>> /\ Show(Head(live))
    BY <1>2 DEF ReceiveLive
  <2>2. Head(live) = live[1] /\ Proper(m) /\ 1 \in 1..Len(live)
    BY <1>0, <2>1, LiveIs
  <2>3. m.id \in Ids /\ m.rev \in 0..MaxChanges
    BY <2>2 DEF Proper, ProperAt, Message
  <2>4. CASE Arrives(m)
    BY <1>1, <2>2, <2>4 DEF InLive
  <2>5. CASE EditShown(m)
    <3>1. Text(p)' = Edited(Text(p), m.id, m.rev)
      BY <1>0, <2>2, <2>5, EditShownIs
    <3>2. Len(Text(p)') = Len(Text(p)) /\ \A k \in 1..Len(Text(p)) : Text(p)'[k].id = Text(p)[k].id
      BY <1>0, <2>3, <3>1, EditedIs
    <3> QED
      BY <3>2 DEF In
  <2>6. CASE DeleteShown(m)
    <3>1. Text(p)' = Deleted(Text(p), m.id)
      BY <1>0, <2>2, <2>6, DeleteShownIs
    <3>2. \A k \in 1..Len(Deleted(Text(p), m.id)) : \E l \in 1..Len(Text(p)) : Deleted(Text(p), m.id)[k] = Text(p)[l]
      BY <1>0, <2>3, DeletedIs, Zenon
    <3> QED
      BY <3>1, <3>2 DEF In
  <2>7. CASE Head(live).op = "like" /\ LikeShown(m)
    <3>1. \A q \in Panes : \A k \in 1..Len(Text(q)) : Text(q)[k].likes + 1 <= 2 * MaxChanges
      BY <1>0, <2>1, <2>2, <2>7, LikeFits
    <3>2. Text(p)' = Liked(Text(p), m.id)
      BY <1>0, <2>2, <2>7, <3>1, LikeShownIs
    <3>3. Len(Text(p)') = Len(Text(p)) /\ \A k \in 1..Len(Text(p)) : Text(p)'[k].id = Text(p)[k].id
      BY <1>0, <2>3, <3>1, <3>2, LikedIs
    <3> QED
      BY <3>3 DEF In
  <2> QED
    BY <2>1, <2>4, <2>5, <2>6, <2>7 DEF Show
<1>3. CASE ReceiveHistory
  <2>1. history # <<>> /\ (panes' = panes \/ Arrives(AsWritten(Head(history))))
    BY <1>3 DEF ReceiveHistory
  <2>2. /\ Proper(AsWritten(Head(history))) /\ Head(history) = history[1] /\ AsWritten(Head(history)).id = Head(history).id
        /\ 1 \in 1..Len(history)
    BY <1>0, <2>1, HistoryIs, TailIs DEF NodeCore
  <2>3. panes' = panes => Text(p)' = Text(p)
    BY DEF Text
  <2> QED
    BY <1>1, <2>1, <2>2, <2>3 DEF In
<1> QED
  BY <1>2, <1>3

\* What is nowhere appears only when it is published.
LEMMA NowhereStays ==
  ASSUME TypeInv, [Next]_vars, NEW i, Nowhere(i), ~Post(i), Handle => ~Waits(i, 1)
  PROVE  Nowhere(i)'
<1>0. /\ NodeInv /\ NodeCore /\ ScreenInv /\ stored \in Seq(Message) /\ live \in Seq(Events) /\ history \in Seq(Message)
      /\ ~In(stored, i) /\ ~In(history, i) /\ ~InLive(i) /\ \A p \in Panes : ~In(Text(p), i)
  BY DEF TypeInv, NodeInv, NodeCore, Nowhere
<1>1. ASSUME \A p \in Panes : Text(p)' = Text(p), In(stored', i) => In(stored, i), In(history', i) => In(history, i),
             InLive(i)' => InLive(i)
      PROVE  Nowhere(i)'
  BY <1>0, <1>1 DEF Nowhere
<1>2. panes' = panes => \A p \in Panes : Text(p)' = Text(p)
  BY DEF Text
<1>3. CASE Looks \/ Sends \/ Register \/ JoinGeneral \/ UNCHANGED vars
  <2>1. UNCHANGED <<stored, live, history>> /\ (Looks \/ panes' = panes)
    BY <1>3, LooksOnly DEF Sends, Type, MemberCommand, Keys, Register, JoinGeneral, vars, uiVars, connVars, nodeVars
  <2>2. \A p \in Panes : Text(p)' = Text(p)
    BY <1>0, <1>2, <2>1, LooksTexts
  <2> QED
    BY <1>1, <2>1, <2>2 DEF InLive
<1>4. CASE Snapshot
  <2>1. history' = stored /\ UNCHANGED <<stored, live, panes>>
    BY <1>4 DEF Snapshot, uiVars, nodeVars
  <2> QED
    BY <1>0, <1>2, <2>1 DEF Nowhere, InLive
<1>5. CASE Disconnect
  <2>1. live' = <<>> /\ history' = <<>> /\ UNCHANGED <<stored, panes>>
    BY <1>5 DEF Disconnect, uiVars, nodeVars
  <2>2. ~In(<<>>, i) /\ Len(<<>>) = 0 /\ 1..0 = {}
    BY NothingInEmpty
  <2> QED
    BY <1>1, <1>2, <2>1, <2>2 DEF InLive
<1>6. ASSUME NEW j \in Ids, Modify(j) PROVE Nowhere(i)'
  <2>1. PICK op \in {"edit", "delete", "like"}, f \in 1..Len(stored), m \in Message : Modified(j, op, f, m)
    BY <1>0, <1>6, ModifyIs, Zenon
  <2>2. /\ In(stored, j) /\ \A k : In(stored', k) => In(stored, k)
        /\ \A k : InLive(k)' => InLive(k) \/ k = j
    BY <1>0, <2>1, ModifiedIds
  <2>3. history' = history /\ panes' = panes
    BY <1>6 DEF Modify, uiVars
  <2> QED
    BY <1>0, <1>1, <1>2, <2>2, <2>3
<1>7. ASSUME NEW j \in Ids, NEW p \in Panes, Publish(j, p), j # i, UNCHANGED <<history, panes>> PROVE Nowhere(i)'
  <2>1. /\ \A k : In(stored', k) => In(stored, k) \/ k = j
        /\ \A k : InLive(k)' => InLive(k) \/ k = j
    BY <1>0, <1>7, PublishIs
  <2> QED
    BY <1>1, <1>2, <1>7, <2>1
<1>8. ASSUME NEW j \in Ids, Post(j) PROVE Nowhere(i)'
  <2>1. Publish(j, PaneOf[j]) /\ PaneOf[j] \in Panes /\ UNCHANGED <<history, panes>> /\ j # i
    BY <1>8, TuiAssumption DEF Post, uiVars
  <2> QED
    BY <1>7, <2>1
<1>9. CASE Handle
  <2> DEFINE o == Head(outbox)
  <2>1. /\ outbox # <<>> /\ outbox \in Seq(Command) /\ UNCHANGED <<history, panes>>
        /\ (o.op = "chat" /\ Publish(o.id, o.pane)) \/ UNCHANGED <<stored, live>>
    BY <1>0, <1>9 DEF NodeInv, Handle, uiVars
  <2>2. o = outbox[1] /\ o \in Command
    BY <2>1, TailIs
  <2>3. CASE o.op = "chat" /\ Publish(o.id, o.pane)
    <3>1. o.id \in Ids /\ o.pane \in Panes /\ o.id # i
      BY <1>9, <2>2, <2>3 DEF Command, Waits
    <3> HIDE DEF o
    <3> QED
      BY <1>7, <2>1, <2>3, <3>1
  <2>4. CASE UNCHANGED <<stored, live>>
    BY <1>1, <1>2, <2>1, <2>4 DEF InLive
  <2> QED
    BY <2>1, <2>3, <2>4
<1>10. CASE ReceiveLive \/ ReceiveHistory
  <2>1. stored' = stored
    BY <1>10 DEF ReceiveLive, ReceiveHistory, nodeVars
  <2>2. \A p \in Panes : ~In(Text(p)', i)
    BY <1>0, <1>10, ShownIds
  <2>3. ~InLive(i)'
    <3>1. live' = live \/ (live # <<>> /\ live' = Tail(live))
      BY <1>10 DEF ReceiveLive, ReceiveHistory
    <3>2. ASSUME live # <<>>
          PROVE  Len(Tail(live)) = Len(live) - 1 /\ \A k \in 1..(Len(live) - 1) : k + 1 \in 1..Len(live) /\ Tail(live)[k] = live[k + 1]
      BY <1>0, <3>2, TailIs
    <3> QED
      BY <1>0, <3>1, <3>2 DEF InLive
  <2>4. ~In(history', i)
    <3>1. history' = history \/ (history # <<>> /\ history' = Tail(history))
      BY <1>10 DEF ReceiveLive, ReceiveHistory
    <3>2. history # <<>> => (In(Tail(history), i) => In(history, i))
      BY <1>0, TailIs
    <3> QED
      BY <1>0, <3>1, <3>2
  <2> QED
    BY <1>0, <2>1, <2>2, <2>3, <2>4 DEF Nowhere
<1> QED
  BY <1>3, <1>4, <1>5, <1>6, <1>8, <1>9, <1>10, Steps

\* No id comes into the store or the replay a second time.
LEMMA StoredOnce ==
  ASSUME TypeInv, IdInv, [Next]_vars
  PROVE  OneEach(stored') /\ OneEach(history')
<1>0. /\ NodeInv /\ NodeCore /\ stored \in Seq(Message) /\ history \in Seq(Message) /\ outbox \in Seq(Command)
      /\ OneEach(stored) /\ OneEach(history)
  BY DEF TypeInv, NodeInv, NodeCore, IdInv
<1>1. ASSUME NEW j \in Ids, NEW p \in Panes, Publish(j, p), ~In(stored, j) PROVE OneEach(stored')
  <2>1. stored' = stored \/ stored' = Append(stored, NewMessage(j, p))
    BY <1>0, <1>1, PublishIs
  <2>2. NewMessage(j, p) \in Message /\ NewMessage(j, p).id = j
    BY NewIs
  <2>3. OneEach(stored) /\ ~In(stored, NewMessage(j, p).id) => OneEach(Append(stored, NewMessage(j, p)))
    BY <1>0, <2>2, AppendIs
  <2> QED
    BY <1>0, <1>1, <2>1, <2>2, <2>3
<1>2. OneEach(stored')
  <2>1. ASSUME NEW j \in Ids, Post(j) PROVE OneEach(stored')
    <3>1. j \notin sent /\ Publish(j, PaneOf[j]) /\ PaneOf[j] \in Panes
      BY <2>1, TuiAssumption DEF Post
    <3> QED
      BY <1>1, <3>1 DEF IdInv, Nowhere
  <2>2. ASSUME NEW j \in Ids, Modify(j) PROVE OneEach(stored')
    <3>1. PICK op \in {"edit", "delete", "like"}, f \in 1..Len(stored), m \in Message : Modified(j, op, f, m)
      BY <1>0, <2>2, ModifyIs, Zenon
    <3> QED
      BY <1>0, <3>1, ModifiedIds
  <2>3. CASE Handle
    <3> DEFINE o == Head(outbox)
    <3>1. outbox # <<>> /\ ((o.op = "chat" /\ Publish(o.id, o.pane)) \/ stored' = stored)
      BY <2>3 DEF Handle
    <3>2. o = outbox[1] /\ o \in Command /\ 1 \in 1..Len(outbox)
      BY <1>0, <3>1, TailIs
    <3>3. o.op = "chat" => o.id \in Ids /\ o.pane \in Panes /\ ~In(stored, o.id)
      BY <3>2 DEF Command, Waiting, Waits, IdInv, Nowhere
    <3> HIDE DEF o
    <3> QED
      BY <1>0, <1>1, <3>1, <3>3
  <2>4. Looks \/ Sends \/ Register \/ JoinGeneral \/ Snapshot \/ Disconnect \/ ReceiveLive \/ ReceiveHistory \/ UNCHANGED vars
        => stored' = stored
    BY LooksOnly DEF Sends, Type, MemberCommand, Keys, Register, JoinGeneral, Snapshot, Disconnect, ReceiveLive, ReceiveHistory,
                     vars, nodeVars
  <2> QED
    BY <1>0, <2>1, <2>2, <2>3, <2>4, Steps
<1>3. OneEach(history')
  <2>1. history' = history \/ history' = stored \/ history' = <<>> \/ (history # <<>> /\ history' = Tail(history))
    BY LooksOnly, Steps DEF Sends, Type, MemberCommand, Keys, Register, JoinGeneral, Snapshot, Disconnect, ReceiveLive, ReceiveHistory,
                     Post, Modify, Handle, vars, connVars
  <2>2. history # <<>> => OneEach(Tail(history))
    BY <1>0, TailIs
  <2>3. OneEach(<<>>)
    BY DEF OneEach
  <2> QED
    BY <1>0, <2>1, <2>2, <2>3
<1> QED
  BY <1>2, <1>3

\* What waits in the outbox.
LEMMA WaitsIs ==
  ASSUME TypeInv, IdInv, [Next]_vars, NEW i \in Ids
  PROVE  /\ \A k, l \in 1..Len(outbox') : Waits(i, k)' /\ Waits(i, l)' => k = l
         /\ Waiting(i)' => /\ Waiting(i) \/ i \notin sent
                           /\ KindOf[i] = "typed"
                           /\ Handle => ~Waits(i, 1)
<1>0. /\ NodeInv /\ outbox \in Seq(Command) /\ Len(outbox) \in Nat
      /\ \A k \in 1..Len(outbox) : TypedHere(outbox[k])
      /\ \A k, l \in 1..Len(outbox) : Waits(i, k) /\ Waits(i, l) => k = l
  BY DEF TypeInv, NodeInv, IdInv
<1>1. Waiting(i) => i \in sent /\ KindOf[i] = "typed"
  BY <1>0 DEF Waiting, Waits, TypedHere
<1>2. CASE outbox' = outbox /\ ~Handle
  BY <1>0, <1>1, <1>2 DEF Waiting, Waits
<1>3. CASE outbox' = <<>> /\ ~Handle
  <2>1. Len(<<>>) = 0 /\ 1..0 = {}
    OBVIOUS
  <2> QED
    BY <1>3, <2>1 DEF Waiting, Waits
<1>4. CASE Handle
  <2>1. outbox # <<>> /\ outbox' = Tail(outbox)
    BY <1>4 DEF Handle
  <2>2. /\ Len(Tail(outbox)) = Len(outbox) - 1 /\ 1 \in 1..Len(outbox)
        /\ \A k \in 1..(Len(outbox) - 1) : k + 1 \in 1..Len(outbox) /\ k + 1 # 1 /\ Tail(outbox)[k] = outbox[k + 1]
    BY <1>0, <2>1, TailIs
  <2>3. \A k \in 1..Len(outbox') : k + 1 \in 1..Len(outbox) /\ k + 1 # 1 /\ (Waits(i, k)' => Waits(i, k + 1))
    BY <2>1, <2>2 DEF Waits
  <2>4. Waiting(i)' => Waiting(i) /\ ~Waits(i, 1)
    BY <1>0, <2>2, <2>3 DEF Waiting
  <2>5. \A k, l \in 1..Len(outbox') : k + 1 = l + 1 => k = l
    OBVIOUS
  <2> QED
    BY <1>0, <1>1, <2>3, <2>4, <2>5
<1>5. ASSUME NEW o \in Command, outbox' = Append(outbox, o), ~Handle,
             o.op = "chat" => o.id \notin sent /\ KindOf[o.id] = "typed"
      PROVE  /\ \A k, l \in 1..Len(outbox') : Waits(i, k)' /\ Waits(i, l)' => k = l
             /\ Waiting(i)' => (Waiting(i) \/ i \notin sent) /\ KindOf[i] = "typed"
  <2>1. /\ Len(outbox') = Len(outbox) + 1
        /\ \A k \in 1..Len(outbox) : outbox'[k] = outbox[k]
        /\ outbox'[Len(outbox) + 1] = o
        /\ \A k \in 1..(Len(outbox) + 1) : k \in 1..Len(outbox) \/ k = Len(outbox) + 1
    BY <1>0, <1>5, AppendIs
  <2>2. \A k \in 1..Len(outbox) : Waits(i, k)' <=> Waits(i, k)
    BY <2>1 DEF Waits
  <2>3. \A k : k = Len(outbox) + 1 => (Waits(i, k)' => o.op = "chat" /\ o.id = i)
    BY <2>1 DEF Waits
  <2>4. \A k \in 1..Len(outbox) : Waits(i, k) => i \in sent
    BY <1>1 DEF Waiting
  <2> QED
    BY <1>0, <1>1, <1>5, <2>1, <2>2, <2>3, <2>4 DEF Waiting
<1>6. ASSUME NEW j \in Ids, Type(j), ~Handle, outbox' # outbox
      PROVE  \E o \in Command : outbox' = Append(outbox, o) /\ (o.op = "chat" => o.id \notin sent /\ KindOf[o.id] = "typed")
  <2> DEFINE o == [op |-> "chat", id |-> j, pane |-> active]
  <2>1. Send(o) /\ j \notin sent /\ KindOf[j] = "typed" /\ active \in Panes
    BY <1>6 DEF Type, TypeInv, ScreenInv
  <2>2. outbox' = Append(outbox, o)
    BY <1>6, <2>1 DEF Send
  <2>3. o \in Command /\ o.id = j
    BY <2>1 DEF Command
  <2> HIDE DEF o
  <2> QED
    BY <2>1, <2>2, <2>3
<1>7. ASSUME NEW r \in Rooms, NEW op \in {"join", "leave"}, MemberCommand(op, r), ~Handle, outbox' # outbox
      PROVE  \E o \in Command : outbox' = Append(outbox, o) /\ (o.op = "chat" => o.id \notin sent /\ KindOf[o.id] = "typed")
  <2> DEFINE o == [op |-> op, id |-> "none", pane |-> r]
  <2>1. outbox' = Append(outbox, o)
    BY <1>7 DEF MemberCommand, Send
  <2>2. o \in Command /\ o.op # "chat"
    BY DEF Command
  <2> HIDE DEF o
  <2> QED
    BY <2>1, <2>2
<1>8. Looks \/ Register \/ JoinGeneral \/ Snapshot \/ Disconnect \/ ReceiveLive \/ ReceiveHistory \/ UNCHANGED vars
      \/ (\E j \in Ids : Post(j) \/ Modify(j))
      => outbox' = outbox \/ outbox' = <<>>
  BY LooksOnly DEF Register, JoinGeneral, Snapshot, Disconnect, ReceiveLive, ReceiveHistory, Post, Modify, vars, connVars
<1>9. CASE ~Handle /\ outbox' # outbox /\ outbox' # <<>>
  <2>1. PICK o \in Command : outbox' = Append(outbox, o) /\ (o.op = "chat" => o.id \notin sent /\ KindOf[o.id] = "typed")
    BY <1>6, <1>7, <1>8, <1>9, Steps DEF Sends
  <2> QED
    BY <1>5, <1>9, <2>1
<1> QED
  BY <1>2, <1>3, <1>4, <1>9

\* What is not posted yet stays nowhere.
LEMMA IdStep ==
  ASSUME TypeInv, IdInv, [Next]_vars
  PROVE  IdInv'
<1>1. sent \subseteq sent'
  BY LooksOnly, Steps DEF Sends, Type, MemberCommand, Keys, Register, JoinGeneral, Snapshot, Disconnect, ReceiveLive, ReceiveHistory,
                     Post, Modify, Handle, vars, nodeVars
<1>2. ASSUME NEW i \in Ids, i \notin sent' \/ Waiting(i)' PROVE Nowhere(i)'
  <2>1. i \notin sent \/ Waiting(i)
    BY <1>1, <1>2, WaitsIs
  <2>2. Nowhere(i)
    BY <2>1 DEF IdInv
  <2>3. Post(i) => i \in sent' /\ KindOf[i] # "typed"
    BY DEF Post
  <2>4. ~Post(i)
    BY <1>2, <2>3, WaitsIs
  <2>5. Handle /\ Waits(i, 1) => i \in sent
    <3>1. ASSUME Handle PROVE 1 \in 1..Len(outbox) /\ TypedHere(outbox[1])
      <4>1. outbox # <<>> /\ outbox \in Seq(Command) /\ \A k \in 1..Len(outbox) : TypedHere(outbox[k])
        BY <3>1 DEF Handle, TypeInv, NodeInv
      <4> QED
        BY <4>1, TailIs
    <3> QED
      BY <3>1 DEF Waits, TypedHere
  <2>6. Handle => ~Waits(i, 1)
    BY <1>1, <1>2, <2>5, WaitsIs
  <2> QED
    BY <2>2, <2>4, <2>6, NowhereStays
<1> QED
  BY <1>2, StoredOnce, WaitsIs DEF IdInv

\* Nothing is posted at the start.
LEMMA IdInit == Init => IdInv
<1> SUFFICES ASSUME Init PROVE IdInv
  OBVIOUS
<1>1. Len(<<>>) = 0 /\ 1..0 = {}
  OBVIOUS
<1>2. \A p : Text(p) = <<>>
  BY DEF Init, Text
<1> QED
  BY <1>1, <1>2, NothingInEmpty DEF Init, IdInv, OneEach, Waiting, Waits, Nowhere, InLive

-----------------------------------------------------------------------------
(* What is shown of a message, and what is on its way *)

IsStored(m) == \E k \in 1..Len(stored) : stored[k] = m

\* The stored view of what is stored, once, and of what is not.
LEMMA StoredIs ==
  ASSUME OneEach(stored), NEW k \in 1..Len(stored)
  PROVE  AsStored(stored[k].id) = {ViewOf(stored[k])}
<1>1. \A l \in 1..Len(stored) : stored[l].id = stored[k].id <=> l = k
  BY DEF OneEach
<1> QED
  BY <1>1 DEF AsStored

\* The view of what is not stored is empty.
LEMMA NotStored ==
  ASSUME NEW i, ~In(stored, i)
  PROVE  AsStored(i) = {}
BY DEF AsStored, In

\* It depends on what is stored of the message alone.
LEMMA StoredSame ==
  ASSUME NEW i, \A m : m.id = i => (IsStored(m)' <=> IsStored(m))
  PROVE  AsStored(i)' = AsStored(i)
<1>1. \A x : x \in AsStored(i) <=> \E m : IsStored(m) /\ m.id = i /\ x = ViewOf(m)
  BY DEF AsStored, IsStored
<1>2. \A x : x \in AsStored(i)' <=> \E m : IsStored(m)' /\ m.id = i /\ x = ViewOf(m)
  BY DEF AsStored, IsStored
<1>3. \A x : x \in AsStored(i)' <=> x \in AsStored(i)
  BY <1>1, <1>2, Zenon
<1> QED
  BY <1>3

\* The view of a proper message.
LEMMA ViewIs ==
  ASSUME NEW m, Proper(m), changes \in 0..MaxChanges
  PROVE  ViewOf(m) \in View
<1>1. Cardinality(m.likes) \in Nat /\ m.rev \in Nat /\ m.pane \in Panes
  BY FS_CardinalityType, TuiAssumption DEF Proper, ProperAt, Message
<1> QED
  BY <1>1 DEF ViewOf, View

\* An event more.
LEMMA BecomesOn ==
  ASSUME live \in Seq(Events), NEW i, NEW v, NEW w, Becomes(i, v, w), NEW e \in Events, live' = Append(live, e),
         NEW x \in SUBSET View,
         e.msg.id = i => (e.op = "new" => w = {}) /\ x = After(e, w),
         e.msg.id # i => x = w
  PROVE  Becomes(i, v, x)'
<1>0. PICK f \in [0..Len(live) -> SUBSET View] : Leads(i, f) /\ f[0] = v /\ f[Len(live)] = w
  BY DEF Becomes
<1> DEFINE n == Len(live)
<1>1. /\ n \in Nat /\ Len(live') = n + 1 /\ live'[n + 1] = e
      /\ \A k \in 1..n : live'[k] = live[k]
      /\ \A k \in 1..(n + 1) : k \in 1..n \/ k = n + 1
  BY AppendIs
<1>2. \A k \in 1..n : /\ live[k].msg.id = i => (live[k].op = "new" => f[k - 1] = {}) /\ f[k] = After(live[k], f[k - 1])
                      /\ live[k].msg.id # i => f[k] = f[k - 1]
  BY <1>0 DEF Leads
<1>3. PICK g : g = [k \in 0..(n + 1) |-> IF k = n + 1 THEN x ELSE f[k]]
  OBVIOUS
<1> HIDE DEF n
<1>4. /\ \A k \in 0..n : k \in 0..(n + 1) /\ k # n + 1
      /\ n \in 0..n /\ n + 1 \in 0..(n + 1) /\ 0 \in 0..n /\ (n + 1) - 1 = n
      /\ \A k \in 0..(n + 1) : k \in 0..n \/ k = n + 1
      /\ \A k \in 1..n : k \in 0..n /\ k - 1 \in 0..n
  BY <1>1
<1>5. g[n + 1] = x /\ \A k \in 0..n : g[k] = f[k]
  BY <1>3, <1>4
<1>6. g \in [0..(n + 1) -> SUBSET View]
  BY <1>3, <1>4 DEF n
<1>7. \A k \in 1..n : /\ live'[k].msg.id = i => (live'[k].op = "new" => g[k - 1] = {}) /\ g[k] = After(live'[k], g[k - 1])
                      /\ live'[k].msg.id # i => g[k] = g[k - 1]
  BY <1>1, <1>2, <1>4, <1>5
<1>8. /\ live'[n + 1].msg.id = i =>
           (live'[n + 1].op = "new" => g[(n + 1) - 1] = {}) /\ g[n + 1] = After(live'[n + 1], g[(n + 1) - 1])
      /\ live'[n + 1].msg.id # i => g[n + 1] = g[(n + 1) - 1]
  BY <1>0, <1>1, <1>4, <1>5 DEF n
<1>9. Leads(i, g)'
  BY <1>1, <1>7, <1>8 DEF Leads
<1>10. g \in [0..Len(live') -> SUBSET View] /\ g[0] = v /\ g[Len(live')] = x
  BY <1>0, <1>1, <1>4, <1>5, <1>6
<1> QED
  BY <1>9, <1>10 DEF Becomes

\* An event less.
LEMMA BecomesOff ==
  ASSUME live \in Seq(Events), live # <<>>, live' = Tail(live), NEW i, NEW v, NEW w, Becomes(i, v, w)
  PROVE  \E x \in SUBSET View : /\ live[1].msg.id = i => (live[1].op = "new" => v = {}) /\ x = After(live[1], v)
                                /\ live[1].msg.id # i => x = v
                                /\ Becomes(i, x, w)'
<1>0. PICK f \in [0..Len(live) -> SUBSET View] : Leads(i, f) /\ f[0] = v /\ f[Len(live)] = w
  BY DEF Becomes
<1> DEFINE n == Len(live)
<1>1. n \in Nat \ {0} /\ Len(live') = n - 1 /\ \A k \in 1..(n - 1) : k + 1 \in 1..n /\ live'[k] = live[k + 1]
  BY TailIs
<1>2. \A k \in 1..n : /\ live[k].msg.id = i => (live[k].op = "new" => f[k - 1] = {}) /\ f[k] = After(live[k], f[k - 1])
                      /\ live[k].msg.id # i => f[k] = f[k - 1]
  BY <1>0 DEF Leads
<1>3. PICK g : g = [k \in 0..(n - 1) |-> f[k + 1]]
  OBVIOUS
<1> HIDE DEF n
<1>4. /\ \A k \in 0..(n - 1) : k + 1 \in 0..n /\ g[k] = f[k + 1]
      /\ 0 \in 0..(n - 1) /\ n - 1 \in 0..(n - 1) /\ (n - 1) + 1 = n /\ 0 + 1 = 1 /\ 1 - 1 = 0 /\ 1 \in 1..n /\ 1 \in 0..n /\ 0 \in 0..n
      /\ \A k \in 1..(n - 1) : k \in 0..(n - 1) /\ k - 1 \in 0..(n - 1) /\ (k - 1) + 1 = k /\ (k + 1) - 1 = k
  BY <1>1, <1>3
<1>5. g \in [0..(n - 1) -> SUBSET View]
  BY <1>3, <1>4 DEF n
<1>6. \A k \in 1..(n - 1) : /\ live'[k].msg.id = i => (live'[k].op = "new" => g[k - 1] = {}) /\ g[k] = After(live'[k], g[k - 1])
                            /\ live'[k].msg.id # i => g[k] = g[k - 1]
  BY <1>1, <1>2, <1>4
<1>7. Leads(i, g)'
  BY <1>1, <1>6 DEF Leads
<1>8. g \in [0..Len(live') -> SUBSET View] /\ g[0] = f[1] /\ g[Len(live')] = w
  BY <1>0, <1>1, <1>4, <1>5 DEF n
<1>9. /\ live[1].msg.id = i => (live[1].op = "new" => v = {}) /\ f[1] = After(live[1], v)
      /\ live[1].msg.id # i => f[1] = v
      /\ f[1] \in SUBSET View
  BY <1>0, <1>2, <1>4 DEF n
<1>10. Becomes(i, f[1], w)'
  BY <1>7, <1>8 DEF Becomes
<1> QED
  BY <1>9, <1>10

\* A message arrives: what is shown of another stays, and it is shown if it was not.
LEMMA OtherArrives ==
  ASSUME ScreenInv, NEW m, Proper(m), changes \in 0..MaxChanges, Arrives(m), NEW i, i # m.id, NEW v, Shows(i, v)
  PROVE  Shows(i, v)'
<1> SUFFICES ASSUME NEW p \in Panes PROVE ShowsIn(Text(p)', i, p, v)
  BY DEF Shows
<1>1. AsShown(m) \in Shown /\ AsShown(m).id = m.id
  BY AsShownIs
<1>2. Text(p)' = IF p = m.pane THEN Append(Text(p), AsShown(m)) ELSE Text(p)
  BY ArrivesIs
<1>3. Text(p) \in Seq(Shown) /\ ShowsIn(Text(p), i, p, v)
  BY PaneIs DEF Shows
<1>4. ShowsIn(Append(Text(p), AsShown(m)), i, p, v)
  BY <1>1, <1>3, ShowsAppend
<1> QED
  BY <1>2, <1>3, <1>4

\* A message that was not shown is shown once it arrives, once and where it belongs.
LEMMA NewArrives ==
  ASSUME ScreenInv, NEW m, Proper(m), changes \in 0..MaxChanges, Arrives(m), Shows(m.id, {}),
         NEW x, x = ViewOf(m), NEW i, i = m.id
  PROVE  Shows(i, {x})'
<1> SUFFICES ASSUME NEW p \in Panes PROVE ShowsIn(Text(p)', i, p, {x})
  BY DEF Shows
<1>1. AsShown(m) \in Shown /\ AsShown(m).id = m.id /\ AsShown(m).rev = m.rev /\ AsShown(m).likes = Cardinality(m.likes)
  BY AsShownIs
<1>2. Text(p)' = IF p = m.pane THEN Append(Text(p), AsShown(m)) ELSE Text(p)
  BY ArrivesIs
<1>3. Text(p) \in Seq(Shown) /\ ~In(Text(p), i)
  BY PaneIs DEF Shows, ShowsIn
<1>4. x.pane = m.pane /\ x.rev = m.rev /\ x.likes = Cardinality(m.likes)
  BY DEF ViewOf
<1>5. CASE p = m.pane
  <2>1. ShowsIn(Append(Text(p), AsShown(m)), i, p, {x})
    BY <1>1, <1>3, <1>4, <1>5, ShowsNew
  <2> QED
    BY <1>2, <1>5, <2>1
<1>6. CASE p # m.pane
  BY <1>2, <1>3, <1>4, <1>6 DEF ShowsIn
<1> QED
  BY <1>5, <1>6

\* An event of another message is read.
LEMMA OtherEvent ==
  ASSUME TypeInv, ReceiveLive, NEW i, i # live[1].msg.id, NEW v, Shows(i, v)
  PROVE  Shows(i, v)'
<1> DEFINE m == Head(live).msg
<1>0. NodeCore /\ ScreenInv /\ LikesLow /\ changes \in 0..MaxChanges
  BY DEF TypeInv, NodeInv, NodeCore
<1>1. live # <<>> /\ Show(Head(live))
  BY DEF ReceiveLive
<1>2. Head(live) = live[1] /\ Proper(m)
  BY <1>0, <1>1, LiveIs
<1>3. m.id \in Ids /\ m.rev \in 0..MaxChanges /\ m.id # i
  BY <1>2 DEF Proper, ProperAt, Message
<1>4. CASE Arrives(m)
  BY <1>0, <1>2, <1>3, <1>4, OtherArrives
<1>5. ASSUME \A p \in Panes : ShowsIn(Text(p)', i, p, v) PROVE Shows(i, v)'
  BY <1>5 DEF Shows
<1>6. CASE EditShown(m)
  <2> SUFFICES ASSUME NEW p \in Panes PROVE ShowsIn(Text(p)', i, p, v)
    BY <1>5
  <2> DEFINE s == Text(p)
             t == Edited(s, m.id, m.rev)
  <2>1. s \in Seq(Shown) /\ ShowsIn(s, i, p, v)
    BY <1>0, PaneIs DEF Shows
  <2>2. Text(p)' = t
    BY <1>0, <1>2, <1>6, EditShownIs
  <2>3. /\ t \in Seq(Shown) /\ Len(t) = Len(s)
        /\ \A k \in 1..Len(s) : t[k].id = s[k].id /\ (k # Find(s, m.id) => t[k] = s[k])
    BY <1>3, <2>1, EditedIs
  <2>4. \A k \in 1..Len(s) : s[k].id = i => k # Find(s, m.id)
    BY <1>3, <2>1, FindIs
  <2> HIDE DEF s, t
  <2>5. ShowsIn(t, i, p, v)
    BY <2>1, <2>3, <2>4, ShowsInPlace
  <2> QED
    BY <2>2, <2>5
<1>7. CASE DeleteShown(m)
  <2> SUFFICES ASSUME NEW p \in Panes PROVE ShowsIn(Text(p)', i, p, v)
    BY <1>5
  <2>1. Text(p) \in Seq(Shown) /\ ShowsIn(Text(p), i, p, v)
    BY <1>0, PaneIs DEF Shows
  <2>2. Text(p)' = Deleted(Text(p), m.id)
    BY <1>0, <1>2, <1>7, DeleteShownIs
  <2>3. ShowsIn(Deleted(Text(p), m.id), i, p, v)
    BY <1>3, <2>1, ShowsDeleted
  <2> QED
    BY <2>2, <2>3
<1>8. CASE Head(live).op = "like" /\ LikeShown(m)
  <2> SUFFICES ASSUME NEW p \in Panes PROVE ShowsIn(Text(p)', i, p, v)
    BY <1>5
  <2> DEFINE s == Text(p)
             t == Liked(s, m.id)
  <2>0. \A q \in Panes : \A k \in 1..Len(Text(q)) : Text(q)[k].likes + 1 <= 2 * MaxChanges
    BY <1>0, <1>1, <1>2, <1>8, LikeFits
  <2>1. s \in Seq(Shown) /\ ShowsIn(s, i, p, v)
    BY <1>0, PaneIs DEF Shows
  <2>2. Text(p)' = t
    BY <1>0, <1>2, <1>8, <2>0, LikeShownIs
  <2>3. /\ t \in Seq(Shown) /\ Len(t) = Len(s)
        /\ \A k \in 1..Len(s) : t[k].id = s[k].id /\ (k # Find(s, m.id) => t[k] = s[k])
    BY <1>3, <2>0, <2>1, LikedIs
  <2>4. \A k \in 1..Len(s) : s[k].id = i => k # Find(s, m.id)
    BY <1>3, <2>1, FindIs
  <2> HIDE DEF s, t
  <2>5. ShowsIn(t, i, p, v)
    BY <2>1, <2>3, <2>4, ShowsInPlace
  <2> QED
    BY <2>2, <2>5
<1> QED
  BY <1>1, <1>4, <1>6, <1>7, <1>8 DEF Show

\* An event of the message itself is read.
LEMMA OwnEvent ==
  ASSUME TypeInv, ReceiveLive, NEW i, i = live[1].msg.id, NEW v \in SUBSET View, Shows(i, v),
         live[1].op = "new" => v = {}, NEW w, w = After(live[1], v)
  PROVE  Shows(i, w)'
<1> DEFINE m == Head(live).msg
<1>0. NodeCore /\ ScreenInv /\ LikesLow /\ changes \in 0..MaxChanges
  BY DEF TypeInv, NodeInv, NodeCore
<1>1. live # <<>> /\ Show(Head(live))
  BY DEF ReceiveLive
<1>2. Head(live) = live[1] /\ Proper(m)
  BY <1>0, <1>1, LiveIs
<1>3. m.id \in Ids /\ m.rev \in 0..MaxChanges /\ i = m.id
  BY <1>2 DEF Proper, ProperAt, Message
<1>4. CASE live[1].op = "new" /\ Arrives(m)
  <2>1. w = {ViewOf(m)} /\ v = {}
    BY <1>2, <1>4 DEF After
  <2>2. PICK x : x = ViewOf(m)
    OBVIOUS
  <2>3. Shows(i, {x})'
    BY <1>0, <1>2, <1>3, <1>4, <2>1, <2>2, NewArrives
  <2> QED
    BY <2>1, <2>2, <2>3
<1>5. ASSUME \A p \in Panes : ShowsIn(Text(p)', i, p, w) PROVE Shows(i, w)'
  BY <1>5 DEF Shows
<1>6. CASE live[1].op = "edit" /\ EditShown(m)
  <2> SUFFICES ASSUME NEW p \in Panes PROVE ShowsIn(Text(p)', i, p, w)
    BY <1>5
  <2>1. Text(p) \in Seq(Shown) /\ ShowsIn(Text(p), i, p, v)
    BY <1>0, PaneIs DEF Shows
  <2>2. Text(p)' = Edited(Text(p), i, m.rev)
    BY <1>0, <1>2, <1>3, <1>6, EditShownIs
  <2>3. w = {[x EXCEPT !.rev = m.rev] : x \in v}
    BY <1>2, <1>6 DEF After
  <2>4. ShowsIn(Edited(Text(p), i, m.rev), i, p, {[x EXCEPT !.rev = m.rev] : x \in v})
    BY <1>3, <2>1, ShowsEdited
  <2> QED
    BY <2>2, <2>3, <2>4
<1>7. CASE live[1].op = "delete" /\ DeleteShown(m)
  <2> SUFFICES ASSUME NEW p \in Panes PROVE ShowsIn(Text(p)', i, p, w)
    BY <1>5
  <2>1. Text(p) \in Seq(Shown) /\ ShowsIn(Text(p), i, p, v)
    BY <1>0, PaneIs DEF Shows
  <2>2. Text(p)' = Deleted(Text(p), i)
    BY <1>0, <1>2, <1>3, <1>7, DeleteShownIs
  <2>3. w = {}
    BY <1>7 DEF After
  <2>4. ShowsIn(Deleted(Text(p), i), i, p, {})
    BY <1>3, <2>1, ShowsGone
  <2> QED
    BY <2>2, <2>3, <2>4
<1>8. CASE live[1].op = "like" /\ LikeShown(m)
  <2> SUFFICES ASSUME NEW p \in Panes PROVE ShowsIn(Text(p)', i, p, w)
    BY <1>5
  <2>0. \A q \in Panes : \A k \in 1..Len(Text(q)) : Text(q)[k].likes + 1 <= 2 * MaxChanges
    BY <1>0, <1>1, <1>2, <1>8, LikeFits
  <2>1. Text(p) \in Seq(Shown) /\ ShowsIn(Text(p), i, p, v)
    BY <1>0, PaneIs DEF Shows
  <2>2. Text(p)' = Liked(Text(p), i)
    BY <1>0, <1>2, <1>3, <1>8, <2>0, LikeShownIs
  <2>3. w = {[x EXCEPT !.likes = @ + 1] : x \in v}
    BY <1>8 DEF After
  <2>4. ShowsIn(Liked(Text(p), i), i, p, {[x EXCEPT !.likes = @ + 1] : x \in v})
    BY <1>3, <2>0, <2>1, ShowsLiked
  <2> QED
    BY <2>2, <2>3, <2>4
<1> QED
  BY <1>1, <1>2, <1>4, <1>6, <1>7, <1>8 DEF Show

-----------------------------------------------------------------------------
(* The steps of a message that is clean *)

\* Edits and deletions of what is not shown change nothing.
LEMMA NothingBecomes ==
  ASSUME live \in Seq(Events), NEW i, \A k \in 1..Len(live) : live[k].msg.id = i => live[k].op \in {"edit", "delete"}
  PROVE  Becomes(i, {}, {})
<1>1. PICK f : f = [k \in 0..Len(live) |-> {}]
  OBVIOUS
<1>2. Len(live) \in Nat /\ \A k \in 1..Len(live) : k \in 0..Len(live) /\ k - 1 \in 0..Len(live)
  OBVIOUS
<1>3. f \in [0..Len(live) -> SUBSET View] /\ \A k \in 0..Len(live) : f[k] = {}
  BY <1>1
<1>4. \A e : e.op \in {"edit", "delete"} => After(e, {}) = {}
  BY DEF After
<1>5. Leads(i, f)
  <2> SUFFICES ASSUME NEW k \in 1..Len(live)
               PROVE  IF live[k].msg.id = i THEN (live[k].op = "new" => f[k - 1] = {}) /\ f[k] = After(live[k], f[k - 1])
                                            ELSE f[k] = f[k - 1]
    BY DEF Leads
  <2>1. f[k] = {} /\ f[k - 1] = {}
    BY <1>2, <1>3
  <2> QED
    BY <1>4, <2>1
<1>6. f[0] = {} /\ f[Len(live)] = {}
  BY <1>2, <1>3
<1> QED
  BY <1>3, <1>5, <1>6 DEF Becomes

\* What is nowhere is on its way from nothing to nothing.
LEMMA NowhereIsOK ==
  ASSUME TypeInv, NEW i, Nowhere(i)
  PROVE  CleanOK(i)
<1>0. /\ live \in Seq(Events) /\ Len(live) \in Nat
      /\ ~In(stored, i) /\ ~In(history, i) /\ ~InLive(i) /\ \A p \in Panes : ~In(Text(p), i)
  BY DEF TypeInv, NodeInv, NodeCore, Nowhere
<1>1. Shows(i, {})
  BY <1>0 DEF Shows, ShowsIn
<1>2. Awaited(i)
  BY <1>0, <1>1 DEF Awaited, In, InLive
<1>3. Becomes(i, {}, {})
  BY <1>0, NothingBecomes DEF InLive
<1>4. Settles(i)
  <2>1. AsStored(i) = {} /\ {} \in SUBSET View
    BY <1>0, NotStored
  <2> QED
    BY <1>1, <1>3, <2>1 DEF Settles
<1> QED
  BY <1>0, <1>2, <1>4 DEF CleanOK

\* It is posted.
LEMMA CleanPosted ==
  ASSUME TypeInv, OneEach(stored'), NEW i \in Ids, NEW p \in Panes, Publish(i, p), Nowhere(i), Clean(i)',
         UNCHANGED <<phase, history, panes>>
  PROVE  CleanOK(i)'
<1> DEFINE e == [op |-> "new", msg |-> NewMessage(i, p)]
<1>0. /\ NodeCore /\ live \in Seq(Events) /\ Len(live) \in Nat /\ stored \in Seq(Message)
      /\ changes \in 0..MaxChanges
      /\ ~In(stored, i) /\ ~In(history, i) /\ ~InLive(i) /\ \A q \in Panes : ~In(Text(q), i)
  BY DEF TypeInv, NodeInv, NodeCore, Nowhere
<1>1. KindOf[i] \in {"chat", "dm", "typed"} /\ i \notin raced' /\ i \notin unheard'
  BY DEF Clean
<1>2. stored' = Append(stored, NewMessage(i, p)) /\ Tell("new", NewMessage(i, p))
  BY <1>0, <1>1, PublishIs
<1>3. NewMessage(i, p) \in Message /\ NewMessage(i, p).id = i /\ NewMessage(i, p).pane = p
  BY NewIs
<1>4. ~(phase \in {"registered", "joined"})
  BY <1>1, <1>2, <1>3 DEF Tell, Races
<1>5. (Registered /\ Wants("new", NewMessage(i, p))) \/ (~Registered /\ KindOf[i] # "dm")
  BY <1>1, <1>2, <1>3 DEF Tell
<1>6. \A q \in Panes : Text(q)' = Text(q)
  BY DEF Text
<1>7. Shows(i, {}) /\ Shows(i, {})'
  BY <1>0, <1>6 DEF Shows, ShowsIn
<1>8. /\ Len(stored') = Len(stored) + 1 /\ stored'[Len(stored) + 1] = NewMessage(i, p)
      /\ Len(stored) + 1 \in 1..Len(stored')
  BY <1>0, <1>2, <1>3, AppendIs
<1>9. CASE phase = "out"
  <2>1. ~Registered /\ live' = live
    BY <1>2, <1>9 DEF Registered, Tell
  <2>2. Awaited(i)'
    BY <1>0, <1>5, <1>7, <2>1 DEF Awaited, InLive
  <2> QED
    BY <1>9, <2>2 DEF CleanOK
<1>10. CASE phase = "replay"
  <2>1. live' = Append(live, e)
    BY <1>2, <1>5, <1>10 DEF Registered, Tell
  <2>2. e \in Events /\ e.msg = NewMessage(i, p) /\ e.op = "new" /\ e.msg.id = i
    BY <1>3 DEF Events
  <2> HIDE DEF e
  <2>6. Becomes(i, {}, {})
    BY <1>0, NothingBecomes DEF InLive
  <2>7. PICK x : x = ViewOf(NewMessage(i, p))
    OBVIOUS
  <2>8. x \in View
    <3>1. Cardinality({}) = 0
      BY FS_EmptySet
    <3> QED
      BY <1>3, <2>7, <3>1, NewIs DEF ViewOf, View
  <2>9. {x} = After(e, {}) /\ {x} \in SUBSET View
    BY <2>2, <2>7, <2>8 DEF After
  <2>10. Becomes(i, {}, {x})'
    BY <1>0, <2>1, <2>2, <2>6, <2>9, BecomesOn
  <2>11. AsStored(i)' = {x}
    <3>1. \A k \in 1..Len(stored') : stored'[k].id = i <=> k = Len(stored) + 1
      BY <1>3, <1>8 DEF OneEach
    <3> QED
      BY <1>8, <2>7, <3>1 DEF AsStored
  <2>12. Settles(i)'
    BY <1>7, <2>10, <2>11 DEF Settles
  <2> QED
    BY <1>0, <1>10, <2>12 DEF CleanOK, Before
<1>11. CASE phase = "lost"
  BY <1>11 DEF CleanOK, Before
<1> QED
  BY <1>0, <1>4, <1>9, <1>10, <1>11 DEF NodeCore

\* The node posts or changes another message.
LEMMA CleanElsewhere ==
  ASSUME TypeInv, NEW i, CleanOK(i), \A m : m.id = i => (IsStored(m)' <=> IsStored(m)),
         \/ live' = live
         \/ \E e \in Events : e.msg.id # i /\ live' = Append(live, e),
         UNCHANGED <<phase, history, panes>>
  PROVE  CleanOK(i)'
<1>0. live \in Seq(Events) /\ Len(live) \in Nat
  BY DEF TypeInv, NodeInv, NodeCore
<1>1. \A q \in Panes : Text(q)' = Text(q)
  BY DEF Text
<1>2. \A v : Shows(i, v)' <=> Shows(i, v)
  BY <1>1 DEF Shows
<1>3. AsStored(i)' = AsStored(i)
  BY StoredSame, Zenon
<1>4. /\ \A s \in 1..Len(stored') : stored'[s].id = i => \E t \in 1..Len(stored) : stored[t] = stored'[s]
      /\ \A s \in 1..Len(stored) : stored[s].id = i => \E t \in 1..Len(stored') : stored'[t] = stored[s]
  BY DEF IsStored
\* Events of the message are at the same places.
<1>5. /\ Len(live') \in Nat /\ Len(live) <= Len(live')
      /\ \A k \in 1..Len(live) : k \in 1..Len(live') /\ live'[k] = live[k]
      /\ \A k \in 1..Len(live') : live'[k].msg.id = i => k \in 1..Len(live)
  <2>1. CASE live' = live
    BY <1>0, <2>1
  <2>2. ASSUME NEW e \in Events, e.msg.id # i, live' = Append(live, e)
        PROVE  /\ Len(live') \in Nat /\ Len(live) <= Len(live')
               /\ \A k \in 1..Len(live) : k \in 1..Len(live') /\ live'[k] = live[k]
               /\ \A k \in 1..Len(live') : live'[k].msg.id = i => k \in 1..Len(live)
    <3>1. /\ Len(live') = Len(live) + 1 /\ live'[Len(live) + 1] = e
          /\ \A k \in 1..Len(live) : k \in 1..(Len(live) + 1) /\ live'[k] = live[k]
          /\ \A k \in 1..(Len(live) + 1) : k \in 1..Len(live) \/ k = Len(live) + 1
      BY <1>0, <2>2, AppendIs
    <3> QED
      BY <1>0, <2>2, <3>1
  <2> QED
    BY <2>1, <2>2
<1>6. Awaited(i) => Awaited(i)'
  <2> SUFFICES ASSUME Awaited(i) PROVE Awaited(i)'
    OBVIOUS
  <2>1. Shows(i, {})'
    BY <1>2 DEF Awaited
  <2>2. \A k \in 1..Len(live') : live'[k].msg.id = i => live'[k].op \in {"edit", "delete"}
    BY <1>5 DEF Awaited
  <2>3. ASSUME NEW s \in 1..Len(stored'), stored'[s].id = i
        PROVE  /\ KindOf[i] # "dm"
               /\ \A k \in 1..Len(live') : live'[k].msg.id = i =>
                    /\ live'[k].op = "edit"
                    /\ (\A l \in (k + 1)..Len(live') : live'[l].msg.id # i) => live'[k].msg.rev = stored'[s].rev
    <3>1. PICK t \in 1..Len(stored) : stored[t] = stored'[s]
      BY <1>4, <2>3
    <3>2. /\ KindOf[i] # "dm"
          /\ \A k \in 1..Len(live) : live[k].msg.id = i =>
               /\ live[k].op = "edit"
               /\ (\A l \in (k + 1)..Len(live) : live[l].msg.id # i) => live[k].msg.rev = stored[t].rev
      BY <2>3, <3>1 DEF Awaited
    <3>3. ASSUME NEW k \in 1..Len(live'), live'[k].msg.id = i
          PROVE  /\ live'[k].op = "edit"
                 /\ (\A l \in (k + 1)..Len(live') : live'[l].msg.id # i) => live'[k].msg.rev = stored'[s].rev
      <4>1. k \in 1..Len(live) /\ live'[k] = live[k]
        BY <1>5, <3>3
      <4>2. \A l \in (k + 1)..Len(live) : l \in (k + 1)..Len(live') /\ live'[l] = live[l]
        BY <1>0, <1>5, <4>1
      <4>3. live'[k].op = "edit"
        BY <3>2, <3>3, <4>1
      <4>4. ASSUME \A l \in (k + 1)..Len(live') : live'[l].msg.id # i
            PROVE  live'[k].msg.rev = stored'[s].rev
        <5>1. \A l \in (k + 1)..Len(live) : live[l].msg.id # i
          BY <4>2, <4>4
        <5> QED
          BY <3>1, <3>2, <3>3, <4>1, <5>1
      <4> QED
        BY <4>3, <4>4
    <3> QED
      BY <3>2, <3>3
  <2> QED
    BY <2>1, <2>2, <2>3 DEF Awaited
<1>7. Copied(i) => Copied(i)'
  BY <1>4 DEF Copied
<1>8. Settles(i) => Settles(i)'
  <2> SUFFICES ASSUME Settles(i) PROVE Settles(i)'
    OBVIOUS
  <2>1. PICK v \in SUBSET View : Shows(i, v) /\ Becomes(i, v, AsStored(i))
    BY DEF Settles
  <2>2. PICK w : w = AsStored(i)
    OBVIOUS
  <2>3. w \in SUBSET View
    BY <1>0, <2>1, <2>2 DEF Becomes
  <2>4. Becomes(i, v, w)'
    <3>1. CASE live' = live
      BY <2>1, <2>2, <3>1 DEF Becomes, Leads
    <3>2. ASSUME NEW e \in Events, e.msg.id # i, live' = Append(live, e) PROVE Becomes(i, v, w)'
      BY <1>0, <2>1, <2>2, <2>3, <3>2, BecomesOn
    <3> QED
      BY <3>1, <3>2
  <2>5. Shows(i, v)' /\ w = AsStored(i)'
    BY <1>2, <1>3, <2>1, <2>2
  <2> QED
    BY <2>4, <2>5 DEF Settles
<1> QED
  BY <1>6, <1>7, <1>8 DEF CleanOK, Before

\* What is posted or changed leaves the other stored messages as they are.
LEMMA PublishOthers ==
  ASSUME NodeCore, NEW j \in Ids, NEW p \in Panes, Publish(j, p), NEW i, i # j
  PROVE  /\ \A m : m.id = i => (IsStored(m)' <=> IsStored(m))
         /\ live' = live \/ \E e \in Events : e.msg.id # i /\ live' = Append(live, e)
<1> DEFINE n == NewMessage(j, p)
           e == [op |-> "new", msg |-> n]
<1>1. n \in Message /\ n.id = j /\ stored \in Seq(Message)
  BY NewIs DEF NodeCore
<1>2. (stored' = stored \/ stored' = Append(stored, n)) /\ (live' = live \/ live' = Append(live, e))
  BY PublishIs
<1>3. e \in Events /\ e.msg.id # i
  BY <1>1 DEF Events
<1> HIDE DEF n, e
<1>4. /\ Len(Append(stored, n)) = Len(stored) + 1
      /\ \A k \in 1..Len(stored) : k \in 1..(Len(stored) + 1) /\ Append(stored, n)[k] = stored[k]
      /\ Append(stored, n)[Len(stored) + 1] = n
      /\ \A k \in 1..(Len(stored) + 1) : k \in 1..Len(stored) \/ k = Len(stored) + 1
  BY <1>1, AppendIs
<1>5. ASSUME NEW m, m.id = i PROVE IsStored(m)' <=> IsStored(m)
  BY <1>1, <1>2, <1>4, <1>5 DEF IsStored
<1> QED
  BY <1>2, <1>3, <1>5

\* A change of one message leaves the others as they are, stored and on their way.
LEMMA ModifiedOthers ==
  ASSUME NodeCore, NEW j \in Ids, NEW op \in {"edit", "delete", "like"}, NEW f, NEW n, Modified(j, op, f, n), NEW i, i # j
  PROVE  /\ \A m : m.id = i => (IsStored(m)' <=> IsStored(m))
         /\ live' = live \/ \E e \in Events : e.msg.id # i /\ live' = Append(live, e)
<1> DEFINE e == [op |-> op, msg |-> n]
<1>1. f \in 1..Len(stored) /\ stored[f].id = j /\ n.id = j /\ n \in Message /\ Len(stored) \in Nat
  BY DEF Modified, ProperAt, NodeCore
<1>2. live' = live \/ live' = Append(live, e)
  BY ModifiedIds
<1>3. e \in Events /\ e.msg.id # i
  BY <1>1 DEF Events
<1>4. ASSUME NEW m, m.id = i PROVE IsStored(m)' <=> IsStored(m)
  <2>1. CASE op = "delete"
    <3>1. /\ Len(stored') = Len(stored) - 1
          /\ \A k \in 1..(Len(stored) - 1) : stored'[k] = IF k < f THEN stored[k] ELSE stored[k + 1]
      BY <2>1 DEF Modified
    <3>2. IsStored(m)' => IsStored(m)
      <4>1. \A k \in 1..(Len(stored) - 1) : k \in 1..Len(stored) /\ k + 1 \in 1..Len(stored)
        BY <1>1
      <4> QED
        BY <3>1, <4>1 DEF IsStored
    <3>3. ASSUME NEW k \in 1..Len(stored), stored[k] = m PROVE IsStored(m)'
      <4>1. k # f
        BY <1>1, <1>4, <3>3
      <4>2. CASE k < f
        <5>1. k \in 1..(Len(stored) - 1) /\ stored'[k] = stored[k]
          BY <1>1, <3>1, <4>2
        <5> QED
          BY <3>1, <3>3, <5>1 DEF IsStored
      <4>3. CASE k > f
        <5>1. k - 1 \in 1..(Len(stored) - 1) /\ (k - 1) + 1 = k /\ ~(k - 1 < f)
          BY <1>1, <4>3
        <5>2. stored'[k - 1] = stored[k]
          BY <3>1, <5>1
        <5> QED
          BY <3>1, <3>3, <5>1, <5>2 DEF IsStored
      <4> QED
        BY <1>1, <4>1, <4>2, <4>3
    <3> QED
      BY <3>2, <3>3 DEF IsStored
  <2>2. CASE op # "delete"
    <3>1. Len(stored') = Len(stored) /\ \A k \in 1..Len(stored) : stored'[k] = IF k = f THEN n ELSE stored[k]
      BY <2>2 DEF Modified
    <3> QED
      BY <1>1, <1>4, <3>1 DEF IsStored
  <2> QED
    BY <2>1, <2>2
<1> HIDE DEF e
<1> QED
  BY <1>2, <1>3, <1>4

\* What a change leaves of the message itself.
LEMMA ModifiedOwn ==
  ASSUME NodeCore, OneEach(stored), NEW i \in Ids, NEW op \in {"edit", "delete", "like"}, NEW f, NEW n,
         Modified(i, op, f, n), i \notin again'
  PROVE  /\ AsStored(i) \in SUBSET View
         /\ AsStored(i)' = After([op |-> op, msg |-> n], AsStored(i)) /\ AsStored(i)' \in SUBSET View
         /\ op = "delete" => ~In(stored', i)
         /\ \A k \in 1..Len(stored') : stored'[k].id = i => stored'[k] = n
<1> DEFINE o == stored[f]
<1>1. /\ f \in 1..Len(stored) /\ o.id = i /\ n.id = i /\ n.pane = o.pane /\ n \in Message /\ Len(stored) \in Nat
      /\ Proper(o) /\ changes \in 0..MaxChanges /\ stored' \in Seq(Message)
  BY DEF Modified, ProperAt, NodeCore
<1>2. AsStored(i) = {ViewOf(o)} /\ ViewOf(o) \in View
  BY <1>1, StoredIs, ViewIs
<1>3. \A k \in 1..Len(stored) : stored[k].id = i <=> k = f
  BY <1>1 DEF OneEach
<1>4. CASE op = "delete"
  <2>1. /\ Len(stored') = Len(stored) - 1
        /\ \A k \in 1..(Len(stored) - 1) : stored'[k] = IF k < f THEN stored[k] ELSE stored[k + 1]
    BY <1>4 DEF Modified
  <2>2. ASSUME NEW k \in 1..(Len(stored) - 1), stored'[k].id = i PROVE FALSE
    <3>1. k \in 1..Len(stored) /\ k + 1 \in 1..Len(stored)
      BY <1>1
    <3> QED
      BY <1>1, <1>3, <2>1, <2>2, <3>1
  <2>3. ~In(stored', i)
    BY <2>1, <2>2 DEF In
  <2>4. AsStored(i)' = {}
    BY <2>3 DEF AsStored, In
  <2> QED
    BY <1>2, <1>4, <2>3, <2>4 DEF After, In
<1>5. CASE op # "delete"
  <2>1. Len(stored') = Len(stored) /\ \A k \in 1..Len(stored) : stored'[k] = IF k = f THEN n ELSE stored[k]
    BY <1>5 DEF Modified
  <2>2. \A k \in 1..Len(stored') : stored'[k].id = i <=> k = f
    BY <1>1, <1>3, <2>1
  <2>3. f \in 1..Len(stored') /\ stored'[f] = n
    BY <1>1, <2>1
  <2>4. AsStored(i)' = {ViewOf(n)}
    BY <2>2, <2>3 DEF AsStored
  <2>5. ViewOf(n) \in View
    <3>1. Cardinality(n.likes) \in Nat /\ n.rev \in Nat /\ n.pane \in Panes
      BY <1>1, FS_CardinalityType, TuiAssumption DEF Modified, ProperAt, Message
    <3> QED
      BY <3>1 DEF ViewOf, View
  <2>6. /\ op = "edit" => ViewOf(n) = [ViewOf(o) EXCEPT !.rev = n.rev]
        /\ op = "like" => ViewOf(n) = [ViewOf(o) EXCEPT !.likes = @ + 1]
    <3>1. /\ op = "edit" => n.likes = o.likes
          /\ op = "like" => n.rev = o.rev /\ Cardinality(n.likes) = Cardinality(o.likes) + 1
      BY DEF Modified
    <3> QED
      BY <1>1, <3>1 DEF ViewOf
  <2>7. AsStored(i)' = After([op |-> op, msg |-> n], AsStored(i))
    BY <1>2, <1>5, <2>4, <2>6 DEF After
  <2> QED
    BY <1>2, <1>5, <2>2, <2>3, <2>4, <2>5, <2>7
<1> QED
  BY <1>4, <1>5

\* It is changed: before the copy of the store its edits wait for the replay, after it
\* the events lead to what is stored.
LEMMA CleanChanged ==
  ASSUME TypeInv, OneEach(stored), NEW i \in Ids, Modify(i), Clean(i)', CleanOK(i)
  PROVE  CleanOK(i)'
<1>0. /\ NodeCore /\ stored \in Seq(Message) /\ live \in Seq(Events) /\ history \in Seq(Message) /\ Len(live) \in Nat
      /\ phase \in {"out", "registered", "joined", "replay", "lost"}
      /\ phase = "out" => live = <<>>
  BY DEF TypeInv, NodeInv, NodeCore
<1>1. PICK op \in {"edit", "delete", "like"}, f \in 1..Len(stored), n \in Message : Modified(i, op, f, n)
  BY <1>0, ModifyIs, Zenon
<1>2. /\ f \in 1..Len(stored) /\ stored[f].id = i /\ n.id = i /\ n \in Message /\ Tell(op, n)
      /\ live' = live \/ live' = Append(live, [op |-> op, msg |-> n])
  <2>1. /\ n \in Message
        /\ live' = live \/ live' = Append(live, [op |-> op, msg |-> n])
    BY <1>0, <1>1, ModifiedIds
  <2> QED
    BY <1>1, <2>1 DEF Modified
<1>3. i \notin raced' /\ i \notin unheard' /\ i \notin again'
  BY DEF Clean
<1>4. /\ AsStored(i) \in SUBSET View
      /\ AsStored(i)' = After([op |-> op, msg |-> n], AsStored(i)) /\ AsStored(i)' \in SUBSET View
      /\ op = "delete" => ~In(stored', i)
      /\ \A k \in 1..Len(stored') : stored'[k].id = i => stored'[k] = n
  BY <1>0, <1>1, <1>3, ModifiedOwn
<1>5. UNCHANGED <<phase, history, panes>>
  BY DEF Modify, uiVars
<1>6. \A v : Shows(i, v)' <=> Shows(i, v)
  BY <1>5 DEF Shows, Text
<1>7. ~Has(history, i) /\ ~(phase \in {"registered", "joined"} /\ op = "like")
  BY <1>2, <1>3 DEF Tell, Races
<1>8. ~In(history, i)
  BY <1>0, <1>7, FindIs
<1>9. /\ Registered => live' = Append(live, [op |-> op, msg |-> n])
      /\ ~Registered => live' = live /\ KindOf[i] # "dm"
  BY <1>2, <1>3 DEF Tell
<1> DEFINE e == [op |-> op, msg |-> n]
<1>10. e \in Events /\ e.op = op /\ e.msg = n
  BY <1>2 DEF Events
<1> HIDE DEF e
<1>11. CASE phase = "out"
  <2>1. live' = live /\ live = <<>> /\ KindOf[i] # "dm" /\ Len(<<>>) = 0 /\ 1..0 = {}
    BY <1>0, <1>9, <1>11 DEF Registered
  <2>2. Awaited(i)
    BY <1>11 DEF CleanOK, Before
  <2>3. Awaited(i)'
    BY <1>6, <2>1, <2>2 DEF Awaited
  <2> QED
    BY <1>5, <1>11, <2>3 DEF CleanOK
<1>12. CASE phase \in {"registered", "joined"}
  <2>1. live' = Append(live, e) /\ op # "like"
    BY <1>7, <1>9, <1>12 DEF Registered, e
  <2>2. /\ Awaited(i) /\ KindOf[i] # "dm"
        /\ \A k \in 1..Len(live) : live[k].msg.id = i => live[k].op = "edit"
    BY <1>2, <1>12 DEF CleanOK, Before, Awaited
  <2>3. /\ Len(live') = Len(live) + 1 /\ live'[Len(live) + 1] = e /\ Len(live) + 1 \in 1..(Len(live) + 1)
        /\ \A k \in 1..Len(live) : k \in 1..(Len(live) + 1) /\ live'[k] = live[k]
        /\ \A k \in 1..(Len(live) + 1) : k \in 1..Len(live) \/ k = Len(live) + 1
    BY <1>0, <1>10, <2>1, AppendIs
  <2>4. \A k \in 1..Len(live') : live'[k].msg.id = i => live'[k].op \in {"edit", "delete"}
    BY <1>10, <2>1, <2>2, <2>3
  <2>5. ASSUME NEW s \in 1..Len(stored'), stored'[s].id = i, NEW k \in 1..Len(live'), live'[k].msg.id = i
        PROVE  /\ live'[k].op = "edit"
               /\ (\A l \in (k + 1)..Len(live') : live'[l].msg.id # i) => live'[k].msg.rev = stored'[s].rev
    <3>1. op = "edit" /\ stored'[s] = n
      BY <1>4, <2>1, <2>5 DEF In
    <3>2. live'[k].op = "edit"
      BY <1>10, <2>2, <2>3, <2>5, <3>1
    <3>3. ASSUME \A l \in (k + 1)..Len(live') : live'[l].msg.id # i PROVE live'[k].msg.rev = stored'[s].rev
      <4>1. k = Len(live) + 1
        <5>1. SUFFICES ASSUME k \in 1..Len(live) PROVE FALSE
          BY <2>3
        <5>2. Len(live) + 1 \in (k + 1)..Len(live')
          BY <1>0, <2>3, <5>1
        <5> QED
          BY <1>2, <1>10, <2>3, <3>3, <5>2
      <4> QED
        BY <1>10, <2>3, <3>1, <4>1
    <3> QED
      BY <3>2, <3>3
  <2>6. Shows(i, {})'
    BY <1>6, <2>2 DEF Awaited
  <2>7. Awaited(i)'
    BY <2>2, <2>4, <2>5, <2>6 DEF Awaited
  <2> QED
    BY <1>5, <1>12, <2>7 DEF CleanOK
<1>13. CASE phase = "replay"
  <2>1. Settles(i)
    BY <1>8, <1>13 DEF CleanOK
  <2>2. PICK v \in SUBSET View : Shows(i, v) /\ Becomes(i, v, AsStored(i))
    BY <2>1 DEF Settles
  <2>3. PICK w : w = AsStored(i)
    OBVIOUS
  <2>4. PICK x : x = AsStored(i)'
    OBVIOUS
  <2>5. x = After(e, w) /\ x \in SUBSET View /\ live' = Append(live, e) /\ e.msg.id = i /\ e.op # "new"
    BY <1>2, <1>4, <1>9, <1>10, <1>13, <2>3, <2>4 DEF Registered, e
  <2>6. Becomes(i, v, x)'
    BY <1>0, <1>10, <2>2, <2>3, <2>5, BecomesOn
  <2>7. Settles(i)'
    BY <1>6, <2>2, <2>4, <2>6 DEF Settles
  <2> QED
    BY <1>5, <1>8, <1>13, <2>7 DEF CleanOK, Before
<1>14. CASE phase = "lost"
  BY <1>5, <1>14 DEF CleanOK, Before
<1> QED
  BY <1>0, <1>11, <1>12, <1>13, <1>14

\* The store is copied.
LEMMA CleanCopied ==
  ASSUME TypeInv, Snapshot, NEW i, CleanOK(i)
  PROVE  CleanOK(i)'
<1>0. live \in Seq(Events) /\ phase = "joined" /\ phase' = "replay" /\ history' = stored /\ UNCHANGED <<live, stored, panes>>
  BY DEF Snapshot, uiVars, nodeVars, TypeInv, NodeInv, NodeCore
<1>1. Awaited(i)
  BY <1>0 DEF CleanOK, Before
<1>2. \A v : Shows(i, v)' <=> Shows(i, v)
  BY <1>0 DEF Shows, Text
<1>3. Awaited(i)'
  BY <1>0, <1>1, <1>2 DEF Awaited
<1>4. Copied(i)'
  BY <1>0 DEF Copied
<1>5. CASE ~In(stored, i)
  <2>1. Becomes(i, {}, {})
    BY <1>0, <1>1, NothingBecomes DEF Awaited
  <2>2. Becomes(i, {}, {})'
    BY <1>0, <2>1 DEF Becomes, Leads
  <2>3. AsStored(i)' = {}
    BY <1>0, <1>5 DEF AsStored, In
  <2>4. Settles(i)'
    BY <1>3, <2>2, <2>3 DEF Settles, Awaited
  <2> QED
    BY <1>0, <1>5, <2>4 DEF CleanOK, Before
<1> QED
  BY <1>0, <1>3, <1>4, <1>5 DEF CleanOK, Before

\* An event is read.
LEMMA CleanRead ==
  ASSUME TypeInv, ReceiveLive, NEW i \in Ids, CleanOK(i)
  PROVE  CleanOK(i)'
<1>0. /\ live \in Seq(Events) /\ live # <<>> /\ live' = Tail(live) /\ UNCHANGED <<phase, history, stored>>
  BY DEF ReceiveLive, TypeInv, NodeInv, NodeCore, nodeVars
<1>1. /\ Len(live) \in Nat \ {0} /\ Len(live') = Len(live) - 1 /\ 1 \in 1..Len(live)
      /\ \A k \in 1..(Len(live) - 1) : k + 1 \in 1..Len(live) /\ live'[k] = live[k + 1]
  BY <1>0, TailIs
<1>2. ASSUME Awaited(i) PROVE Awaited(i)'
  <2>1. Shows(i, {}) /\ \A k \in 1..Len(live) : live[k].msg.id = i => live[k].op \in {"edit", "delete"}
    BY <1>2 DEF Awaited
  <2>2. Shows(i, {})'
    <3>1. CASE i # live[1].msg.id
      BY <2>1, <3>1, OtherEvent
    <3>2. CASE i = live[1].msg.id
      <4>1. After(live[1], {}) = {} /\ live[1].op # "new"
        BY <1>1, <2>1, <3>2 DEF After
      <4>2. PICK w : w = {}
        OBVIOUS
      <4>3. w = After(live[1], {}) /\ {} \in SUBSET View
        BY <4>1, <4>2
      <4>4. Shows(i, w)'
        BY <2>1, <3>2, <4>1, <4>3, OwnEvent
      <4> QED
        BY <4>2, <4>4
    <3> QED
      BY <3>1, <3>2
  <2>3. \A k \in 1..Len(live') : live'[k].msg.id = i => live'[k].op \in {"edit", "delete"}
    BY <1>1, <2>1
  <2>4. ASSUME NEW s \in 1..Len(stored'), stored'[s].id = i
        PROVE  /\ KindOf[i] # "dm"
               /\ \A k \in 1..Len(live') : live'[k].msg.id = i =>
                    /\ live'[k].op = "edit"
                    /\ (\A l \in (k + 1)..Len(live') : live'[l].msg.id # i) => live'[k].msg.rev = stored'[s].rev
    <3>1. /\ KindOf[i] # "dm"
          /\ \A k \in 1..Len(live) : live[k].msg.id = i =>
               /\ live[k].op = "edit"
               /\ (\A l \in (k + 1)..Len(live) : live[l].msg.id # i) => live[k].msg.rev = stored[s].rev
      BY <1>0, <1>2, <2>4 DEF Awaited
    <3>2. ASSUME NEW k \in 1..Len(live'), live'[k].msg.id = i
          PROVE  /\ live'[k].op = "edit"
                 /\ (\A l \in (k + 1)..Len(live') : live'[l].msg.id # i) => live'[k].msg.rev = stored'[s].rev
      <4>1. k + 1 \in 1..Len(live) /\ live'[k] = live[k + 1] /\ stored'[s] = stored[s]
        BY <1>0, <1>1
      <4>2. ASSUME \A l \in (k + 1)..Len(live') : live'[l].msg.id # i
            PROVE  \A l \in (k + 2)..Len(live) : live[l].msg.id # i
        <5> SUFFICES ASSUME NEW l \in (k + 2)..Len(live) PROVE live[l].msg.id # i
          OBVIOUS
        <5>1. l - 1 \in (k + 1)..Len(live') /\ l - 1 \in 1..(Len(live) - 1) /\ (l - 1) + 1 = l
          BY <1>1
        <5>2. live'[l - 1] = live[l]
          BY <1>1, <5>1
        <5> QED
          BY <4>2, <5>1, <5>2
      <4>3. (k + 1) + 1 = k + 2
        BY <1>1
      <4> QED
        BY <3>1, <3>2, <4>1, <4>2, <4>3
    <3> QED
      BY <3>1, <3>2
  <2> QED
    BY <2>2, <2>3, <2>4 DEF Awaited
<1>3. ASSUME Settles(i) PROVE Settles(i)'
  <2>1. PICK v \in SUBSET View : Shows(i, v) /\ Becomes(i, v, AsStored(i))
    BY <1>3 DEF Settles
  <2>2. PICK w : w = AsStored(i)
    OBVIOUS
  <2>3. PICK x \in SUBSET View : /\ live[1].msg.id = i => (live[1].op = "new" => v = {}) /\ x = After(live[1], v)
                                 /\ live[1].msg.id # i => x = v
                                 /\ Becomes(i, x, w)'
    BY <1>0, <2>1, <2>2, BecomesOff
  <2>4. Shows(i, x)'
    <3>1. CASE i # live[1].msg.id
      BY <2>1, <2>3, <3>1, OtherEvent
    <3>2. CASE i = live[1].msg.id
      BY <2>1, <2>3, <3>2, OwnEvent
    <3> QED
      BY <3>1, <3>2
  <2>5. w = AsStored(i)'
    BY <1>0, <2>2 DEF AsStored
  <2> QED
    BY <2>3, <2>4, <2>5 DEF Settles
<1>4. Copied(i) => Copied(i)'
  BY <1>0 DEF Copied
<1> QED
  BY <1>0, <1>2, <1>3, <1>4 DEF CleanOK, Before

\* Edits of what is shown with its last text lead to that text.
LEMMA EditsBecome ==
  ASSUME live \in Seq(Events), NEW i, NEW x \in View,
         \A k \in 1..Len(live) : live[k].msg.id = i =>
           live[k].op = "edit" /\ ((\A l \in (k + 1)..Len(live) : live[l].msg.id # i) => live[k].msg.rev = x.rev)
  PROVE  Becomes(i, {x}, {x})
<1> DEFINE n == Len(live)
           Mine(k) == live[k].msg.id = i
           \* r is the text after k events.
           Rev(k, r) == \/ r = x.rev /\ \A l \in 1..k : ~Mine(l)
                        \/ \E l \in 1..k : Mine(l) /\ r = live[l].msg.rev /\ \A j \in (l + 1)..k : ~Mine(j)
           At(k) == {y \in View : y.pane = x.pane /\ y.likes = x.likes /\ Rev(k, y.rev)}
<1>0. n \in Nat /\ \A k \in 1..n : live[k].msg.rev \in Nat /\ live[k].op \in {"new", "edit", "delete", "like"}
  <2>1. \A k \in 1..n : live[k] \in Events
    OBVIOUS
  <2>2. \A e \in Events : e.msg.rev \in Nat /\ e.op \in {"new", "edit", "delete", "like"}
    BY TuiAssumption DEF Events, Message
  <2> QED
    BY <2>1, <2>2
<1>1. \A k \in 1..n : Mine(k) =>
        live[k].op = "edit" /\ ((\A l \in (k + 1)..n : ~Mine(l)) => live[k].msg.rev = x.rev)
  OBVIOUS
<1>2. x.pane \in Panes /\ x.rev \in Nat /\ x.likes \in Nat
  BY DEF View
\* There is such a text, after any number of events.
<1>3. ASSUME NEW k \in 0..n PROVE \E r \in Nat : Rev(k, r)
  <2> DEFINE S == {l \in 1..k : Mine(l)}
  <2>1. CASE S = {}
    <3>1. Rev(k, x.rev)
      BY <2>1
    <3> HIDE DEF Rev
    <3> QED
      BY <1>2, <3>1
  <2>2. CASE S # {}
    <3>1. PICK l \in S : \A j \in S : j <= l
      <4>1. k \in Nat /\ S \in SUBSET (1..k)
        BY <1>0
      <4> HIDE DEF S
      <4> QED
        BY <2>2, <4>1, LastOf
    <3>2. l \in 1..k /\ Mine(l) /\ l \in 1..n
      BY <1>0
    <3>3. \A j \in (l + 1)..k : j \in 1..k /\ ~(j <= l)
      BY <3>2
    <3>4. \A j \in (l + 1)..k : ~Mine(j)
      BY <3>1, <3>3
    <3>5. Rev(k, live[l].msg.rev)
      BY <3>2, <3>4
    <3>6. live[l].msg.rev \in Nat
      BY <1>0, <3>2
    <3> HIDE DEF Rev
    <3> QED
      BY <3>5, <3>6
  <2> QED
    BY <2>1, <2>2
\* An event of the message sets it, another leaves it.
<1>4. ASSUME NEW k \in 1..n
      PROVE  /\ Mine(k) => \A r : Rev(k, r) <=> r = live[k].msg.rev
             /\ ~Mine(k) => \A r : Rev(k, r) <=> Rev(k - 1, r)
  <2>1. k \in 1..k /\ (k + 1)..k = {} /\ \A l \in 1..k : l # k => k \in (l + 1)..k
    OBVIOUS
  <2>2. Mine(k) => \A r : Rev(k, r) <=> r = live[k].msg.rev
    BY <2>1
  <2>3. /\ \A l \in 1..(k - 1) : l \in 1..k
        /\ \A l \in 1..k : l \in 1..(k - 1) \/ l = k
        /\ \A l \in 1..(k - 1) : \A j \in (l + 1)..(k - 1) : j \in (l + 1)..k
        /\ \A l \in 1..(k - 1) : \A j \in (l + 1)..k : j \in (l + 1)..(k - 1) \/ j = k
    OBVIOUS
  <2> HIDE DEF Mine
  <2>4. ASSUME ~Mine(k), NEW r, Rev(k, r) PROVE Rev(k - 1, r)
    <3>1. CASE r = x.rev /\ \A l \in 1..k : ~Mine(l)
      BY <2>3, <3>1
    <3>2. CASE \E l \in 1..k : Mine(l) /\ r = live[l].msg.rev /\ \A j \in (l + 1)..k : ~Mine(j)
      <4>1. PICK l \in 1..k : Mine(l) /\ r = live[l].msg.rev /\ \A j \in (l + 1)..k : ~Mine(j)
        BY <3>2
      <4>2. l \in 1..(k - 1)
        BY <2>3, <2>4, <4>1
      <4>3. \A j \in (l + 1)..(k - 1) : ~Mine(j)
        BY <2>3, <4>1, <4>2
      <4> QED
        BY <4>1, <4>2, <4>3
    <3> QED
      BY <2>4, <3>1, <3>2
  <2>5. ASSUME ~Mine(k), NEW r, Rev(k - 1, r) PROVE Rev(k, r)
    <3>1. CASE r = x.rev /\ \A l \in 1..(k - 1) : ~Mine(l)
      BY <2>3, <2>5, <3>1
    <3>2. CASE \E l \in 1..(k - 1) : Mine(l) /\ r = live[l].msg.rev /\ \A j \in (l + 1)..(k - 1) : ~Mine(j)
      <4>1. PICK l \in 1..(k - 1) : Mine(l) /\ r = live[l].msg.rev /\ \A j \in (l + 1)..(k - 1) : ~Mine(j)
        BY <3>2
      <4>2. l \in 1..k /\ \A j \in (l + 1)..k : ~Mine(j)
        BY <2>3, <2>5, <4>1
      <4> QED
        BY <4>1, <4>2
    <3> QED
      BY <2>5, <3>1, <3>2
  <2> HIDE DEF Rev
  <2> QED
    BY <2>2, <2>4, <2>5
<1>5. \A r : Rev(0, r) <=> r = x.rev
  <2>1. 1..0 = {}
    OBVIOUS
  <2> QED
    BY <2>1
<1>6. \A r : Rev(n, r) => r = x.rev
  BY <1>1
<1> HIDE DEF Rev
<1>7. PICK f : f = [k \in 0..n |-> At(k)]
  OBVIOUS
<1>8. f \in [0..n -> SUBSET View] /\ \A k \in 0..n : f[k] = At(k)
  BY <1>7
<1>9. /\ 0 \in 0..n /\ n \in 0..n /\ \A k \in 1..n : k \in 0..n /\ k - 1 \in 0..n
  BY <1>0
\* A view is what its fields are.
<1>10. \A r \in Nat : [x EXCEPT !.rev = r] \in View
  BY <1>2 DEF View
<1>11. \A y \in View : y.pane = x.pane /\ y.likes = x.likes => y = [x EXCEPT !.rev = y.rev]
  BY DEF View
<1>12. \A r \in Nat : [x EXCEPT !.rev = r].pane = x.pane /\ [x EXCEPT !.rev = r].likes = x.likes
                     /\ [x EXCEPT !.rev = r].rev = r
  BY DEF View
<1>13. \A y \in View : y.pane = x.pane /\ y.likes = x.likes =>
         \A r \in Nat : [y EXCEPT !.rev = r] = [x EXCEPT !.rev = r]
  BY DEF View
<1>14. x = [x EXCEPT !.rev = x.rev]
  BY <1>11
<1>15. f[0] = {x}
  <2>1. \A y \in At(0) : y = x
    BY <1>5, <1>11, <1>14
  <2>2. x \in At(0)
    BY <1>5
  <2> QED
    BY <1>8, <1>9, <2>1, <2>2
<1>16. f[n] = {x}
  <2>1. \A y \in At(n) : y = x
    BY <1>6, <1>11, <1>14
  <2>2. x \in At(n)
    <3>1. PICK r \in Nat : Rev(n, r)
      BY <1>3, <1>9
    <3> QED
      BY <1>6, <3>1
  <2> QED
    BY <1>8, <1>9, <2>1, <2>2
<1>17. Leads(i, f)
  <2> SUFFICES ASSUME NEW k \in 1..n
               PROVE  IF live[k].msg.id = i THEN (live[k].op = "new" => f[k - 1] = {}) /\ f[k] = After(live[k], f[k - 1])
                                            ELSE f[k] = f[k - 1]
    BY DEF Leads
  <2>1. f[k] = At(k) /\ f[k - 1] = At(k - 1)
    BY <1>8, <1>9
  <2>2. CASE ~Mine(k)
    <3>1. At(k) = At(k - 1)
      BY <1>4, <2>2
    <3> QED
      BY <2>1, <2>2, <3>1
  <2>3. CASE Mine(k)
    <3> DEFINE r == live[k].msg.rev
               z == [x EXCEPT !.rev = r]
    <3>1. r \in Nat /\ live[k].op = "edit" /\ \A q : Rev(k, q) <=> q = r
      BY <1>0, <1>1, <1>4, <2>3
    <3>2. At(k) = {z}
      <4>1. \A y \in At(k) : y = z
        BY <1>11, <3>1
      <4>2. z \in At(k)
        BY <1>10, <1>12, <3>1
      <4> QED
        BY <4>1, <4>2
    <3>3. PICK q \in Nat : Rev(k - 1, q)
      BY <1>3, <1>9
    <3>4. [x EXCEPT !.rev = q] \in At(k - 1)
      BY <1>10, <1>12, <3>3
    <3>5. \A y \in At(k - 1) : [y EXCEPT !.rev = r] = z
      BY <1>13, <3>1
    <3>6. {[y EXCEPT !.rev = r] : y \in At(k - 1)} = {z}
      BY <3>4, <3>5
    <3>7. After(live[k], At(k - 1)) = {[y EXCEPT !.rev = r] : y \in At(k - 1)}
      BY <3>1 DEF After
    <3> HIDE DEF z, r, At
    <3> QED
      BY <2>1, <2>3, <3>1, <3>2, <3>6, <3>7
  <2> QED
    BY <2>2, <2>3
<1> QED
  BY <1>8, <1>15, <1>16, <1>17 DEF Becomes

\* A copy is read.
LEMMA CleanReplayed ==
  ASSUME TypeInv, OneEach(stored), OneEach(history), ReceiveHistory, NEW i \in Ids, CleanOK(i)
  PROVE  CleanOK(i)'
<1>0. /\ NodeCore /\ ScreenInv /\ changes \in 0..MaxChanges
      /\ live \in Seq(Events) /\ history \in Seq(Message) /\ stored \in Seq(Message)
      /\ history # <<>> /\ phase = "replay" /\ history' = Tail(history) /\ UNCHANGED <<phase, live, stored>>
  BY DEF ReceiveHistory, TypeInv, NodeInv, NodeCore, nodeVars
<1>1. PICK m : m = Head(history)
  OBVIOUS
<1>2. PICK a : a = AsWritten(m)
  OBVIOUS
<1>3. Proper(a) /\ a.id = m.id /\ m = history[1] /\ m \in Message
  BY <1>0, <1>1, <1>2, HistoryIs
<1>4. IF KindOf[m.id] = "dm" THEN UNCHANGED <<channels, dms, panes>> ELSE Arrives(a)
  BY <1>1, <1>2 DEF ReceiveHistory
<1>5. /\ 1 \in 1..Len(history) /\ Len(history') = Len(history) - 1
      /\ \A k \in 1..(Len(history) - 1) : k + 1 \in 1..Len(history) /\ history'[k] = history[k + 1]
      /\ \A j : In(history', j) <=> In(history, j) /\ j # history[1].id
  BY <1>0, TailIs
<1>6. CASE m.id # i
  <2>1. In(history', i) <=> In(history, i)
    BY <1>3, <1>5, <1>6
  <2>2. ASSUME NEW v, Shows(i, v) PROVE Shows(i, v)'
    <3>1. CASE panes' = panes
      BY <2>2, <3>1 DEF Shows, Text
    <3>2. CASE Arrives(a)
      BY <1>0, <1>3, <1>6, <2>2, <3>2, OtherArrives
    <3> QED
      BY <1>4, <3>1, <3>2
  <2>3. Awaited(i) => Awaited(i)'
    BY <1>0, <2>2 DEF Awaited
  <2>4. Copied(i) => Copied(i)'
    BY <1>0, <1>5 DEF Copied
  <2>5. ASSUME Settles(i) PROVE Settles(i)'
    <3>1. PICK v \in SUBSET View : Shows(i, v) /\ Becomes(i, v, AsStored(i))
      BY <2>5 DEF Settles
    <3>2. Shows(i, v)'
      BY <2>2, <3>1
    <3>3. Becomes(i, v, AsStored(i))'
      BY <1>0, <3>1 DEF Becomes, Leads, AsStored
    <3> QED
      BY <3>2, <3>3 DEF Settles
  <2> QED
    BY <1>0, <2>1, <2>3, <2>4, <2>5 DEF CleanOK, Before
<1>7. CASE m.id = i
  <2>1. In(history, i) /\ ~In(history', i)
    BY <1>3, <1>5, <1>7 DEF In
  <2>2. Awaited(i) /\ Copied(i)
    BY <1>0, <2>1 DEF CleanOK
  <2>3. PICK s \in 1..Len(stored) : stored[s] = m
    BY <1>3, <1>5, <1>7, <2>2 DEF Copied
  <2>4. KindOf[i] # "dm" /\ Arrives(a)
    BY <1>4, <1>7, <2>2, <2>3 DEF Awaited
  <2>5. a = m
    <3>1. CASE m.likes # {} /\ Has(stored, m.id)
      <4>1. Find(stored, m.id) \in 1..Len(stored) /\ stored[Find(stored, m.id)].id = m.id
        BY <1>0, <3>1, FindIs DEF Has
      <4>2. Find(stored, m.id) = s
        BY <2>3, <4>1 DEF OneEach
      <4>3. a = [m EXCEPT !.likes = m.likes]
        BY <1>2, <2>3, <3>1, <4>2 DEF AsWritten
      <4> QED
        BY <1>3, <4>3 DEF Message
    <3>2. CASE ~(m.likes # {} /\ Has(stored, m.id))
      BY <1>2, <3>2 DEF AsWritten
    <3> QED
      BY <3>1, <3>2
  <2>6. PICK x : x = ViewOf(m)
    OBVIOUS
  <2>7. x \in View /\ x.rev = m.rev
    BY <1>0, <1>3, <2>5, <2>6, ViewIs DEF ViewOf
  <2>8. Shows(i, {x})'
    BY <1>0, <1>3, <1>7, <2>2, <2>4, <2>5, <2>6, NewArrives DEF Awaited
  <2>9. Becomes(i, {x}, {x})
    <3>1. \A k \in 1..Len(live) : live[k].msg.id = i =>
            live[k].op = "edit" /\ ((\A l \in (k + 1)..Len(live) : live[l].msg.id # i) => live[k].msg.rev = x.rev)
      BY <1>7, <2>2, <2>3, <2>7 DEF Awaited
    <3> QED
      BY <1>0, <2>7, <3>1, EditsBecome
  <2>10. AsStored(i) = {x}
    BY <1>7, <2>3, <2>6, StoredIs
  <2>11. Settles(i)'
    <3>1. Becomes(i, {x}, {x})' /\ AsStored(i)' = {x}
      BY <1>0, <2>9, <2>10 DEF Becomes, Leads, AsStored
    <3>2. {x} \in SUBSET View
      BY <2>7
    <3> QED
      BY <2>8, <3>1, <3>2 DEF Settles
  <2> QED
    BY <1>0, <2>1, <2>11 DEF CleanOK, Before
<1> QED
  BY <1>6, <1>7

\* A step that is neither of the node's store nor of what the client reads.
LEMMA CleanSame ==
  ASSUME TypeInv, NEW i, CleanOK(i), UNCHANGED <<live, stored, history>>, \A p \in Panes : Text(p)' = Text(p),
         (phase' = phase) \/ (Before /\ phase' # "replay")
  PROVE  CleanOK(i)'
<1>1. \A v : Shows(i, v)' <=> Shows(i, v)
  BY DEF Shows
<1>2. Awaited(i) => Awaited(i)'
  BY <1>1 DEF Awaited
<1>3. Copied(i) => Copied(i)'
  BY DEF Copied
<1>4. ASSUME Settles(i) PROVE Settles(i)'
  <2>1. PICK v \in SUBSET View : Shows(i, v) /\ Becomes(i, v, AsStored(i))
    BY <1>4 DEF Settles
  <2>2. Shows(i, v)' /\ Becomes(i, v, AsStored(i))'
    BY <1>1, <2>1 DEF Becomes, Leads, AsStored
  <2> QED
    BY <2>2 DEF Settles
<1> QED
  BY <1>2, <1>3, <1>4 DEF CleanOK, Before

\* Why a message is not as it is stored is not forgotten.
LEMMA GhostsGrow ==
  ASSUME NodeInv, [Next]_vars
  PROVE  raced \subseteq raced' /\ unheard \subseteq unheard' /\ again \subseteq again'
<1>0. NodeCore
  BY DEF NodeInv
<1>1. ASSUME NEW op, NEW m, Tell(op, m) PROVE raced \subseteq raced' /\ unheard \subseteq unheard'
  BY <1>1 DEF Tell
<1>2. CASE UNCHANGED ghosts
  BY <1>2 DEF ghosts
<1>3. ASSUME NEW i, NEW p, Publish(i, p) PROVE raced \subseteq raced' /\ unheard \subseteq unheard' /\ again \subseteq again'
  BY <1>1, <1>3 DEF Publish
<1>4. ASSUME NEW i \in Ids, Modify(i) PROVE raced \subseteq raced' /\ unheard \subseteq unheard' /\ again \subseteq again'
  <2>1. PICK op \in {"edit", "delete", "like"}, f \in 1..Len(stored), m \in Message : Modified(i, op, f, m)
    BY <1>0, <1>4, ModifyIs, Zenon
  <2> QED
    BY <1>1, <2>1 DEF Modified
<1>5. Handle => (\E i, p : Publish(i, p)) \/ UNCHANGED ghosts
  BY DEF Handle
<1>6. \A i \in Ids : Post(i) => \E j, p : Publish(j, p)
  BY DEF Post
<1>7. Looks \/ Sends \/ Register \/ JoinGeneral \/ Snapshot \/ Disconnect \/ ReceiveLive \/ ReceiveHistory \/ UNCHANGED vars
      => UNCHANGED ghosts
  BY LooksOnly DEF Sends, Type, MemberCommand, Keys, Register, JoinGeneral, Snapshot, Disconnect, ReceiveLive, ReceiveHistory,
                   vars, ghosts
<1> QED
  BY <1>2, <1>3, <1>4, <1>5, <1>6, <1>7, Steps

\* What is nowhere after a step is in order.
LEMMA NowhereThen == \A i : TypeInv' /\ Nowhere(i)' => CleanOK(i)'
<1>1. \A i : TypeInv /\ Nowhere(i) => CleanOK(i)
  BY NowhereIsOK
<1>2. (\A i : TypeInv /\ Nowhere(i) => CleanOK(i))'
  BY <1>1, PTL
<1> QED
  BY <1>2

\* Every step keeps clean messages in order.
LEMMA CleanStep ==
  ASSUME TypeInv, IdInv, CleanInv, [Next]_vars
  PROVE  CleanInv'
<1>0. /\ NodeInv /\ NodeCore /\ ScreenInv /\ outbox \in Seq(Command)
      /\ OneEach(stored) /\ OneEach(history) /\ OneEach(stored') /\ OneEach(history')
  BY StoredOnce DEF TypeInv, NodeInv, IdInv
<1> SUFFICES ASSUME NEW i \in Ids, Clean(i)' PROVE CleanOK(i)'
  BY DEF CleanInv
<1>1. i \in sent => Clean(i)
  BY <1>0, GhostsGrow DEF Clean
\* It is posted.
<1>2. CASE Post(i)
  <2>1. /\ Publish(i, PaneOf[i]) /\ PaneOf[i] \in Panes /\ i \notin sent /\ UNCHANGED <<phase, history, panes>>
    BY <1>2, TuiAssumption DEF Post, uiVars
  <2>2. Nowhere(i)
    BY <2>1 DEF IdInv
  <2> QED
    BY <1>0, <2>1, <2>2, CleanPosted
<1>3. CASE Handle /\ Waits(i, 1)
  <2> DEFINE o == Head(outbox)
  <2>1. outbox # <<>> /\ UNCHANGED <<phase, history, panes>>
    BY <1>3 DEF Handle, uiVars
  <2>2. o = outbox[1] /\ o \in Command /\ 1 \in 1..Len(outbox)
    BY <1>0, <2>1, TailIs
  <2>3. o.op = "chat" /\ o.id = i /\ o.pane \in Panes
    BY <1>3, <2>2 DEF Waits, Command
  <2>4. Publish(i, o.pane)
    BY <1>3, <2>3 DEF Handle
  <2>5. Nowhere(i)
    BY <1>3, <2>2 DEF IdInv, Waiting
  <2> HIDE DEF o
  <2> QED
    BY <1>0, <2>1, <2>3, <2>4, <2>5, CleanPosted
\* It is nowhere still.
<1>4. CASE i \notin sent /\ ~Post(i) /\ ~(Handle /\ Waits(i, 1))
  <2>1. Nowhere(i)'
    BY <1>4, NowhereStays DEF IdInv
  <2>2. TypeInv'
    BY TypeStep
  <2> QED
    BY <2>1, <2>2, NowhereThen
\* It was posted before.
<1>5. CASE i \in sent /\ ~Post(i) /\ ~(Handle /\ Waits(i, 1))
  <2>0. CleanOK(i)
    BY <1>1, <1>5 DEF CleanInv
  <2>1. panes' = panes => \A p \in Panes : Text(p)' = Text(p)
    BY DEF Text
  <2>2. CASE Looks \/ Sends \/ Register \/ JoinGeneral \/ UNCHANGED vars
    <3>1. UNCHANGED <<live, stored, history>> /\ (Looks \/ panes' = panes)
          /\ (phase' = phase \/ (Before /\ phase' # "replay"))
      BY <2>2, LooksOnly DEF Sends, Type, MemberCommand, Keys, Register, JoinGeneral, vars, uiVars, connVars, nodeVars, Before
    <3>2. \A p \in Panes : Text(p)' = Text(p)
      BY <1>0, <2>1, <3>1, LooksTexts
    <3> QED
      BY <2>0, <3>1, <3>2, CleanSame
  <2>3. CASE Snapshot
    BY <2>0, <2>3, CleanCopied
  <2>4. CASE Disconnect
    BY <2>4 DEF Disconnect, CleanOK, Before
  <2>5. CASE Modify(i)
    BY <1>0, <2>0, <2>5, CleanChanged
  <2>6. ASSUME NEW j \in Ids, j # i, Modify(j) PROVE CleanOK(i)'
    <3>1. PICK op \in {"edit", "delete", "like"}, f \in 1..Len(stored), m \in Message : Modified(j, op, f, m)
      BY <1>0, <2>6, ModifyIs, Zenon
    <3>2. /\ \A x : x.id = i => (IsStored(x)' <=> IsStored(x))
          /\ live' = live \/ \E e \in Events : e.msg.id # i /\ live' = Append(live, e)
      BY <1>0, <2>6, <3>1, ModifiedOthers
    <3>3. UNCHANGED <<phase, history, panes>>
      BY <2>6 DEF Modify, uiVars
    <3> QED
      BY <2>0, <3>2, <3>3, CleanElsewhere
  <2>7. ASSUME NEW j \in Ids, j # i, NEW p \in Panes, Publish(j, p), UNCHANGED <<phase, history, panes>> PROVE CleanOK(i)'
    <3>1. /\ \A x : x.id = i => (IsStored(x)' <=> IsStored(x))
          /\ live' = live \/ \E e \in Events : e.msg.id # i /\ live' = Append(live, e)
      BY <1>0, <2>7, PublishOthers
    <3> QED
      BY <2>0, <2>7, <3>1, CleanElsewhere
  <2>8. ASSUME NEW j \in Ids, Post(j) PROVE CleanOK(i)'
    <3>1. Publish(j, PaneOf[j]) /\ PaneOf[j] \in Panes /\ j # i /\ UNCHANGED <<phase, history, panes>>
      BY <1>5, <2>8, TuiAssumption DEF Post, uiVars
    <3> QED
      BY <2>7, <3>1
  <2>9. CASE Handle
    <3> DEFINE o == Head(outbox)
    <3>1. /\ outbox # <<>> /\ UNCHANGED <<phase, history, panes>>
          /\ (o.op = "chat" /\ Publish(o.id, o.pane)) \/ UNCHANGED <<stored, live>>
      BY <2>9 DEF Handle, uiVars
    <3>2. o = outbox[1] /\ o \in Command
      BY <1>0, <3>1, TailIs
    <3>3. CASE o.op = "chat" /\ Publish(o.id, o.pane)
      <4>1. o.id \in Ids /\ o.pane \in Panes /\ o.id # i
        BY <1>5, <2>9, <3>2, <3>3 DEF Command, Waits
      <4> HIDE DEF o
      <4> QED
        BY <2>7, <3>1, <3>3, <4>1
    <3>4. CASE UNCHANGED <<stored, live>>
      BY <2>0, <2>1, <3>1, <3>4, CleanSame
    <3> QED
      BY <3>1, <3>3, <3>4
  <2>10. CASE ReceiveLive
    BY <2>0, <2>10, CleanRead
  <2>11. CASE ReceiveHistory
    BY <1>0, <2>0, <2>11, CleanReplayed
  <2> QED
    BY <2>2, <2>3, <2>4, <2>5, <2>6, <2>8, <2>9, <2>10, <2>11, Steps
<1> QED
  BY <1>2, <1>3, <1>4, <1>5

\* When nothing is under way, what is on the screen of a clean message is what is
\* stored of it.
LEMMA QuietAgrees == TypeInv /\ IdInv /\ CleanInv => ScreenAgrees
<1> SUFFICES ASSUME TypeInv, IdInv, CleanInv, Quiet, NEW i \in sent \ (raced \cup unheard \cup again),
                    KindOf[i] \in {"chat", "dm", "typed"}, NEW p \in DOMAIN panes
             PROVE  IF Has(stored, i) /\ stored[Find(stored, i)].pane = p
                    THEN LET m == stored[Find(stored, i)] IN
                           \E k \in DOMAIN panes[p].msgs :
                             /\ Copies(i, p) = {k}
                             /\ panes[p].msgs[k] = [id |-> i, rev |-> m.rev, likes |-> Cardinality(m.likes)]
                    ELSE Copies(i, p) = {}
  BY DEF ScreenAgrees
<1>0. /\ NodeCore /\ ScreenInv /\ stored \in Seq(Message) /\ OneEach(stored) /\ i \in Ids /\ p \in Panes
  BY DEF TypeInv, NodeInv, NodeCore, ScreenInv, IdInv
<1>1. phase = "replay" /\ live = <<>> /\ history = <<>> /\ Len(<<>>) = 0
  BY DEF Quiet
<1>2. CleanOK(i)
  BY <1>0 DEF CleanInv, Clean
<1>3. Settles(i)
  BY <1>1, <1>2, NothingInEmpty DEF CleanOK
<1>4. PICK v \in SUBSET View : Shows(i, v) /\ Becomes(i, v, AsStored(i))
  BY <1>3 DEF Settles
<1>5. Shows(i, AsStored(i))
  BY <1>1, <1>4 DEF Becomes
<1> DEFINE s == panes[p].msgs
           f == Find(stored, i)
<1>6. s = Text(p) /\ s \in Seq(Shown) /\ DOMAIN s = 1..Len(s)
  BY <1>0, PaneIs DEF Text
<1>7. ShowsIn(s, i, p, AsStored(i))
  BY <1>0, <1>5, <1>6 DEF Shows
<1>8. CASE Has(stored, i)
  <2>1. f \in 1..Len(stored) /\ stored[f].id = i
    BY <1>0, <1>8, FindIs DEF Has
  <2>2. AsStored(i) = {ViewOf(stored[f])}
    BY <1>0, <2>1, StoredIs
  <2> DEFINE m == stored[f]
  <2>3. ViewOf(m).pane = m.pane /\ ViewOf(m).rev = m.rev /\ ViewOf(m).likes = Cardinality(m.likes)
    BY DEF ViewOf
  <2> HIDE DEF m
  <2>4. CASE m.pane = p
    <3>1. PICK k \in 1..Len(s) : /\ s[k] = [id |-> i, rev |-> m.rev, likes |-> Cardinality(m.likes)]
                                 /\ \A l \in 1..Len(s) : s[l].id = i => l = k
      BY <1>7, <2>2, <2>3, <2>4 DEF ShowsIn, m
    <3>2. s[k].id = i
      BY <3>1
    <3>3. Copies(i, p) = {k}
      BY <1>6, <3>1, <3>2 DEF Copies
    <3> QED
      BY <1>6, <1>8, <2>4, <3>1, <3>3 DEF m
  <2>5. CASE m.pane # p
    <3>1. ~In(s, i)
      BY <1>7, <2>2, <2>3, <2>5 DEF ShowsIn, m
    <3>2. Copies(i, p) = {}
      BY <1>6, <3>1 DEF Copies, In
    <3> QED
      BY <2>5, <3>2 DEF m
  <2> QED
    BY <2>4, <2>5
<1>9. CASE ~Has(stored, i)
  <2>1. AsStored(i) = {}
    BY <1>0, <1>9, FindIs, NotStored
  <2>2. ~In(s, i)
    BY <1>7, <2>1 DEF ShowsIn
  <2>3. Copies(i, p) = {}
    BY <1>6, <2>2 DEF Copies, In
  <2> QED
    BY <1>9, <2>3
<1> QED
  BY <1>8, <1>9

\* Nothing is posted at the start.
LEMMA CleanInit == Init => CleanInv
BY DEF Init, CleanInv, Clean

\* What was not caught in the login, what the node sent here every time and what nobody
\* reacted to twice is on the screen as it is stored, once nothing is under way: once,
\* in its own channel, with its last text and its reactions, or not at all.
\* Model.handleServerMessage, internal/tui/model.go, against the replay of
\* handleConnection, internal/node/client.go, and the events of /edit, /delete and
\* /react, internal/node/commands.go.
THEOREM TheScreenAgrees == Spec => []ScreenAgrees
<1>1. Init => TypeInv /\ IdInv /\ CleanInv
  BY TypeInit, IdInit, CleanInit
<1>2. TypeInv /\ IdInv /\ CleanInv /\ [Next]_vars => (TypeInv /\ IdInv /\ CleanInv)'
  BY TypeStep, IdStep, CleanStep
<1>3. TypeInv /\ IdInv /\ CleanInv => ScreenAgrees
  BY QuietAgrees
<1> QED
  BY <1>1, <1>2, <1>3, PTL DEF Spec

=============================================================================
