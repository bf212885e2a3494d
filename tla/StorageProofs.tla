--------------------------- MODULE StorageProofs ---------------------------
(***************************************************************************)
(* For any capacity, any messages and any number of operations and faults: *)
(*  - the file has the acknowledged messages that are in memory, in the    *)
(*    same order, and a restart finds them after a shutdown or a crash;    *)
(*  - what the flat list has of a channel is the end of the channel's own  *)
(*    list;                                                                *)
(*  - a page is the window its query asks for, and paging misses nothing.  *)
(*                                                                         *)
(* The operators on lists come first.  A list read back, deleted from or   *)
(* selected from is a Part of another; one at the end of another is EndOf  *)
(* it; Only, which is recursive, is shown to commute with everything that  *)
(* the operations do to a list.                                            *)
(***************************************************************************)
EXTENDS Paging, WellFoundedInduction, TLAPS

\* Messages, changed any number of times.
Entry == [id : Ids, rev : Nat, likes : SUBSET Users]

\* The smallest of a set of numbers is one of them.
LEMMA MinIsMember ==
  ASSUME NEW S \in SUBSET Nat, S # {}
  PROVE  Min(S) \in S
<1> DEFINE Less == {ss \in Nat \X Nat : ss[1] < ss[2]}
<1>1. IsWellFoundedOn(Less, Nat)
  BY NatLessThanWellFounded DEF OpToRel
<1> HIDE DEF Less
<1>2. PICK n \in S : \A m \in S : ~(<<m, n>> \in Less)
  BY <1>1, WFMin
<1>3. \A i, j \in Nat : i < j => <<i, j>> \in Less
  BY DEF Less
<1>4. \A m \in S : ~(m < n)
  BY <1>2, <1>3, Zenon
<1>5. \A m \in S : n <= m
  BY <1>4
<1> QED
  BY <1>5 DEF Min

\* A message is found at a place of the list, or not at all.
LEMMA FindTypes ==
  ASSUME NEW s \in Seq(Entry), NEW i
  PROVE  Find(s, i) \in 0..Len(s)
<1> DEFINE I == {k \in 1..Len(s) : s[k].id = i}
<1>1. Find(s, i) = IF I # {} THEN Min(I) ELSE 0
  BY DEF Find, SelectInSeq
<1>2. I \in SUBSET Nat /\ I \subseteq 1..Len(s) /\ Len(s) \in Nat
  OBVIOUS
<1> HIDE DEF I
<1>3. I # {} => Min(I) \in 1..Len(s)
  BY <1>2, MinIsMember
<1> QED
  BY <1>1, <1>2, <1>3

\* A function on 1..n is a list.
LEMMA ListOf ==
  ASSUME NEW n \in Nat, NEW f \in [1..n -> Entry]
  PROVE  f \in Seq(Entry) /\ Len(f) = n
OBVIOUS

\* Some messages of a list, in its order.
Part(t, s) ==
  /\ t \in Seq(Entry) /\ Len(t) <= Len(s) /\ IdsOf(t) \subseteq IdsOf(s)
  /\ \A i, j : Before(t, i, j) => Before(s, i, j)

\* A list whose places map to rising places of another is a part of it.
LEMMA PartBy ==
  ASSUME NEW s \in Seq(Entry), NEW t \in Seq(Entry), Len(t) <= Len(s),
         NEW place \in [1..Len(t) -> 1..Len(s)],
         \A k \in 1..Len(t) : t[k].id = s[place[k]].id,
         \A k, l \in 1..Len(t) : k < l => place[k] < place[l]
  PROVE  Part(t, s)
<1>1. IdsOf(t) \subseteq IdsOf(s)
  BY DEF IdsOf
<1>2. ASSUME NEW i, NEW j, Before(t, i, j) PROVE Before(s, i, j)
  <2>1. PICK k, l \in 1..Len(t) : k < l /\ t[k].id = i /\ t[l].id = j
    BY <1>2 DEF Before
  <2>2. place[k] \in 1..Len(s) /\ place[l] \in 1..Len(s) /\ place[k] < place[l]
    BY <2>1
  <2>3. s[place[k]].id = i /\ s[place[l]].id = j
    BY <2>1
  <2> QED
    BY <2>2, <2>3 DEF Before
<1> QED
  BY <1>1, <1>2 DEF Part

\* The same ids at the same places.
SameIds(t, s) ==
  t \in Seq(Entry) /\ Len(t) = Len(s) /\ \A k \in 1..Len(s) : t[k].id = s[k].id

\* They make a part.
LEMMA SameIsPart == ASSUME NEW s \in Seq(Entry), NEW t, SameIds(t, s) PROVE Part(t, s)
BY DEF SameIds, Part, IdsOf, Before

\* Edits and reactions leave every message at its place.
LEMMA ChangedInPlace ==
  ASSUME NEW s \in Seq(Entry), NEW i
  PROVE  SameIds(Edited(s, i), s) /\ \A u \in Users : SameIds(Liked(s, i, u), s)
<1>1. Len(s) \in Nat /\ DOMAIN s = 1..Len(s) /\ \A k \in 1..Len(s) : s[k] \in Entry
  OBVIOUS
<1>2. ASSUME NEW e \in Entry
      PROVE  [e EXCEPT !.rev = @ + 1] \in Entry /\ [e EXCEPT !.rev = @ + 1].id = e.id
  BY DEF Entry
<1>3. Edited(s, i) \in [1..Len(s) -> Entry] /\ \A k \in 1..Len(s) : Edited(s, i)[k].id = s[k].id
  BY <1>1, <1>2 DEF Edited
<1>4. ASSUME NEW u \in Users
      PROVE  SameIds(Liked(s, i, u), s)
  <2>1. ASSUME NEW e \in Entry
        PROVE  /\ [e EXCEPT !.likes = @ \cup {u}] \in Entry
               /\ [e EXCEPT !.likes = @ \cup {u}].id = e.id
    BY DEF Entry
  <2>2. /\ Liked(s, i, u) \in [1..Len(s) -> Entry]
        /\ \A k \in 1..Len(s) : Liked(s, i, u)[k].id = s[k].id
    BY <1>1, <2>1 DEF Liked
  <2> QED
    BY <1>1, <2>2, ListOf DEF SameIds
<1> QED
  BY <1>1, <1>3, <1>4, ListOf DEF SameIds

\* Where the messages of a concatenation come from.
LEMMA Joined ==
  ASSUME NEW a \in Seq(Entry), NEW b \in Seq(Entry)
  PROVE  /\ a \o b \in Seq(Entry) /\ Len(a \o b) = Len(a) + Len(b)
         /\ \A k \in 1..(Len(a) + Len(b)) :
              (a \o b)[k] = IF k <= Len(a) THEN a[k] ELSE b[k - Len(a)]
OBVIOUS

\* Deletion leaves the others in order.
LEMMA WithoutIsPart ==
  ASSUME NEW s \in Seq(Entry), NEW i
  PROVE  Part(Without(s, i), s)
<1> DEFINE f == Find(s, i)
           t == Without(s, i)
           n == Len(t)
<1>1. f \in 0..Len(s) /\ Len(s) \in Nat
  BY FindTypes
<1>2. CASE f = 0
  BY <1>2 DEF Without, Part
<1>3. CASE f # 0
  <2> DEFINE place == [k \in 1..n |-> IF k < f THEN k ELSE k + 1]
             a == SubSeq(s, 1, f - 1)
             b == SubSeq(s, f + 1, Len(s))
  <2>1. t = a \o b
    BY <1>3 DEF Without, RemoveAt
  <2> HIDE DEF f, t
  <2>2. a \in Seq(Entry) /\ Len(a) = f - 1 /\ \A k \in 1..(f - 1) : a[k] = s[k]
    BY <1>1, <1>3
  <2>3. /\ b \in Seq(Entry) /\ Len(b) = Len(s) - f
        /\ \A k \in 1..(Len(s) - f) : b[k] = s[f + k]
    BY <1>1, <1>3
  <2> HIDE DEF a, b
  <2>4. /\ t \in Seq(Entry) /\ n = Len(s) - 1
        /\ \A k \in 1..n : t[k] = IF k < f THEN a[k] ELSE b[k - (f - 1)]
    <3>1. Len(a) + Len(b) = Len(s) - 1 /\ \A k \in Int : k < f <=> k <= f - 1
      BY <1>1, <1>3, <2>2, <2>3
    <3>2. /\ t \in Seq(Entry) /\ n = Len(a) + Len(b)
          /\ \A k \in 1..n : t[k] = IF k <= Len(a) THEN a[k] ELSE b[k - Len(a)]
      <4>1. a \in Seq(Entry) /\ b \in Seq(Entry)
        BY <2>2, <2>3
      <4>2. /\ a \o b \in Seq(Entry) /\ Len(a \o b) = Len(a) + Len(b)
            /\ \A k \in 1..(Len(a) + Len(b)) :
                 (a \o b)[k] = IF k <= Len(a) THEN a[k] ELSE b[k - Len(a)]
        BY <4>1, Joined, Zenon
      <4> QED
        BY <2>1, <4>2, Zenon
    <3>3. n = Len(s) - 1
      BY <3>1, <3>2
    <3> HIDE DEF n
    <3>4. ASSUME NEW k \in 1..n
          PROVE  t[k] = IF k < f THEN a[k] ELSE b[k - (f - 1)]
      <4>1. k \in Int /\ (k < f <=> k <= Len(a))
        BY <1>1, <2>2, <3>1
      <4> QED
        BY <2>2, <3>2, <4>1
    <3> QED
      BY <3>2, <3>3, <3>4
  <2> HIDE DEF n
  <2>5. \A k \in 1..n : t[k] = s[place[k]] /\ place[k] \in 1..Len(s)
    BY <1>1, <1>3, <2>2, <2>3, <2>4
  <2>6. \A k, l \in 1..n : k < l => place[k] < place[l]
    BY <1>1, <1>3, <2>4
  <2>7. place \in [1..n -> 1..Len(s)]
    BY <2>5
  <2> HIDE DEF place
  <2>8. t \in Seq(Entry) /\ Len(t) <= Len(s) /\ Len(t) = n
    BY <1>1, <2>4 DEF n
  <2>9. Part(t, s)
    BY <2>5, <2>6, <2>7, <2>8, PartBy
  <2> QED
    BY <2>9 DEF t
<1> QED
  BY <1>2, <1>3

\* A stretch of a list is a part of it.
LEMMA StretchIsPart ==
  ASSUME NEW s \in Seq(Entry), NEW d \in Nat, NEW n \in Nat, d + n <= Len(s),
         NEW t \in Seq(Entry), Len(t) = n, \A k \in 1..n : t[k] = s[d + k]
  PROVE  Part(t, s)
<1> DEFINE place == [k \in 1..n |-> d + k]
<1>1. Len(s) \in Nat
  OBVIOUS
<1>2. place \in [1..n -> 1..Len(s)] /\ \A k \in 1..n : t[k].id = s[place[k]].id
  BY <1>1
<1>3. \A k, l \in 1..n : k < l => place[k] < place[l]
  OBVIOUS
<1>4. Len(t) <= Len(s)
  BY <1>1
<1> HIDE DEF place
<1> QED
  BY <1>2, <1>3, <1>4, PartBy

\* Where LoadAOF stops is a line of the file, and it stops at a long line only.
LEMMA ScannedTypes ==
  ASSUME disk \in Seq(Entry)
  PROVE  /\ Part(Scanned, disk)
         /\ IdsOf(disk) \cap Long = {} => Scanned = disk
<1> DEFINE I == {k \in 1..Len(disk) : disk[k].id \in Long}
           k == IF I # {} THEN Min(I) ELSE 0
<1>1. Scanned = IF k = 0 THEN disk ELSE SubSeq(disk, 1, k - 1)
  BY DEF Scanned, SelectInSeq
<1>2. I \in SUBSET Nat /\ I \subseteq 1..Len(disk) /\ Len(disk) \in Nat
  OBVIOUS
<1>3. IdsOf(disk) \cap Long = {} => I = {}
  <2>1. \A j \in I : disk[j].id \in IdsOf(disk) \cap Long
    BY DEF IdsOf
  <2> QED
    BY <2>1
<1> HIDE DEF I
<1>4. k \in 0..Len(disk)
  <2>1. I # {} => Min(I) \in 1..Len(disk)
    BY <1>2, MinIsMember
  <2> QED
    BY <1>2, <2>1
<1>5. IdsOf(disk) \cap Long = {} => k = 0
  BY <1>3
<1> HIDE DEF k
<1>6. CASE k = 0
  BY <1>1, <1>6 DEF Part
<1>7. CASE k # 0
  <2> DEFINE n == k - 1
             t == SubSeq(disk, 1, n)
  <2>1. n \in 0..Len(disk) /\ n \in Nat
    BY <1>2, <1>4, <1>7
  <2> HIDE DEF n
  <2>2. t \in Seq(Entry) /\ Len(t) = n /\ \A j \in 1..n : t[j] = disk[j]
    BY <1>2, <2>1
  <2>3. Scanned = t
    BY <1>1, <1>7 DEF n
  <2> HIDE DEF t
  <2>4. 0 \in Nat /\ 0 + n <= Len(disk) /\ \A j \in 1..n : t[j] = disk[0 + j]
    BY <1>2, <2>1, <2>2
  <2>5. Part(t, disk)
    BY <2>1, <2>2, <2>4, StretchIsPart
  <2> QED
    BY <1>5, <1>7, <2>3, <2>5
<1> QED
  BY <1>6, <1>7

\* The newest messages of a list are its last ones, as many as there is room for.
LEMMA NewestTypes ==
  ASSUME NEW s \in Seq(Entry)
  PROVE  /\ Part(Newest(s), s) /\ Len(Newest(s)) <= Capacity
         /\ \E d \in 0..Len(s) :
              /\ Len(Newest(s)) = Len(s) - d /\ (d # 0 => Len(s) - d = Capacity)
              /\ \A k \in 1..(Len(s) - d) : Newest(s)[k] = s[d + k]
<1>1. Len(s) \in Nat /\ Capacity \in Nat \ {0}
  BY StorageAssumption
<1>2. CASE Len(s) <= Capacity
  BY <1>1, <1>2 DEF Newest, Part
<1>3. CASE Len(s) > Capacity
  <2> DEFINE d == Len(s) - Capacity
             t == SubSeq(s, d + 1, Len(s))
  <2>1. Newest(s) = t /\ d \in 0..Len(s) /\ d + Capacity = Len(s)
    BY <1>1, <1>3 DEF Newest
  <2>2. /\ t \in Seq(Entry) /\ Len(t) = Capacity
        /\ \A j \in 1..Capacity : t[j] = s[d + j] /\ d + j \in 1..Len(s)
    BY <1>1, <2>1
  <2> HIDE DEF d, t
  <2>3. Part(t, s)
    <3>1. d \in Nat /\ Capacity \in Nat /\ d + Capacity <= Len(s)
          /\ \A k \in 1..Capacity : t[k] = s[d + k]
      BY <1>1, <2>1, <2>2
    <3> QED
      BY <2>2, <3>1, StretchIsPart
  <2> QED
    BY <1>1, <2>1, <2>2, <2>3
<1> QED
  BY <1>1, <1>2, <1>3

-----------------------------------------------------------------------------
(* What Only does.  It is a recursive function, so what it computes is     *)
(* shown by induction over sets: a set of numbers with 0 and every         *)
(* successor has all numbers, since its complement has no smallest one.    *)

\* Induction on numbers.
LEMMA NatInd ==
  ASSUME NEW S \in SUBSET Nat, 0 \in S, \A n \in S : n + 1 \in S
  PROVE  \A n \in Nat : n \in S
<1> DEFINE Less == {ss \in Nat \X Nat : ss[1] < ss[2]}
           T == Nat \ S
<1>1. IsWellFoundedOn(Less, Nat)
  BY NatLessThanWellFounded DEF OpToRel
<1> HIDE DEF Less
<1> SUFFICES ASSUME T # {} PROVE FALSE
  OBVIOUS
<1>2. PICK n \in T : \A m \in T : ~(<<m, n>> \in Less)
  BY <1>1, WFMin
<1>3. \A i, j \in Nat : i < j => <<i, j>> \in Less
  BY DEF Less
<1>4. n # 0 /\ n - 1 \in Nat /\ n - 1 < n /\ (n - 1) + 1 = n
  BY <1>2
<1>5. n - 1 \notin T
  BY <1>2, <1>3, <1>4
<1> QED
  BY <1>2, <1>4, <1>5

\* What an append leaves and adds.
LEMMA AppendParts ==
  ASSUME NEW s \in Seq(Entry), NEW m \in Entry
  PROVE  /\ Append(s, m) \in Seq(Entry) /\ Len(s) \in Nat /\ Len(Append(s, m)) = Len(s) + 1
         /\ \A k \in 1..Len(s) : k \in 1..(Len(s) + 1) /\ Append(s, m)[k] = s[k]
         /\ Len(s) + 1 \in 1..(Len(s) + 1) /\ Append(s, m)[Len(s) + 1] = m
         /\ \A k \in 1..(Len(s) + 1) : k \in 1..Len(s) \/ k = Len(s) + 1
OBVIOUS

\* Lists with the same messages at the same places are the same.
LEMMA SameList ==
  ASSUME NEW s \in Seq(Entry), NEW t \in Seq(Entry), Len(s) = Len(t),
         \A k \in 1..Len(s) : s[k] = t[k]
  PROVE  s = t
<1>1. s = [k \in 1..Len(s) |-> s[k]] /\ t = [k \in 1..Len(t) |-> t[k]]
  OBVIOUS
<1> QED
  BY <1>1

\* Induction on lists: from a list to one with another message at its end.
LEMMA ListInd ==
  ASSUME NEW P \in SUBSET Seq(Entry), <<>> \in P,
         \A s \in P : \A m \in Entry : Append(s, m) \in P
  PROVE  \A s \in Seq(Entry) : s \in P
<1> DEFINE S == {n \in Nat : \A s \in Seq(Entry) : Len(s) = n => s \in P}
<1>1. 0 \in S
  <2> SUFFICES ASSUME NEW s \in Seq(Entry), Len(s) = 0 PROVE s \in P
    OBVIOUS
  <2>1. s = <<>>
    OBVIOUS
  <2> QED
    BY <2>1
<1>2. ASSUME NEW n \in S PROVE n + 1 \in S
  <2> SUFFICES ASSUME NEW s \in Seq(Entry), Len(s) = n + 1 PROVE s \in P
    OBVIOUS
  <2> DEFINE t == SubSeq(s, 1, n)
             m == s[n + 1]
  <2>1. n \in Nat /\ n + 1 \in 1..Len(s) /\ m \in Entry
    OBVIOUS
  <2>2. t \in Seq(Entry) /\ Len(t) = n /\ \A k \in 1..n : t[k] = s[k]
    BY <2>1
  <2>3. t \in P
    BY <2>2
  <2> DEFINE u == Append(t, m)
  <2>7. m = s[n + 1]
    OBVIOUS
  <2> HIDE DEF t, m
  <2>4. /\ u \in Seq(Entry) /\ Len(u) = n + 1
        /\ \A k \in 1..n : u[k] = t[k]
        /\ u[n + 1] = m /\ \A k \in 1..(n + 1) : k \in 1..n \/ k = n + 1
    BY <2>1, <2>2, AppendParts
  <2> HIDE DEF u
  <2>6. \A k \in 1..(n + 1) : u[k] = s[k]
    BY <2>2, <2>4, <2>7
  <2>5. s = u
    BY <2>4, <2>6, SameList
  <2> QED
    BY <2>1, <2>3, <2>5 DEF u
<1> HIDE DEF S
<1>3. \A n \in Nat : n \in S
  BY <1>1, <1>2, NatInd DEF S
<1> QED
  BY <1>3 DEF S

\* The body of Only.
KeptStep(s, keep, f, n) ==
  IF n = 0 THEN <<>>
  ELSE IF s[n].id \in keep THEN Append(f[n - 1], s[n]) ELSE f[n - 1]
IsKept(s, keep, f) == f = [n \in 0..Len(s) |-> KeptStep(s, keep, f, n)]

\* Only is a value of the function that its body defines.
LEMMA OnlyChosen ==
  ASSUME NEW s, NEW keep PROVE Only(s, keep) = (CHOOSE f : IsKept(s, keep, f))[Len(s)]
BY DEF Only, IsKept, KeptStep

\* The function that Only speaks of exists.
LEMMA KeptExists ==
  ASSUME NEW s \in Seq(Entry), NEW keep PROVE \E f : IsKept(s, keep, f)
<1> DEFINE S == {n \in Nat : n <= Len(s) =>
                   \E f : f = [k \in 0..n |-> KeptStep(s, keep, f, k)]}
<1>1. 0 \in S
  <2> DEFINE f == [k \in 0..0 |-> <<>>]
  <2>1. f = [k \in 0..0 |-> KeptStep(s, keep, f, k)]
    BY DEF KeptStep
  <2> QED
    BY <2>1
<1>2. ASSUME NEW n \in S PROVE n + 1 \in S
  <2> SUFFICES ASSUME n + 1 <= Len(s)
               PROVE  \E g : g = [k \in 0..(n + 1) |-> KeptStep(s, keep, g, k)]
    OBVIOUS
  <2>1. n \in Nat /\ Len(s) \in Nat /\ n <= Len(s)
    OBVIOUS
  <2>2. PICK f : f = [k \in 0..n |-> KeptStep(s, keep, f, k)]
    BY <2>1
  <2> DEFINE g == [k \in 0..(n + 1) |-> IF k = n + 1 THEN KeptStep(s, keep, f, n + 1) ELSE f[k]]
  <2>3. \A k \in 0..n : k \in 0..(n + 1) /\ k # n + 1 /\ g[k] = f[k]
    BY <2>1
  <2>4. ASSUME NEW k \in 0..(n + 1) PROVE g[k] = KeptStep(s, keep, g, k)
    <3>1. k # 0 => k - 1 \in 0..n
      BY <2>1
    <3>2. k # 0 => g[k - 1] = f[k - 1]
      BY <2>3, <3>1
    <3>3. KeptStep(s, keep, g, k) = KeptStep(s, keep, f, k)
      BY <3>2 DEF KeptStep
    <3>4. g[k] = KeptStep(s, keep, f, k)
      <4>1. CASE k = n + 1
        BY <4>1
      <4>2. CASE k # n + 1
        <5>1. k \in 0..n
          BY <2>1, <4>2
        <5> QED
          BY <2>2, <2>3, <5>1
      <4> QED
        BY <4>1, <4>2
    <3> QED
      BY <3>3, <3>4
  <2>5. g = [k \in 0..(n + 1) |-> KeptStep(s, keep, g, k)]
    BY <2>4
  <2> QED
    BY <2>5
<1> S \in SUBSET Nat /\ Len(s) \in Nat
  OBVIOUS
<1> HIDE DEF S
<1>3. Len(s) \in S
  BY <1>1, <1>2, NatInd
<1> QED
  BY <1>3 DEF S, IsKept

\* Only computes what its recursion says.
LEMMA OnlyIsKept ==
  ASSUME NEW s \in Seq(Entry), NEW keep
  PROVE  \E f : /\ f[0] = <<>> /\ Only(s, keep) = f[Len(s)]
                /\ \A n \in Nat : n + 1 <= Len(s) =>
                     f[n + 1] = IF s[n + 1].id \in keep THEN Append(f[n], s[n + 1]) ELSE f[n]
<1>1. PICK f : f = (CHOOSE g : IsKept(s, keep, g))
  OBVIOUS
<1>2. f = [n \in 0..Len(s) |-> KeptStep(s, keep, f, n)]
  BY <1>1, KeptExists DEF IsKept
<1>3. Only(s, keep) = f[Len(s)]
  BY <1>1, OnlyChosen
<1>4. f[0] = <<>>
  BY <1>2 DEF KeptStep
<1>5. ASSUME NEW n \in Nat, n + 1 <= Len(s)
      PROVE  f[n + 1] = IF s[n + 1].id \in keep THEN Append(f[n], s[n + 1]) ELSE f[n]
  <2>1. n + 1 \in 0..Len(s) /\ n + 1 # 0 /\ (n + 1) - 1 = n
    BY <1>5
  <2> QED
    BY <1>2, <2>1 DEF KeptStep
<1> QED
  BY <1>3, <1>4, <1>5

\* Nothing of nothing.
LEMMA OnlyEmpty == ASSUME NEW keep PROVE Only(<<>>, keep) = <<>>
<1>1. <<>> \in Seq(Entry) /\ Len(<<>>) = 0
  OBVIOUS
<1>2. PICK f : f[0] = <<>> /\ Only(<<>>, keep) = f[Len(<<>>)]
  BY <1>1, OnlyIsKept
<1> QED
  BY <1>1, <1>2

\* One more message is kept or not.
LEMMA OnlyAppend ==
  ASSUME NEW s \in Seq(Entry), NEW m \in Entry, NEW keep
  PROVE  Only(Append(s, m), keep) =
           IF m.id \in keep THEN Append(Only(s, keep), m) ELSE Only(s, keep)
<1> DEFINE t == Append(s, m)
<1>1. /\ t \in Seq(Entry) /\ Len(s) \in Nat /\ Len(t) = Len(s) + 1
      /\ \A k \in 1..Len(s) : t[k] = s[k]
      /\ t[Len(s) + 1] = m
  BY AppendParts
<1> HIDE DEF t
<1>2. PICK f : /\ f[0] = <<>> /\ Only(s, keep) = f[Len(s)]
               /\ \A n \in Nat : n + 1 <= Len(s) =>
                    f[n + 1] = IF s[n + 1].id \in keep THEN Append(f[n], s[n + 1]) ELSE f[n]
  BY OnlyIsKept
<1>3. PICK g : /\ g[0] = <<>> /\ Only(t, keep) = g[Len(t)]
               /\ \A n \in Nat : n + 1 <= Len(t) =>
                    g[n + 1] = IF t[n + 1].id \in keep THEN Append(g[n], t[n + 1]) ELSE g[n]
  BY <1>1, OnlyIsKept
<1> DEFINE S == {n \in Nat : n <= Len(s) => f[n] = g[n]}
<1>4. 0 \in S
  BY <1>2, <1>3
<1>5. ASSUME NEW n \in S PROVE n + 1 \in S
  <2> SUFFICES ASSUME n + 1 <= Len(s) PROVE f[n + 1] = g[n + 1]
    OBVIOUS
  <2>1. n \in Nat /\ n <= Len(s) /\ n + 1 <= Len(t) /\ n + 1 \in 1..Len(s)
    BY <1>1
  <2>2. f[n] = g[n] /\ t[n + 1] = s[n + 1]
    BY <1>1, <2>1
  <2> QED
    BY <1>2, <1>3, <2>1, <2>2
<1> HIDE DEF S
<1>6. Len(s) \in S
  BY <1>1, <1>4, <1>5, NatInd DEF S
<1>7. f[Len(s)] = g[Len(s)]
  BY <1>1, <1>6 DEF S
<1>8. g[Len(t)] = IF m.id \in keep THEN Append(g[Len(s)], m) ELSE g[Len(s)]
  BY <1>1, <1>3
<1> QED
  BY <1>2, <1>3, <1>7, <1>8 DEF t

\* What is kept is part of the list: in its order, and what has an id to keep.
LEMMA OnlyTypes ==
  ASSUME NEW s \in Seq(Entry), NEW keep
  PROVE  /\ Only(s, keep) \in Seq(Entry) /\ Len(Only(s, keep)) \in 0..Len(s)
         /\ Len(Only(s, keep)) = Len(s) => Only(s, keep) = s
         /\ \A k \in 1..Len(Only(s, keep)) :
              Only(s, keep)[k].id \in keep /\ \E l \in 1..Len(s) : s[l] = Only(s, keep)[k]
<1> DEFINE Good(t) == LET o == Only(t, keep) IN
             /\ o \in Seq(Entry) /\ Len(o) \in 0..Len(t)
             /\ Len(o) = Len(t) => o = t
             /\ \A k \in 1..Len(o) : o[k].id \in keep /\ \E l \in 1..Len(t) : t[l] = o[k]
           P == {t \in Seq(Entry) : Good(t)}
<1>1. <<>> \in P
  <2>1. Only(<<>>, keep) = <<>> /\ <<>> \in Seq(Entry) /\ Len(<<>>) = 0
    BY OnlyEmpty
  <2>2. Good(<<>>)
    <3> DEFINE o == Only(<<>>, keep)
    <3>1. o = <<>> /\ o \in Seq(Entry) /\ Len(o) = 0
      BY <2>1
    <3> HIDE DEF o
    <3>2. 1..Len(o) = {} /\ Len(o) \in 0..Len(<<>>)
      BY <2>1, <3>1
    <3> QED
      BY <3>1, <3>2 DEF o
  <2> QED
    BY <2>1, <2>2
<1>2. ASSUME NEW t \in P, NEW m \in Entry PROVE Append(t, m) \in P
  <2> DEFINE o == Only(t, keep)
             u == Append(t, m)
             p == Only(u, keep)
  <2>1. /\ t \in Seq(Entry) /\ o \in Seq(Entry) /\ Len(o) \in 0..Len(t)
        /\ Len(o) = Len(t) => o = t
        /\ \A k \in 1..Len(o) : o[k].id \in keep /\ \E l \in 1..Len(t) : t[l] = o[k]
    OBVIOUS
  <2>2. p = IF m.id \in keep THEN Append(o, m) ELSE o
    BY <2>1, OnlyAppend
  <2>3. /\ u \in Seq(Entry) /\ Len(t) \in Nat /\ Len(u) = Len(t) + 1
        /\ \A k \in 1..Len(t) : k \in 1..(Len(t) + 1) /\ u[k] = t[k]
        /\ Len(t) + 1 \in 1..(Len(t) + 1) /\ u[Len(t) + 1] = m
    BY <2>1, AppendParts
  <2> SUFFICES Good(u)
    BY <2>3
  <2>4. Len(o) = Len(t) /\ m.id \in keep => p = u
    BY <2>1, <2>2
  <2> HIDE DEF o, u, p
  <2>5. \A l \in 1..Len(t) : \E j \in 1..Len(u) : u[j] = t[l]
    BY <2>3
  <2>6. CASE m.id \in keep
    <3>1. /\ p \in Seq(Entry) /\ Len(p) = Len(o) + 1 /\ Len(o) \in Nat
          /\ \A k \in 1..Len(o) : p[k] = o[k]
          /\ p[Len(o) + 1] = m
          /\ \A k \in 1..(Len(o) + 1) : k \in 1..Len(o) \/ k = Len(o) + 1
      BY <2>1, <2>2, <2>6, AppendParts
    <3>2. Len(p) \in 0..Len(u) /\ (Len(p) = Len(u) => p = u)
      BY <2>1, <2>3, <2>4, <2>6, <3>1
    <3>3. ASSUME NEW k \in 1..Len(p)
          PROVE  p[k].id \in keep /\ \E j \in 1..Len(u) : u[j] = p[k]
      <4>1. CASE k \in 1..Len(o)
        BY <2>1, <2>5, <3>1, <4>1
      <4>2. CASE k = Len(o) + 1
        BY <2>3, <2>6, <3>1, <4>2
      <4> QED
        BY <3>1, <3>3, <4>1, <4>2
    <3> QED
      BY <3>1, <3>2, <3>3 DEF p
  <2>7. CASE m.id \notin keep
    <3>1. p = o
      BY <2>2, <2>7
    <3>2. Len(p) \in 0..Len(u) /\ Len(p) # Len(u)
      BY <2>1, <2>3, <3>1
    <3> QED
      BY <2>1, <2>5, <3>1, <3>2 DEF p
  <2> QED
    BY <2>6, <2>7
<1> HIDE DEF Good
<1>3. P \in SUBSET Seq(Entry)
  OBVIOUS
<1> HIDE DEF P
<1>4. s \in P
  BY <1>1, <1>2, <1>3, ListInd
<1>5. Good(s)
  BY <1>4 DEF P
<1> QED
  BY <1>5 DEF Good

\* What is kept of two lists in a row.
LEMMA OnlyJoined ==
  ASSUME NEW a \in Seq(Entry), NEW s \in Seq(Entry), NEW keep
  PROVE  Only(a \o s, keep) = Only(a, keep) \o Only(s, keep)
<1> DEFINE P == {b \in Seq(Entry) : Only(a \o b, keep) = Only(a, keep) \o Only(b, keep)}
<1>1. <<>> \in P
  <2>1. Only(a, keep) \in Seq(Entry)
    BY OnlyTypes
  <2>2. a \o <<>> = a /\ Only(a, keep) \o <<>> = Only(a, keep) /\ <<>> \in Seq(Entry)
    BY <2>1
  <2>3. Only(a \o <<>>, keep) = Only(a, keep) \o Only(<<>>, keep)
    BY <2>2, OnlyEmpty, Zenon
  <2> QED
    BY <2>2, <2>3
<1>2. ASSUME NEW b \in P, NEW m \in Entry PROVE Append(b, m) \in P
  <2>1. b \in Seq(Entry) /\ Only(a \o b, keep) = Only(a, keep) \o Only(b, keep)
    OBVIOUS
  <2>2. \A x, y \in Seq(Entry) : x \o y \in Seq(Entry) /\ x \o Append(y, m) = Append(x \o y, m)
    OBVIOUS
  <2>3. Only(a, keep) \in Seq(Entry) /\ Only(b, keep) \in Seq(Entry) /\ Append(b, m) \in Seq(Entry)
    BY <2>1, OnlyTypes, AppendParts
  <2>4. Only(Append(b, m), keep) = IF m.id \in keep THEN Append(Only(b, keep), m) ELSE Only(b, keep)
    BY <2>1, OnlyAppend
  <2>5. Only(a \o Append(b, m), keep) =
          IF m.id \in keep THEN Append(Only(a \o b, keep), m) ELSE Only(a \o b, keep)
    <3> DEFINE c == a \o b
    <3>1. c \in Seq(Entry) /\ a \o Append(b, m) = Append(c, m)
      BY <2>1, <2>2
    <3> HIDE DEF c
    <3>2. Only(Append(c, m), keep) = IF m.id \in keep THEN Append(Only(c, keep), m) ELSE Only(c, keep)
      BY <3>1, OnlyAppend
    <3> QED
      BY <3>1, <3>2, Zenon DEF c
  <2>6. Only(a \o Append(b, m), keep) = Only(a, keep) \o Only(Append(b, m), keep)
    <3>1. CASE m.id \in keep
      <4>1. Only(a \o Append(b, m), keep) = Append(Only(a, keep) \o Only(b, keep), m)
        BY <2>1, <2>5, <3>1, Zenon
      <4>2. Only(a, keep) \o Append(Only(b, keep), m) = Append(Only(a, keep) \o Only(b, keep), m)
        BY <2>2, <2>3, Zenon
      <4> QED
        BY <2>4, <3>1, <4>1, <4>2, Zenon
    <3>2. CASE m.id \notin keep
      BY <2>1, <2>4, <2>5, <3>2, Zenon
    <3> QED
      BY <3>1, <3>2
  <2> QED
    BY <2>3, <2>6
<1>3. P \in SUBSET Seq(Entry)
  OBVIOUS
<1> HIDE DEF P
<1>4. s \in P
  BY <1>1, <1>2, <1>3, ListInd
<1> QED
  BY <1>4 DEF P

\* Two selections in a row are one.
LEMMA OnlyOnly ==
  ASSUME NEW s \in Seq(Entry), NEW keep, NEW also
  PROVE  Only(Only(s, keep), also) = Only(s, keep \cap also)
<1> DEFINE P == {b \in Seq(Entry) : Only(Only(b, keep), also) = Only(b, keep \cap also)}
<1>1. <<>> \in P
  BY OnlyEmpty
<1>2. ASSUME NEW b \in P, NEW m \in Entry PROVE Append(b, m) \in P
  <2>1. b \in Seq(Entry) /\ Only(Only(b, keep), also) = Only(b, keep \cap also)
    OBVIOUS
  <2>2. Only(b, keep) \in Seq(Entry) /\ Append(b, m) \in Seq(Entry)
    BY <2>1, OnlyTypes
  <2>3. /\ Only(Append(b, m), keep) =
             IF m.id \in keep THEN Append(Only(b, keep), m) ELSE Only(b, keep)
        /\ Only(Append(b, m), keep \cap also) =
             IF m.id \in keep \cap also THEN Append(Only(b, keep \cap also), m)
             ELSE Only(b, keep \cap also)
        /\ Only(Append(Only(b, keep), m), also) =
             IF m.id \in also THEN Append(Only(Only(b, keep), also), m)
             ELSE Only(Only(b, keep), also)
    <3>1. \A x \in Seq(Entry) : \A some :
            Only(Append(x, m), some) =
              IF m.id \in some THEN Append(Only(x, some), m) ELSE Only(x, some)
      BY OnlyAppend
    <3> QED
      BY <2>1, <2>2, <3>1, Zenon
  <2>4. Only(Only(Append(b, m), keep), also) = Only(Append(b, m), keep \cap also)
    <3>1. CASE m.id \in keep /\ m.id \in also
      BY <2>1, <2>3, <3>1, Zenon
    <3>2. CASE m.id \in keep /\ m.id \notin also
      BY <2>1, <2>3, <3>2, Zenon
    <3>3. CASE m.id \notin keep
      BY <2>1, <2>3, <3>3, Zenon
    <3> QED
      BY <3>1, <3>2, <3>3
  <2> QED
    BY <2>2, <2>4
<1>3. P \in SUBSET Seq(Entry)
  OBVIOUS
<1> HIDE DEF P
<1>4. s \in P
  BY <1>1, <1>2, <1>3, ListInd
<1> QED
  BY <1>4 DEF P

\* Selections that agree on the ids of a list select the same.
LEMMA OnlyAgree ==
  ASSUME NEW s \in Seq(Entry), NEW keep, NEW also,
         \A k \in 1..Len(s) : s[k].id \in keep <=> s[k].id \in also
  PROVE  Only(s, keep) = Only(s, also)
<1> DEFINE Agree(b) == \A k \in 1..Len(b) : b[k].id \in keep <=> b[k].id \in also
           P == {b \in Seq(Entry) : Agree(b) => Only(b, keep) = Only(b, also)}
<1>1. <<>> \in P
  BY OnlyEmpty
<1>2. ASSUME NEW b \in P, NEW m \in Entry PROVE Append(b, m) \in P
  <2>1. b \in Seq(Entry) /\ (Agree(b) => Only(b, keep) = Only(b, also))
    OBVIOUS
  <2>2. /\ Append(b, m) \in Seq(Entry) /\ Len(Append(b, m)) = Len(b) + 1
        /\ \A k \in 1..Len(b) : k \in 1..(Len(b) + 1) /\ Append(b, m)[k] = b[k]
        /\ Len(b) + 1 \in 1..(Len(b) + 1) /\ Append(b, m)[Len(b) + 1] = m
    BY <2>1, AppendParts
  <2>3. Agree(Append(b, m)) => Agree(b) /\ (m.id \in keep <=> m.id \in also)
    BY <2>2
  <2> HIDE DEF Agree
  <2>4. /\ Only(Append(b, m), keep) =
             IF m.id \in keep THEN Append(Only(b, keep), m) ELSE Only(b, keep)
        /\ Only(Append(b, m), also) =
             IF m.id \in also THEN Append(Only(b, also), m) ELSE Only(b, also)
    BY <2>1, OnlyAppend
  <2> QED
    BY <2>1, <2>2, <2>3, <2>4
<1>3. P \in SUBSET Seq(Entry) /\ Agree(s)
  OBVIOUS
<1> HIDE DEF P
<1>4. s \in P
  BY <1>1, <1>2, <1>3, ListInd
<1> QED
  BY <1>3, <1>4 DEF P

\* All of it, if all of its ids are to be kept.
LEMMA OnlyAll ==
  ASSUME NEW s \in Seq(Entry), NEW keep, \A k \in 1..Len(s) : s[k].id \in keep
  PROVE  Only(s, keep) = s
<1> DEFINE Agree(b) == \A k \in 1..Len(b) : b[k].id \in keep
           P == {b \in Seq(Entry) : Agree(b) => Only(b, keep) = b}
<1>1. <<>> \in P
  BY OnlyEmpty
<1>2. ASSUME NEW b \in P, NEW m \in Entry PROVE Append(b, m) \in P
  <2>1. b \in Seq(Entry) /\ (Agree(b) => Only(b, keep) = b)
    OBVIOUS
  <2>2. /\ Append(b, m) \in Seq(Entry) /\ Len(Append(b, m)) = Len(b) + 1
        /\ \A k \in 1..Len(b) : k \in 1..(Len(b) + 1) /\ Append(b, m)[k] = b[k]
        /\ Len(b) + 1 \in 1..(Len(b) + 1) /\ Append(b, m)[Len(b) + 1] = m
    BY <2>1, AppendParts
  <2>3. Agree(Append(b, m)) => Agree(b) /\ m.id \in keep
    BY <2>2
  <2> HIDE DEF Agree
  <2>4. Only(Append(b, m), keep) =
          IF m.id \in keep THEN Append(Only(b, keep), m) ELSE Only(b, keep)
    BY <2>1, OnlyAppend
  <2> QED
    BY <2>1, <2>2, <2>3, <2>4
<1>3. P \in SUBSET Seq(Entry) /\ Agree(s)
  OBVIOUS
<1> HIDE DEF P, Agree
<1>4. s \in P
  BY <1>1, <1>2, <1>3, ListInd
<1> QED
  BY <1>3, <1>4 DEF P

\* Only what has an id to keep, one message.
LEMMA OnlyOne ==
  ASSUME NEW e \in Entry, NEW keep
  PROVE  Only(<<e>>, keep) = IF e.id \in keep THEN <<e>> ELSE <<>>
<1>1. <<>> \in Seq(Entry) /\ Append(<<>>, e) = <<e>>
  OBVIOUS
<1>2. Only(Append(<<>>, e), keep) = IF e.id \in keep THEN Append(Only(<<>>, keep), e) ELSE Only(<<>>, keep)
  BY <1>1, OnlyAppend
<1>3. Only(<<e>>, keep) = IF e.id \in keep THEN Append(<<>>, e) ELSE <<>>
  BY <1>1, <1>2, OnlyEmpty, Zenon
<1> QED
  BY <1>1, <1>3, Zenon

\* What an append puts before what.
LEMMA BeforeAppend ==
  ASSUME NEW s \in Seq(Entry), NEW m \in Entry, NEW a, NEW b
  PROVE  Before(Append(s, m), a, b) <=> Before(s, a, b) \/ (a \in IdsOf(s) /\ b = m.id)
<1> DEFINE t == Append(s, m)
           n == Len(s)
<1>1. /\ n \in Nat /\ Len(t) = n + 1
      /\ \A k \in 1..n : k \in 1..(n + 1) /\ t[k] = s[k]
      /\ n + 1 \in 1..(n + 1) /\ t[n + 1] = m
      /\ \A k \in 1..(n + 1) : k \in 1..n \/ k = n + 1
  BY AppendParts
<1> HIDE DEF t
<1>2. ASSUME Before(t, a, b) PROVE Before(s, a, b) \/ (a \in IdsOf(s) /\ b = m.id)
  <2>1. PICK k, l \in 1..(n + 1) : k < l /\ t[k].id = a /\ t[l].id = b
    BY <1>1, <1>2 DEF Before
  <2>2. k \in 1..n
    BY <1>1, <2>1
  <2>3. s[k].id = a /\ a \in IdsOf(s)
    BY <1>1, <2>1, <2>2 DEF IdsOf
  <2>4. CASE l \in 1..n
    BY <1>1, <2>1, <2>2, <2>3, <2>4 DEF Before
  <2>5. CASE l = n + 1
    BY <1>1, <2>1, <2>3, <2>5
  <2> QED
    BY <1>1, <2>1, <2>4, <2>5
<1>3. ASSUME Before(s, a, b) PROVE Before(t, a, b)
  <2>1. PICK k, l \in 1..n : k < l /\ s[k].id = a /\ s[l].id = b
    BY <1>3 DEF Before
  <2>2. k \in 1..Len(t) /\ l \in 1..Len(t) /\ t[k].id = a /\ t[l].id = b
    BY <1>1, <2>1
  <2> QED
    BY <2>1, <2>2 DEF Before
<1>4. ASSUME a \in IdsOf(s), b = m.id PROVE Before(t, a, b)
  <2>1. PICK k \in 1..n : s[k].id = a
    BY <1>4 DEF IdsOf
  <2>2. k \in 1..Len(t) /\ n + 1 \in 1..Len(t) /\ k < n + 1 /\ t[k].id = a /\ t[n + 1].id = b
    BY <1>1, <1>4, <2>1
  <2> QED
    BY <2>2 DEF Before
<1> QED
  BY <1>2, <1>3, <1>4 DEF t

\* What is kept stays in order.
LEMMA OnlyInOrder ==
  ASSUME NEW s \in Seq(Entry), NEW keep
  PROVE  \A a, b : Before(Only(s, keep), a, b) => Before(s, a, b)
<1> DEFINE Good(t) == \A a, b : Before(Only(t, keep), a, b) => Before(t, a, b)
           P == {t \in Seq(Entry) : Good(t)}
<1>1. <<>> \in P
  BY OnlyEmpty
<1>2. ASSUME NEW t \in P, NEW m \in Entry PROVE Append(t, m) \in P
  <2>1. t \in Seq(Entry) /\ Only(t, keep) \in Seq(Entry) /\ Append(t, m) \in Seq(Entry)
    BY OnlyTypes, AppendParts
  <2>2. IdsOf(Only(t, keep)) \subseteq IdsOf(t)
    BY <2>1, OnlyTypes DEF IdsOf
  <2>3. ASSUME NEW a, NEW b, Before(Only(Append(t, m), keep), a, b)
        PROVE  Before(Append(t, m), a, b)
    <3>1. Before(Only(t, keep), a, b) \/ (a \in IdsOf(Only(t, keep)) /\ b = m.id)
      <4> DEFINE o == Only(t, keep)
      <4>1. o \in Seq(Entry) /\ Only(Append(t, m), keep) = IF m.id \in keep THEN Append(o, m) ELSE o
        BY <2>1, OnlyAppend
      <4>2. Before(Append(o, m), a, b) <=> Before(o, a, b) \/ (a \in IdsOf(o) /\ b = m.id)
        BY <4>1, BeforeAppend
      <4> HIDE DEF o
      <4>3. CASE m.id \in keep
        BY <2>3, <4>1, <4>2, <4>3, Zenon DEF o
      <4>4. CASE m.id \notin keep
        BY <2>3, <4>1, <4>4, Zenon DEF o
      <4> QED
        BY <4>3, <4>4
    <3>2. Before(t, a, b) \/ (a \in IdsOf(t) /\ b = m.id)
      BY <2>1, <2>2, <3>1
    <3> QED
      BY <2>1, <3>2, BeforeAppend
  <2> QED
    BY <2>1, <2>3
<1>3. P \in SUBSET Seq(Entry)
  OBVIOUS
<1> HIDE DEF P
<1>4. s \in P
  BY <1>1, <1>2, <1>3, ListInd
<1> QED
  BY <1>4 DEF P

\* A list after a change of some of its messages.
Mapped(s, g) == [k \in 1..Len(s) |-> g[s[k]]]
\* Changes that leave the ids.
Changer == {g \in [Entry -> Entry] : \A e \in Entry : g[e].id = e.id}

\* A changed list has as many messages, with the same ids.
LEMMA MappedTypes ==
  ASSUME NEW s \in Seq(Entry), NEW g \in Changer
  PROVE  /\ Mapped(s, g) \in Seq(Entry) /\ Len(Mapped(s, g)) = Len(s)
         /\ \A k \in 1..Len(s) : Mapped(s, g)[k] = g[s[k]] /\ Mapped(s, g)[k].id = s[k].id
<1>1. Len(s) \in Nat /\ \A k \in 1..Len(s) : s[k] \in Entry
  OBVIOUS
<1>2. Mapped(s, g) \in [1..Len(s) -> Entry]
  BY <1>1 DEF Mapped, Changer
<1>3. \A k \in 1..Len(s) : Mapped(s, g)[k] = g[s[k]] /\ g[s[k]].id = s[k].id
  BY <1>1 DEF Mapped, Changer
<1> QED
  BY <1>1, <1>2, <1>3, ListOf

\* Changes of two lists in a row.
LEMMA MappedJoined ==
  ASSUME NEW a \in Seq(Entry), NEW b \in Seq(Entry), NEW g \in Changer
  PROVE  Mapped(a \o b, g) = Mapped(a, g) \o Mapped(b, g)
<1> DEFINE c == a \o b
           x == Mapped(a, g)
           y == Mapped(b, g)
<1>1. /\ c \in Seq(Entry) /\ Len(a) \in Nat /\ Len(b) \in Nat /\ Len(c) = Len(a) + Len(b)
      /\ \A k \in 1..(Len(a) + Len(b)) : c[k] = IF k <= Len(a) THEN a[k] ELSE b[k - Len(a)]
  BY Joined
<1>2. /\ x \in Seq(Entry) /\ Len(x) = Len(a) /\ \A k \in 1..Len(a) : x[k] = g[a[k]]
      /\ y \in Seq(Entry) /\ Len(y) = Len(b) /\ \A k \in 1..Len(b) : y[k] = g[b[k]]
  BY MappedTypes
<1> HIDE DEF c, x, y
<1> DEFINE z == x \o y
<1>3. /\ z \in Seq(Entry) /\ Len(z) = Len(a) + Len(b)
      /\ \A k \in 1..(Len(a) + Len(b)) : z[k] = IF k <= Len(a) THEN x[k] ELSE y[k - Len(a)]
  <2>1. /\ z \in Seq(Entry) /\ Len(z) = Len(x) + Len(y)
        /\ \A k \in 1..(Len(x) + Len(y)) : z[k] = IF k <= Len(x) THEN x[k] ELSE y[k - Len(x)]
    <3>1. x \in Seq(Entry) /\ y \in Seq(Entry)
      BY <1>2
    <3> QED
      BY <3>1, Joined, Zenon
  <2> QED
    BY <1>2, <2>1, Zenon
<1>4. Mapped(c, g) \in Seq(Entry) /\ Len(Mapped(c, g)) = Len(c) /\ \A k \in 1..Len(c) : Mapped(c, g)[k] = g[c[k]]
  BY <1>1, MappedTypes
<1> HIDE DEF z
<1>5. ASSUME NEW k \in 1..Len(c) PROVE Mapped(c, g)[k] = z[k]
  <2>1. k \in 1..(Len(a) + Len(b))
    BY <1>1
  <2>2. CASE k <= Len(a)
    <3>1. k \in 1..Len(a)
      BY <1>1, <2>1, <2>2
    <3>2. c[k] = a[k] /\ z[k] = x[k] /\ x[k] = g[a[k]]
      BY <1>1, <1>2, <1>3, <2>1, <2>2, <3>1
    <3> QED
      BY <1>4, <3>2
  <2>3. CASE ~(k <= Len(a))
    <3>1. k - Len(a) \in 1..Len(b)
      BY <1>1, <2>1, <2>3
    <3>2. c[k] = b[k - Len(a)] /\ z[k] = y[k - Len(a)] /\ y[k - Len(a)] = g[b[k - Len(a)]]
      BY <1>1, <1>2, <1>3, <2>1, <2>3, <3>1
    <3> QED
      BY <1>4, <3>2
  <2> QED
    BY <2>2, <2>3
<1>6. Mapped(c, g) = z
  BY <1>1, <1>3, <1>4, <1>5, SameList
<1> QED
  BY <1>6 DEF c, x, y, z

\* Changing and keeping commute.
LEMMA OnlyMapped ==
  ASSUME NEW s \in Seq(Entry), NEW g \in Changer, NEW keep
  PROVE  Only(Mapped(s, g), keep) = Mapped(Only(s, keep), g)
<1> DEFINE P == {t \in Seq(Entry) : Only(Mapped(t, g), keep) = Mapped(Only(t, keep), g)}
<1>1. <<>> \in P
  <2>1. <<>> \in Seq(Entry) /\ Len(<<>>) = 0
    OBVIOUS
  <2>2. Mapped(<<>>, g) \in Seq(Entry) /\ Len(Mapped(<<>>, g)) = 0
    BY <2>1, MappedTypes
  <2>3. Mapped(<<>>, g) = <<>>
    BY <2>2
  <2> QED
    BY <2>1, <2>3, OnlyEmpty
<1>2. ASSUME NEW t \in P, NEW m \in Entry PROVE Append(t, m) \in P
  <2>1. /\ t \in Seq(Entry) /\ Only(Mapped(t, g), keep) = Mapped(Only(t, keep), g)
        /\ Append(t, m) \in Seq(Entry) /\ g[m] \in Entry /\ g[m].id = m.id
    BY AppendParts DEF Changer
  <2>2. Mapped(t, g) \in Seq(Entry) /\ Only(t, keep) \in Seq(Entry)
    BY <2>1, MappedTypes, OnlyTypes
  <2>3. \A x \in Seq(Entry) : Mapped(Append(x, m), g) = Append(Mapped(x, g), g[m])
    <3> SUFFICES ASSUME NEW x \in Seq(Entry) PROVE Mapped(Append(x, m), g) = Append(Mapped(x, g), g[m])
      OBVIOUS
    <3>1. <<m>> \in Seq(Entry) /\ Append(x, m) = x \o <<m>> /\ Len(<<m>>) = 1
      OBVIOUS
    <3>2. Mapped(<<m>>, g) = <<g[m]>>
      <4>1. Mapped(<<m>>, g) \in Seq(Entry) /\ Len(Mapped(<<m>>, g)) = 1 /\ Mapped(<<m>>, g)[1] = g[m]
        <5> DEFINE v == <<m>>
        <5>1. v \in Seq(Entry) /\ Len(v) = 1 /\ 1 \in 1..Len(v) /\ v[1] = m
          OBVIOUS
        <5> HIDE DEF v
        <5>2. Mapped(v, g) \in Seq(Entry) /\ Len(Mapped(v, g)) = 1 /\ Mapped(v, g)[1] = g[m]
          BY <5>1, MappedTypes
        <5> QED
          BY <5>2 DEF v
      <4> QED
        BY <4>1
    <3>3. Mapped(x \o <<m>>, g) = Mapped(x, g) \o <<g[m]>>
      <4> DEFINE v == <<m>>
      <4>1. v \in Seq(Entry) /\ v = <<m>>
        BY <3>1
      <4> HIDE DEF v
      <4>2. Mapped(x \o v, g) = Mapped(x, g) \o Mapped(v, g)
        BY <4>1, MappedJoined
      <4> QED
        BY <3>2, <4>1, <4>2, Zenon
    <3>4. Mapped(x, g) \in Seq(Entry)
      BY MappedTypes
    <3>5. Mapped(x, g) \o <<g[m]>> = Append(Mapped(x, g), g[m])
      BY <2>1, <3>4
    <3> QED
      BY <3>1, <3>3, <3>5
  <2>4. /\ Only(Append(Mapped(t, g), g[m]), keep) =
             IF g[m].id \in keep THEN Append(Only(Mapped(t, g), keep), g[m]) ELSE Only(Mapped(t, g), keep)
        /\ Only(Append(t, m), keep) = IF m.id \in keep THEN Append(Only(t, keep), m) ELSE Only(t, keep)
    <3> DEFINE x == Mapped(t, g)
               y == g[m]
    <3>1. x \in Seq(Entry) /\ y \in Entry
      BY <2>1, <2>2
    <3> HIDE DEF x, y
    <3>2. Only(Append(x, y), keep) = IF y.id \in keep THEN Append(Only(x, keep), y) ELSE Only(x, keep)
      BY <3>1, OnlyAppend
    <3>3. Only(Append(t, m), keep) = IF m.id \in keep THEN Append(Only(t, keep), m) ELSE Only(t, keep)
      BY <2>1, OnlyAppend
    <3> QED
      BY <3>2, <3>3, Zenon DEF x, y
  <2>5. Only(Mapped(Append(t, m), g), keep) = Mapped(Only(Append(t, m), keep), g)
    <3>1. CASE m.id \in keep
      <4>1. Only(Mapped(Append(t, m), g), keep) = Append(Mapped(Only(t, keep), g), g[m])
        BY <2>1, <2>3, <2>4, <3>1, Zenon
      <4>2. Mapped(Only(Append(t, m), keep), g) = Append(Mapped(Only(t, keep), g), g[m])
        BY <2>2, <2>3, <2>4, <3>1, Zenon
      <4> QED
        BY <4>1, <4>2, Zenon
    <3>2. CASE m.id \notin keep
      <4>1. Only(Mapped(Append(t, m), g), keep) = Mapped(Only(t, keep), g)
        BY <2>1, <2>3, <2>4, <3>2, Zenon
      <4> QED
        BY <2>4, <3>2, <4>1, Zenon
    <3> QED
      BY <3>1, <3>2
  <2> QED
    BY <2>1, <2>5
<1>3. P \in SUBSET Seq(Entry)
  OBVIOUS
<1> HIDE DEF P
<1>4. s \in P
  BY <1>1, <1>2, <1>3, ListInd
<1> QED
  BY <1>4 DEF P

-----------------------------------------------------------------------------
(* Lists with at most one message of each id, and what the operations do to *)
(* them.                                                                    *)

OneEach(s) == \A k, l \in 1..Len(s) : s[k].id = s[l].id => k = l

\* That is, no id comes before itself.
LEMMA OneEachBefore ==
  ASSUME NEW s \in Seq(Entry) PROVE OneEach(s) <=> \A a : ~Before(s, a, a)
<1>1. Len(s) \in Nat
  OBVIOUS
<1>2. ASSUME NEW a, Before(s, a, a) PROVE ~OneEach(s)
  <2>1. PICK k, l \in 1..Len(s) : k < l /\ s[k].id = a /\ s[l].id = a
    BY <1>2 DEF Before
  <2>2. k # l
    BY <1>1, <2>1
  <2> QED
    BY <2>1, <2>2 DEF OneEach
<1>3. ASSUME ~OneEach(s) PROVE \E a : Before(s, a, a)
  <2>1. PICK k, l \in 1..Len(s) : s[k].id = s[l].id /\ k # l
    BY <1>3 DEF OneEach
  <2>2. k < l \/ l < k
    BY <1>1, <2>1
  <2> QED
    BY <2>1, <2>2 DEF Before
<1> QED
  BY <1>2, <1>3

\* A part of such a list is such a list.
LEMMA OneEachPart ==
  ASSUME NEW s \in Seq(Entry), OneEach(s), NEW t, Part(t, s)
  PROVE  OneEach(t)
<1>1. t \in Seq(Entry) /\ \A a : Before(t, a, a) => Before(s, a, a)
  BY DEF Part
<1> QED
  BY <1>1, OneEachBefore

\* So is one with a new message at its end.
LEMMA OneEachAppend ==
  ASSUME NEW s \in Seq(Entry), OneEach(s), NEW m \in Entry, m.id \notin IdsOf(s)
  PROVE  OneEach(Append(s, m))
<1>1. Append(s, m) \in Seq(Entry) /\ \A a : ~Before(s, a, a)
  BY AppendParts, OneEachBefore
<1>2. \A a : ~Before(Append(s, m), a, a)
  BY <1>1, BeforeAppend
<1> QED
  BY <1>1, <1>2, OneEachBefore

\* What is kept is a part, of the ids to keep.
LEMMA OnlyIsPart ==
  ASSUME NEW s \in Seq(Entry), NEW keep
  PROVE  Part(Only(s, keep), s) /\ IdsOf(Only(s, keep)) \subseteq keep
<1> DEFINE o == Only(s, keep)
<1>1. /\ o \in Seq(Entry) /\ Len(o) \in 0..Len(s)
      /\ \A k \in 1..Len(o) : o[k].id \in keep /\ \E l \in 1..Len(s) : s[l] = o[k]
      /\ \A a, b : Before(o, a, b) => Before(s, a, b)
  BY OnlyTypes, OnlyInOrder
<1> HIDE DEF o
<1>2. IdsOf(o) \subseteq IdsOf(s) \cap keep /\ Len(o) <= Len(s)
  BY <1>1 DEF IdsOf
<1> QED
  BY <1>1, <1>2 DEF Part, o

\* A message is found where it is, and is nowhere when it is not found.
LEMMA FindIs ==
  ASSUME NEW s \in Seq(Entry), NEW i
  PROVE  /\ Find(s, i) # 0 => s[Find(s, i)].id = i
         /\ Find(s, i) = 0 => i \notin IdsOf(s)
<1> DEFINE I == {k \in 1..Len(s) : s[k].id = i}
<1>1. Find(s, i) = IF I # {} THEN Min(I) ELSE 0
  BY DEF Find, SelectInSeq
<1>2. I \in SUBSET Nat /\ I \subseteq 1..Len(s) /\ Len(s) \in Nat
  OBVIOUS
<1>3. I = {} => i \notin IdsOf(s)
  BY DEF IdsOf
<1>4. \A k \in I : k # 0 /\ s[k].id = i
  BY <1>2
<1> HIDE DEF I
<1>5. I # {} => Min(I) \in I
  BY <1>2, MinIsMember
<1> QED
  BY <1>1, <1>3, <1>4, <1>5

\* What an edit and a reaction make of a message.
Raised(i) == [e \in Entry |-> IF e.id = i THEN [e EXCEPT !.rev = @ + 1] ELSE e]
Reacted(i, u) == [e \in Entry |-> IF e.id = i THEN [e EXCEPT !.likes = @ \cup {u}] ELSE e]

\* Both leave the ids.
LEMMA ChangersAre ==
  ASSUME NEW i PROVE Raised(i) \in Changer /\ \A u \in Users : Reacted(i, u) \in Changer
<1>1. ASSUME NEW e \in Entry
      PROVE  /\ [e EXCEPT !.rev = @ + 1] \in Entry /\ [e EXCEPT !.rev = @ + 1].id = e.id
             /\ \A u \in Users : /\ [e EXCEPT !.likes = @ \cup {u}] \in Entry
                                  /\ [e EXCEPT !.likes = @ \cup {u}].id = e.id
  BY DEF Entry
<1>2. Raised(i) \in [Entry -> Entry] /\ \A e \in Entry : Raised(i)[e].id = e.id
  BY <1>1 DEF Raised
<1>3. ASSUME NEW u \in Users
      PROVE  Reacted(i, u) \in [Entry -> Entry] /\ \A e \in Entry : Reacted(i, u)[e].id = e.id
  BY <1>1 DEF Reacted
<1> QED
  BY <1>2, <1>3 DEF Changer

\* Editing or liking the message found is changing every message of that id.
LEMMA EditedIsMapped ==
  ASSUME NEW s \in Seq(Entry), OneEach(s), NEW i, NEW u
  PROVE  Edited(s, i) = Mapped(s, Raised(i)) /\ Liked(s, i, u) = Mapped(s, Reacted(i, u))
<1> DEFINE f == Find(s, i)
<1>1. Len(s) \in Nat /\ DOMAIN s = 1..Len(s) /\ \A k \in 1..Len(s) : s[k] \in Entry
  OBVIOUS
<1>2. \A k \in 1..Len(s) : k = f <=> s[k].id = i
  <2>1. f \in 0..Len(s) /\ (f # 0 => s[f].id = i) /\ (f = 0 => i \notin IdsOf(s))
    BY FindTypes, FindIs
  <2> HIDE DEF f
  <2>2. ASSUME NEW k \in 1..Len(s), s[k].id = i PROVE k = f
    <3>1. f # 0
      BY <2>1, <2>2 DEF IdsOf
    <3>2. f \in 1..Len(s)
      BY <1>1, <2>1, <3>1
    <3> QED
      BY <2>1, <2>2, <3>1, <3>2 DEF OneEach
  <2> QED
    BY <2>1, <2>2, <1>1
<1> HIDE DEF f
<1>3. /\ Edited(s, i) = [k \in DOMAIN s |-> IF k = f THEN [s[k] EXCEPT !.rev = @ + 1] ELSE s[k]]
      /\ Liked(s, i, u) =
           [k \in DOMAIN s |-> IF k = f THEN [s[k] EXCEPT !.likes = @ \cup {u}] ELSE s[k]]
  BY DEF Edited, Liked, f
<1>4. \A k \in 1..Len(s) :
         /\ Raised(i)[s[k]] = IF k = f THEN [s[k] EXCEPT !.rev = @ + 1] ELSE s[k]
         /\ Reacted(i, u)[s[k]] = IF k = f THEN [s[k] EXCEPT !.likes = @ \cup {u}] ELSE s[k]
  BY <1>1, <1>2 DEF Raised, Reacted
<1> QED
  BY <1>1, <1>3, <1>4 DEF Mapped

\* A change that leaves every message of a list leaves the list.
LEMMA MappedSame ==
  ASSUME NEW s \in Seq(Entry), NEW g \in Changer, \A k \in 1..Len(s) : g[s[k]] = s[k]
  PROVE  Mapped(s, g) = s
BY MappedTypes, SameList

\* Deleting the message found is keeping all others.
LEMMA WithoutIsOnly ==
  ASSUME NEW s \in Seq(Entry), OneEach(s), NEW i
  PROVE  Without(s, i) = Only(s, Ids \ {i})
<1> DEFINE f == Find(s, i)
           keep == Ids \ {i}
<1>1. f \in 0..Len(s) /\ (f # 0 => s[f].id = i) /\ (f = 0 => i \notin IdsOf(s))
  BY FindTypes, FindIs
<1>2. Len(s) \in Nat /\ \A k \in 1..Len(s) : s[k] \in Entry /\ s[k].id \in Ids
  <2>1. \A e \in Entry : e.id \in Ids
    BY DEF Entry
  <2> QED
    BY <2>1
<1>3. CASE f = 0
  <2>1. \A k \in 1..Len(s) : s[k].id \in keep
    BY <1>1, <1>2, <1>3 DEF IdsOf
  <2>2. Only(s, keep) = s
    BY <2>1, OnlyAll
  <2> QED
    BY <1>3, <2>2 DEF Without
<1>4. CASE f # 0
  <2> DEFINE a == SubSeq(s, 1, f - 1)
             b == SubSeq(s, f + 1, Len(s))
             c == <<s[f]>>
  <2>1. Without(s, i) = a \o b
    BY <1>4 DEF Without, RemoveAt
  <2> HIDE DEF f
  <2>2. f \in 1..Len(s) /\ s[f] \in Entry
    BY <1>1, <1>2, <1>4
  <2>3. a \in Seq(Entry) /\ Len(a) = f - 1 /\ \A k \in 1..(f - 1) : a[k] = s[k]
    BY <1>2, <2>2
  <2>4. b \in Seq(Entry) /\ Len(b) = Len(s) - f /\ \A k \in 1..(Len(s) - f) : b[k] = s[f + k]
    BY <1>2, <2>2
  <2>5. c \in Seq(Entry) /\ Len(c) = 1 /\ c[1] = s[f]
    BY <2>2
  <2>6. Only(c, keep) = <<>>
    BY <1>1, <2>2, OnlyOne
  <2> HIDE DEF a, b, c
  <2>7. \A k \in 1..Len(a) : a[k].id \in keep
    <3> SUFFICES ASSUME NEW k \in 1..(f - 1) PROVE a[k].id \in keep
      BY <2>3
    <3>1. k \in 1..Len(s) /\ k # f
      BY <1>2, <2>2
    <3>2. s[k].id # i
      BY <1>1, <1>4, <2>2, <3>1 DEF OneEach
    <3> QED
      BY <1>2, <2>3, <3>1, <3>2
  <2>8. \A k \in 1..Len(b) : b[k].id \in keep
    <3> SUFFICES ASSUME NEW k \in 1..(Len(s) - f) PROVE b[k].id \in keep
      BY <2>4
    <3>1. f + k \in 1..Len(s) /\ f + k # f
      BY <1>2, <2>2
    <3>2. s[f + k].id # i
      BY <1>1, <1>4, <2>2, <3>1 DEF OneEach
    <3> QED
      BY <1>2, <2>4, <3>1, <3>2
  <2> HIDE DEF keep
  <2>9. Only(a, keep) = a /\ Only(b, keep) = b
    BY <2>3, <2>4, <2>7, <2>8, OnlyAll
  <2> DEFINE d == a \o c
             e == d \o b
  <2>10. /\ d \in Seq(Entry) /\ Len(d) = Len(a) + Len(c)
         /\ \A k \in 1..(Len(a) + Len(c)) : d[k] = IF k <= Len(a) THEN a[k] ELSE c[k - Len(a)]
    BY <2>3, <2>5, Joined, Zenon
  <2>11. Only(d, keep) = a
    <3>1. Only(d, keep) = Only(a, keep) \o Only(c, keep)
      BY <2>3, <2>5, OnlyJoined
    <3>2. a \o <<>> = a
      BY <2>3
    <3> QED
      BY <2>6, <2>9, <3>1, <3>2, Zenon
  <2> HIDE DEF d
  <2>12. /\ e \in Seq(Entry) /\ Len(e) = Len(d) + Len(b)
         /\ \A k \in 1..(Len(d) + Len(b)) : e[k] = IF k <= Len(d) THEN d[k] ELSE b[k - Len(d)]
    BY <2>4, <2>10, Joined, Zenon
  <2>13. Only(e, keep) = a \o b
    <3>1. Only(e, keep) = Only(d, keep) \o Only(b, keep)
      BY <2>4, <2>10, OnlyJoined
    <3> QED
      BY <2>9, <2>11, <3>1, Zenon
  <2> HIDE DEF e
  <2>14. Len(d) = f /\ Len(e) = Len(s)
    BY <1>2, <2>2, <2>3, <2>4, <2>5, <2>10, <2>12
  <2>15. ASSUME NEW k \in 1..Len(s) PROVE e[k] = s[k]
    <3>1. CASE k < f
      <4>1. k \in 1..(f - 1) /\ k <= Len(d) /\ k <= Len(a) /\ k \in 1..(Len(a) + Len(c))
        BY <1>2, <2>2, <2>3, <2>5, <2>14, <3>1
      <4>2. e[k] = d[k] /\ d[k] = a[k] /\ a[k] = s[k]
        BY <2>3, <2>10, <2>12, <2>14, <4>1
      <4> QED
        BY <4>2
    <3>2. CASE k = f
      <4>1. ~(k <= Len(a)) /\ k <= Len(d) /\ k - Len(a) = 1 /\ k \in 1..(Len(a) + Len(c))
        BY <1>2, <2>2, <2>3, <2>5, <2>14, <3>2
      <4>2. e[k] = d[k] /\ d[k] = c[1]
        BY <2>10, <2>12, <2>14, <4>1
      <4> QED
        BY <2>5, <3>2, <4>2
    <3>3. CASE k > f
      <4>1. ~(k <= Len(d)) /\ k - Len(d) \in 1..(Len(s) - f) /\ f + (k - Len(d)) = k
        BY <1>2, <2>2, <2>14, <3>3
      <4>2. e[k] = b[k - Len(d)] /\ b[k - Len(d)] = s[f + (k - Len(d))]
        BY <2>4, <2>12, <2>14, <4>1
      <4> QED
        BY <4>1, <4>2
    <3> QED
      BY <1>2, <2>2, <3>1, <3>2, <3>3
  <2>16. e = s
    BY <2>12, <2>14, <2>15, SameList
  <2> QED
    BY <2>1, <2>13, <2>16 DEF keep
<1> QED
  BY <1>3, <1>4

-----------------------------------------------------------------------------
(* One list at the end of another                                          *)

EndOf(x, y) ==
  /\ x \in Seq(Entry) /\ y \in Seq(Entry) /\ Len(x) <= Len(y)
  /\ \A k \in 1..Len(x) : x[k] = y[k + (Len(y) - Len(x))]

\* A list is at the end of itself.
LEMMA EndOfSelf == ASSUME NEW x \in Seq(Entry) PROVE EndOf(x, x)
BY DEF EndOf

\* The end of an end is an end.
LEMMA EndOfEnd ==
  ASSUME NEW x, NEW y, NEW z, EndOf(x, y), EndOf(y, z)
  PROVE  EndOf(x, z)
<1>1. /\ Len(x) \in Nat /\ Len(y) \in Nat /\ Len(z) \in Nat
      /\ x \in Seq(Entry) /\ z \in Seq(Entry) /\ Len(x) <= Len(y) /\ Len(y) <= Len(z)
  BY DEF EndOf
<1>2. ASSUME NEW k \in 1..Len(x) PROVE x[k] = z[k + (Len(z) - Len(x))]
  <2> DEFINE j == k + (Len(y) - Len(x))
  <2>1. j \in 1..Len(y) /\ j + (Len(z) - Len(y)) = k + (Len(z) - Len(x))
    BY <1>1
  <2>2. x[k] = y[j]
    BY DEF EndOf
  <2> HIDE DEF j
  <2>3. y[j] = z[j + (Len(z) - Len(y))]
    BY <2>1 DEF EndOf
  <2> QED
    BY <2>1, <2>2, <2>3
<1> QED
  BY <1>1, <1>2 DEF EndOf

\* What is kept of the end of a list is the end of what is kept of it.
LEMMA EndOfOnly ==
  ASSUME NEW x, NEW y, EndOf(x, y), NEW keep
  PROVE  EndOf(Only(x, keep), Only(y, keep))
<1> DEFINE d == Len(y) - Len(x)
           p == SubSeq(y, 1, d)
           z == p \o x
<1>1. /\ x \in Seq(Entry) /\ y \in Seq(Entry) /\ Len(x) \in Nat /\ Len(y) \in Nat
      /\ d \in Nat /\ Len(y) = d + Len(x) /\ \A k \in 1..Len(x) : x[k] = y[k + d]
  BY DEF EndOf
<1> HIDE DEF d
<1>2. p \in Seq(Entry) /\ Len(p) = d /\ \A k \in 1..d : p[k] = y[k]
  BY <1>1
<1> HIDE DEF p
<1>3. /\ z \in Seq(Entry) /\ Len(z) = Len(p) + Len(x)
      /\ \A k \in 1..(Len(p) + Len(x)) : z[k] = IF k <= Len(p) THEN p[k] ELSE x[k - Len(p)]
  BY <1>1, <1>2, Joined, Zenon
<1>4. Only(z, keep) = Only(p, keep) \o Only(x, keep)
  BY <1>1, <1>2, OnlyJoined
<1> HIDE DEF z
<1>5. ASSUME NEW k \in 1..Len(z) PROVE z[k] = y[k]
  <2>1. CASE k <= d
    BY <1>1, <1>2, <1>3, <2>1
  <2>2. CASE ~(k <= d)
    <3>1. k - d \in 1..Len(x) /\ (k - d) + d = k
      BY <1>1, <1>2, <1>3, <2>2
    <3>2. z[k] = x[k - d]
      BY <1>1, <1>2, <1>3, <2>2
    <3>3. x[k - d] = y[k]
      BY <1>1, <3>1
    <3> QED
      BY <3>2, <3>3
  <2> QED
    BY <2>1, <2>2
<1>6. z = y
  BY <1>1, <1>2, <1>3, <1>5, SameList
<1> DEFINE a == Only(p, keep)
           b == Only(x, keep)
           c == a \o b
<1>7. a \in Seq(Entry) /\ b \in Seq(Entry)
  BY <1>1, <1>2, OnlyTypes
<1> HIDE DEF a, b
<1>8. /\ c \in Seq(Entry) /\ Len(c) = Len(a) + Len(b)
      /\ \A k \in 1..(Len(a) + Len(b)) : c[k] = IF k <= Len(a) THEN a[k] ELSE b[k - Len(a)]
  BY <1>7, Joined, Zenon
<1>9. Only(y, keep) = c
  BY <1>4, <1>6 DEF a, b
<1> HIDE DEF c
<1>10. Len(a) \in Nat /\ Len(b) \in Nat
  BY <1>7
<1>11. ASSUME NEW k \in 1..Len(b) PROVE b[k] = c[k + (Len(c) - Len(b))]
  <2> DEFINE j == k + Len(a)
  <2>1. /\ j \in 1..(Len(a) + Len(b)) /\ ~(j <= Len(a)) /\ j - Len(a) = k
        /\ k + (Len(c) - Len(b)) = j
    BY <1>8, <1>10
  <2> HIDE DEF j
  <2>2. c[j] = b[k]
    BY <1>8, <2>1
  <2> QED
    BY <2>1, <2>2
<1>12. EndOf(b, c)
  BY <1>7, <1>8, <1>10, <1>11 DEF EndOf
<1> QED
  BY <1>9, <1>12 DEF b

\* A change of both leaves one at the end of the other.
LEMMA EndOfMapped ==
  ASSUME NEW x, NEW y, EndOf(x, y), NEW g \in Changer
  PROVE  EndOf(Mapped(x, g), Mapped(y, g))
<1>1. /\ x \in Seq(Entry) /\ y \in Seq(Entry) /\ Len(x) \in Nat /\ Len(y) \in Nat
      /\ Len(x) <= Len(y) /\ \A k \in 1..Len(x) : x[k] = y[k + (Len(y) - Len(x))]
  BY DEF EndOf
<1> DEFINE v == Mapped(x, g)
           w == Mapped(y, g)
<1>2. /\ v \in Seq(Entry) /\ Len(v) = Len(x) /\ \A k \in 1..Len(x) : v[k] = g[x[k]]
      /\ w \in Seq(Entry) /\ Len(w) = Len(y) /\ \A k \in 1..Len(y) : w[k] = g[y[k]]
  BY <1>1, MappedTypes
<1> HIDE DEF v, w
<1>3. ASSUME NEW k \in 1..Len(x) PROVE v[k] = w[k + (Len(y) - Len(x))]
  <2> DEFINE j == k + (Len(y) - Len(x))
  <2>1. j \in 1..Len(y) /\ x[k] = y[j]
    BY <1>1
  <2> HIDE DEF j
  <2>2. v[k] = w[j]
    BY <1>2, <2>1
  <2> QED
    BY <2>2 DEF j
<1>4. EndOf(v, w)
  BY <1>1, <1>2, <1>3 DEF EndOf
<1> QED
  BY <1>4 DEF v, w

\* So does a message appended to both.
LEMMA EndOfAppend ==
  ASSUME NEW x, NEW y, EndOf(x, y), NEW m \in Entry
  PROVE  EndOf(Append(x, m), Append(y, m))
<1>1. /\ x \in Seq(Entry) /\ y \in Seq(Entry)
      /\ Len(x) <= Len(y) /\ \A k \in 1..Len(x) : x[k] = y[k + (Len(y) - Len(x))]
  BY DEF EndOf
<1> DEFINE v == Append(x, m)
           w == Append(y, m)
<1>2. /\ v \in Seq(Entry) /\ Len(x) \in Nat /\ Len(v) = Len(x) + 1
      /\ \A k \in 1..Len(x) : v[k] = x[k]
      /\ v[Len(x) + 1] = m /\ \A k \in 1..(Len(x) + 1) : k \in 1..Len(x) \/ k = Len(x) + 1
  BY <1>1, AppendParts
<1>3. /\ w \in Seq(Entry) /\ Len(y) \in Nat /\ Len(w) = Len(y) + 1
      /\ \A k \in 1..Len(y) : w[k] = y[k]
      /\ w[Len(y) + 1] = m
  BY <1>1, AppendParts
<1> HIDE DEF v, w
<1>4. Len(w) - Len(v) = Len(y) - Len(x) /\ Len(v) <= Len(w)
  BY <1>1, <1>2, <1>3
<1>5. ASSUME NEW k \in 1..Len(v) PROVE v[k] = w[k + (Len(y) - Len(x))]
  <2>1. CASE k \in 1..Len(x)
    <3>1. k + (Len(y) - Len(x)) \in 1..Len(y)
      BY <1>1, <1>2, <1>3, <2>1
    <3> QED
      BY <1>1, <1>2, <1>3, <2>1, <3>1
  <2>2. CASE k = Len(x) + 1
    <3>1. k + (Len(y) - Len(x)) = Len(y) + 1
      BY <1>2, <1>3, <2>2
    <3> QED
      BY <1>2, <1>3, <2>2, <3>1
  <2> QED
    BY <1>2, <2>1, <2>2
<1>6. EndOf(v, w)
  BY <1>2, <1>3, <1>4, <1>5 DEF EndOf
<1> QED
  BY <1>6 DEF v, w

\* The newest messages are at the end.
LEMMA NewestIsEnd == ASSUME NEW s \in Seq(Entry) PROVE EndOf(Newest(s), s)
<1>1. Newest(s) \in Seq(Entry) /\ Len(s) \in Nat
  BY NewestTypes DEF Part
<1>2. PICK d \in 0..Len(s) : /\ Len(Newest(s)) = Len(s) - d
                             /\ \A k \in 1..(Len(s) - d) : Newest(s)[k] = s[d + k]
  BY NewestTypes
<1>3. d = Len(s) - Len(Newest(s)) /\ Len(Newest(s)) <= Len(s)
  BY <1>1, <1>2
<1>4. \A k \in 1..Len(Newest(s)) : Newest(s)[k] = s[k + (Len(s) - Len(Newest(s)))]
  BY <1>1, <1>2, <1>3
<1> QED
  BY <1>1, <1>3, <1>4 DEF EndOf

\* What Save leaves of a channel's list.
LEMMA TrimTypes ==
  ASSUME NEW s \in Seq(Entry), Len(s) <= Capacity + 1
  PROVE  /\ Part(Trim(s), s) /\ Len(Trim(s)) <= Capacity
         /\ \A x : EndOf(x, s) /\ Len(x) <= Capacity => EndOf(x, Trim(s))
<1>1. Len(s) \in Nat /\ Capacity \in Nat \ {0}
  BY StorageAssumption
<1>2. CASE Len(s) <= Capacity
  BY <1>1, <1>2, SameIsPart DEF Trim, SameIds
<1>3. CASE Len(s) > Capacity
  <2> DEFINE t == Tail(s)
             n == Len(s) - 1
  <2>1. n \in Nat /\ 1 + n = Len(s) /\ s # <<>> /\ n = Capacity
    BY <1>1, <1>3
  <2>2. t \in Seq(Entry) /\ Len(t) = n /\ \A k \in 1..n : t[k] = s[1 + k]
    BY <2>1
  <2>3. Trim(s) = t
    BY <1>3 DEF Trim
  <2> HIDE DEF t, n
  <2>4. Part(t, s)
    <3>1. 1 \in Nat /\ 1 + n <= Len(s) /\ n \in Nat
      BY <1>1, <2>1
    <3> QED
      BY <2>2, <3>1, StretchIsPart
  <2>5. ASSUME NEW x, EndOf(x, s), Len(x) <= Capacity PROVE EndOf(x, t)
    <3>1. x \in Seq(Entry) /\ Len(x) \in Nat /\ Len(x) <= n
          /\ \A k \in 1..Len(x) : x[k] = s[k + (Len(s) - Len(x))]
      BY <2>1, <2>5 DEF EndOf
    <3>2. ASSUME NEW k \in 1..Len(x) PROVE x[k] = t[k + (Len(t) - Len(x))]
      <4>1. k + (n - Len(x)) \in 1..n /\ 1 + (k + (n - Len(x))) = k + (Len(s) - Len(x))
        <5>1. n \in Nat /\ 1 + n = Len(s) /\ Len(x) \in Nat /\ Len(x) <= n
          BY <2>1, <3>1
        <5> QED
          BY <5>1
      <4> QED
        BY <2>2, <3>1, <4>1
    <3> QED
      BY <2>2, <3>1, <3>2 DEF EndOf
  <2> QED
    BY <2>1, <2>2, <2>3, <2>4, <2>5
<1> QED
  BY <1>1, <1>2, <1>3

\* The library's notion of it.
LEMMA EndIsSuffix == ASSUME NEW x, NEW y, EndOf(x, y) PROVE IsSuffix(x, y)
<1> DEFINE v == Reverse(x)
           w == Reverse(y)
<1>1. /\ x \in Seq(Entry) /\ y \in Seq(Entry) /\ Len(x) \in Nat /\ Len(y) \in Nat
      /\ Len(x) <= Len(y) /\ \A k \in 1..Len(x) : x[k] = y[k + (Len(y) - Len(x))]
      /\ \A k \in 1..Len(x) : x[k] \in Entry
      /\ \A k \in 1..Len(y) : y[k] \in Entry
  BY DEF EndOf
<1>2. /\ v = [i \in 1..Len(x) |-> x[(Len(x) - i) + 1]]
      /\ w = [i \in 1..Len(y) |-> y[(Len(y) - i) + 1]]
  BY DEF Reverse
<1>3. /\ \A i \in 1..Len(x) : (Len(x) - i) + 1 \in 1..Len(x)
      /\ \A i \in 1..Len(y) : (Len(y) - i) + 1 \in 1..Len(y)
  BY <1>1
<1> HIDE DEF v, w
<1>4. /\ v \in [1..Len(x) -> Entry] /\ w \in [1..Len(y) -> Entry]
      /\ \A i \in 1..Len(x) : v[i] = x[(Len(x) - i) + 1]
      /\ \A i \in 1..Len(y) : w[i] = y[(Len(y) - i) + 1]
  BY <1>1, <1>2, <1>3
<1>5. v \in Seq(Entry) /\ Len(v) = Len(x) /\ w \in Seq(Entry) /\ Len(w) = Len(y)
  BY <1>1, <1>4, ListOf
<1>6. ASSUME NEW i \in 1..Len(x) PROVE v[i] = w[i]
  <2> DEFINE k == (Len(x) - i) + 1
  <2>1. k \in 1..Len(x) /\ i \in 1..Len(y) /\ k + (Len(y) - Len(x)) = (Len(y) - i) + 1
    BY <1>1
  <2>2. v[i] = x[k] /\ w[i] = y[(Len(y) - i) + 1]
    BY <1>4, <2>1
  <2> HIDE DEF k
  <2> QED
    BY <1>1, <2>1, <2>2
<1>7. SubSeq(v, 1, Len(x)) = SubSeq(w, 1, Len(x))
  <2> DEFINE a == SubSeq(v, 1, Len(x))
             b == SubSeq(w, 1, Len(x))
  <2>1. a \in Seq(Entry) /\ Len(a) = Len(x) /\ \A i \in 1..Len(x) : a[i] = v[i]
    BY <1>1, <1>5
  <2>2. b \in Seq(Entry) /\ Len(b) = Len(x) /\ \A i \in 1..Len(x) : b[i] = w[i]
    BY <1>1, <1>5
  <2> HIDE DEF a, b
  <2>3. a = b
    BY <1>6, <2>1, <2>2, SameList
  <2> QED
    BY <2>3 DEF a, b
<1>8. IsPrefix(v, w)
  BY <1>1, <1>5, <1>7 DEF IsPrefix
<1> QED
  BY <1>8 DEF IsSuffix, v, w

-----------------------------------------------------------------------------
(* The invariant *)

\* While nothing was deleted and no line is too long, an acknowledged message is
\* no further from the end of the file than from the end of memory.
Near ==
  deletes = 0 /\ IdsOf(disk) \cap Long = {} =>
    \A k \in 1..Len(flat) : flat[k].id \in acked \ glued =>
      \E l \in 1..Len(disk) : disk[l].id = flat[k].id /\ Len(disk) - l <= Len(flat) - k

\* The file begins with what the final compaction wrote, and what follows was saved
\* later.
FinalInv ==
  /\ final.list \in Seq(Entry) /\ final.known \subseteq saved
  /\ run = "up" => ~final.kept
  /\ final.kept =>
       /\ Len(final.list) <= Len(disk)
       /\ \A k \in 1..Len(disk) :
            IF k <= Len(final.list) THEN disk[k] = final.list[k] /\ disk[k].id \in final.known
                                   ELSE disk[k].id \notin final.known

StoreInv ==
  /\ flat \in Seq(Entry) /\ Len(flat) <= Capacity /\ disk \in Seq(Entry)
  /\ acked \subseteq saved /\ IdsOf(flat) \cup IdsOf(disk) \subseteq saved
  /\ deletes \in Nat
  /\ AckedIsOnDisk /\ SameOrder /\ Near /\ FinalInv

\* Nothing is stored at first.
LEMMA InitStore == Init => StoreInv
<1> SUFFICES ASSUME Init PROVE StoreInv
  OBVIOUS
<1>1. flat = <<>> /\ disk = <<>> /\ acked = {} /\ deletes = 0 /\ final = NoFinal
  BY DEF Init
<1>2. Len(flat) = 0 /\ Len(disk) = 0 /\ IdsOf(flat) = {} /\ IdsOf(disk) = {}
  BY <1>1 DEF IdsOf
<1>3. flat \in Seq(Entry) /\ disk \in Seq(Entry) /\ Len(flat) <= Capacity
  BY <1>1, <1>2, StorageAssumption
<1>4. FinalInv
  BY <1>1 DEF FinalInv, NoFinal
<1> QED
  BY <1>1, <1>2, <1>3, <1>4 DEF StoreInv, AckedIsOnDisk, SameOrder, Near

\* Compaction makes the file equal to memory.
LEMMA ImageStore ==
  ASSUME StoreInv, Replaced, run' = "up" => run = "up", UNCHANGED <<flat, ids, deletes>>
  PROVE  StoreInv'
<1>0. /\ disk' = flat /\ flat' = flat /\ saved' = saved
      /\ final' = IF run' = "up" THEN final ELSE [kept |-> TRUE, list |-> flat, known |-> saved]
  BY DEF Replaced, Image, ids
<1>1. Len(disk') \in Nat /\ Len(flat') = Len(disk') /\ \A k \in 1..Len(flat') : k \in 1..Len(disk')
  BY <1>0 DEF StoreInv
<1>2. Near'
  <2> SUFFICES ASSUME NEW k \in 1..Len(flat')
               PROVE  disk'[k].id = flat'[k].id /\ Len(disk') - k <= Len(flat') - k
    BY <1>1 DEF Near
  <2> QED
    BY <1>0, <1>1
<1>3. FinalInv'
  <2>1. /\ flat \in Seq(Entry) /\ IdsOf(flat) \subseteq saved /\ final.list \in Seq(Entry)
        /\ final.known \subseteq saved /\ FinalInv
    BY DEF StoreInv, FinalInv
  <2>2. CASE run' = "up"
    BY <1>0, <2>1, <2>2 DEF FinalInv
  <2>3. CASE run' # "up"
    <3>1. final'.list = flat /\ final'.known = saved
      BY <1>0, <2>3
    <3>2. \A k \in 1..Len(flat) : flat[k].id \in saved
      BY <2>1 DEF IdsOf
    <3> QED
      BY <1>0, <2>1, <2>3, <3>1, <3>2 DEF FinalInv
  <2> QED
    BY <2>2, <2>3
<1> QED
  BY <1>0, <1>2, <1>3 DEF StoreInv, AckedIsOnDisk, SameOrder, Before, IdsOf, ids

\* Changes to messages in memory.
LEMMA ChangeStore ==
  ASSUME StoreInv, Part(flat', flat), run # "down", UNCHANGED <<disk, run, final, ids>>, deletes' \in Nat,
         deletes' = 0 => /\ deletes = 0 /\ Len(flat') = Len(flat)
                         /\ \A k \in 1..Len(flat) : flat'[k].id = flat[k].id
  PROVE  StoreInv'
<1>1. IdsOf(flat') \subseteq IdsOf(flat) /\ IdsOf(disk)' = IdsOf(disk)
  BY DEF Part, IdsOf
<1>2. flat' \in Seq(Entry) /\ Len(flat') <= Capacity
  <2>1. Len(flat) \in Nat /\ Len(flat') \in Nat /\ Len(flat') <= Len(flat) /\ Len(flat) <= Capacity
    BY DEF StoreInv, Part
  <2> QED
    BY <2>1, StorageAssumption DEF Part
<1>3. AckedIsOnDisk'
  BY <1>1 DEF StoreInv, AckedIsOnDisk, IdsOf, ids
<1>4. SameOrder'
  <2> SUFFICES ASSUME NEW i \in IdsOf(flat') \cap IdsOf(disk'), NEW j \in IdsOf(flat') \cap IdsOf(disk'),
                      Before(flat', i, j)
               PROVE  Before(disk', i, j)
    BY DEF SameOrder
  <2>1. Before(flat, i, j)
    BY DEF Part
  <2>2. i \in IdsOf(flat) \cap IdsOf(disk) /\ j \in IdsOf(flat) \cap IdsOf(disk)
    BY <1>1
  <2>3. Before(disk, i, j)
    BY <2>1, <2>2 DEF StoreInv, SameOrder
  <2> QED
    BY <2>3
<1>5. Near'
  BY <1>1 DEF StoreInv, Near, ids
<1> QED
  BY <1>1, <1>2, <1>3, <1>4, <1>5 DEF StoreInv, FinalInv, ids, IdsOf

\* What a start reads is a part of the file.
LEMMA LoadedIsPart ==
  ASSUME disk \in Seq(Entry)
  PROVE  Part(Loaded, disk) /\ Len(Loaded) <= Capacity
<1>1. Part(Scanned, disk) /\ Scanned \in Seq(Entry)
  BY ScannedTypes DEF Part
<1>2. Part(Loaded, Scanned) /\ Len(Loaded) <= Capacity
  BY <1>1, NewestTypes DEF Loaded
<1>3. Len(Loaded) \in Nat /\ Len(Scanned) \in Nat /\ Len(disk) \in Nat
  BY <1>1, <1>2 DEF Part
<1> QED
  BY <1>1, <1>2, <1>3 DEF Part

\* A start after a crash or a stop.
LEMMA RestartStore == ASSUME StoreInv, Restart PROVE StoreInv'
<1>1. /\ run = "down" /\ run' = "up" /\ final' = NoFinal /\ flat' = Loaded
      /\ disk' = disk /\ saved' = saved /\ acked' = acked /\ glued' = glued /\ deletes' = deletes
  BY DEF Restart, ids
<1>2. disk \in Seq(Entry) /\ Part(flat', disk) /\ Len(flat') <= Capacity
  BY <1>1, LoadedIsPart DEF StoreInv
<1>3. IdsOf(flat') \subseteq IdsOf(disk) /\ IdsOf(disk)' = IdsOf(disk) /\ flat' \in Seq(Entry)
  BY <1>1, <1>2 DEF Part, IdsOf
<1>4. SameOrder'
  BY <1>1, <1>2 DEF SameOrder, Part
<1>5. Near'
  <2> SUFFICES ASSUME IdsOf(disk) \cap Long = {}, NEW k \in 1..Len(flat')
               PROVE  \E l \in 1..Len(disk) : disk[l].id = flat'[k].id
                                              /\ Len(disk) - l <= Len(flat') - k
    BY <1>1, <1>3 DEF Near
  <2>1. flat' = Newest(disk)
    BY <1>1, <1>2, ScannedTypes DEF Loaded
  <2>2. PICK d \in 0..Len(disk) : /\ Len(flat') = Len(disk) - d
                                  /\ \A j \in 1..(Len(disk) - d) : flat'[j] = disk[d + j]
    BY <1>2, <2>1, NewestTypes
  <2>3. Len(disk) \in Nat
    BY <1>2
  <2>4. d + k \in 1..Len(disk) /\ Len(disk) - (d + k) <= Len(flat') - k /\ flat'[k] = disk[d + k]
    BY <2>2, <2>3
  <2> QED
    BY <2>4
<1>6. FinalInv'
  BY <1>1 DEF FinalInv, NoFinal
<1> QED
  BY <1>1, <1>2, <1>3, <1>4, <1>5, <1>6 DEF StoreInv, AckedIsOnDisk, IdsOf

\* Steps that leave memory and file as they are.
LEMMA StillStore ==
  ASSUME StoreInv, UNCHANGED <<flat, disk, final, ids, deletes>>, run = "down" => run' = "down",
         run' = "up" => run = "up"
  PROVE  StoreInv'
BY DEF StoreInv, AckedIsOnDisk, SameOrder, Before, IdsOf, Near, FinalInv, ids

\* What Save does to memory: the new message comes last, old ones may go.
LEMMA Remembered ==
  ASSUME StoreInv, NEW i \in Ids, Fresh(i)
  PROVE  /\ flat' \in Seq(Entry) /\ Len(flat') <= Capacity
         /\ IdsOf(flat') \subseteq IdsOf(flat) \cup {i}
         /\ \A a, b : Before(flat', a, b) => Before(flat, a, b) \/ (a \in IdsOf(flat) /\ b = i)
         /\ \E d \in Nat :
              /\ Len(flat') = Len(flat) + 1 - d
              /\ \A k \in 1..Len(flat') :
                   flat'[k].id = IF d + k = Len(flat) + 1 THEN i ELSE flat[d + k].id
<1> DEFINE m == [id |-> i, rev |-> 0, likes |-> {}]
           s == Append(flat, m)
           n == Len(flat)
<1>1. flat \in Seq(Entry) /\ n \in Nat /\ m \in Entry /\ m.id = i
  BY DEF StoreInv, Entry
<1>2. flat' = Newest(s)
  BY DEF Fresh, Remember
<1> HIDE DEF m
<1>3. /\ s \in Seq(Entry) /\ Len(s) = n + 1
      /\ \A k \in 1..(n + 1) : s[k] = IF k = n + 1 THEN m ELSE flat[k]
  BY <1>1
<1> HIDE DEF s, n
<1>4. Part(flat', s) /\ Len(flat') <= Capacity
  BY <1>2, <1>3, NewestTypes
<1>5. PICK d \in 0..Len(s) : /\ Len(flat') = Len(s) - d
                             /\ \A k \in 1..(Len(s) - d) : flat'[k] = s[d + k]
  BY <1>2, <1>3, NewestTypes
<1>6. /\ d \in Nat /\ Len(flat') = n + 1 - d
      /\ \A k \in 1..Len(flat') : flat'[k].id = IF d + k = n + 1 THEN i ELSE flat[d + k].id
  BY <1>1, <1>3, <1>5
<1>7. \A k \in 1..(n + 1) : k # n + 1 => s[k].id \in IdsOf(flat)
  BY <1>1, <1>3 DEF IdsOf, n
<1>8. IdsOf(s) \subseteq IdsOf(flat) \cup {i}
  BY <1>1, <1>3, <1>7 DEF IdsOf
<1>9. ASSUME NEW a, NEW b, Before(s, a, b)
      PROVE  Before(flat, a, b) \/ (a \in IdsOf(flat) /\ b = i)
  <2>1. PICK k, l \in 1..(n + 1) : k < l /\ s[k].id = a /\ s[l].id = b
    BY <1>3, <1>9 DEF Before
  <2>2. k \in 1..n /\ s[k] = flat[k] /\ a \in IdsOf(flat)
    BY <1>1, <1>3, <1>7, <2>1
  <2>3. CASE l = n + 1
    BY <1>1, <1>3, <2>1, <2>2, <2>3
  <2>4. CASE l # n + 1
    <3>1. l \in 1..n /\ s[l] = flat[l]
      BY <1>1, <1>3, <2>1, <2>4
    <3> QED
      BY <2>1, <2>2, <3>1 DEF Before, n
  <2> QED
    BY <2>3, <2>4
<1>10. /\ flat' \in Seq(Entry) /\ Len(flat') <= Capacity
       /\ IdsOf(flat') \subseteq IdsOf(flat) \cup {i}
  BY <1>4, <1>8 DEF Part
<1>11. \A a, b : Before(flat', a, b) => Before(flat, a, b) \/ (a \in IdsOf(flat) /\ b = i)
  BY <1>4, <1>9 DEF Part
<1> QED
  BY <1>6, <1>10, <1>11 DEF n

\* A save whose line does not reach the file: it failed, or was glued.
LEMMA LostLine ==
  ASSUME StoreInv, NEW i \in Ids, Fresh(i), UNCHANGED <<disk, run, final, deletes>>,
         acked' \subseteq acked \cup {i}, acked' \ glued' \subseteq acked \ glued
  PROVE  StoreInv'
<1>1. /\ flat' \in Seq(Entry) /\ Len(flat') <= Capacity
      /\ IdsOf(flat') \subseteq IdsOf(flat) \cup {i} /\ IdsOf(disk)' = IdsOf(disk)
  <2>1. IdsOf(disk)' = IdsOf(disk)
    BY DEF IdsOf
  <2> QED
    BY <2>1, Remembered
<1>2. saved' = saved \cup {i} /\ i \notin saved /\ run # "down"
  BY DEF Fresh
<1>3. i \notin IdsOf(flat) \cup IdsOf(disk) /\ i \notin acked
  BY <1>2 DEF StoreInv
<1>4. AckedIsOnDisk'
  <2>1. (IdsOf(flat) \cap acked) \ glued \subseteq IdsOf(disk)
    BY <1>2 DEF StoreInv, AckedIsOnDisk
  <2>2. (IdsOf(flat') \cap acked') \ glued' \subseteq IdsOf(disk)
    BY <1>1, <1>3, <2>1
  <2> QED
    BY <1>1, <2>2 DEF AckedIsOnDisk, IdsOf
<1>5. SameOrder'
  <2> SUFFICES ASSUME NEW a \in IdsOf(flat') \cap IdsOf(disk), NEW b \in IdsOf(flat') \cap IdsOf(disk),
                      Before(flat', a, b)
               PROVE  Before(disk, a, b)
    BY <1>1 DEF SameOrder, Before
  <2>1. a # i /\ b # i
    BY <1>3
  <2>2. Before(flat, a, b) /\ a \in IdsOf(flat) /\ b \in IdsOf(flat)
    BY <1>1, <2>1, Remembered
  <2> QED
    BY <2>2 DEF StoreInv, SameOrder
<1>6. Near'
  <2> SUFFICES ASSUME deletes = 0, IdsOf(disk) \cap Long = {},
                      NEW k \in 1..Len(flat'), flat'[k].id \in acked \ glued
               PROVE  \E l \in 1..Len(disk) : disk[l].id = flat'[k].id
                                              /\ Len(disk) - l <= Len(flat') - k
    BY <1>1 DEF Near
  <2>1. PICK d \in Nat :
          /\ Len(flat') = Len(flat) + 1 - d
          /\ \A j \in 1..Len(flat') : flat'[j].id = IF d + j = Len(flat) + 1 THEN i ELSE flat[d + j].id
    BY Remembered
  <2>2. Len(flat) \in Nat /\ Len(disk) \in Nat
    BY DEF StoreInv
  <2>3. d + k \in 1..Len(flat) /\ flat[d + k].id = flat'[k].id /\ Len(flat) - (d + k) < Len(flat') - k
    BY <1>3, <2>1, <2>2
  <2>4. PICK l \in 1..Len(disk) : disk[l].id = flat[d + k].id
                                  /\ Len(disk) - l <= Len(flat) - (d + k)
    BY <2>3 DEF StoreInv, Near
  <2> QED
    BY <2>1, <2>2, <2>3, <2>4
<1>7. FinalInv'
  BY <1>2 DEF StoreInv, FinalInv
<1> QED
  BY <1>1, <1>2, <1>4, <1>5, <1>6, <1>7 DEF StoreInv, IdsOf

\* One more message at the end.
Longer(t, s, i) ==
  /\ t \in Seq(Entry) /\ Len(t) = Len(s) + 1 /\ t[Len(s) + 1].id = i
  /\ \A k \in 1..Len(s) : t[k] = s[k]

\* Append does that.
LEMMA AppendIsLonger ==
  ASSUME NEW s \in Seq(Entry), NEW m \in Entry PROVE Longer(Append(s, m), s, m.id)
BY DEF Longer

\* A save whose line reaches the file.
LEMMA WrittenLine ==
  ASSUME StoreInv, NEW i \in Ids, Fresh(i), UNCHANGED <<glued, run, final, deletes>>,
         acked' = acked \cup {i}, Longer(disk', disk, i)
  PROVE  StoreInv'
<1> DEFINE n == Len(disk)
<1>1. /\ flat' \in Seq(Entry) /\ Len(flat') <= Capacity
      /\ IdsOf(flat') \subseteq IdsOf(flat) \cup {i}
  BY Remembered
<1>2. saved' = saved \cup {i} /\ i \notin saved /\ run # "down"
  BY DEF Fresh
<1>3. i \notin IdsOf(flat) \cup IdsOf(disk) /\ i \notin acked /\ flat \in Seq(Entry)
  BY <1>2 DEF StoreInv
<1>4. disk \in Seq(Entry) /\ n \in Nat
  BY DEF StoreInv
<1>5. /\ disk' \in Seq(Entry) /\ Len(disk') = n + 1
      /\ \A k \in 1..n : disk'[k] = disk[k]
      /\ disk'[n + 1].id = i
  BY DEF Longer
<1> HIDE DEF n
<1>6. IdsOf(disk)' = IdsOf(disk) \cup {i}
  <2>1. ASSUME NEW k \in 1..(n + 1) PROVE disk'[k].id \in IdsOf(disk) \cup {i}
    BY <1>4, <1>5 DEF IdsOf, n
  <2>2. ASSUME NEW k \in 1..n PROVE disk[k].id \in IdsOf(disk)'
    BY <1>4, <1>5 DEF IdsOf
  <2>3. i \in IdsOf(disk)'
    BY <1>4, <1>5 DEF IdsOf
  <2> QED
    BY <1>5, <2>1, <2>2, <2>3 DEF IdsOf, n
<1>7. \A a, b : Before(disk, a, b) \/ (a \in IdsOf(disk) /\ b = i) => Before(disk', a, b)
  <2>1. ASSUME NEW k \in 1..n, NEW l \in 1..(n + 1), k < l
        PROVE  Before(disk', disk'[k].id, disk'[l].id)
    <3>1. k \in 1..Len(disk') /\ l \in 1..Len(disk')
      BY <1>4, <1>5
    <3> QED
      BY <2>1, <3>1 DEF Before
  <2>2. ASSUME NEW a, NEW b, Before(disk, a, b) PROVE Before(disk', a, b)
    <3>1. PICK k, l \in 1..n : k < l /\ disk[k].id = a /\ disk[l].id = b
      BY <2>2 DEF Before, n
    <3>2. l \in 1..(n + 1) /\ disk'[k].id = a /\ disk'[l].id = b
      BY <1>4, <1>5, <3>1
    <3> QED
      BY <2>1, <3>1, <3>2
  <2>3. ASSUME NEW a \in IdsOf(disk) PROVE Before(disk', a, i)
    <3>1. PICK k \in 1..n : disk[k].id = a
      BY <2>3 DEF IdsOf, n
    <3>2. n + 1 \in 1..(n + 1) /\ k < n + 1 /\ disk'[k].id = a /\ disk'[n + 1].id = i
      BY <1>4, <1>5, <3>1
    <3> QED
      BY <2>1, <3>1, <3>2
  <2> QED
    BY <2>2, <2>3
<1>8. AckedIsOnDisk'
  <2>1. (IdsOf(flat) \cap acked) \ glued \subseteq IdsOf(disk)
    BY <1>2 DEF StoreInv, AckedIsOnDisk
  <2>2. (IdsOf(flat') \cap acked') \ glued' \subseteq IdsOf(disk)'
    BY <1>1, <1>6, <2>1
  <2> QED
    BY <2>2 DEF AckedIsOnDisk, IdsOf
<1>9. SameOrder'
  <2> SUFFICES ASSUME NEW a \in IdsOf(flat') \cap IdsOf(disk)', NEW b \in IdsOf(flat') \cap IdsOf(disk)',
                      Before(flat', a, b)
               PROVE  Before(disk', a, b)
    BY DEF SameOrder, IdsOf
  <2>1. Before(flat, a, b) \/ (a \in IdsOf(flat) /\ b = i)
    BY Remembered
  <2>2. CASE a \in IdsOf(flat) /\ b = i
    BY <1>3, <1>6, <1>7, <2>2
  <2>3. CASE Before(flat, a, b)
    <3>1. a \in IdsOf(flat) /\ b \in IdsOf(flat)
      BY <2>3 DEF Before, IdsOf
    <3>2. a \in IdsOf(disk) /\ b \in IdsOf(disk)
      BY <1>3, <1>6, <3>1
    <3> QED
      BY <1>7, <2>3, <3>1, <3>2 DEF StoreInv, SameOrder
  <2> QED
    BY <2>1, <2>2, <2>3
<1>10. Near'
  <2> SUFFICES ASSUME deletes' = 0, IdsOf(disk)' \cap Long = {},
                      NEW k \in 1..Len(flat'), flat'[k].id \in acked' \ glued'
               PROVE  \E l \in 1..Len(disk') : disk'[l].id = flat'[k].id
                                               /\ Len(disk') - l <= Len(flat') - k
    BY Zenon DEF Near
  <2>0. ASSUME NEW l \in 1..(n + 1), n + 1 - l <= Len(flat') - k
        PROVE  l \in 1..Len(disk') /\ Len(disk') - l <= Len(flat') - k
    BY <1>4, <1>5, <2>0
  <2> SUFFICES \E l \in 1..(n + 1) : disk'[l].id = flat'[k].id /\ n + 1 - l <= Len(flat') - k
    BY <2>0, Zenon
  <2>1. PICK d \in Nat :
          /\ Len(flat') = Len(flat) + 1 - d
          /\ \A j \in 1..Len(flat') : flat'[j].id = IF d + j = Len(flat) + 1 THEN i ELSE flat[d + j].id
    BY Remembered
  <2>2. Len(flat) \in Nat
    BY <1>3
  <2>3. CASE d + k = Len(flat) + 1
    <3>1. n + 1 \in 1..(n + 1) /\ n + 1 - (n + 1) <= Len(flat') - k /\ disk'[n + 1].id = flat'[k].id
      BY <1>4, <1>5, <2>1, <2>2, <2>3
    <3> QED
      BY <3>1
  <2>4. CASE d + k # Len(flat) + 1
    <3>1. d + k \in 1..Len(flat) /\ flat[d + k].id = flat'[k].id
          /\ Len(flat') - k = Len(flat) - (d + k) + 1
      BY <2>1, <2>2, <2>4
    <3>2. flat'[k].id # i
      BY <1>3, <3>1 DEF IdsOf
    <3>3. IdsOf(disk) \cap Long = {} /\ flat[d + k].id \in acked \ glued
      BY <1>6, <3>1, <3>2
    <3>4. PICK l \in 1..n : disk[l].id = flat[d + k].id /\ n - l <= Len(flat) - (d + k)
      BY <3>1, <3>3 DEF StoreInv, Near, n
    <3>5. disk'[l].id = flat'[k].id
      BY <1>5, <3>1, <3>4
    <3>6. l \in 1..(n + 1) /\ n + 1 - l <= Len(flat') - k
      BY <1>4, <2>2, <3>1, <3>4
    <3> QED
      BY <3>5, <3>6
  <2> QED
    BY <2>3, <2>4
<1>11. FinalInv'
  <2>1. FinalInv /\ Len(final.list) \in Nat /\ \A k \in 1..(n + 1) : k \in 1..n \/ k = n + 1
    BY <1>4 DEF StoreInv, FinalInv
  <2>2. i \notin final.known /\ final' = final /\ final.known \subseteq saved'
    BY <1>2, <2>1 DEF FinalInv
  <2> QED
    BY <1>4, <1>5, <2>1, <2>2 DEF FinalInv, n
<1> QED
  BY <1>1, <1>2, <1>5, <1>6, <1>8, <1>9, <1>10, <1>11 DEF StoreInv, IdsOf

-----------------------------------------------------------------------------
(* Every step, and the theorems *)

\* Every step keeps memory and file so.
LEMMA NextStore == ASSUME StoreInv, [Next]_vars PROVE StoreInv'
<1> USE DEF memory, file, counts, ids
<1>1. ASSUME NEW i \in Ids, SaveOk(i) PROVE StoreInv'
  <2>1. CASE torn
    BY <1>1, <2>1, LostLine DEF SaveOk
  <2>2. CASE ~torn
    <3> DEFINE m == [id |-> i, rev |-> 0, likes |-> {}]
    <3>1. m \in Entry /\ m.id = i /\ disk' = Append(disk, m)
      BY <1>1, <2>2 DEF SaveOk, Entry
    <3> HIDE DEF m
    <3>2. Longer(disk', disk, i)
      BY <3>1, AppendIsLonger DEF StoreInv
    <3> QED
      BY <1>1, <2>2, <3>2, WrittenLine DEF SaveOk
  <2> QED
    BY <2>1, <2>2
<1>2. ASSUME NEW i \in Ids, SaveFails(i) \/ SaveBroken(i) PROVE StoreInv'
  BY <1>2, LostLine DEF SaveFails, SaveBroken
<1>3. flat \in Seq(Entry) /\ deletes \in Nat
  BY DEF StoreInv
<1>4. ASSUME NEW i \in Ids, UpdateMessage(i) \/ \E u \in Users : AddReaction(i, u)
      PROVE  StoreInv'
  <2>1. SameIds(flat', flat)
    BY <1>3, <1>4, ChangedInPlace DEF UpdateMessage, AddReaction, Change
  <2>2. Part(flat', flat)
    BY <1>3, <2>1, SameIsPart
  <2> QED
    BY <1>3, <1>4, <2>1, <2>2, ChangeStore DEF UpdateMessage, AddReaction, Change, SameIds
<1>5. ASSUME NEW i \in Ids, DeleteMessage(i) PROVE StoreInv'
  <2>1. Part(flat', flat)
    BY <1>3, <1>5, WithoutIsPart DEF DeleteMessage, Change
  <2>2. deletes' \in Nat /\ deletes' # 0
    BY <1>3, <1>5 DEF DeleteMessage
  <2> QED
    BY <1>5, <2>1, <2>2, ChangeStore DEF DeleteMessage, Change
<1>6. CASE Compact \/ Shutdown
  <2>1. CompactAOF /\ run # "down" /\ (run' = "up" => run = "up")
    BY <1>6 DEF Compact, Shutdown
  <2>2. CASE Replaced
    BY <2>1, <2>2, ImageStore DEF CompactAOF
  <2>3. CASE ~Replaced
    <3>1. UNCHANGED <<flat, disk, final, ids, deletes>>
      BY <2>1, <2>3 DEF CompactAOF, CompactOk, CompactReopenFails, CompactCreateFails, CompactRenameFails
    <3> QED
      BY <2>1, <3>1, StillStore
  <2> QED
    BY <2>2, <2>3
<1>7. CASE Crash \/ Close \/ Exit
  BY <1>7, StillStore DEF Crash, Close, Exit
<1>8. CASE UNCHANGED vars
  BY <1>8, StillStore DEF vars
<1> QED
  BY <1>1, <1>2, <1>4, <1>5, <1>6, <1>7, <1>8, RestartStore DEF Next

\* Memory, file and acknowledgements are as StoreInv says, always.
LEMMA StoreHolds == Spec => []StoreInv
<1>1. Init => StoreInv
  BY InitStore
<1>2. StoreInv /\ [Next]_vars => StoreInv'
  BY NextStore
<1> QED
  BY <1>1, <1>2, PTL DEF Spec

\* A message in memory that was acknowledged is in the file, whatever failed,
\* unless its line was written onto half a line (storage.go:78-80, 283-330).
THEOREM AcknowledgedIsStored == Spec => []AckedIsOnDisk
<1>1. StoreInv => AckedIsOnDisk
  BY DEF StoreInv
<1> QED
  BY <1>1, StoreHolds, PTL

\* Memory and file never disagree on the order of two messages
\* (storage.go:60-80, 222, 283-330, 350-368).
THEOREM OrderIsKept == Spec => []SameOrder
<1>1. StoreInv => SameOrder
  BY DEF StoreInv
<1> QED
  BY <1>1, StoreHolds, PTL

\* The newest of two lists in a row, found again from the first list and from what
\* is there of the second.
LEMMA LastOfBoth ==
  ASSUME NEW a \in Seq(Entry), NEW b \in Seq(Entry), NEW keep,
         \A k \in 1..Len(a) : a[k].id \notin keep, \A k \in 1..Len(b) : b[k].id \in keep
  PROVE  Newest(a \o b) = Newest(a \o Only(Newest(a \o b), keep))
<1> DEFINE c == a \o b
           n == Len(a)
           p == Len(b)
<1>1. n \in Nat /\ p \in Nat /\ Capacity \in Nat \ {0}
  BY StorageAssumption
<1>2. /\ c \in Seq(Entry) /\ Len(c) = n + p
      /\ \A k \in 1..(n + p) : c[k] = IF k <= n THEN a[k] ELSE b[k - n]
  BY Joined
<1> HIDE DEF c, n, p
<1>3. PICK d \in 0..(n + p) : /\ Len(Newest(c)) = (n + p) - d /\ (d # 0 => (n + p) - d = Capacity)
                             /\ \A k \in 1..((n + p) - d) : Newest(c)[k] = c[d + k]
  <2>1. \E d \in 0..Len(c) : /\ Len(Newest(c)) = Len(c) - d /\ (d # 0 => Len(c) - d = Capacity)
                            /\ \A k \in 1..(Len(c) - d) : Newest(c)[k] = c[d + k]
    BY <1>2, NewestTypes
  <2> QED
    BY <1>2, <2>1
<1>4. Newest(c) \in Seq(Entry) /\ Len(Newest(c)) <= Capacity
  BY <1>2, NewestTypes DEF Part
<1>5. CASE d <= n
  <2> DEFINE x == SubSeq(a, d + 1, n)
  <2>1. x \in Seq(Entry) /\ Len(x) = n - d /\ \A k \in 1..(n - d) : x[k] = a[d + k]
    BY <1>1, <1>3, <1>5 DEF n
  <2> HIDE DEF x
  <2>2. /\ x \o b \in Seq(Entry) /\ Len(x \o b) = (n - d) + p
        /\ \A k \in 1..((n - d) + p) : (x \o b)[k] = IF k <= n - d THEN x[k] ELSE b[k - (n - d)]
    <3>1. /\ x \o b \in Seq(Entry) /\ Len(x \o b) = Len(x) + p
          /\ \A k \in 1..(Len(x) + p) : (x \o b)[k] = IF k <= Len(x) THEN x[k] ELSE b[k - Len(x)]
      BY <2>1, Joined DEF p
    <3> QED
      BY <2>1, <3>1
  <2>3. Newest(c) = x \o b
    <3> DEFINE y == x \o b
    <3>1. y \in Seq(Entry) /\ Len(y) = (n - d) + p
      BY <2>2
    <3>2. ASSUME NEW k \in 1..((n - d) + p) PROVE y[k] = Newest(c)[k]
      <4>1. y[k] = IF k <= n - d THEN a[d + k] ELSE b[k - (n - d)]
        BY <2>1, <2>2
      <4>2. d + k \in 1..(n + p) /\ (d + k <= n <=> k <= n - d) /\ (d + k) - n = k - (n - d)
        BY <1>1, <1>3, <1>5
      <4>3. k \in 1..((n + p) - d)
        BY <1>1, <1>3, <1>5
      <4>4. c[d + k] = IF d + k <= n THEN a[d + k] ELSE b[(d + k) - n]
        BY <1>2, <4>2
      <4>5. Newest(c)[k] = c[d + k]
        BY <1>3, <4>3
      <4> QED
        BY <4>1, <4>2, <4>4, <4>5
    <3> HIDE DEF y
    <3>3. Len(Newest(c)) = Len(y) /\ \A k \in 1..Len(y) : y[k] = Newest(c)[k]
      BY <1>1, <1>3, <1>5, <3>1, <3>2
    <3>4. y = Newest(c)
      BY <1>4, <3>1, <3>3, SameList
    <3> QED
      BY <3>4 DEF y
  <2>4. Only(x, keep) = <<>>
    <3> DEFINE o == Only(x, keep)
    <3>1. /\ o \in Seq(Entry) /\ Len(o) \in Nat
          /\ \A k \in 1..Len(o) : o[k].id \in keep /\ \E l \in 1..Len(x) : x[l] = o[k]
      BY <2>1, OnlyTypes
    <3>2. \A l \in 1..Len(x) : x[l].id \notin keep
      BY <1>1, <1>3, <1>5, <2>1 DEF n
    <3> HIDE DEF o
    <3>3. Len(o) = 0
      <4> SUFFICES ASSUME 1 \in 1..Len(o) PROVE FALSE
        BY <3>1
      <4>1. o[1].id \in keep /\ \E l \in 1..Len(x) : x[l] = o[1]
        BY <3>1
      <4> QED
        BY <3>2, <4>1
    <3> QED
      BY <3>1, <3>3 DEF o
  <2>5. Only(b, keep) = b
    BY OnlyAll
  <2>6. Only(x \o b, keep) = Only(x, keep) \o Only(b, keep)
    BY <2>1, OnlyJoined
  <2>7. Only(Newest(c), keep) = b
    BY <2>3, <2>4, <2>5, <2>6
  <2> QED
    BY <2>7 DEF c
<1>6. CASE d > n
  <2> DEFINE y == Newest(c)
             e == a \o y
  <2>1. y \in Seq(Entry) /\ Len(y) = Capacity
    BY <1>1, <1>3, <1>4, <1>6
  <2>2. \A k \in 1..Len(y) : y[k].id \in keep
    <3> SUFFICES ASSUME NEW k \in 1..Len(y) PROVE y[k].id \in keep
      OBVIOUS
    <3>1. k \in 1..((n + p) - d) /\ d + k \in 1..(n + p) /\ ~(d + k <= n) /\ (d + k) - n \in 1..p
      BY <1>1, <1>3, <1>6
    <3> QED
      BY <1>2, <1>3, <3>1 DEF p
  <2> HIDE DEF y
  <2>3. Only(y, keep) = y
    BY <2>1, <2>2, OnlyAll
  <2>4. /\ e \in Seq(Entry) /\ Len(e) = n + Capacity
        /\ \A k \in 1..(n + Capacity) : e[k] = IF k <= n THEN a[k] ELSE y[k - n]
    <3>1. /\ e \in Seq(Entry) /\ Len(e) = n + Len(y)
          /\ \A k \in 1..(n + Len(y)) : e[k] = IF k <= n THEN a[k] ELSE y[k - n]
      BY <2>1, Joined DEF n
    <3> QED
      BY <2>1, <3>1
  <2> HIDE DEF e
  <2>5. PICK f \in 0..(n + Capacity) :
          /\ Len(Newest(e)) = (n + Capacity) - f /\ (f # 0 => (n + Capacity) - f = Capacity)
          /\ \A k \in 1..((n + Capacity) - f) : Newest(e)[k] = e[f + k]
    <3>1. \E f \in 0..Len(e) : /\ Len(Newest(e)) = Len(e) - f /\ (f # 0 => Len(e) - f = Capacity)
                              /\ \A k \in 1..(Len(e) - f) : Newest(e)[k] = e[f + k]
      BY <2>4, NewestTypes
    <3> QED
      BY <2>4, <3>1
  <2>6. Newest(e) \in Seq(Entry) /\ Len(Newest(e)) <= Capacity
    BY <2>4, NewestTypes DEF Part
  <2>7. f = n
    BY <1>1, <2>5, <2>6
  <2>8. Len(Newest(e)) = Len(y) /\ \A k \in 1..Len(y) : y[k] = Newest(e)[k]
    BY <1>1, <2>1, <2>4, <2>5, <2>7
  <2>9. y = Newest(e)
    BY <2>1, <2>6, <2>8, SameList
  <2> QED
    BY <2>3, <2>9 DEF e, y, c
<1> QED
  BY <1>1, <1>3, <1>5, <1>6

\* Once the compaction of a shutdown has succeeded, the next start finds what it
\* wrote and what was saved since, whether Shutdown came to its end or not; there
\* is no such promise when that compaction fails (node.go:300-307,
\* storage.go:281-330, 360-363).
THEOREM FinalCompactionLasts == Spec => ShutdownKeepsMessages
<1>1. StoreInv /\ [Next]_vars
        => [Restart /\ final.kept /\ IdsOf(disk) \cap Long = {}
              => flat' = Newest(final.list \o Only(flat', Ids \ final.known))]_vars
  <2> SUFFICES ASSUME StoreInv, Restart, final.kept, IdsOf(disk) \cap Long = {}
               PROVE  flat' = Newest(final.list \o Only(flat', Ids \ final.known))
    OBVIOUS
  <2> DEFINE a == final.list
             n == Len(a)
             b == SubSeq(disk, n + 1, Len(disk))
  <2>1. /\ disk \in Seq(Entry) /\ Len(disk) \in Nat /\ a \in Seq(Entry) /\ n \in Nat /\ n <= Len(disk)
        /\ \A k \in 1..Len(disk) : IF k <= n THEN disk[k] = a[k] /\ disk[k].id \in final.known
                                             ELSE disk[k].id \notin final.known
    BY DEF StoreInv, FinalInv
  <2>2. flat' = Newest(disk)
    BY <2>1, ScannedTypes DEF Restart, Loaded
  <2>3. /\ b \in Seq(Entry) /\ Len(b) = Len(disk) - n
        /\ \A k \in 1..(Len(disk) - n) : b[k] = disk[n + k]
    <3> HIDE DEF n
    <3> QED
      BY <2>1
  <2> HIDE DEF b
  <2>4. /\ a \o b \in Seq(Entry) /\ Len(a \o b) = n + Len(b)
        /\ \A k \in 1..(n + Len(b)) : (a \o b)[k] = IF k <= n THEN a[k] ELSE b[k - n]
    BY <2>1, <2>3, Joined
  <2>5. disk = a \o b
    <3> DEFINE c == a \o b
    <3>1. c \in Seq(Entry) /\ Len(c) = Len(disk)
      BY <2>1, <2>3, <2>4
    <3>2. \A k \in 1..Len(disk) : c[k] = disk[k]
      BY <2>1, <2>3, <2>4
    <3> HIDE DEF c
    <3>3. c = disk
      BY <2>1, <3>1, <3>2, SameList
    <3> QED
      BY <3>3 DEF c
  <2>6. \A k \in 1..n : a[k].id \notin Ids \ final.known
    BY <2>1
  <2>7. \A k \in 1..Len(b) : b[k].id \in Ids \ final.known
    <3> SUFFICES ASSUME NEW k \in 1..Len(b) PROVE b[k].id \in Ids \ final.known
      OBVIOUS
    <3>1. n + k \in 1..Len(disk) /\ ~(n + k <= n) /\ b[k] = disk[n + k] /\ b[k] \in Entry
      BY <2>1, <2>3
    <3> QED
      BY <2>1, <3>1 DEF Entry
  <2> DEFINE keep == Ids \ final.known
  <2>8. a \in Seq(Entry) /\ n = Len(a)
    BY <2>1
  <2> HIDE DEF a, keep
  <2>9. Newest(a \o b) = Newest(a \o Only(Newest(a \o b), keep))
    BY <2>3, <2>6, <2>7, <2>8, LastOfBoth DEF keep
  <2> QED
    BY <2>2, <2>5, <2>9 DEF a, keep
<1> QED
  BY <1>1, StoreHolds, PTL DEF Spec, ShutdownKeepsMessages

\* A restart, after a crash too, finds every acknowledged message that was in
\* memory, while nothing was deleted (storage.go:77-80, 350-368).
THEOREM RestartKeepsAcknowledged == Spec => AckedSurvivesUndeleted
<1>1. StoreInv /\ [Next]_vars
        => [Restart /\ deletes = 0 /\ IdsOf(disk) \cap Long = {}
              => (IdsOf(flat) \cap acked) \ glued \subseteq IdsOf(flat')]_vars
  <2> SUFFICES ASSUME StoreInv, Restart, deletes = 0, IdsOf(disk) \cap Long = {},
                      NEW k \in 1..Len(flat), flat[k].id \in acked \ glued
               PROVE  flat[k].id \in IdsOf(flat')
    BY DEF IdsOf
  <2>1. flat \in Seq(Entry) /\ disk \in Seq(Entry) /\ Len(flat) <= Capacity
    BY DEF StoreInv
  <2>2. flat' = Newest(disk)
    BY <2>1, ScannedTypes DEF Restart, Loaded
  <2>3. PICK l \in 1..Len(disk) : disk[l].id = flat[k].id /\ Len(disk) - l <= Len(flat) - k
    BY DEF StoreInv, Near
  <2>4. PICK d \in 0..Len(disk) :
          /\ Len(flat') = Len(disk) - d /\ (d # 0 => Len(disk) - d = Capacity)
          /\ \A j \in 1..(Len(disk) - d) : flat'[j] = disk[d + j]
    BY <2>1, <2>2, NewestTypes
  <2>5. l - d \in 1..Len(flat') /\ d + (l - d) = l
    <3>1. Len(disk) \in Nat /\ Len(flat) \in Nat /\ Capacity \in Nat
      BY <2>1, StorageAssumption
    <3> QED
      BY <2>1, <2>3, <2>4, <3>1
  <2>6. flat'[l - d].id = flat[k].id
    BY <2>3, <2>4, <2>5
  <2> QED
    BY <2>5, <2>6 DEF IdsOf
<1> QED
  BY <1>1, StoreHolds, PTL DEF Spec, AckedSurvivesUndeleted

-----------------------------------------------------------------------------
(* The lists of the channels: each is the channel's own, ends in what the  *)
(* flat list has of the channel, and has no message twice.                 *)

In(r) == {i \in Ids : RoomOf[i] = r}

RoomOk(r) ==
  /\ index[r] \in Seq(Entry) /\ Len(index[r]) <= Capacity /\ OneEach(index[r])
  /\ IdsOf(index[r]) \subseteq saved \cap In(r)
  /\ EndOf(InRoom(flat, r), index[r])

ListsInv ==
  /\ OneEach(flat) /\ OneEach(disk)
  /\ DOMAIN index = Rooms
  /\ \A r \in Rooms : RoomOk(r)

\* No channel has a message at first.
LEMMA InitLists == Init => ListsInv
<1> SUFFICES ASSUME Init PROVE ListsInv
  OBVIOUS
<1>1. flat = <<>> /\ disk = <<>> /\ index = [r \in Rooms |-> <<>>]
  BY DEF Init
<1>2. <<>> \in Seq(Entry) /\ Len(<<>>) = 0 /\ OneEach(<<>>) /\ IdsOf(<<>>) = {}
  BY DEF OneEach, IdsOf
<1>3. Len(<<>>) <= Capacity
  BY <1>2, StorageAssumption
<1>4. ASSUME NEW r \in Rooms PROVE RoomOk(r)
  <2>1. index[r] = <<>>
    BY <1>1
  <2>2. InRoom(flat, r) = <<>>
    BY <1>1, OnlyEmpty DEF InRoom
  <2>3. EndOf(<<>>, <<>>)
    BY <1>2, EndOfSelf
  <2> QED
    BY <1>2, <1>3, <2>1, <2>2, <2>3 DEF RoomOk
<1> QED
  BY <1>1, <1>2, <1>4 DEF ListsInv

\* Save: the new message comes last in both, and the oldest of either may go.
LEMMA FreshLists ==
  ASSUME StoreInv, ListsInv, NEW i \in Ids, Fresh(i), OneEach(disk')
  PROVE  ListsInv'
<1> DEFINE m == [id |-> i, rev |-> 0, likes |-> {}]
           x == Append(flat, m)
           R == RoomOf[i]
<1>1. /\ flat \in Seq(Entry) /\ m \in Entry /\ m.id = i /\ i \notin IdsOf(flat)
      /\ i \notin saved /\ saved' = saved \cup {i} /\ R \in Rooms
  BY StorageAssumption DEF StoreInv, Fresh, Entry
<1>2. /\ flat' = Newest(x)
      /\ index' = [index EXCEPT ![R] = Trim(Append(index[R], m))]
  BY DEF Fresh, Remember
<1> HIDE DEF m
<1>3. x \in Seq(Entry) /\ OneEach(x)
  BY <1>1, AppendParts, OneEachAppend DEF ListsInv
<1>4. Part(flat', x) /\ EndOf(flat', x) /\ flat' \in Seq(Entry) /\ Len(flat') <= Capacity
  BY <1>2, <1>3, NewestTypes, NewestIsEnd DEF Part
<1>5. OneEach(flat')
  BY <1>3, <1>4, OneEachPart
<1>6. \A r \in Rooms : InRoom(x, r) = IF r = R THEN Append(InRoom(flat, r), m) ELSE InRoom(flat, r)
  <2> SUFFICES ASSUME NEW r \in Rooms
               PROVE  InRoom(x, r) = IF r = R THEN Append(InRoom(flat, r), m) ELSE InRoom(flat, r)
    OBVIOUS
  <2>1. m.id \in In(r) <=> r = R
    BY <1>1 DEF In
  <2>2. Only(x, In(r)) = IF m.id \in In(r) THEN Append(Only(flat, In(r)), m) ELSE Only(flat, In(r))
    BY <1>1, OnlyAppend
  <2> QED
    BY <2>1, <2>2, Zenon DEF InRoom, In
<1> HIDE DEF x
<1>7. ASSUME NEW r \in Rooms
      PROVE  /\ EndOf(InRoom(flat', r), InRoom(x, r))
             /\ Len(InRoom(flat', r)) <= Capacity
  <2>1. EndOf(InRoom(flat', r), InRoom(x, r))
    BY <1>4, EndOfOnly DEF InRoom
  <2>2. Len(InRoom(flat', r)) \in 0..Len(flat')
    BY <1>4, OnlyTypes DEF InRoom
  <2> QED
    BY <1>4, <2>1, <2>2, StorageAssumption
<1>8. DOMAIN index' = Rooms /\ DOMAIN index = Rooms
  BY <1>2 DEF ListsInv
<1>9. ASSUME NEW r \in Rooms PROVE RoomOk(r)'
  <2>1. /\ index[r] \in Seq(Entry) /\ Len(index[r]) <= Capacity /\ OneEach(index[r])
        /\ IdsOf(index[r]) \subseteq saved \cap In(r)
        /\ EndOf(InRoom(flat, r), index[r])
    BY DEF ListsInv, RoomOk
  <2>2. CASE r # R
    <3>1. index'[r] = index[r]
      BY <1>2, <1>8, <2>2
    <3>2. EndOf(InRoom(flat', r), index[r])
      BY <1>6, <1>7, <2>1, <2>2, EndOfEnd
    <3> QED
      BY <1>1, <2>1, <3>1, <3>2 DEF RoomOk
  <2>3. CASE r = R
    <3> DEFINE y == Append(index[r], m)
    <3>1. index'[r] = Trim(y)
      BY <1>2, <1>8, <2>3
    <3>2. /\ y \in Seq(Entry) /\ Len(index[r]) \in Nat /\ Len(y) = Len(index[r]) + 1
      BY <1>1, <2>1, AppendParts
    <3>3. OneEach(y)
      BY <1>1, <2>1, OneEachAppend
    <3>4. IdsOf(y) \subseteq saved' \cap In(r)
      <4>1. /\ \A k \in 1..Len(index[r]) : y[k] = index[r][k]
            /\ y[Len(index[r]) + 1] = m
            /\ \A k \in 1..(Len(index[r]) + 1) : k \in 1..Len(index[r]) \/ k = Len(index[r]) + 1
        BY <1>1, <2>1, AppendParts
      <4>2. m.id \in In(r)
        BY <1>1, <2>3 DEF In
      <4> HIDE DEF y
      <4>3. ASSUME NEW k \in 1..Len(y) PROVE y[k].id \in saved' \cap In(r)
        <5>1. CASE k \in 1..Len(index[r])
          <6>1. y[k].id \in IdsOf(index[r])
            BY <4>1, <5>1 DEF IdsOf
          <6> QED
            BY <1>1, <2>1, <6>1
        <5>2. CASE k = Len(index[r]) + 1
          BY <1>1, <4>1, <4>2, <5>2
        <5> QED
          BY <3>2, <4>1, <5>1, <5>2
      <4> QED
        BY <4>3 DEF IdsOf
    <3>5. EndOf(InRoom(flat', r), y)
      <4>1. EndOf(Append(InRoom(flat, r), m), y)
        BY <1>1, <2>1, EndOfAppend
      <4>2. InRoom(x, r) = Append(InRoom(flat, r), m)
        BY <1>6, <2>3, Zenon
      <4> HIDE DEF y
      <4>3. EndOf(InRoom(x, r), y)
        BY <4>1, <4>2, Zenon
      <4> QED
        BY <1>7, <4>3, EndOfEnd
    <3> HIDE DEF y
    <3>6. Len(y) <= Capacity + 1
      BY <2>1, <3>2, StorageAssumption
    <3>7. Part(Trim(y), y) /\ Len(Trim(y)) <= Capacity /\ EndOf(InRoom(flat', r), Trim(y))
      BY <1>7, <3>2, <3>5, <3>6, TrimTypes
    <3>8. OneEach(Trim(y))
      BY <3>2, <3>3, <3>7, OneEachPart
    <3> QED
      BY <3>1, <3>4, <3>7, <3>8 DEF RoomOk, Part
  <2> QED
    BY <2>2, <2>3
<1> QED
  BY <1>5, <1>8, <1>9 DEF ListsInv

\* Edits and reactions change both copies alike.
LEMMA ChangedLists ==
  ASSUME StoreInv, ListsInv, NEW i \in Ids, NEW g \in Changer,
         \A e \in Entry : e.id # i => g[e] = e,
         flat' = Mapped(flat, g),
         index' = [index EXCEPT ![RoomOf[i]] = Mapped(index[RoomOf[i]], g)],
         UNCHANGED <<disk, saved>>
  PROVE  ListsInv'
<1>1. flat \in Seq(Entry) /\ OneEach(flat) /\ OneEach(disk) /\ DOMAIN index = Rooms
      /\ RoomOf[i] \in Rooms
  BY StorageAssumption DEF StoreInv, ListsInv
<1>2. \A s \in Seq(Entry) : Part(Mapped(s, g), s) /\ Len(Mapped(s, g)) = Len(s)
  <2> SUFFICES ASSUME NEW s \in Seq(Entry) PROVE Part(Mapped(s, g), s) /\ Len(Mapped(s, g)) = Len(s)
    OBVIOUS
  <2>1. SameIds(Mapped(s, g), s)
    BY MappedTypes DEF SameIds
  <2> QED
    BY <2>1, SameIsPart DEF SameIds
<1>3. OneEach(flat')
  BY <1>1, <1>2, OneEachPart
<1>4. ASSUME NEW r \in Rooms PROVE RoomOk(r)'
  <2>1. /\ index[r] \in Seq(Entry) /\ Len(index[r]) <= Capacity /\ OneEach(index[r])
        /\ IdsOf(index[r]) \subseteq saved \cap In(r)
        /\ EndOf(InRoom(flat, r), index[r])
    BY DEF ListsInv, RoomOk
  <2>2. index'[r] = Mapped(index[r], g)
    <3>1. CASE r = RoomOf[i]
      BY <1>1, <3>1
    <3>2. CASE r # RoomOf[i]
      <4>1. index'[r] = index[r] /\ i \notin In(r)
        BY <1>1, <3>2 DEF In
      <4>2. \A k \in 1..Len(index[r]) : index[r][k] \in Entry /\ index[r][k].id # i
        BY <2>1, <4>1 DEF IdsOf
      <4>3. Mapped(index[r], g) = index[r]
        BY <2>1, <4>2, MappedSame
      <4> QED
        BY <4>1, <4>3
    <3> QED
      BY <3>1, <3>2
  <2>3. InRoom(flat', r) = Mapped(InRoom(flat, r), g)
    BY <1>1, OnlyMapped DEF InRoom
  <2>4. EndOf(InRoom(flat', r), index'[r])
    BY <2>1, <2>2, <2>3, EndOfMapped
  <2>5. Part(index'[r], index[r]) /\ Len(index'[r]) = Len(index[r])
    BY <1>2, <2>1, <2>2
  <2>6. OneEach(index'[r])
    BY <2>1, <2>5, OneEachPart
  <2> QED
    BY <2>1, <2>4, <2>5, <2>6 DEF RoomOk, Part
<1> QED
  BY <1>1, <1>3, <1>4 DEF ListsInv

\* Deletion takes the message from both.
LEMMA DeletedLists ==
  ASSUME StoreInv, ListsInv, NEW i \in Ids, DeleteMessage(i)
  PROVE  ListsInv'
<1> DEFINE rest == Ids \ {i}
           R == RoomOf[i]
<1>1. flat \in Seq(Entry) /\ OneEach(flat) /\ OneEach(disk) /\ DOMAIN index = Rooms /\ R \in Rooms
  BY StorageAssumption DEF StoreInv, ListsInv
<1>2. /\ flat' = Without(flat, i) /\ index' = [index EXCEPT ![R] = Without(index[R], i)]
      /\ disk' = disk /\ saved' = saved
  BY DEF DeleteMessage, Change, InIndex, file, ids
<1>3. flat' = Only(flat, rest)
  BY <1>1, <1>2, WithoutIsOnly
<1>4. OneEach(flat')
  BY <1>1, <1>3, OnlyIsPart, OneEachPart
<1>5. ASSUME NEW r \in Rooms PROVE RoomOk(r)'
  <2>1. /\ index[r] \in Seq(Entry) /\ Len(index[r]) <= Capacity /\ OneEach(index[r])
        /\ IdsOf(index[r]) \subseteq saved \cap In(r)
        /\ EndOf(InRoom(flat, r), index[r])
    BY DEF ListsInv, RoomOk
  <2>2. index'[r] = Only(index[r], rest)
    <3>1. CASE r = R
      BY <1>1, <1>2, <2>1, <3>1, WithoutIsOnly
    <3>2. CASE r # R
      <4>1. index'[r] = index[r] /\ In(r) \subseteq rest
        BY <1>1, <1>2, <3>2 DEF In
      <4>2. \A k \in 1..Len(index[r]) : index[r][k].id \in rest
        BY <2>1, <4>1 DEF IdsOf
      <4>3. Only(index[r], rest) = index[r]
        BY <2>1, <4>2, OnlyAll
      <4> QED
        BY <4>1, <4>3
    <3> QED
      BY <3>1, <3>2
  <2>3. InRoom(flat', r) = Only(InRoom(flat, r), rest)
    <3>1. Only(Only(flat, rest), In(r)) = Only(flat, rest \cap In(r))
      BY <1>1, OnlyOnly
    <3>2. Only(Only(flat, In(r)), rest) = Only(flat, In(r) \cap rest)
      BY <1>1, OnlyOnly
    <3>3. rest \cap In(r) = In(r) \cap rest
      OBVIOUS
    <3> QED
      BY <1>3, <3>1, <3>2, <3>3, Zenon DEF InRoom, In
  <2>4. EndOf(InRoom(flat', r), index'[r])
    BY <2>1, <2>2, <2>3, EndOfOnly
  <2>5. Part(index'[r], index[r])
    BY <2>1, <2>2, OnlyIsPart
  <2>6. OneEach(index'[r])
    BY <2>1, <2>5, OneEachPart
  <2>7. Len(index'[r]) <= Capacity
    <3>1. Len(index'[r]) \in Nat /\ Len(index[r]) \in Nat /\ Len(index'[r]) <= Len(index[r])
      BY <2>1, <2>5 DEF Part
    <3> QED
      BY <2>1, <3>1, StorageAssumption
  <2> QED
    BY <1>2, <2>1, <2>4, <2>5, <2>6, <2>7 DEF RoomOk, Part
<1> QED
  BY <1>1, <1>2, <1>4, <1>5 DEF ListsInv

\* A start makes the lists of the channels from the flat list.
LEMMA RestartLists == ASSUME StoreInv, ListsInv, Restart PROVE ListsInv'
<1>1. /\ flat' = Loaded /\ index' = [r \in Rooms |-> InRoom(flat', r)]
      /\ disk' = disk /\ saved' = saved
      /\ disk \in Seq(Entry) /\ OneEach(disk) /\ IdsOf(disk) \subseteq saved
  BY DEF Restart, ids, StoreInv, ListsInv
<1>2. Part(flat', disk) /\ Len(flat') <= Capacity
  BY <1>1, LoadedIsPart
<1>3. OneEach(flat') /\ flat' \in Seq(Entry) /\ IdsOf(flat') \subseteq saved
  BY <1>1, <1>2, OneEachPart DEF Part
<1>4. ASSUME NEW r \in Rooms PROVE RoomOk(r)'
  <2> DEFINE t == InRoom(flat', r)
  <2>1. index'[r] = t /\ t = Only(flat', In(r))
    BY <1>1 DEF InRoom, In
  <2>2. Part(t, flat') /\ IdsOf(t) \subseteq In(r)
    BY <1>3, <2>1, OnlyIsPart
  <2> HIDE DEF t
  <2>3. t \in Seq(Entry) /\ IdsOf(t) \subseteq saved \cap In(r) /\ OneEach(t)
    BY <1>3, <2>2, OneEachPart DEF Part
  <2>4. Len(t) <= Capacity
    <3>1. Len(t) \in Nat /\ Len(flat') \in Nat /\ Len(t) <= Len(flat')
      BY <1>3, <2>2, <2>3 DEF Part
    <3> QED
      BY <1>2, <3>1, StorageAssumption
  <2>5. EndOf(t, t)
    BY <2>3, EndOfSelf
  <2> QED
    BY <1>1, <2>1, <2>3, <2>4, <2>5 DEF RoomOk, t
<1> QED
  BY <1>1, <1>3, <1>4 DEF ListsInv

\* Nothing that the lists are about changes, but perhaps the file.
LEMMA StillLists ==
  ASSUME StoreInv, ListsInv, UNCHANGED <<flat, index, saved>>, disk' = disk \/ disk' = flat
  PROVE  ListsInv'
BY DEF ListsInv, RoomOk, InRoom, OneEach, EndOf, IdsOf

\* Every step keeps the lists so.
LEMMA NextLists == ASSUME StoreInv, ListsInv, [Next]_vars PROVE ListsInv'
<1> USE DEF memory, file, counts, ids
<1>1. ASSUME NEW i \in Ids, SaveOk(i) PROVE ListsInv'
  <2>1. OneEach(disk')
    <3> DEFINE m == [id |-> i, rev |-> 0, likes |-> {}]
    <3>1. disk \in Seq(Entry) /\ OneEach(disk) /\ m \in Entry /\ m.id \notin IdsOf(disk)
      BY <1>1 DEF StoreInv, ListsInv, SaveOk, Fresh, Entry
    <3>2. disk' = disk \/ disk' = Append(disk, m)
      BY <1>1 DEF SaveOk
    <3> HIDE DEF m
    <3> QED
      BY <3>1, <3>2, OneEachAppend
  <2> QED
    BY <1>1, <2>1, FreshLists DEF SaveOk
<1>2. ASSUME NEW i \in Ids, SaveFails(i) \/ SaveBroken(i) PROVE ListsInv'
  <2>1. OneEach(disk')
    BY <1>2 DEF SaveFails, SaveBroken, ListsInv
  <2> QED
    BY <1>2, <2>1, FreshLists DEF SaveFails, SaveBroken
<1>3. ASSUME NEW i \in Ids, UpdateMessage(i) \/ \E u \in Users : AddReaction(i, u)
      PROVE  ListsInv'
  <2>1. /\ flat \in Seq(Entry) /\ OneEach(flat) /\ RoomOf[i] \in Rooms
        /\ index[RoomOf[i]] \in Seq(Entry) /\ OneEach(index[RoomOf[i]])
    BY StorageAssumption DEF StoreInv, ListsInv, RoomOk
  <2>2. \A e \in Entry : e.id # i => Raised(i)[e] = e /\ \A u \in Users : Reacted(i, u)[e] = e
    BY DEF Raised, Reacted
  <2>3. CASE UpdateMessage(i)
    <3>1. /\ flat' = Edited(flat, i)
          /\ index' = [index EXCEPT ![RoomOf[i]] = Edited(index[RoomOf[i]], i)]
          /\ disk' = disk /\ saved' = saved
      BY <2>3 DEF UpdateMessage, Change, InIndex
    <3> DEFINE g == Raised(i)
    <3>2. g \in Changer /\ \A e \in Entry : e.id # i => g[e] = e
      BY <2>2, ChangersAre
    <3>3. \A s \in Seq(Entry) : OneEach(s) => Edited(s, i) = Mapped(s, g)
      BY EditedIsMapped
    <3> HIDE DEF g
    <3>4. /\ flat' = Mapped(flat, g)
          /\ index' = [index EXCEPT ![RoomOf[i]] = Mapped(index[RoomOf[i]], g)]
      BY <2>1, <3>1, <3>3
    <3> QED
      BY <3>1, <3>2, <3>4, ChangedLists
  <2>4. ASSUME NEW u \in Users, AddReaction(i, u) PROVE ListsInv'
    <3>1. /\ flat' = Liked(flat, i, u)
          /\ index' = [index EXCEPT ![RoomOf[i]] = Liked(index[RoomOf[i]], i, u)]
          /\ disk' = disk /\ saved' = saved
      BY <2>4 DEF AddReaction, Change, InIndex
    <3> DEFINE g == Reacted(i, u)
    <3>2. g \in Changer /\ \A e \in Entry : e.id # i => g[e] = e
      BY <2>2, ChangersAre
    <3>3. \A s \in Seq(Entry) : OneEach(s) => Liked(s, i, u) = Mapped(s, g)
      BY EditedIsMapped
    <3> HIDE DEF g
    <3>4. /\ flat' = Mapped(flat, g)
          /\ index' = [index EXCEPT ![RoomOf[i]] = Mapped(index[RoomOf[i]], g)]
      BY <2>1, <3>1, <3>3
    <3> QED
      BY <3>1, <3>2, <3>4, ChangedLists
  <2> QED
    BY <1>3, <2>3, <2>4
<1>4. ASSUME NEW i \in Ids, DeleteMessage(i) PROVE ListsInv'
  BY <1>4, DeletedLists
<1>5. CASE Compact \/ Shutdown \/ Crash \/ Close \/ Exit \/ UNCHANGED vars
  BY <1>5, StillLists DEF Compact, CompactAOF, CompactOk, CompactCreateFails, CompactRenameFails,
     CompactReopenFails, Replaced, Image, Shutdown, Crash, Close, Exit, vars
<1> QED
  BY <1>1, <1>2, <1>3, <1>4, <1>5, RestartLists DEF Next

-----------------------------------------------------------------------------
(* Types.  A message was edited no more often than messages were changed.  *)

Low(s, c) == \A k \in 1..Len(s) : s[k].rev <= c

\* Every message of a list is one of another list.
Within(t, s) == t \in Seq(Entry) /\ \A k \in 1..Len(t) : \E l \in 1..Len(s) : t[k] = s[l]

\* Messages of a list that was edited no more often were not either.
LEMMA LowWithin ==
  ASSUME NEW s \in Seq(Entry), NEW t, Within(t, s), NEW c, Low(s, c) PROVE Low(t, c)
BY DEF Within, Low

\* A stretch has messages of the list only.
LEMMA StretchIsWithin ==
  ASSUME NEW s \in Seq(Entry), NEW a \in Nat, NEW b \in Nat, 1 <= a, b <= Len(s)
  PROVE  Within(SubSeq(s, a, b), s)
<1> DEFINE t == SubSeq(s, a, b)
<1>1. Len(s) \in Nat
  OBVIOUS
<1>2. CASE a <= b
  <2>1. t \in Seq(Entry) /\ Len(t) = b - a + 1 /\ \A k \in 1..(b - a + 1) : t[k] = s[a + k - 1]
    BY <1>1, <1>2
  <2> HIDE DEF t
  <2>2. \A k \in 1..(b - a + 1) : a + k - 1 \in 1..Len(s)
    BY <1>1, <1>2
  <2>3. Within(t, s)
    BY <2>1, <2>2 DEF Within
  <2> QED
    BY <2>3 DEF t
<1>3. CASE b < a
  <2>1. t \in Seq(Entry) /\ Len(t) = 0
    BY <1>1, <1>3
  <2> HIDE DEF t
  <2>2. Within(t, s)
    BY <2>1 DEF Within
  <2> QED
    BY <2>2 DEF t
<1> QED
  BY <1>2, <1>3

\* So has whatever the operations cut out of one.
LEMMA AllWithin ==
  ASSUME NEW s \in Seq(Entry)
  PROVE  /\ Within(s, s) /\ Within(Newest(s), s) /\ Within(Trim(s), s)
         /\ \A keep : Within(Only(s, keep), s)
<1>1. Len(s) \in Nat /\ Capacity \in Nat \ {0}
  BY StorageAssumption
<1>2. Within(s, s)
  BY DEF Within
<1>3. Within(Newest(s), s)
  <2>1. CASE Len(s) > Capacity
    <3>1. Len(s) - Capacity + 1 \in Nat /\ 1 <= Len(s) - Capacity + 1 /\ Len(s) <= Len(s)
      BY <1>1, <2>1
    <3> QED
      BY <1>1, <2>1, <3>1, StretchIsWithin DEF Newest
  <2> QED
    BY <1>2, <2>1 DEF Newest
<1>4. Within(Trim(s), s)
  <2>1. CASE Len(s) > Capacity
    <3> DEFINE t == Tail(s)
               n == Len(s) - 1
    <3>1. n \in Nat /\ s # <<>> /\ \A k \in 1..n : 1 + k \in 1..Len(s)
      BY <1>1, <2>1
    <3>2. t \in Seq(Entry) /\ Len(t) = n /\ \A k \in 1..n : t[k] = s[1 + k]
      BY <3>1
    <3> HIDE DEF t, n
    <3>3. Within(t, s)
      BY <3>1, <3>2 DEF Within
    <3> QED
      BY <2>1, <3>3 DEF Trim, t
  <2> QED
    BY <1>2, <2>1 DEF Trim
<1>5. ASSUME NEW keep PROVE Within(Only(s, keep), s)
  <2>1. /\ Only(s, keep) \in Seq(Entry)
        /\ \A k \in 1..Len(Only(s, keep)) : \E l \in 1..Len(s) : s[l] = Only(s, keep)[k]
    BY OnlyTypes
  <2> QED
    BY <2>1 DEF Within
<1> QED
  BY <1>2, <1>3, <1>4, <1>5

\* A start reads messages of the file only.
LEMMA LoadedIsWithin == ASSUME disk \in Seq(Entry) PROVE Within(Loaded, disk)
<1> DEFINE I == {k \in 1..Len(disk) : disk[k].id \in Long}
           k == IF I # {} THEN Min(I) ELSE 0
<1>1. Scanned = IF k = 0 THEN disk ELSE SubSeq(disk, 1, k - 1)
  BY DEF Scanned, SelectInSeq
<1>2. I \in SUBSET Nat /\ I \subseteq 1..Len(disk) /\ Len(disk) \in Nat
  OBVIOUS
<1> HIDE DEF I
<1>3. k \in 0..Len(disk)
  <2>1. I # {} => Min(I) \in 1..Len(disk)
    BY <1>2, MinIsMember
  <2> QED
    BY <1>2, <2>1
<1> HIDE DEF k
<1>4. Within(Scanned, disk)
  <2>1. CASE k = 0
    BY <1>1, <2>1, AllWithin
  <2>2. CASE k # 0
    <3>1. k - 1 \in Nat /\ k - 1 <= Len(disk) /\ 1 <= 1 /\ 1 \in Nat
      BY <1>2, <1>3, <2>2
    <3> QED
      BY <1>1, <2>2, <3>1, StretchIsWithin
  <2> QED
    BY <2>1, <2>2
<1>5. Scanned \in Seq(Entry)
  BY <1>4 DEF Within
<1>6. Within(Newest(Scanned), Scanned)
  BY <1>5, AllWithin
<1> QED
  BY <1>4, <1>6 DEF Within, Loaded

\* A new message was not edited yet.
LEMMA LowAppend ==
  ASSUME NEW s \in Seq(Entry), NEW m \in Entry, NEW c \in Nat, Low(s, c), m.rev = 0
  PROVE  Low(Append(s, m), c)
<1> DEFINE t == Append(s, m)
<1>1. /\ Len(s) \in Nat /\ Len(t) = Len(s) + 1
      /\ \A k \in 1..Len(s) : t[k] = s[k]
      /\ t[Len(s) + 1] = m
      /\ \A k \in 1..(Len(s) + 1) : k \in 1..Len(s) \/ k = Len(s) + 1
  BY AppendParts
<1> HIDE DEF t
<1>2. 0 <= c
  OBVIOUS
<1>3. Low(t, c)
  BY <1>1, <1>2 DEF Low
<1> QED
  BY <1>3 DEF t

\* An edit adds one, a reaction nothing.
LEMMA LowChanged ==
  ASSUME NEW s \in Seq(Entry), NEW i, NEW u, NEW c \in Nat, Low(s, c)
  PROVE  Low(Edited(s, i), c + 1) /\ Low(Liked(s, i, u), c + 1) /\ Low(s, c + 1)
<1>1. DOMAIN s = 1..Len(s) /\ Len(s) \in Nat /\ \A k \in 1..Len(s) : s[k] \in Entry
  OBVIOUS
<1>2. \A e \in Entry : /\ e.rev \in Nat /\ [e EXCEPT !.rev = @ + 1].rev = e.rev + 1
                       /\ [e EXCEPT !.likes = @ \cup {u}].rev = e.rev
  BY DEF Entry
<1>3. \A k \in 1..Len(s) : s[k].rev \in Nat /\ s[k].rev <= c
  BY <1>1, <1>2 DEF Low
<1> DEFINE v == Edited(s, i)
           w == Liked(s, i, u)
<1>4. /\ v = [k \in 1..Len(s) |-> IF k = Find(s, i) THEN [s[k] EXCEPT !.rev = @ + 1] ELSE s[k]]
      /\ w = [k \in 1..Len(s) |->
                IF k = Find(s, i) THEN [s[k] EXCEPT !.likes = @ \cup {u}] ELSE s[k]]
  BY <1>1 DEF Edited, Liked
<1>5. SameIds(Edited(s, i), s)
  BY ChangedInPlace
<1> HIDE DEF v, w
<1>6. \A k \in 1..Len(s) : v[k].rev <= c + 1 /\ w[k].rev <= c + 1 /\ s[k].rev <= c + 1
  BY <1>1, <1>2, <1>3, <1>4
<1>7. Len(v) = Len(s) /\ Len(w) = Len(s)
  <2>1. v = [k \in 1..Len(s) |-> v[k]] /\ w = [k \in 1..Len(s) |-> w[k]]
    BY <1>4
  <2> QED
    BY <1>1, <2>1
<1> QED
  BY <1>6, <1>7 DEF Low, v, w

TypesInv ==
  /\ torn \in BOOLEAN /\ encoder \in {"ok", "broken"} /\ run \in {"up", "closing", "closed", "down"}
  /\ glued \subseteq acked /\ saved \subseteq Ids
  /\ changes \in 0..MaxChanges /\ deletes \in 0..MaxDeletes /\ restarts \in 0..MaxRestarts
  /\ run # "up" => restarts < MaxRestarts
  /\ final.kept \in BOOLEAN
  /\ Low(flat, changes) /\ Low(disk, changes) /\ Low(final.list, changes)
  /\ \A r \in Rooms : Low(index[r], changes)

\* No list has a message at first.
LEMMA InitTypes == Init => TypesInv
<1> SUFFICES ASSUME Init PROVE TypesInv
  OBVIOUS
<1>1. Len(<<>>) = 0 /\ 0 \in 0..MaxChanges /\ 0 \in 0..MaxDeletes /\ 0 \in 0..MaxRestarts
  BY StorageAssumption
<1>2. Low(<<>>, 0)
  BY <1>1 DEF Low
<1> QED
  BY <1>1, <1>2 DEF Init, TypesInv, NoFinal

\* The lists after a Save.
LEMMA FreshTypes ==
  ASSUME StoreInv, ListsInv, TypesInv, NEW i \in Ids, Fresh(i), UNCHANGED changes
  PROVE  /\ Low(flat', changes') /\ \A r \in Rooms : Low(index'[r], changes')
         /\ saved' \subseteq Ids
<1> DEFINE m == [id |-> i, rev |-> 0, likes |-> {}]
           x == Append(flat, m)
           R == RoomOf[i]
<1>1. /\ flat \in Seq(Entry) /\ m \in Entry /\ m.rev = 0 /\ R \in Rooms /\ changes \in Nat
      /\ DOMAIN index = Rooms /\ Low(flat, changes)
      /\ \A r \in Rooms : index[r] \in Seq(Entry) /\ Low(index[r], changes)
  <2>1. m \in Entry /\ m.rev = 0
    BY DEF Entry
  <2> HIDE DEF m
  <2> QED
    BY <2>1, StorageAssumption DEF StoreInv, ListsInv, RoomOk, TypesInv
<1>2. /\ flat' = Newest(x) /\ index' = [index EXCEPT ![R] = Trim(Append(index[R], m))]
      /\ saved' = saved \cup {i}
  BY DEF Fresh, Remember
<1> HIDE DEF m
<1>3. Low(flat', changes)
  <2>1. x \in Seq(Entry) /\ Low(x, changes)
    BY <1>1, AppendParts, LowAppend
  <2> HIDE DEF x
  <2> QED
    BY <1>2, <2>1, AllWithin, LowWithin
<1>4. ASSUME NEW r \in Rooms PROVE Low(index'[r], changes)
  <2> DEFINE y == Append(index[r], m)
  <2>1. y \in Seq(Entry) /\ Low(y, changes)
    BY <1>1, AppendParts, LowAppend
  <2>2. CASE r = R
    <3>1. index'[r] = Trim(y)
      BY <1>1, <1>2, <2>2
    <3> HIDE DEF y
    <3> QED
      BY <2>1, <3>1, AllWithin, LowWithin
  <2>3. CASE r # R
    BY <1>1, <1>2, <2>3
  <2> QED
    BY <2>2, <2>3
<1> QED
  BY <1>2, <1>3, <1>4 DEF TypesInv

\* Every step keeps the types.
LEMMA NextTypes == ASSUME StoreInv, ListsInv, TypesInv, [Next]_vars PROVE TypesInv'
<1> USE DEF memory, file, counts, ids
<1>1. /\ flat \in Seq(Entry) /\ disk \in Seq(Entry) /\ DOMAIN index = Rooms
      /\ \A r \in Rooms : index[r] \in Seq(Entry) /\ OneEach(index[r])
      /\ changes \in Nat /\ deletes \in Nat /\ restarts \in Nat /\ RoomOf \in [Ids -> Rooms]
      /\ MaxChanges \in Nat /\ MaxDeletes \in Nat /\ MaxRestarts \in Nat
      /\ Low(flat, changes) /\ Low(disk, changes) /\ \A r \in Rooms : Low(index[r], changes)
      /\ final.list \in Seq(Entry) /\ Low(final.list, changes)
  BY StorageAssumption DEF StoreInv, ListsInv, RoomOk, TypesInv, FinalInv
<1>2. ASSUME NEW i \in Ids, SaveOk(i) PROVE TypesInv'
  <2>1. Low(disk', changes)
    <3> DEFINE m == [id |-> i, rev |-> 0, likes |-> {}]
    <3>1. m \in Entry /\ m.rev = 0 /\ (disk' = disk \/ disk' = Append(disk, m))
      BY <1>2 DEF SaveOk, Entry
    <3> HIDE DEF m
    <3> QED
      BY <1>1, <3>1, LowAppend
  <2> QED
    BY <1>1, <1>2, <2>1, FreshTypes DEF SaveOk, TypesInv
<1>3. ASSUME NEW i \in Ids, SaveFails(i) \/ SaveBroken(i) PROVE TypesInv'
  BY <1>3, FreshTypes DEF SaveFails, SaveBroken, TypesInv
<1>4. ASSUME NEW i \in Ids, UpdateMessage(i) \/ \E u \in Users : AddReaction(i, u)
      PROVE  TypesInv'
  <2>1. /\ changes' = changes + 1 /\ changes' \in 0..MaxChanges
        /\ disk' = disk /\ run' = run /\ torn' = torn /\ encoder' = encoder
        /\ saved' = saved /\ acked' = acked /\ glued' = glued
        /\ deletes' = deletes /\ restarts' = restarts /\ final' = final
    BY <1>1, <1>4 DEF UpdateMessage, AddReaction, Change
  <2>2. /\ flat' = Edited(flat, i) \/ \E u \in Users : flat' = Liked(flat, i, u)
        /\ \A r \in Rooms : \/ index'[r] = index[r] \/ index'[r] = Edited(index[r], i)
                            \/ \E u \in Users : index'[r] = Liked(index[r], i, u)
    BY <1>1, <1>4 DEF UpdateMessage, AddReaction, Change, InIndex
  <2>3. \A s \in Seq(Entry) : Low(s, changes) =>
          /\ Low(Edited(s, i), changes') /\ Low(s, changes')
          /\ \A u \in Users : Low(Liked(s, i, u), changes')
    BY <1>1, <2>1, LowChanged
  <2>4. Low(flat', changes')
    BY <1>1, <2>3, <2>2
  <2>5. \A r \in Rooms : Low(index'[r], changes')
    BY <1>1, <2>3, <2>2
  <2>6. Low(disk', changes') /\ Low(final'.list, changes')
    BY <1>1, <2>3, <2>1
  <2> QED
    BY <2>1, <2>4, <2>5, <2>6 DEF TypesInv
<1>5. ASSUME NEW i \in Ids, DeleteMessage(i) PROVE TypesInv'
  <2>1. /\ deletes' = deletes + 1 /\ deletes' \in 0..MaxDeletes
        /\ disk' = disk /\ run' = run /\ torn' = torn /\ encoder' = encoder
        /\ saved' = saved /\ acked' = acked /\ glued' = glued
        /\ changes' = changes /\ restarts' = restarts /\ final' = final
    BY <1>1, <1>5 DEF DeleteMessage, Change
  <2>2. \A s \in Seq(Entry) : OneEach(s) /\ Low(s, changes) => Low(Without(s, i), changes)
    <3> SUFFICES ASSUME NEW s \in Seq(Entry), OneEach(s), Low(s, changes)
                 PROVE  Low(Without(s, i), changes)
      OBVIOUS
    <3>1. Without(s, i) = Only(s, Ids \ {i}) /\ Within(Only(s, Ids \ {i}), s)
      BY WithoutIsOnly, AllWithin
    <3> QED
      BY <3>1, LowWithin
  <2>3. /\ flat' = Without(flat, i) /\ OneEach(flat)
        /\ \A r \in Rooms : index'[r] = index[r] \/ index'[r] = Without(index[r], i)
    BY <1>1, <1>5 DEF DeleteMessage, Change, InIndex, ListsInv
  <2> QED
    BY <1>1, <2>1, <2>2, <2>3 DEF TypesInv
<1>6. CASE Restart
  <2>1. /\ flat' = Loaded /\ index' = [r \in Rooms |-> InRoom(flat', r)]
        /\ changes' = changes /\ disk' = disk
    BY <1>6 DEF Restart
  <2>2. Within(flat', disk) /\ flat' \in Seq(Entry)
    BY <1>1, <2>1, LoadedIsWithin DEF Within
  <2>3. Low(flat', changes)
    BY <1>1, <2>2, LowWithin
  <2>4. \A r \in Rooms : Within(index'[r], flat')
    BY <2>1, <2>2, AllWithin DEF InRoom
  <2>5. \A r \in Rooms : Low(index'[r], changes)
    BY <2>2, <2>3, <2>4, LowWithin
  <2>6. restarts' \in 0..MaxRestarts
    BY <1>1, <1>6 DEF Restart, TypesInv
  <2>7. final'.kept = FALSE /\ Low(final'.list, changes)
    BY <1>6 DEF Restart, NoFinal, Low
  <2> QED
    BY <1>1, <1>6, <2>1, <2>3, <2>5, <2>6, <2>7 DEF Restart, TypesInv
<1>7. CASE Compact \/ Shutdown
  <2>1. /\ flat' = flat /\ index' = index
        /\ disk' = disk \/ disk' = flat
        /\ final' = final \/ final' = [kept |-> TRUE, list |-> flat, known |-> saved]
        /\ torn' = torn \/ torn' = FALSE
        /\ encoder' = encoder \/ encoder' \in {"ok", "broken"}
        /\ saved' = saved /\ acked' = acked /\ glued' = glued
        /\ changes' = changes /\ deletes' = deletes /\ restarts' = restarts
        /\ run' = run \/ (run' = "closing" /\ restarts < MaxRestarts)
    BY <1>7 DEF Compact, Shutdown, CompactAOF, CompactOk, CompactCreateFails, CompactRenameFails,
                CompactReopenFails, Replaced, Image
  <2>2. final'.kept \in BOOLEAN /\ Low(final'.list, changes)
    <3>1. CASE final' = final
      BY <1>1, <3>1 DEF TypesInv
    <3>2. CASE final' = [kept |-> TRUE, list |-> flat, known |-> saved]
      <4>1. final'.kept = TRUE /\ final'.list = flat
        BY <3>2
      <4> QED
        BY <1>1, <4>1
    <3> QED
      BY <2>1, <3>1, <3>2
  <2>3. Low(disk', changes)
    BY <1>1, <2>1
  <2> QED
    BY <1>1, <2>1, <2>2, <2>3 DEF TypesInv
<1>8. CASE Crash \/ Close \/ Exit \/ UNCHANGED vars
  BY <1>8 DEF Crash, Close, Exit, vars, TypesInv
<1> QED
  BY <1>2, <1>3, <1>4, <1>5, <1>6, <1>7, <1>8 DEF Next

-----------------------------------------------------------------------------
(* The theorems about the lists *)

\* All three, always.
LEMMA ListsHold == Spec => [](StoreInv /\ ListsInv /\ TypesInv)
<1>1. Init => StoreInv /\ ListsInv /\ TypesInv
  BY InitStore, InitLists, InitTypes
<1>2. StoreInv /\ ListsInv /\ TypesInv /\ [Next]_vars => (StoreInv /\ ListsInv /\ TypesInv)'
  BY NextStore, NextLists, NextTypes
<1> QED
  BY <1>1, <1>2, PTL DEF Spec

\* What the flat list has of a channel is the end of the channel's own list,
\* whatever is saved, changed, deleted, evicted or read back
\* (storage.go:65-75, 207-214, 231-239, 265-274, 363-368).
THEOREM BothListsAgree == Spec => []ListsAgree
<1>1. ListsInv => ListsAgree
  BY EndIsSuffix DEF ListsInv, RoomOk, ListsAgree
<1> QED
  BY <1>1, ListsHold, PTL

\* Every variable of the store has its type, and no list outgrows its capacity
\* (storage.go:65-75, 350-368).
THEOREM StoreTypes == Spec => []TypeOK
<1>1. StoreInv /\ ListsInv /\ TypesInv => TypeOK
  <2> SUFFICES ASSUME StoreInv, ListsInv, TypesInv PROVE TypeOK
    OBVIOUS
  <2>1. ASSUME NEW s \in Seq(Entry), Low(s, changes) PROVE s \in Seq(Message)
    <3>1. changes \in 0..MaxChanges /\ MaxChanges \in Nat /\ Len(s) \in Nat
      BY StorageAssumption DEF TypesInv
    <3>2. ASSUME NEW e \in Entry, e.rev <= changes PROVE e \in Message
      <4>1. e.rev \in 0..MaxChanges
        BY <3>1, <3>2 DEF Entry
      <4> QED
        BY <4>1 DEF Entry, Message
    <3>3. \A k \in 1..Len(s) : s[k] \in Message
      BY <2>1, <3>2 DEF Low
    <3>4. s = [k \in 1..Len(s) |-> s[k]]
      OBVIOUS
    <3>5. s \in [1..Len(s) -> Message]
      BY <3>3, <3>4
    <3> QED
      BY <3>1, <3>5
  <2>2. /\ flat \in Seq(Message) /\ disk \in Seq(Message) /\ final.list \in Seq(Message)
        /\ \A r \in Rooms : index[r] \in Seq(Message) /\ Len(index[r]) <= Capacity
    BY <2>1 DEF StoreInv, ListsInv, RoomOk, TypesInv, FinalInv
  <2> QED
    BY <2>2 DEF StoreInv, ListsInv, TypesInv, TypeOK, FinalInv
<1> QED
  BY <1>1, ListsHold, PTL

-----------------------------------------------------------------------------
(* Pages                                                                   *)

\* A page is a window on the list.
LEMMA PageWindow ==
  ASSUME NEW r, index[r] \in Seq(Entry), NEW limit \in Nat, NEW offset \in Nat
  PROVE  /\ ~Panics(Len(index[r]), limit, offset)
         /\ IdsOf(Page(r, limit, offset)) =
              {index[r][k].id : k \in {k \in 1..Len(index[r]) :
                                         Len(index[r]) - k \in offset..(offset + limit - 1)}}
         /\ Page(r, limit, offset) = <<>> /\ limit > 0 => Len(index[r]) <= offset
<1> DEFINE s == index[r]
           n == Len(s)
           p == Page(r, limit, offset)
           a == PageStart(n, limit, offset)
           b == PageEnd(n, offset)
           W == {k \in 1..n : n - k \in offset..(offset + limit - 1)}
<1>1. s \in Seq(Entry) /\ n \in Nat /\ Len(s) = n
  OBVIOUS
<1>2. p = IF n = 0 \/ b < 0 THEN <<>> ELSE SubSeq(s, a + 1, b)
  BY DEF Page
<1> HIDE DEF p
<1>3. b = n - offset /\ a = IF n - offset - limit < 0 THEN 0 ELSE n - offset - limit
  BY <1>1 DEF PageStart, PageEnd, AtLeast0, AtMost
<1>4. ~Panics(n, limit, offset)
  BY <1>1, <1>3 DEF Panics
<1> HIDE DEF a, b, s, n
<1>5. CASE n = 0 \/ b < 0 \/ a >= b
  <2>1. W = {}
    BY <1>1, <1>3, <1>5
  <2>2. p = <<>>
    <3>1. CASE n = 0 \/ b < 0
      BY <1>2, <3>1
    <3>2. CASE ~(n = 0 \/ b < 0) /\ a >= b
      BY <1>1, <1>2, <1>3, <3>2
    <3> QED
      BY <1>5, <3>1, <3>2
  <2>3. IdsOf(p) = {s[k].id : k \in W}
    BY <2>1, <2>2 DEF IdsOf
  <2>4. limit > 0 => n <= offset
    BY <1>1, <1>3, <1>5
  <2> QED
    BY <1>4, <2>3, <2>4 DEF p, s, n
<1>6. CASE ~(n = 0 \/ b < 0 \/ a >= b)
  <2>1. a \in Nat /\ b \in Nat /\ b - a \in Nat /\ b - a > 0 /\ b <= n
    BY <1>1, <1>3, <1>6
  <2>2. p \in Seq(Entry) /\ Len(p) = b - a /\ \A j \in 1..(b - a) : p[j] = s[a + j]
    <3>1. a + 1 \in Nat /\ 1 <= a + 1 /\ a + 1 <= b /\ b <= Len(s) /\ b - (a + 1) + 1 = b - a
          /\ \A j \in 1..(b - a) : (a + 1) + j - 1 = a + j
      BY <1>1, <1>3, <2>1
    <3>2. p = SubSeq(s, a + 1, b)
      BY <1>2, <1>6
    <3> DEFINE c == a + 1
    <3>3. c \in Nat /\ b \in Nat /\ 1 <= c /\ c <= b /\ b <= Len(s)
      BY <2>1, <3>1
    <3> HIDE DEF c
    <3>4. /\ SubSeq(s, c, b) \in Seq(Entry) /\ Len(SubSeq(s, c, b)) = b - c + 1
          /\ \A j \in 1..(b - c + 1) : SubSeq(s, c, b)[j] = s[c + j - 1]
      BY <1>1, <3>3
    <3> QED
      BY <3>1, <3>2, <3>4 DEF c
  <2>3. \A k \in Int : k \in W <=> k - a \in 1..(b - a)
    BY <1>1, <1>3, <2>1
  <2> HIDE DEF W
  <2>4. ASSUME NEW j \in 1..(b - a) PROVE a + j \in W /\ p[j] = s[a + j]
    BY <2>1, <2>2, <2>3
  <2>5. ASSUME NEW k \in W PROVE k - a \in 1..Len(p) /\ p[k - a] = s[k]
    <3>1. k \in Int
      BY DEF W
    <3>2. k - a \in 1..(b - a) /\ a + (k - a) = k
      BY <2>1, <2>3, <3>1
    <3> QED
      BY <2>2, <3>2
  <2>6. IdsOf(p) = {s[k].id : k \in W}
    BY <2>2, <2>4, <2>5 DEF IdsOf
  <2>7. p # <<>>
    BY <2>1, <2>2
  <2> QED
    BY <1>4, <2>6, <2>7 DEF p, s, n, W
<1> QED
  BY <1>5, <1>6

\* How many messages follow one that was there before a step only grows.
Onward(t, s) ==
  \A k \in 1..Len(t) : t[k].id \in IdsOf(s) =>
    \E l \in 1..Len(s) : s[l].id = t[k].id /\ Len(s) - l <= Len(t) - k

\* Changes in place move nothing.
LEMMA OnwardSame ==
  ASSUME NEW s \in Seq(Entry), NEW t, SameIds(t, s) PROVE Onward(t, s)
<1>1. Len(s) \in Nat /\ Len(t) = Len(s) /\ \A k \in 1..Len(s) : t[k].id = s[k].id
  BY DEF SameIds
<1> QED
  BY <1>1 DEF Onward

\* Neither does a Save bring any message nearer to the end.
LEMMA OnwardSaved ==
  ASSUME NEW s \in Seq(Entry), NEW m \in Entry, m.id \notin IdsOf(s), Len(s) <= Capacity
  PROVE  Onward(Trim(Append(s, m)), s)
<1> DEFINE y == Append(s, m)
           n == Len(s)
           t == Trim(y)
<1>1. /\ y \in Seq(Entry) /\ n \in Nat /\ Len(y) = n + 1
      /\ \A k \in 1..n : y[k] = s[k]
      /\ y[n + 1] = m
  BY AppendParts
<1> HIDE DEF y
<1>2. t = y \/ (t = Tail(y) /\ y # <<>>)
  <2>1. CASE Len(y) > Capacity
    <3>1. y # <<>>
      BY <1>1
    <3> QED
      BY <2>1, <3>1 DEF Trim
  <2> QED
    BY <2>1 DEF Trim
<1>3. PICK d \in 0..1 : Len(t) = n + 1 - d /\ \A k \in 1..(n + 1 - d) : t[k] = y[d + k]
  <2>1. CASE t = y
    BY <1>1, <2>1
  <2>2. CASE t = Tail(y) /\ y # <<>>
    <3> DEFINE v == Tail(y)
    <3>1. Len(v) = n /\ \A k \in 1..n : v[k] = y[1 + k]
      BY <1>1, <2>2
    <3> HIDE DEF v
    <3>2. Len(v) = n + 1 - 1 /\ \A k \in 1..(n + 1 - 1) : v[k] = y[1 + k]
      BY <1>1, <3>1
    <3>3. t = v
      BY <2>2 DEF v
    <3> HIDE DEF t
    <3> QED
      BY <3>2, <3>3
  <2> QED
    BY <1>2, <2>1, <2>2
<1> HIDE DEF t
<1>4. ASSUME NEW k \in 1..Len(t), t[k].id \in IdsOf(s)
      PROVE  \E l \in 1..Len(s) : s[l].id = t[k].id /\ Len(s) - l <= Len(t) - k
  <2>1. t[k] = y[d + k] /\ d + k \in 1..(n + 1)
    BY <1>1, <1>3
  <2>2. d + k # n + 1
    BY <1>1, <1>4, <2>1
  <2>3. d + k \in 1..n /\ n - (d + k) <= Len(t) - k
    BY <1>1, <1>3, <2>1, <2>2
  <2>4. s[d + k].id = t[k].id
    BY <1>1, <2>1, <2>3
  <2> QED
    BY <2>3, <2>4 DEF n
<1>5. Onward(t, s)
  BY <1>4 DEF Onward
<1> QED
  BY <1>5 DEF t, y

\* The counts of deletions and restarts tell whether there was one; without one,
\* messages in a channel only move on.
LEMMA StepOnward ==
  ASSUME StoreInv, ListsInv, TypesInv, [Next]_vars
  PROVE  /\ deletes' \in Nat /\ restarts' \in Nat /\ deletes <= deletes' /\ restarts <= restarts'
         /\ deletes' = deletes /\ restarts' = restarts =>
              \A r \in Rooms : Onward(index'[r], index[r])
<1> USE DEF memory, file, counts, ids
<1>1. /\ deletes \in Nat /\ restarts \in Nat /\ DOMAIN index = Rooms /\ RoomOf \in [Ids -> Rooms]
      /\ \A r \in Rooms : index[r] \in Seq(Entry) /\ Len(index[r]) <= Capacity
                          /\ IdsOf(index[r]) \subseteq saved
  BY StorageAssumption DEF ListsInv, RoomOk, TypesInv
<1>2. \A s \in Seq(Entry) : SameIds(s, s)
  BY DEF SameIds
<1>3. index' = index => \A r \in Rooms : Onward(index'[r], index[r])
  BY <1>1, <1>2, OnwardSame
<1>4. ASSUME NEW i \in Ids, SaveOk(i) \/ SaveFails(i) \/ SaveBroken(i)
      PROVE  /\ \A r \in Rooms : Onward(index'[r], index[r])
             /\ deletes' = deletes /\ restarts' = restarts
  <2> DEFINE m == [id |-> i, rev |-> 0, likes |-> {}]
             R == RoomOf[i]
  <2>1. /\ index' = [index EXCEPT ![R] = Trim(Append(index[R], m))] /\ i \notin saved
        /\ m \in Entry /\ m.id = i
    BY <1>4 DEF SaveOk, SaveFails, SaveBroken, Fresh, Remember, Entry
  <2> HIDE DEF m
  <2>2. ASSUME NEW r \in Rooms PROVE Onward(index'[r], index[r])
    <3>1. CASE r = R
      <4>1. m.id \notin IdsOf(index[r])
        BY <1>1, <2>1
      <4>2. index'[r] = Trim(Append(index[r], m))
        BY <1>1, <2>1, <3>1
      <4>3. Onward(Trim(Append(index[r], m)), index[r])
        BY <1>1, <2>1, <4>1, OnwardSaved
      <4> QED
        BY <4>2, <4>3, Zenon
    <3>2. CASE r # R
      BY <1>1, <1>2, <2>1, <3>2, OnwardSame
    <3> QED
      BY <3>1, <3>2
  <2> QED
    BY <1>4, <2>2 DEF SaveOk, SaveFails, SaveBroken
<1>5. ASSUME NEW i \in Ids, UpdateMessage(i) \/ \E u \in Users : AddReaction(i, u)
      PROVE  /\ \A r \in Rooms : Onward(index'[r], index[r])
             /\ deletes' = deletes /\ restarts' = restarts
  <2>1. \A r \in Rooms : \/ index'[r] = index[r] \/ index'[r] = Edited(index[r], i)
                         \/ \E u \in Users : index'[r] = Liked(index[r], i, u)
    BY <1>1, <1>5 DEF UpdateMessage, AddReaction, Change, InIndex
  <2>2. \A r \in Rooms : SameIds(index'[r], index[r])
    BY <1>1, <1>2, <2>1, ChangedInPlace
  <2> QED
    BY <1>1, <1>5, <2>2, OnwardSame DEF UpdateMessage, AddReaction, Change
<1>6. ASSUME NEW i \in Ids, DeleteMessage(i)
      PROVE  deletes' = deletes + 1 /\ restarts' = restarts
  BY <1>6 DEF DeleteMessage, Change
<1>7. CASE Restart
  BY <1>1, <1>7 DEF Restart
<1>8. CASE Compact \/ Shutdown \/ Crash \/ Close \/ Exit \/ UNCHANGED vars
  BY <1>1, <1>3, <1>8
     DEF Compact, CompactAOF, CompactOk, CompactCreateFails, CompactRenameFails,
     CompactReopenFails, Replaced, Image, Shutdown, Crash, Close, Exit, vars
<1> QED
  BY <1>1, <1>4, <1>5, <1>6, <1>7, <1>8 DEF Next

-----------------------------------------------------------------------------
(* The walk: what is due and was not seen yet is further from the end of   *)
(* the list than the offset that comes next.                               *)

Walk == [room : Rooms, limit : Limits, offset : Nat, due : SUBSET Ids, seen : SUBSET Ids,
         ended : BOOLEAN, since : Nat \X Nat]

Ahead ==
  LET list == index[walk.room] IN
    /\ walk.due \subseteq IdsOf(list)
    /\ \A k \in 1..Len(list) :
         list[k].id \in walk.due => list[k].id \in walk.seen \/ Len(list) - k >= walk.offset
    /\ walk.ended => walk.due \subseteq walk.seen

WalkInv ==
  walk # NoWalk =>
    /\ walk \in Walk /\ walk.limit > 0
    /\ walk.since[1] <= deletes /\ walk.since[2] <= restarts
    /\ walk.since = <<deletes, restarts>> => Ahead

\* All messages of the channel are due at first, and no offset is used up.
LEMMA BeginWalk ==
  ASSUME ListsInv, TypesInv, NEW r \in Rooms, NEW limit \in Limits, Begin(r, limit)
  PROVE  WalkInv'
<1>1. /\ walk' = [room |-> r, limit |-> limit, offset |-> 0, due |-> IdsOf(index[r]), seen |-> {},
                  ended |-> FALSE, since |-> <<deletes, restarts>>]
      /\ limit > 0 /\ index' = index /\ deletes' = deletes /\ restarts' = restarts
  BY DEF Begin, vars, memory, counts
<1>2. /\ deletes \in Nat /\ restarts \in Nat /\ index[r] \in Seq(Entry) /\ Len(index[r]) \in Nat
      /\ IdsOf(index[r]) \subseteq Ids
  BY DEF TypesInv, ListsInv, RoomOk
<1>3. walk' \in Walk
  BY <1>1, <1>2 DEF Walk
<1>4. /\ walk'.room = r /\ walk'.limit = limit /\ walk'.offset = 0 /\ walk'.due = IdsOf(index[r])
      /\ walk'.ended = FALSE /\ walk'.since[1] = deletes /\ walk'.since[2] = restarts
  BY <1>1
<1>5. Ahead'
  BY <1>1, <1>2, <1>4 DEF Ahead, IdsOf
<1> QED
  BY <1>1, <1>2, <1>3, <1>4, <1>5 DEF WalkInv

\* A page shows what is between one offset and the next.
LEMMA NextPageWalk ==
  ASSUME ListsInv, TypesInv, WalkInv, NextPage PROVE WalkInv'
<1> DEFINE n == Served(walk.limit)
           page == Page(walk.room, n, walk.offset)
           list == index[walk.room]
<1>1. /\ walk # NoWalk /\ walk.ended # TRUE
      /\ walk' = [walk EXCEPT !.offset = @ + n, !.seen = @ \cup IdsOf(page), !.ended = page = <<>>]
      /\ index' = index /\ deletes' = deletes /\ restarts' = restarts
  BY DEF NextPage, vars, memory, counts
<1>2. /\ walk \in Walk /\ walk.limit > 0
      /\ walk.since[1] <= deletes /\ walk.since[2] <= restarts
      /\ walk.since = <<deletes, restarts>> => Ahead
  BY <1>1 DEF WalkInv
<1>3. /\ walk.room \in Rooms /\ walk.limit \in Int /\ walk.offset \in Nat
      /\ walk.due \subseteq Ids /\ walk.seen \subseteq Ids
  BY <1>2, PagingAssumption DEF Walk
<1>4. list \in Seq(Entry) /\ Len(list) \in Nat /\ IdsOf(list) \subseteq Ids
  BY <1>3 DEF ListsInv, RoomOk, TypesInv
<1>5. n \in Nat /\ n > 0
  BY <1>2, <1>3, PagingAssumption DEF Served, AtMost
<1> HIDE DEF n
<1>6. /\ IdsOf(page) = {list[k].id : k \in {k \in 1..Len(list) :
                          Len(list) - k \in walk.offset..(walk.offset + n - 1)}}
      /\ page = <<>> => Len(list) <= walk.offset
  <2> DEFINE r == walk.room
             o == walk.offset
  <2>1. index[r] \in Seq(Entry) /\ o \in Nat
    BY <1>3, <1>4
  <2> HIDE DEF r, o
  <2>2. /\ IdsOf(Page(r, n, o)) =
             {index[r][k].id : k \in {k \in 1..Len(index[r]) :
                                        Len(index[r]) - k \in o..(o + n - 1)}}
        /\ Page(r, n, o) = <<>> => Len(index[r]) <= o
    BY <1>5, <2>1, PageWindow
  <2> QED
    BY <2>2, Zenon DEF r, o
<1> HIDE DEF page, list
<1>7. IdsOf(page) \subseteq Ids
  BY <1>4, <1>6 DEF IdsOf
<1>8. /\ walk' \in Walk /\ walk'.limit = walk.limit /\ walk'.since = walk.since
      /\ walk'.room = walk.room /\ walk'.due = walk.due /\ walk'.offset = walk.offset + n
      /\ walk'.seen = walk.seen \cup IdsOf(page) /\ walk'.ended = (page = <<>>)
  <2>1. walk.offset + n \in Nat /\ walk.seen \cup IdsOf(page) \subseteq Ids
        /\ (page = <<>>) \in BOOLEAN
    BY <1>3, <1>5, <1>7
  <2> DEFINE o == walk.offset + n
             v == walk.seen \cup IdsOf(page)
             e == page = <<>>
  <2>2. walk' = [walk EXCEPT !.offset = o, !.seen = v, !.ended = e]
    BY <1>1
  <2>3. o \in Nat /\ v \subseteq Ids /\ e \in BOOLEAN
    BY <2>1
  <2> HIDE DEF o, v, e
  <2>4. /\ walk' \in Walk /\ walk'.limit = walk.limit /\ walk'.since = walk.since
        /\ walk'.room = walk.room /\ walk'.due = walk.due /\ walk'.offset = o
        /\ walk'.seen = v /\ walk'.ended = e
    BY <1>2, <2>2, <2>3 DEF Walk
  <2> QED
    BY <2>4 DEF o, v, e
<1>9. ASSUME Ahead PROVE Ahead'
  <2>1. /\ walk.due \subseteq IdsOf(list)
        /\ \A k \in 1..Len(list) :
             list[k].id \in walk.due => list[k].id \in walk.seen \/ Len(list) - k >= walk.offset
    BY <1>9 DEF Ahead, list
  <2>2. ASSUME NEW k \in 1..Len(list), list[k].id \in walk.due
        PROVE  list[k].id \in walk'.seen \/ Len(list) - k >= walk'.offset
    <3>1. CASE list[k].id \in walk.seen
      BY <1>8, <3>1
    <3>2. CASE Len(list) - k >= walk.offset
      <4>1. Len(list) - k \in walk.offset..(walk.offset + n - 1) \/ Len(list) - k >= walk.offset + n
        BY <1>3, <1>4, <1>5, <3>2
      <4>2. CASE Len(list) - k \in walk.offset..(walk.offset + n - 1)
        BY <1>6, <1>8, <4>2
      <4> QED
        BY <1>8, <4>1, <4>2
    <3> QED
      BY <2>1, <2>2, <3>1, <3>2
  <2>3. ASSUME page = <<>> PROVE walk.due \subseteq walk.seen
    <3>1. \A k \in 1..Len(list) : ~(Len(list) - k >= walk.offset)
      BY <1>3, <1>4, <1>6, <2>3
    <3> QED
      BY <2>1, <3>1 DEF IdsOf
  <2>4. index'[walk'.room] = list
    BY <1>1, <1>8 DEF list
  <2> QED
    BY <1>8, <2>1, <2>2, <2>3, <2>4 DEF Ahead
<1> QED
  BY <1>1, <1>2, <1>8, <1>9 DEF WalkInv

\* Other operations only take what is due further from the end.
LEMMA StoreStepWalk ==
  ASSUME StoreInv, ListsInv, TypesInv, WalkInv, StoreStep \/ UNCHANGED walkVars
  PROVE  WalkInv'
<1> SUFFICES ASSUME walk' # NoWalk PROVE WalkInv'
  BY DEF WalkInv
<1>1. [Next]_vars /\ walk # NoWalk
  BY DEF StoreStep, walkVars
<1>2. /\ walk \in Walk /\ walk.limit > 0
      /\ walk.since[1] <= deletes /\ walk.since[2] <= restarts
      /\ walk.since = <<deletes, restarts>> => Ahead
  BY <1>1 DEF WalkInv
<1> DEFINE s == index[walk.room]
           t == index'[walk.room]
<1>3. /\ walk' = walk /\ index' = index
      \/ walk' = [walk EXCEPT !.due = @ \cap IdsOf(t)]
  BY <1>1 DEF StoreStep, walkVars, vars, memory
<1>4. /\ walk' \in Walk /\ walk'.limit = walk.limit /\ walk'.since = walk.since
      /\ walk'.room = walk.room /\ walk'.offset = walk.offset /\ walk'.seen = walk.seen
      /\ walk'.ended = walk.ended
      /\ walk'.due \subseteq walk.due
      /\ walk'.due \subseteq IdsOf(t) \/ (walk'.due = walk.due /\ t = s)
  BY <1>2, <1>3 DEF Walk
<1>5. /\ deletes \in Nat /\ restarts \in Nat /\ deletes' \in Nat /\ restarts' \in Nat
      /\ deletes <= deletes' /\ restarts <= restarts'
      /\ deletes' = deletes /\ restarts' = restarts =>
              \A r \in Rooms : Onward(index'[r], index[r])
  BY <1>1, StepOnward DEF TypesInv
<1>6. walk.since \in Nat \X Nat /\ walk.room \in Rooms /\ walk.offset \in Nat
  BY <1>2 DEF Walk
<1>7. walk'.since[1] <= deletes' /\ walk'.since[2] <= restarts'
  BY <1>2, <1>4, <1>5, <1>6
<1>8. ASSUME walk'.since = <<deletes', restarts'>> PROVE Ahead'
  <2>1. deletes' = deletes /\ restarts' = restarts
    <3>1. walk.since[1] = deletes' /\ walk.since[2] = restarts'
      BY <1>4, <1>8
    <3> QED
      BY <1>2, <1>5, <3>1
  <2>2. Ahead /\ Onward(t, s)
    BY <1>2, <1>4, <1>5, <1>6, <1>8, <2>1
  <2>3. s \in Seq(Entry) /\ t \in Seq(Entry)
    <3>1. ListsInv'
      BY <1>1, NextLists
    <3> QED
      BY <1>6, <3>1 DEF ListsInv, RoomOk
  <2> HIDE DEF s, t
  <2>4. /\ walk.due \subseteq IdsOf(s)
        /\ \A k \in 1..Len(s) :
             s[k].id \in walk.due => s[k].id \in walk.seen \/ Len(s) - k >= walk.offset
        /\ walk.ended => walk.due \subseteq walk.seen
    BY <2>2 DEF Ahead, s
  <2>5. walk'.due \subseteq IdsOf(t)
    BY <1>4, <2>4
  <2>6. ASSUME NEW k \in 1..Len(t), t[k].id \in walk'.due
        PROVE  t[k].id \in walk'.seen \/ Len(t) - k >= walk'.offset
    <3>1. t[k].id \in walk.due /\ t[k].id \in IdsOf(s)
      BY <1>4, <2>4, <2>6
    <3>2. PICK l \in 1..Len(s) : s[l].id = t[k].id /\ Len(s) - l <= Len(t) - k
      BY <2>2, <3>1 DEF Onward
    <3>3. t[k].id \in walk.seen \/ Len(s) - l >= walk.offset
      BY <2>4, <3>1, <3>2
    <3>4. Len(s) \in Nat /\ Len(t) \in Nat
      BY <2>3
    <3> QED
      BY <1>4, <1>6, <3>2, <3>3, <3>4
  <2> QED
    BY <1>4, <2>4, <2>5, <2>6 DEF Ahead, t
<1> QED
  BY <1>2, <1>4, <1>7, <1>8 DEF WalkInv

\* Every step of the store or of the reader.
LEMMA NextWalk ==
  ASSUME StoreInv, ListsInv, TypesInv, WalkInv, [WalkNext]_walkVars PROVE WalkInv'
<1>1. CASE UNCHANGED walkVars
  BY <1>1, StoreStepWalk
<1>2. CASE WalkNext
  BY <1>2, StoreStepWalk, NextPageWalk, BeginWalk DEF WalkNext
<1> QED
  BY <1>1, <1>2

\* A reader changes nothing in the store (storage.go:149-165).
LEMMA ReadersDoNotDisturb == WalkSpec => Spec
<1>1. WalkInit => Init
  BY DEF WalkInit
<1>2. [WalkNext]_walkVars => [Next]_vars
  BY DEF WalkNext, walkVars, StoreStep, NextPage, Begin
<1> QED
  BY <1>1, <1>2, PTL DEF WalkSpec, Spec

\* A page is the window its query asks for, at and past both ends of the list
\* too, and no query with a limit and an offset that are not negative panics
\* (storage.go:149-165, api.go:192-205).
THEOREM PagesAreWindows == WalkSpec => []PageIsWindow
<1>1. ListsInv => PageIsWindow
  <2> SUFFICES ASSUME ListsInv, NEW r \in Rooms, NEW limit \in Limits, NEW offset \in Offsets,
                      limit >= 0, offset >= 0
               PROVE  /\ ~Panics(Len(index[r]), limit, offset)
                      /\ IdsOf(Page(r, limit, offset)) =
                           {index[r][k].id : k \in {k \in 1..Len(index[r]) :
                              Len(index[r]) - k \in offset..(offset + limit - 1)}}
    BY DEF PageIsWindow
  <2>1. limit \in Nat /\ offset \in Nat
    BY PagingAssumption
  <2>2. index[r] \in Seq(Entry)
    BY DEF ListsInv, RoomOk
  <2> QED
    BY <2>1, <2>2, PageWindow
<1> QED
  BY <1>1, ReadersDoNotDisturb, ListsHold, PTL

\* Without a deletion or a restart in between, paging through a channel finds
\* every message that was there at the beginning and still is
\* (storage.go:66-75, 149-165).
THEOREM PagingIsComplete == WalkSpec => []PagesMissNothing
<1>1. WalkInit => WalkInv
  BY DEF WalkInit, WalkInv
<1>2. StoreInv /\ ListsInv /\ TypesInv /\ WalkInv /\ [WalkNext]_walkVars => WalkInv'
  BY NextWalk
<1>3. WalkInv => PagesMissNothing
  BY DEF WalkInv, Ahead, PagesMissNothing
<1> QED
  BY <1>1, <1>2, <1>3, ReadersDoNotDisturb, ListsHold, PTL DEF WalkSpec
=============================================================================
