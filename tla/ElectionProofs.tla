--------------------------- MODULE ElectionProofs ---------------------------
(***************************************************************************)
(* What Election guarantees for every set of nodes, every configuration of *)
(* peers and any number of crashes, restarts and timeouts: the tables of   *)
(* peers follow their readers, a leader names itself, and nobody claims    *)
(* over the head of a higher node it is connected to.                      *)
(***************************************************************************)
EXTENDS Election, TLAPS

Where == {"none", "joining", "done"} \cup Reading

\* A connection that is used was dialed, by the end that may be joining.
LinksOK ==
  /\ \A n \in Nodes : \A c \in Conns :
       /\ reader[n][c] # "none" => n \in {c.from, c.to} /\ Dialed(c)
       /\ reader[n][c] = "joining" => n = c.from
  /\ \A c \in closed : Dialed(c)

\* The connections of the next dials, and of later runs, are unused.
FreshOK ==
  \A c \in Conns :
    c.run > starts[c.from] \/ (c.run = starts[c.from] /\ c.to \in dialing[c.from])
      => reader[c.from][c] = "none"

\* A node knows the id behind every open connection it has accepted.
AcceptedIsNamed ==
  \A c \in Conns : reader[c.to][c] \in Reading /\ c \notin closed => c \in ids[c.to]

DialingOK == \A n \in Nodes : dialing[n] \subseteq Dials[n] /\ (dialing[n] # {} => starts[n] > 0)

IInv == TypeOK /\ DialingOK /\ LinksOK /\ FreshOK /\ AcceptedIsNamed
        /\ PeersTrackReaders /\ LeaderNamesItself

\* The two ends of a connection are different nodes.
LEMMA TwoEnds ==
  ASSUME NEW c \in Conns
  PROVE  /\ c.from \in Nodes /\ c.to \in Nodes /\ c.from # c.to
         /\ c.run \in 1..MaxStarts /\ c.to \in Dials[c.from]
         /\ c = [from |-> c.from, to |-> c.to, run |-> c.run]
BY ElectionAssumption DEF Conns

\* At moves one reader and no other.
LEMMA AtMoves ==
  ASSUME TypeOK, NEW n \in Nodes, NEW c \in Conns, NEW w \in Where, At(n, c, w)
  PROVE  /\ reader' \in [Nodes -> [Conns -> Where]]
         /\ \A m \in Nodes : \A d \in Conns :
              reader'[m][d] = IF m = n /\ d = c THEN w ELSE reader[m][d]
BY DEF At, TypeOK, Where

\* The connection of a dial is one of Conns.
LEMMA DialedConn ==
  ASSUME TypeOK, DialingOK, NEW n \in Nodes, NEW m \in dialing[n]
  PROVE  [from |-> n, to |-> m, run |-> starts[n]] \in Conns /\ m \in Nodes
BY ElectionAssumption DEF TypeOK, DialingOK, Conns

\* The invariant holds at the start.
LEMMA InitIInv == Init => IInv
<1> SUFFICES ASSUME Init PROVE IInv
  OBVIOUS
<1> USE ElectionAssumption DEF Init
<1>1. TypeOK
  BY DEF TypeOK
<1>2. DialingOK /\ LinksOK /\ FreshOK
  BY TwoEnds DEF DialingOK, LinksOK, FreshOK
<1>3. AcceptedIsNamed /\ PeersTrackReaders /\ LeaderNamesItself
  BY TwoEnds DEF AcceptedIsNamed, PeersTrackReaders, LeaderNamesItself, Reading
<1> QED
  BY <1>1, <1>2, <1>3 DEF IInv

\* A step that moves one reader between states of its life, and forgets or
\* registers or closes only that connection, keeps the links in order.
LEMMA OneReaderMoves ==
  ASSUME IInv, NEW n \in Nodes, NEW c \in Conns, NEW w \in Where \ {"none", "joining"}, At(n, c, w),
         reader[n][c] # "none" \/ (n = c.to /\ Dialed(c)),
         UNCHANGED <<starts, dialing>>, closed' \in {closed, closed \cup {c}}
  PROVE  DialingOK' /\ LinksOK' /\ FreshOK'
<1>1. \A m \in Nodes : \A d \in Conns :
        reader'[m][d] = IF m = n /\ d = c THEN w ELSE reader[m][d]
  BY AtMoves DEF IInv
<1>2. \A d \in Conns : Dialed(d) => Dialed(d)'
  BY <1>1, TwoEnds DEF Dialed
<1>3. n \in {c.from, c.to} /\ Dialed(c)
  BY DEF IInv, LinksOK
<1>4. closed' \subseteq Conns
  BY DEF IInv, TypeOK
<1>5. LinksOK'
  <2>1. \A d \in closed' : Dialed(d)'
    BY <1>2, <1>3, <1>4 DEF IInv, LinksOK
  <2> QED
    BY <1>1, <1>2, <1>3, <2>1 DEF IInv, LinksOK, TypeOK
<1>6. FreshOK'
  BY <1>1, <1>3, TwoEnds DEF IInv, FreshOK, Dialed
<1> QED
  BY <1>5, <1>6 DEF IInv, DialingOK

-----------------------------------------------------------------------------
(* Steps of the processes *)

\* Starting a node makes its next run's connections the fresh ones.
LEMMA StartKeeps == ASSUME IInv, NEW n \in Nodes, Start(n) PROVE IInv'
<1> USE ElectionAssumption DEF Start
<1>1. TypeOK'
  <2>1. starts[n] + 1 \in 0..MaxStarts /\ Dials[n] \in SUBSET Nodes
    <3>1. MaxStarts \in Nat /\ starts[n] \in 0..MaxStarts /\ starts[n] < MaxStarts
      BY DEF IInv, TypeOK
    <3>2. Dials[n] \in SUBSET Nodes
      BY DEF IInv
    <3> QED
      BY <3>1, <3>2
  <2>2. starts' \in [Nodes -> 0..MaxStarts] /\ dialing' \in [Nodes -> SUBSET Nodes]
    BY <2>1 DEF IInv, TypeOK
  <2> QED
    BY <2>2 DEF IInv, TypeOK, claimVars, roleVars
<1>2. DialingOK'
  BY DEF IInv, DialingOK, TypeOK
<1>3. LinksOK'
  BY DEF IInv, LinksOK, TypeOK, Dialed
<1>4. FreshOK'
  <2>1. ASSUME NEW c \in Conns, c.run > starts'[c.from] \/ (c.run = starts'[c.from] /\ c.to \in dialing'[c.from])
        PROVE  reader[c.from][c] = "none"
    <3>1. c.from \in Nodes /\ c.run \in Nat
      BY TwoEnds
    <3>2. CASE c.from = n
      <4>1. starts'[n] = starts[n] + 1 /\ starts[n] \in Nat
        BY DEF IInv, TypeOK
      <4>2. c.run > starts[n]
        BY <2>1, <3>1, <3>2, <4>1
      <4> QED
        BY <3>2, <4>2 DEF IInv, FreshOK
    <3>3. CASE c.from # n
      BY <2>1, <3>1, <3>3 DEF IInv, FreshOK, TypeOK
    <3> QED
      BY <3>2, <3>3
  <2> QED
    BY <2>1 DEF FreshOK
<1>5. (AcceptedIsNamed /\ PeersTrackReaders /\ LeaderNamesItself)'
  BY DEF IInv, AcceptedIsNamed, PeersTrackReaders, LeaderNamesItself, roleVars
<1> QED
  BY <1>1, <1>2, <1>3, <1>4, <1>5 DEF IInv

\* Stopping a node ends its readers and empties its tables.
LEMMA StopKeeps == ASSUME IInv, NEW n \in Nodes, Stop(n) PROVE IInv'
<1> USE ElectionAssumption DEF Stop
<1>1. TypeOK /\ TypeOK'
  BY DEF IInv, TypeOK, EndsOf
<1>2. \A m \in Nodes : \A c \in Conns :
        reader'[m][c] = IF m = n /\ n \in {c.from, c.to} /\ Dialed(c) THEN "done" ELSE reader[m][c]
  BY <1>1 DEF TypeOK, EndsOf
<1>3. \A c \in Conns : Dialed(c) <=> Dialed(c)'
  BY <1>2, TwoEnds DEF Dialed
<1>4. closed' \subseteq Conns /\ \A c \in closed' : c \in closed \/ Dialed(c)
  BY <1>1 DEF TypeOK
<1>5. LinksOK'
  BY <1>2, <1>3, <1>4 DEF IInv, LinksOK
<1>6. DialingOK' /\ FreshOK'
  BY <1>1, <1>2, TwoEnds DEF IInv, DialingOK, FreshOK, Dialed, TypeOK
<1>7. \A c \in Conns : reader'[n][c] \notin Reading
  BY <1>2 DEF IInv, LinksOK, Reading
<1>8. AcceptedIsNamed'
  <2>1. ASSUME NEW c \in Conns, reader'[c.to][c] \in Reading, c \notin closed'
        PROVE  c \in ids'[c.to]
    <3>1. c.to # n /\ c.to \in Nodes
      BY <1>7, <2>1, TwoEnds
    <3>2. c \in ids[c.to]
      BY <1>2, <2>1, <3>1 DEF IInv, AcceptedIsNamed
    <3> QED
      BY <1>1, <3>1, <3>2 DEF TypeOK
  <2> QED
    BY <2>1 DEF AcceptedIsNamed
<1>9. (PeersTrackReaders /\ LeaderNamesItself)'
  BY <1>1, <1>2 DEF IInv, PeersTrackReaders, LeaderNamesItself, TypeOK
<1> QED
  BY <1>1, <1>5, <1>6, <1>8, <1>9 DEF IInv

\* Dialing uses up one fresh connection.
LEMMA DialKeeps == ASSUME IInv, NEW n \in Nodes, NEW m \in dialing[n], Dial(n, m) PROVE IInv'
<1> USE ElectionAssumption DEF Dial
<1>0. PICK new \in Conns : new = [from |-> n, to |-> m, run |-> starts[n]]
  BY DialedConn DEF IInv
<1>1. TypeOK /\ m \in Nodes
  BY DialedConn DEF IInv
<1>2. "joining" \in Where
  BY DEF Where
<1>3. /\ reader' \in [Nodes -> [Conns -> Where]]
      /\ \A k \in Nodes : \A d \in Conns :
           reader'[k][d] = IF up[m] /\ k = n /\ d = new THEN "joining" ELSE reader[k][d]
  <2>1. CASE up[m]
    BY <1>0, <1>1, <1>2, <2>1, AtMoves
  <2>2. CASE ~up[m]
    BY <1>1, <2>2 DEF TypeOK, Where
  <2> QED
    BY <2>1, <2>2
<1>4. reader[n][new] = "none"
  BY <1>0, <1>1 DEF IInv, FreshOK
<1>5. TypeOK'
  BY <1>1, <1>3 DEF TypeOK, Where, procVars, claimVars, roleVars
<1>6. dialing' = [dialing EXCEPT ![n] = @ \ {m}] /\ UNCHANGED <<starts, closed, peers, ids>>
  BY DEF procVars
<1>7. DialingOK'
  BY <1>1, <1>6 DEF IInv, DialingOK, TypeOK
<1>8. new.from = n /\ new.to = m /\ new.run = starts[n]
  BY <1>0
<1>9. \A c \in Conns : Dialed(c) => Dialed(c)'
  BY <1>3, TwoEnds DEF Dialed
<1>10. up[m] => Dialed(new)'
  BY <1>1, <1>3, <1>8 DEF Dialed
<1>11. LinksOK'
  BY <1>1, <1>3, <1>6, <1>8, <1>9, <1>10 DEF IInv, LinksOK, TypeOK
<1>12. FreshOK'
  <2>1. ASSUME NEW c \in Conns, c.run > starts'[c.from] \/ (c.run = starts'[c.from] /\ c.to \in dialing'[c.from])
        PROVE  reader'[c.from][c] = "none"
    <3>1. c.from \in Nodes /\ reader[c.from][c] = "none"
      BY <1>1, <1>6, <2>1, TwoEnds DEF IInv, FreshOK, TypeOK
    <3>2. c # new
      BY <1>1, <1>6, <1>8, <2>1 DEF TypeOK
    <3> QED
      BY <1>3, <3>1, <3>2
  <2> QED
    BY <2>1 DEF FreshOK
<1>13. \A k \in Nodes : \A c \in Conns : reader'[k][c] \in Reading <=> reader[k][c] \in Reading
  BY <1>3, <1>4 DEF Reading
<1>14. (AcceptedIsNamed /\ PeersTrackReaders)'
  BY <1>6, <1>13, TwoEnds DEF IInv, AcceptedIsNamed, PeersTrackReaders
<1>15. LeaderNamesItself'
  BY DEF IInv, LeaderNamesItself, roleVars
<1> QED
  BY <1>5, <1>7, <1>11, <1>12, <1>14, <1>15 DEF IInv

-----------------------------------------------------------------------------
(* Steps of the connections *)

\* Registering a connection, at either end, gives it a reader; the acceptor
\* names it.
LEMMA RegisterKeeps ==
  ASSUME IInv, NEW n \in Nodes, NEW c \in Conns, AddPeer(n, c) \/ AcceptPeer(n, c)
  PROVE  IInv'
<1>1. /\ At(n, c, "reading") /\ peers' = [peers EXCEPT ![n] = @ \cup {c}]
      /\ UNCHANGED <<starts, dialing, closed, up, claims, telling, isLeader, leaderID, spurious>>
  BY DEF AddPeer, AcceptPeer, procVars, claimVars, roleVars
<1>2. reader[n][c] # "none" \/ (n = c.to /\ Dialed(c))
  BY DEF AddPeer, AcceptPeer
<1>3. "reading" \in Where \ {"none", "joining"} /\ "reading" \in Reading
  BY DEF Where, Reading
<1>4. DialingOK' /\ LinksOK' /\ FreshOK'
  BY <1>1, <1>2, <1>3, OneReaderMoves
<1>5. /\ reader' \in [Nodes -> [Conns -> Where]]
      /\ \A m \in Nodes : \A d \in Conns :
           reader'[m][d] = IF m = n /\ d = c THEN "reading" ELSE reader[m][d]
  BY <1>1, <1>3, AtMoves DEF IInv
<1>6. ids' = ids \/ (n = c.to /\ ids' = [ids EXCEPT ![n] = @ \cup {c}])
  BY DEF AddPeer, AcceptPeer
<1>7. TypeOK'
  <2>1. peers' \in [Nodes -> SUBSET Conns] /\ ids' \in [Nodes -> SUBSET Conns]
    BY <1>1, <1>6, SMTT(40) DEF IInv, TypeOK
  <2> QED
    BY <1>1, <1>5, <2>1 DEF IInv, TypeOK, Where
<1>8. \A d \in Conns : d \in ids[d.to] => d \in ids'[d.to]
  BY <1>6, TwoEnds, ZenonT(60) DEF IInv, TypeOK
<1>9. n = c.to => c \in ids'[n]
  <2>1. CASE AddPeer(n, c)
    BY <2>1, TwoEnds DEF AddPeer, IInv, LinksOK
  <2>2. CASE AcceptPeer(n, c)
    BY <2>2 DEF AcceptPeer, IInv, TypeOK
  <2> QED
    BY <2>1, <2>2
<1>10. AcceptedIsNamed'
  BY <1>1, <1>5, <1>8, <1>9, TwoEnds, ZenonT(60) DEF IInv, AcceptedIsNamed
<1>11. PeersTrackReaders'
  BY <1>1, <1>3, <1>5, <1>6 DEF IInv, PeersTrackReaders, TypeOK
<1>12. LeaderNamesItself'
  BY <1>1 DEF IInv, LeaderNamesItself
<1> QED
  BY <1>4, <1>7, <1>10, <1>11, <1>12 DEF IInv

\* Reading a message and refreshing the entry keep the reader alive; the entry
\* may come back, but its reader is still there to delete it.
LEMMA ReadKeeps ==
  ASSUME IInv, NEW n \in Nodes, NEW c \in Conns,
         DecodeBeat(n, c) \/ DecodeClaim(n, c) \/ Touch(n, c) \/ Acknowledge(n, c)
  PROVE  IInv'
<1>1. PICK w \in Reading : At(n, c, w)
  BY DEF DecodeBeat, DecodeClaim, Touch, Acknowledge, Reading
<1>2. /\ reader[n][c] \in Reading
      /\ UNCHANGED <<up, starts, dialing, closed, ids, telling, spurious>>
      /\ peers' = peers \/ peers' = [peers EXCEPT ![n] = @ \cup {c}]
      /\ claims' = claims \/ claims' = [claims EXCEPT ![n] = @ \ {c}]
  BY DEF DecodeBeat, DecodeClaim, Touch, Acknowledge, Reading, procVars, claimVars
<1>3. w \in Where \ {"none", "joining"} /\ reader[n][c] # "none"
  BY <1>1, <1>2 DEF Where, Reading
<1>4. DialingOK' /\ LinksOK' /\ FreshOK'
  BY <1>1, <1>2, <1>3, OneReaderMoves
<1>5. /\ reader' \in [Nodes -> [Conns -> Where]]
      /\ \A m \in Nodes : \A d \in Conns :
           reader'[m][d] = IF m = n /\ d = c THEN w ELSE reader[m][d]
  BY <1>1, <1>3, AtMoves DEF IInv
<1>6. \A m \in Nodes : \A d \in Conns : reader'[m][d] \in Reading <=> reader[m][d] \in Reading
  BY <1>1, <1>2, <1>5
<1>7. Other(n, c) \in Nodes
  BY TwoEnds DEF Other
<1>8. /\ isLeader' \in [Nodes -> BOOLEAN] /\ leaderID' \in [Nodes -> Nodes \cup {0}]
      /\ LeaderNamesItself'
  <2>1. CASE Acknowledge(n, c)
    <3> DEFINE id == Other(n, c)
    <3>1. /\ isLeader' = IF id > n THEN [isLeader EXCEPT ![n] = FALSE] ELSE isLeader
          /\ leaderID' = IF id > n THEN [leaderID EXCEPT ![n] = id] ELSE leaderID
      BY <2>1 DEF Acknowledge, Claimant, Deposed
    <3>2. id \in Nat \ {0} /\ n \in Nat \ {0} /\ id \in Nodes
      BY <1>7, ElectionAssumption
    <3>3. TypeOK /\ LeaderNamesItself
      BY DEF IInv
    <3> HIDE DEF id
    <3>4. CASE id > n
      <4>1. isLeader' \in [Nodes -> BOOLEAN] /\ leaderID' \in [Nodes -> Nodes \cup {0}]
        BY <3>1, <3>2, <3>3, <3>4 DEF TypeOK
      <4>2. \A m \in Nodes \ {n} : isLeader'[m] = isLeader[m] /\ leaderID'[m] = leaderID[m]
        BY <3>1, <3>3, <3>4 DEF TypeOK
      <4>3. isLeader'[n] = FALSE /\ leaderID'[n] = id
        BY <3>1, <3>3, <3>4 DEF TypeOK
      <4> QED
        BY <3>2, <3>3, <3>4, <4>1, <4>2, <4>3 DEF LeaderNamesItself
    <3>5. CASE ~(id > n)
      BY <3>1, <3>3, <3>5 DEF TypeOK, LeaderNamesItself
    <3> QED
      BY <3>4, <3>5
  <2>2. CASE ~Acknowledge(n, c)
    <3>1. UNCHANGED <<isLeader, leaderID>>
      BY <2>2 DEF DecodeBeat, DecodeClaim, Touch, roleVars
    <3> QED
      BY <3>1 DEF IInv, TypeOK, LeaderNamesItself
  <2> QED
    BY <2>1, <2>2
<1>9. TypeOK'
  <2>1. peers' \in [Nodes -> SUBSET Conns]
    BY <1>2 DEF IInv, TypeOK
  <2>2. claims' \in [Nodes -> SUBSET Conns]
    BY <1>2 DEF IInv, TypeOK
  <2> QED
    BY <1>2, <1>5, <1>8, <2>1, <2>2 DEF IInv, TypeOK, Where
<1>10. AcceptedIsNamed'
  BY <1>2, <1>6, TwoEnds DEF IInv, AcceptedIsNamed
<1>11. PeersTrackReaders'
  BY <1>2, <1>6 DEF IInv, PeersTrackReaders, TypeOK
<1> QED
  BY <1>4, <1>8, <1>9, <1>10, <1>11 DEF IInv

\* A reader that ends takes its entries with it, and one that is not to begin has none.
LEMMA EndKeeps ==
  ASSUME IInv, NEW n \in Nodes, NEW c \in Conns,
         DecodeFails(n, c) \/ RejectPeer(n, c) \/ AcceptFails(n, c)
  PROVE  IInv'
<1>1. /\ At(n, c, "done")
      /\ UNCHANGED <<up, starts, dialing, telling, isLeader, leaderID, spurious>>
      /\ claims' = claims \/ claims' = [claims EXCEPT ![n] = @ \ {c}]
      /\ closed' \in {closed, closed \cup {c}} /\ c \in closed'
  BY DEF DecodeFails, RejectPeer, AcceptFails, procVars, claimVars, roleVars
<1>2. reader[n][c] # "none" \/ (n = c.to /\ Dialed(c))
  BY <1>1 DEF DecodeFails, RejectPeer, AcceptFails, IInv, LinksOK
<1>3. "done" \in Where \ {"none", "joining"} /\ "done" \notin Reading /\ "none" \notin Reading
  BY DEF Where, Reading
<1>4. DialingOK' /\ LinksOK' /\ FreshOK'
  BY <1>1, <1>2, <1>3, OneReaderMoves
<1>5. /\ reader' \in [Nodes -> [Conns -> Where]]
      /\ \A m \in Nodes : \A d \in Conns :
           reader'[m][d] = IF m = n /\ d = c THEN "done" ELSE reader[m][d]
  BY <1>1, <1>3, AtMoves DEF IInv
<1>6. /\ peers' \in [Nodes -> SUBSET Conns] /\ ids' \in [Nodes -> SUBSET Conns]
      /\ \A m \in Nodes : \A d \in Conns :
           /\ d \in peers'[m] <=> d \in peers[m] /\ ~(m = n /\ d = c)
           /\ d \in ids'[m] <=> d \in ids[m] /\ ~(m = n /\ d = c)
  <2>1. CASE DecodeFails(n, c)
    BY <2>1 DEF DecodeFails, Forget, ForgetID, IInv, TypeOK
  <2>2. CASE RejectPeer(n, c) \/ AcceptFails(n, c)
    BY <1>3, <2>2 DEF RejectPeer, AcceptFails, IInv, TypeOK, PeersTrackReaders
  <2> QED
    BY <2>1, <2>2
<1>7. TypeOK'
  <2>1. claims' \in [Nodes -> SUBSET Conns] /\ closed' \in SUBSET Conns
    BY <1>1 DEF IInv, TypeOK
  <2> QED
    BY <1>1, <1>5, <1>6, <2>1 DEF IInv, TypeOK, Where
<1>8. AcceptedIsNamed'
  <2>1. \A d \in Conns : d \notin closed' => d \notin closed /\ d # c
    BY <1>1
  <2> QED
    BY <1>3, <1>5, <1>6, <2>1, TwoEnds, ZenonT(60) DEF IInv, AcceptedIsNamed
<1>9. PeersTrackReaders'
  BY <1>5, <1>6 DEF IInv, PeersTrackReaders
<1>10. LeaderNamesItself'
  BY <1>1 DEF IInv, LeaderNamesItself
<1> QED
  BY <1>4, <1>7, <1>8, <1>9, <1>10 DEF IInv

\* The monitor closes what it forgets.
LEMMA TimeoutKeeps == ASSUME IInv, NEW n \in Nodes, NEW c \in Conns, Timeout(n, c) PROVE IInv'
<1> USE ElectionAssumption DEF Timeout
<1>1. UNCHANGED <<up, starts, dialing, reader, claims, telling, isLeader, leaderID>>
  BY DEF procVars, claimVars, roleVars
<1>2. closed' = closed \cup {c} /\ Dialed(c)
  BY DEF IInv, PeersTrackReaders, LinksOK, Reading
<1>3. /\ peers' \in [Nodes -> SUBSET Conns] /\ ids' \in [Nodes -> SUBSET Conns]
      /\ \A m \in Nodes : \A d \in Conns :
           /\ d \in peers'[m] <=> d \in peers[m] /\ ~(m = n /\ d = c)
           /\ d \in ids'[m] <=> d \in ids[m] /\ ~(m = n /\ d = c)
  BY DEF Forget, ForgetID, IInv, TypeOK
<1>4. spurious' \in 0..MaxSpurious
  BY DEF IInv, TypeOK
<1>5. TypeOK'
  BY <1>1, <1>3, <1>4 DEF IInv, TypeOK
<1>6. (DialingOK /\ LinksOK /\ FreshOK)'
  BY <1>1, <1>2 DEF IInv, DialingOK, LinksOK, FreshOK, Dialed, TypeOK
<1>7. (AcceptedIsNamed /\ PeersTrackReaders)'
  BY <1>1, <1>2, <1>3, TwoEnds DEF IInv, AcceptedIsNamed, PeersTrackReaders
<1>8. LeaderNamesItself'
  BY <1>1 DEF IInv, LeaderNamesItself
<1> QED
  BY <1>5, <1>6, <1>7, <1>8 DEF IInv

\* The election loop changes who leads and who is told.
LEMMA TickKeeps == ASSUME IInv, NEW n \in Nodes, Tick(n) PROVE IInv'
<1>1. UNCHANGED <<up, starts, dialing, closed, reader, peers, ids, spurious>>
  BY DEF Tick, Claim, Tell, StepDown, procVars, linkVars
<1>2. (DialingOK /\ LinksOK /\ FreshOK /\ AcceptedIsNamed /\ PeersTrackReaders)'
  BY <1>1 DEF IInv, DialingOK, LinksOK, FreshOK, AcceptedIsNamed, PeersTrackReaders, Dialed
<1>3. /\ isLeader' \in [Nodes -> BOOLEAN] /\ leaderID' \in [Nodes -> Nodes \cup {0}]
      /\ LeaderNamesItself'
  <2>1. CASE Claim(n)
    <3>1. /\ isLeader' \in [Nodes -> BOOLEAN] /\ leaderID' \in [Nodes -> Nodes \cup {0}]
          /\ isLeader'[n] = TRUE /\ leaderID'[n] = n
          /\ \A m \in Nodes \ {n} : isLeader'[m] = isLeader[m] /\ leaderID'[m] = leaderID[m]
      BY <2>1 DEF Claim, IInv, TypeOK
    <3> QED
      BY <3>1, ElectionAssumption DEF IInv, LeaderNamesItself
  <2>2. CASE Tell(n)
    BY <2>2 DEF Tell, roleVars, IInv, TypeOK, LeaderNamesItself
  <2>3. CASE StepDown(n)
    BY <2>3 DEF StepDown, IInv, TypeOK, LeaderNamesItself
  <2> QED
    BY <2>1, <2>2, <2>3 DEF Tick
<1>4. claims' \in [Nodes -> SUBSET Conns] /\ telling' \in [Nodes -> BOOLEAN]
  <2>1. CASE Tell(n)
    BY <2>1 DEF Tell, IInv, TypeOK
  <2>2. CASE ~Tell(n)
    BY <2>2 DEF Tick, Claim, StepDown, claimVars, IInv, TypeOK
  <2> QED
    BY <2>1, <2>2
<1>5. TypeOK'
  BY <1>1, <1>3, <1>4 DEF IInv, TypeOK
<1> QED
  BY <1>2, <1>3, <1>5 DEF IInv

-----------------------------------------------------------------------------
(* The theorems *)

\* Every step keeps the invariant.
LEMMA NextKeeps == IInv /\ [Next]_vars => IInv'
<1> SUFFICES ASSUME IInv, [Next]_vars PROVE IInv'
  OBVIOUS
<1>1. ASSUME NEW n \in Nodes, Start(n) \/ Stop(n) \/ Tick(n) PROVE IInv'
  BY <1>1, StartKeeps, StopKeeps, TickKeeps
<1>2. ASSUME NEW n \in Nodes, NEW m \in dialing[n], Dial(n, m) PROVE IInv'
  BY <1>2, DialKeeps
<1>3. ASSUME NEW n \in Nodes, NEW c \in Conns,
             Reader(n, c) \/ Listener(n, c) \/ DecodeBeat(n, c) \/ Timeout(n, c)
      PROVE  IInv'
  BY <1>3, RegisterKeeps, ReadKeeps, EndKeeps, TimeoutKeeps DEF Reader, Listener
<1>4. CASE UNCHANGED vars
  BY <1>4 DEF vars, procVars, linkVars, claimVars, roleVars, IInv, TypeOK, DialingOK, LinksOK,
     FreshOK, AcceptedIsNamed, PeersTrackReaders, LeaderNamesItself, Dialed
<1> QED
  BY <1>1, <1>2, <1>3, <1>4 DEF Next

\* The invariant holds throughout.
LEMMA AlwaysIInv == Spec => []IInv
<1>1. Init => IInv
  BY InitIInv
<1>2. IInv /\ [Next]_vars => IInv'
  BY NextKeeps
<1> QED
  BY <1>1, <1>2, PTL DEF Spec

\* The variables of the cluster have their types.
THEOREM ElectionTypes == Spec => []TypeOK
<1>1. IInv => TypeOK
  BY DEF IInv
<1> QED
  BY <1>1, AlwaysIInv, PTL

\* Every entry of n.peers and n.peerIDs has a live reader, through timeouts,
\* late messages, crashes and restarts (peer.go:93-99, 153-165).
THEOREM TablesTrackReaders == Spec => []PeersTrackReaders
<1>1. IInv => PeersTrackReaders
  BY DEF IInv
<1> QED
  BY <1>1, AlwaysIInv, PTL

\* A leader names itself and nobody follows a lower node (peer.go:125-137,
\* 175-178).
THEOREM LeadersNameThemselves == Spec => []LeaderNamesItself
<1>1. IInv => LeaderNamesItself
  BY DEF IInv
<1> QED
  BY <1>1, AlwaysIInv, PTL

\* A node that claims has no open accepted connection from a higher node
\* (peer.go:117-128).
THEOREM ClaimsOnlyWhenAlone == Spec => ClaimsWhenAlone
<1> DEFINE Alone ==
      \A n \in Nodes : ~isLeader[n] /\ isLeader'[n] =>
        \A c \in Conns : c.to = n /\ c.from > n /\ reader[n][c] \in Reading => c \in closed
<1>1. IInv /\ [Next]_vars => [Alone]_vars
  <2> SUFFICES ASSUME IInv, Next, NEW n \in Nodes, ~isLeader[n], isLeader'[n],
                      NEW c \in Conns, c.to = n, c.from > n, reader[n][c] \in Reading
               PROVE  c \in closed
    OBVIOUS
  <2>1. Claim(n)
    <3>1. PICK m \in Nodes :
            \/ Start(m) \/ Stop(m) \/ Tick(m)
            \/ \E k \in dialing[m] : Dial(m, k)
            \/ \E d \in Conns : Reader(m, d) \/ Listener(m, d) \/ DecodeBeat(m, d) \/ Timeout(m, d)
      BY DEF Next
    <3>2. isLeader' = isLeader \/ Stop(m) \/ Tick(m) \/ \E d \in Conns : Acknowledge(m, d)
      BY <3>1 DEF Start, Dial, Reader, Listener, AddPeer, DecodeClaim, Touch, DecodeFails,
         AcceptPeer, RejectPeer, AcceptFails, DecodeBeat, Timeout, roleVars
    <3>3. ~Stop(m) /\ \A d \in Conns : ~Acknowledge(m, d)
      BY DEF Stop, Acknowledge, Deposed, IInv, TypeOK
    <3> QED
      BY <3>2, <3>3 DEF Tick, Claim, Tell, StepDown, roleVars, IInv, TypeOK
  <2>2. Highest(n)
    BY <2>1 DEF Claim
  <2>3. c \notin ids[n]
    BY <2>2, TwoEnds, ElectionAssumption DEF Highest
  <2> QED
    BY <2>3 DEF IInv, AcceptedIsNamed
<1> QED
  BY <1>1, AlwaysIInv, PTL DEF Spec, ClaimsWhenAlone
=============================================================================
