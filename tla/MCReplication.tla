--------------------------- MODULE MCReplication ---------------------------
(* Small instances of Replication for TLC. *)
EXTENDS Replication

\* The mesh of start_cluster.sh; when "ba" is made, b has dialed a too.
MCEnds == [c \in Conns |-> CASE c \in {"ab", "ba"} -> {"a", "b"} [] c = "ac" -> {"a", "c"} [] c = "bc" -> {"b", "c"}]

\* ann posts at a and has sessions at a and b; an administrator is at c.
MCKindOf == [i \in Ids |-> CASE i = "chat" -> "chat" [] i = "dm" -> "dm" [] i = "join" -> "notice"]
MCPostedAt == [i \in Ids |-> IF i = "join" THEN "b" ELSE "a"]
MCAuthorOf == [i \in Ids |-> IF i = "join" THEN "Server" ELSE "ann"]
MCNodeOf == [s \in Sessions |-> CASE s = "ann@a" -> "a" [] s = "ann@b" -> "b" [] s = "root@c" -> "c"]
MCUserOf == [s \in Sessions |-> IF s = "root@c" THEN "root" ELSE "ann"]

\* Bound: commands are given while one message has been posted, and one alone when a
\* connection is lost.
Commanding == {s \in Sessions : doing[s] # Idle}
Lost == cut \ {"ba"}
Bounded ==
  /\ Cardinality(Lost) <= 1
  /\ Commanding # {} => /\ Cardinality(posted) = 1
                        /\ Lost # {} => Cardinality(Commanding) <= 1

\* Bound: "ba" is given up before anything happens, or stays; when it stays, there is no
\* direct message and the author gives no command at his own node.
Untouched == wire = {} /\ posted = {} /\ Lost = {} /\ \A n \in Nodes : peers[n] = {}
Twofold == "ba" \notin cut => "dm" \notin posted /\ doing["ann@a"] = Idle
MCNext == Next /\ (Bounded /\ Twofold)' /\ (cut' # cut /\ "ba" \in cut' => "ba" \in cut \/ Untouched)
MCSpec == Init /\ [][MCNext]_vars /\ Fairness
=============================================================================
