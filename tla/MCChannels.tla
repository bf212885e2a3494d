----------------------------- MODULE MCChannels -----------------------------
(* A small instance of Channels for TLC. *)
EXTENDS Channels

\* ann has two sessions at one node; bob is at another one.
MCNodeOf == [s \in Sessions |-> IF s = "bob@2" THEN 8081 ELSE 8080]
MCUserOf == [s \in Sessions |-> IF s = "bob@2" THEN "bob" ELSE "ann"]

\* Bound: sessions overlap, topics are set, saves fail, and more than one channel
\* is left, while one process is alone in the directory.
Plain(channel) == channel = NoChannel \/ (channel.topic = "" /\ ~channel.private)
Bounded ==
  \/ \A m, n \in started : m = n
  \/ /\ \A s, t \in Sessions : active[s] # "out" /\ active[t] # "out" => s = t
     /\ faults = 0 /\ Cardinality(leavers) <= 1 /\ \A n \in Nodes, r \in Rooms : Plain(channels[n][r])
MCNext == Next /\ Bounded'
MCSpec == Init /\ [][MCNext]_vars
=============================================================================
