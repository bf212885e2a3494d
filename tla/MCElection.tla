----------------------------- MODULE MCElection -----------------------------
(* Small instances of Election for TLC. *)
EXTENDS Election

\* The cluster of start_cluster.sh, or its first two nodes: the third need not start.
MCDials == [n \in Nodes |-> {m \in Nodes : m < n}]
Third == 8082

\* Bound: two nodes meet every fault, either a timeout of an open connection or
\* the restart of one of them; with the third, it alone stops, once.
Bounded ==
  /\ \A m, n \in Nodes : starts[m] > 1 /\ starts[n] > 1 => m = n
  /\ spurious > 0 => \A n \in Nodes : starts[n] <= 1
  /\ starts[Third] > 0 =>
       /\ spurious = 0 /\ starts[Third] = 1
       /\ \A n \in Nodes : n # Third => up[n] /\ starts[n] = 1
       /\ \A n \in Nodes, c \in Conns : reader[n][c] # "beat"

\* Bounded restricts no step that fairness promises.
MCNext == Next /\ Bounded'
MCSpec == Init /\ [][MCNext]_vars /\ Fairness
=============================================================================
