----------------------------- MODULE MCAccounts -----------------------------
(* A small instance of Accounts for TLC. *)
EXTENDS Accounts, TLC

CONSTANTS n1, n2
MCNodes == {n1, n2}
Symmetry == Permutations(MCNodes)

\* Bound: statuses are set, and writes fail, while a process is alone; of two
\* processes one has a user logged in.
Bounded ==
  \/ Alone
  \/ /\ faults = 0
     /\ \A n \in Nodes, u \in Users : users[n][u].status \in {"none", "offline", "online"}
     /\ \A m, n \in Nodes : m # n => sessions[m] = {} \/ sessions[n] = {}
     /\ \A n \in Nodes : Cardinality(sessions[n]) <= 1
MCNext == Next /\ Bounded'
MCSpec == Init /\ [][MCNext]_vars
=============================================================================
