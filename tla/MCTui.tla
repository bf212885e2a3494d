------------------------------- MODULE MCTui -------------------------------
(* A small instance of Tui for TLC. *)
EXTENDS Tui, TLC

MCKindOf == "chat" :> "chat" @@ "dm" :> "dm" @@ "typed" :> "typed"
            @@ "join" :> "notice" @@ "help" :> "answer" @@ "stray" :> "chat"
MCPaneOf == "chat" :> "dev" @@ "dm" :> "dm:bob" @@ "typed" :> "general"
            @@ "join" :> "general" @@ "help" :> "general" @@ "stray" :> "dm:bob"

\* Two messages at most, a notice or an answer on its own.  Nothing changes when one of
\* them is a notice, an answer or a chat in a pseudo-channel, and two changes are to a
\* message on its own.
\* In the runs where messages change the connection stays, and the user neither uses
\* the sidebar nor changes rooms with a command; when the connection is lost only the
\* keys matter.
Bounded ==
  /\ Cardinality(sent') <= 2
  /\ {"join", "help"} \cap sent' # {} => Cardinality(sent') = 1
  /\ {"join", "help", "stray"} \cap sent' # {} => changes' = 0
  /\ changes' > 0 =>
       /\ phase' # "lost" /\ Cardinality(sent') + changes' <= 3
       /\ cursor' = 1 /\ focus' = "input" /\ \A k \in DOMAIN outbox' : outbox'[k].op = "chat"
  /\ phase = "lost" => sent' = sent /\ stored' = stored

MCNext == Next /\ Bounded

MCSpec == Init /\ [][MCNext]_vars
=============================================================================
