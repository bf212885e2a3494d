------------------------------- MODULE MCHub -------------------------------
(* Small instances of Hub for TLC. *)
EXTENDS Hub, TLC

CONSTANTS c1, c2, p

MCUserOf == (c1 :> "ann") @@ (c2 :> "bob")

Say(cmd, arg) == [cmd |-> cmd, arg |-> arg]

\* ann and bob post, one of ann's chats oversized, and move between rooms; ann
\* may ban bob, who may not mute her.
TalkInputs == (c1 :> {Say("chat", "general"), Say("leave", "dev"), Say("join", "dev"),
                      Say("typing", ""), Say("reply", ""), Say("ban", "bob"),
                      Say("unmute", "bob"), Say("big", "general")})
              @@ (c2 :> {Say("dm", "ann"), Say("switch", "dev"),
                         Say("status", ""), Say("info", ""), Say("mute", "ann"), Say("chat", "")})
\* bob, over SSH, sends a direct message, which is never answered.
LiveInputs == (c1 :> {}) @@ (c2 :> {Say("dm", "ann")})
BanInputs == (c1 :> {Say("ban", "bob")}) @@ (c2 :> {})
NoRelays == <<>>

\* A peer relays chats and joins, and a chat that is oversized.
Heard(type) == [type |-> type, to |-> "general"]
OnePeer == p :> {Heard("chat"), Heard("join"), Heard("big")}

InfoInputs == (c1 :> {}) @@ (c2 :> {Say("info", "")})

\* Bound: when ann's connection has ended one of the two types nothing, and the other
\* posts.
Posting ==
  /\ \A c \in Conns : job[c].what.cmd \in {None, "chat", "dm"}
  /\ typed[c1] = 0 \/ typed[c2] = 0
Talking == wire[c1] = "down" => Posting
\* Bound: what the peer sends meets clients that stay: ann, who has been announced and
\* posts, and bob, who logs in.
AnnPosts == \/ job[c1].what.cmd = "chat"
            \/ hub.at = "save" /\ hub.msg.conn = c1
            \/ \E i \in 1..Len(stored) : stored[i].conn = c1
Listening ==
  heard[p] > 0 => /\ \A c \in Conns : wire[c] = "up"
                  /\ pc[c1] \notin {"idle", "login", "register", "join", "history"}
                  /\ Notice("join", c1) \notin announce
                  /\ typed[c2] = 0
                  /\ typed[c1] = 0 \/ AnnPosts
TalkSpec == Init /\ [][Next /\ (Talking /\ Listening)']_vars

\* Bound: ann leaves before bob types, and before bob leaves unless he says nothing.
\* It restricts no step that fairness promises.
Leaving ==
  /\ Hangup(c1) => typed[c2] = 0
  /\ ScanEnd(c2) => wire[c1] = "up" \/ typed[c2] = 0
LiveSpec == Init /\ [][Next /\ Leaving]_vars /\ Fairness
=============================================================================
