----------------------------- MODULE HubProofs -----------------------------
(***************************************************************************)
(* What Hub guarantees for every set of connections, peers, users, rooms   *)
(* and inputs, TLS and SSH: the types, that nobody is shown what the       *)
(* history lacks, that direct messages stay with their two ends, and that  *)
(* buffers keep the order of the history for what one goroutine saved;     *)
(* then that a node whose connections are all TLS connections never        *)
(* panics, and what a TLS client can miss between the history it is shown  *)
(* and the live messages.                                                  *)
(***************************************************************************)
EXTENDS Hub, TLAPS

Typed == TypeOK /\ JobOK

\* The types fall into two parts: what a handler does, and everything else.
Where == {"idle", "login", "register", "join", "history", "loop", "dispatch", "run", "setroom",
          "reply", "push", "publish", "cast", "banlock", "stuck", "bye", "done"}

Control ==
  /\ pc \in [Conns -> Where]
  /\ \A c \in SSHConns : pc[c] \notin {"login", "history"}
  /\ job \in [Conns -> Jobs]
  /\ JobOK

Data ==
  /\ clients \in [Conns -> Registration]
  /\ chan \in [Conns -> {"unmade", "open", "closed"}]
  /\ queue \in [Conns -> Seq(Message)]
  /\ members \in [Rooms -> SUBSET (Users \cup {None})]
  /\ status \in [Users -> {"offline", "online", "muted", "banned"}]
  /\ stored \in Seq(Message)
  /\ typed \in [Conns -> 0..MaxInputs]
  /\ wire \in [Conns -> {"up", "down"}]
  /\ pump \in [Conns -> {"off", "on", "done"}]
  /\ scan \in [Conns -> {"off", "running", "bye", "done"}]
  /\ seen \in [Conns -> SUBSET Message]
  /\ missed \in [Conns -> SUBSET Message]
  /\ hub \in {Select} \cup [at : {"insert", "remove"}, conn : Conns]
                      \cup [at : {"save", "deliver"}, msg : Message]
  /\ announce \in SUBSET Message
  /\ reader \in [Peers -> {Reading} \cup [at : {"save", "deliver"}, msg : Message]]
  /\ heard \in [Peers -> 0..MaxHeard]
  /\ locked \in BOOLEAN
  /\ panic \in BOOLEAN

\* The types are those of where handlers are, and those of the data.
LEMMA TypedParts == Typed <=> Control /\ Data
BY DEF Typed, TypeOK, Control, Data, Where

\* An entry, or what a lookup reads instead, is a registration.
LEMMA RegistrationTypes ==
  /\ Absent \in Registration /\ Zero \in Registration
  /\ NoJob \in Jobs
BY DEF Absent, Zero, Registration, NoJob, Jobs, Idle

\* What the hub and a reply say are messages.
LEMMA MessageTypes ==
  ASSUME NEW c \in Conns
  PROVE  /\ Notice("join", c) \in Message /\ Notice("leave", c) \in Message
         /\ Answer(c) \in Message
BY HubAssumption DEF Notice, Answer, Message

\* Where a connection is sent next while it logs in.
LEMMA AfterTypes ==
  ASSUME NEW c \in Conns, pc[c] \in {"login", "register", "join", "history"},
         c \in SSHConns => pc[c] \notin {"login", "history"}
  PROVE  /\ c \in SSHConns => After(c) \in {"register", "loop"}
         /\ c \notin SSHConns =>
              After(c) = IF pc[c] = "login" THEN "register"
                         ELSE IF pc[c] = "register" THEN "join"
                         ELSE IF pc[c] = "join" THEN "history" ELSE "loop"
BY DEF After, NextStep, NextStepSSH

\* Whatever the hub holds, its connection and its message have their types.
LEMMA HubTypes ==
  ASSUME Data
  PROVE  /\ hub.at \in {"insert", "remove"} => hub.conn \in Conns
         /\ hub.at \in {"save", "deliver"} => hub.msg \in Message
BY DEF Data, Select

\* So does what the reader of a peer holds.
LEMMA ReaderTypes ==
  ASSUME Data, NEW p \in Peers, reader[p].at \in {"save", "deliver"}
  PROVE  reader[p].msg \in Message /\ reader[p] = [at |-> reader[p].at, msg |-> reader[p].msg]
BY DEF Data, Reading

\* A fan-out leaves sequences of messages in the buffers.
LEMMA FanOutTypes ==
  ASSUME Data, NEW m \in Message, FanOut(m)
  PROVE  /\ queue' \in [Conns -> Seq(Message)]
         /\ missed' \in [Conns -> SUBSET Message]
         /\ panic' \in BOOLEAN
BY DEF FanOut, Data, Enqueue

\* What a command posts is a message.
LEMMA PostedTypes ==
  ASSUME Control, Data, NEW c \in Conns
  PROVE  Posted(c) \in Message
BY HubAssumption DEF Posted, Message, Control, Data, Jobs, Input, Idle, Cmd, Arg

\* The history is made of stored messages.
LEMMA ReplayedTypes == ASSUME Data PROVE Replayed \subseteq Message
<1>1. ASSUME NEW k \in Nat \ {0}, NEW i \in k..Len(stored) PROVE stored[i] \in Message
  BY DEF Data
<1>2. Len(stored) \in Nat BY DEF Data
<1> QED BY <1>1, <1>2, HubAssumption DEF Replayed

-----------------------------------------------------------------------------
(* How a handler moves *)

\* To a place that says nothing of its command.
LEMMA GotoControl ==
  ASSUME Control, NEW c \in Conns,
         NEW where \in {"login", "register", "join", "history", "loop", "publish", "reply",
                        "push", "banlock", "stuck", "bye", "done"},
         c \in SSHConns => where \notin {"login", "history"},
         pc' = [pc EXCEPT ![c] = where], UNCHANGED job
  PROVE  Control'
BY DEF Control, Where, JobOK, Cmd

\* To its reply: the command stays, and /status alone goes on with a fan-out.
LEMMA ReplyControl ==
  ASSUME Control, NEW c \in Conns, NEW then \in {"loop", "cast", "banlock"},
         then = "cast" => Cmd(c) = "status",
         pc' = [pc EXCEPT ![c] = "reply"], job' = [job EXCEPT ![c].then = then]
  PROVE  Control'
<1>1. job[c] \in Jobs BY DEF Control
<1>2. [job[c] EXCEPT !.then = then] \in Jobs BY <1>1 DEF Jobs
<1>3. job' = [job EXCEPT ![c] = [job[c] EXCEPT !.then = then]] OBVIOUS
<1>4. job' \in [Conns -> Jobs] BY <1>1, <1>2, <1>3 DEF Control
<1>5. \A x \in Conns : /\ job'[x].what = job[x].what
                       /\ job'[x].then = IF x = c THEN then ELSE job[x].then
  BY <1>1, <1>4 DEF Control, Jobs
<1>6. JobOK' BY <1>5 DEF Control, JobOK, Cmd
<1> QED BY <1>4, <1>6 DEF Control, Where

\* Back to its read loop, the command done.
LEMMA DoneControl ==
  ASSUME Control, NEW c \in Conns,
         pc' = [pc EXCEPT ![c] = "loop"], job' = [job EXCEPT ![c] = NoJob]
  PROVE  Control'
<1>1. job' \in [Conns -> Jobs] BY RegistrationTypes DEF Control
<1>2. JobOK' BY DEF Control, JobOK, Cmd, NoJob
<1> QED BY <1>1, <1>2 DEF Control, Where

\* After a reply: to the fan-out, to the lock of /ban, or back to the loop.
LEMMA ResumeControl ==
  ASSUME Control, NEW c \in Conns, Resume(c)
  PROVE  Control'
<1>1. job[c].then \in {"loop", "cast", "banlock"} BY DEF Control, Jobs
<1>2. CASE job[c].then = "loop" BY <1>2, DoneControl DEF Resume, Goto
<1>3. CASE job[c].then = "banlock" BY <1>3, GotoControl DEF Resume, Goto
<1>4. CASE job[c].then = "cast" BY <1>4 DEF Resume, Goto, Control, JobOK, Cmd, Where
<1> QED BY <1>1, <1>2, <1>3, <1>4

-----------------------------------------------------------------------------
(* Every step keeps the types *)

\* The steps of the hub keep the types.
LEMMA HubStepTypes ==
  ASSUME Control, Data, HubStep
  PROVE  Control' /\ Data'
<1> USE DEF conVars, chanVars, dataVars, ioVars, hubVars, peerVars
<1>1. CASE HubInsert
  <2>1. Control' BY <1>1 DEF HubInsert, Control, JobOK, Cmd, Where
  <2>2. Data' BY <1>1, HubTypes, MessageTypes, HubAssumption DEF HubInsert, Data, Registration, Select
  <2> QED BY <2>1, <2>2
<1>2. CASE HubRemove
  <2>1. Control' BY <1>2 DEF HubRemove, Control, JobOK, Cmd, Where
  <2>2. Data' BY <1>2, HubTypes, MessageTypes, RegistrationTypes DEF HubRemove, Data, Deregistered, Select
  <2> QED BY <2>1, <2>2
<1>3. CASE HubRemoveAgain
  <2>1. Control' BY <1>3 DEF HubRemoveAgain, Control, JobOK, Cmd, Where
  <2>2. Data' BY <1>3 DEF HubRemoveAgain, Data, Select
  <2> QED BY <2>1, <2>2
<1>4. CASE HubSave
  <2>1. Control' BY <1>4 DEF HubSave, Control, JobOK, Cmd, Where
  <2>2. Data' BY <1>4, HubTypes DEF HubSave, Data, Select
  <2> QED BY <2>1, <2>2
<1>5. CASE HubDeliver
  <2>1. Control' BY <1>5 DEF HubDeliver, Control, JobOK, Cmd, Where
  <2>2. Data' BY <1>5, HubTypes, FanOutTypes DEF HubDeliver, Data, Select
  <2> QED BY <2>1, <2>2
<1>6. ASSUME NEW m \in announce, HubAnnounce(m) PROVE Control' /\ Data'
  <2>1. Control' BY <1>6 DEF HubAnnounce, Control, JobOK, Cmd, Where
  <2>2. Data' BY <1>6 DEF HubAnnounce, Data, Select
  <2> QED BY <2>1, <2>2
<1> QED BY <1>1, <1>2, <1>3, <1>4, <1>5, <1>6 DEF HubStep

\* Connecting and logging in keep the types.
LEMMA ConnectTypes ==
  ASSUME Control, Data, NEW c \in Conns, Connect(c)
  PROVE  Control' /\ Data'
<1> USE DEF conVars, chanVars, dataVars, ioVars, hubVars, peerVars
<1>1. CASE Accept(c)
  <2>1. Control' BY <1>1, GotoControl DEF Accept, Goto
  <2>2. Data' BY <1>1 DEF Accept, Data
  <2> QED BY <2>1, <2>2
<1>2. CASE Reject(c)
  <2>1. Control' BY <1>2, GotoControl DEF Reject, Goto
  <2>2. Data' BY <1>2 DEF Reject, Data
  <2> QED BY <2>1, <2>2
<1>3. CASE AcceptSSH(c)
  <2>1. Control' BY <1>3, GotoControl DEF AcceptSSH, Goto, NextStepSSH
  <2>2. Data' BY <1>3, HubAssumption DEF AcceptSSH, Data
  <2> QED BY <2>1, <2>2
<1>4. CASE LoginOk(c)
  <2>1. Control' BY <1>4, GotoControl, AfterTypes DEF LoginOk, Goto, Control
  <2>2. Data' BY <1>4, HubAssumption DEF LoginOk, Data
  <2> QED BY <2>1, <2>2
<1>5. CASE LoginFail(c)
  <2>1. Control' BY <1>5, GotoControl DEF LoginFail, Goto
  <2>2. Data' BY <1>5 DEF LoginFail, Data
  <2> QED BY <2>1, <2>2
<1>6. CASE HubRegister(c)
  <2>1. Control' BY <1>6, GotoControl, AfterTypes DEF HubRegister, Goto, Control
  <2>2. Data' BY <1>6 DEF HubRegister, Data, StartPump, Select
  <2> QED BY <2>1, <2>2
<1>7. CASE JoinGeneral(c)
  <2>1. Control' BY <1>7, GotoControl, AfterTypes DEF JoinGeneral, Goto, Control
  <2>2. Data' BY <1>7, HubAssumption DEF JoinGeneral, Data, StartPump
  <2> QED BY <2>1, <2>2
<1>8. CASE History(c)
  <2>1. Control' BY <1>8, GotoControl, AfterTypes DEF History, Goto, Control
  <2>2. Data' BY <1>8, ReplayedTypes DEF History, Data
  <2> QED BY <2>1, <2>2
<1> QED BY <1>1, <1>2, <1>3, <1>4, <1>5, <1>6, <1>7, <1>8 DEF Connect

\* The commands keep the types.
LEMMA CommandTypes ==
  ASSUME Control, Data, NEW c \in Conns, Command(c)
  PROVE  Control' /\ Data'
<1> USE DEF conVars, chanVars, dataVars, ioVars, hubVars, peerVars
<1>1. CASE Chat(c)
  <2>1. Control' BY <1>1, GotoControl DEF Chat, Goto
  <2>2. Data' BY <1>1 DEF Chat, Data
  <2> QED BY <2>1, <2>2
<1>2. CASE RefuseChat(c)
  <2>1. Control' BY <1>2, ReplyControl DEF RefuseChat, Goto, ReplyThen
  <2>2. Data' BY <1>2 DEF RefuseChat, Data
  <2> QED BY <2>1, <2>2
<1>3. CASE ReplyOrDM(c)
  <2>1. Control' BY <1>3, GotoControl DEF ReplyOrDM, Goto
  <2>2. Data' BY <1>3 DEF ReplyOrDM, Data
  <2> QED BY <2>1, <2>2
<1>4. CASE Info(c)
  <2>1. Control' BY <1>4, ReplyControl DEF Info, Goto, ReplyThen
  <2>2. Data' BY <1>4 DEF Info, Data
  <2> QED BY <2>1, <2>2
<1>5. CASE Typing(c)
  <2>1. Control' BY <1>5 DEF Typing, Control, JobOK, Cmd, Where, Goto, Running
  <2>2. Data' BY <1>5 DEF Typing, Data
  <2> QED BY <2>1, <2>2
<1>6. CASE Status(c)
  <2>1. Control' BY <1>6, ReplyControl DEF Status, Goto, ReplyThen, Running
  <2>2. Data' BY <1>6 DEF Status, Data, SetStatus
  <2> QED BY <2>1, <2>2
<1>7. CASE JoinRoom(c)
  <2>1. Control' BY <1>7 DEF JoinRoom, Control, JobOK, Cmd, Where, Goto, Running
  <2>2. Data' BY <1>7, ZenonT(60) DEF JoinRoom, Data, Control, Jobs
  <2> QED BY <2>1, <2>2
<1>8. CASE LeaveRoom(c)
  <2>1. Control' BY <1>8 DEF LeaveRoom, Control, JobOK, Cmd, Where, Goto, Running
  <2>2. Data' BY <1>8 DEF LeaveRoom, Data
  <2> QED BY <2>1, <2>2
<1>9. CASE SwitchRoom(c)
  <2>1. Control'
    <3>1. CASE job[c].user \in members[Arg(c)]
      <4>1. pc' = [pc EXCEPT ![c] = "setroom"] /\ job' = job BY <1>9, <3>1 DEF SwitchRoom, Goto
      <4>2. Cmd(c) = "switch" BY <1>9 DEF SwitchRoom, Running
      <4> QED BY <4>1, <4>2 DEF Control, JobOK, Cmd, Where
    <3>2. CASE job[c].user \notin members[Arg(c)]
      BY <1>9, <3>2, ReplyControl DEF SwitchRoom, ReplyThen, Goto
    <3> QED BY <3>1, <3>2
  <2>2. Data' BY <1>9 DEF SwitchRoom, Data
  <2> QED BY <2>1, <2>2
<1>10. CASE SetRoom(c)
  <2>1. Control' BY <1>10, ReplyControl DEF SetRoom, Goto, ReplyThen
  <2>2. Data'
    <3>1. Arg(c) \in Rooms
      <4>1. Cmd(c) \in {"join", "leave", "switch"} BY <1>10 DEF SetRoom, Control, JobOK
      <4>2. job[c].what \in Input \cup {Idle} BY DEF Control, Jobs
      <4>3. job[c].what # Idle
        <5>1. Idle.cmd = "" BY DEF Idle, None
        <5> QED BY <4>1, <5>1 DEF Cmd
      <4>4. \A i \in Input : i.cmd \in {"join", "leave", "switch"} => i.arg \in Rooms
        BY DEF Input
      <4> QED BY <4>1, <4>2, <4>3, <4>4 DEF Arg, Cmd
    <3>2. clients[c] \in Registration /\ Read(c) \in Registration BY RegistrationTypes DEF Read, Data
    <3>3. \A r \in Rooms : [Read(c) EXCEPT !.room = r] \in Registration
      BY <3>2 DEF Registration
    <3>4. clients' \in [Conns -> Registration]
      BY <1>10, <3>1, <3>3, HubAssumption DEF SetRoom, WriteBack, Data
    <3> QED BY <1>10, <3>4 DEF SetRoom, Data
  <2> QED BY <2>1, <2>2
<1>11. CASE Moderate(c)
  <2>1. Control' BY <1>11, ReplyControl DEF Moderate, Goto, ReplyThen, Running
  <2>2. Data' BY <1>11 DEF Moderate, Data, Running, SetStatus, Verdict
  <2> QED BY <2>1, <2>2
<1>12. CASE RefuseModerate(c)
  <2>1. Control' BY <1>12, ReplyControl DEF RefuseModerate, Goto, ReplyThen
  <2>2. Data' BY <1>12 DEF RefuseModerate, Data
  <2> QED BY <2>1, <2>2
<1>13. CASE BanOnline(c)
  <2>1. Control' BY <1>13, GotoControl DEF BanOnline, Goto
  <2>2. Data' BY <1>13 DEF BanOnline, Data
  <2> QED BY <2>1, <2>2
<1>14. CASE BanOffline(c)
  <2>1. Control' BY <1>14, DoneControl DEF BanOffline, Goto
  <2>2. Data' BY <1>14 DEF BanOffline, Data
  <2> QED BY <2>1, <2>2
<1> QED BY <1>1, <1>2, <1>3, <1>4, <1>5, <1>6, <1>7, <1>8, <1>9, <1>10, <1>11, <1>12, <1>13, <1>14 DEF Command

\* Replies, posts and direct fan-outs keep the types.
LEMMA FinishTypes ==
  ASSUME Control, Data, NEW c \in Conns, Finish(c)
  PROVE  Control' /\ Data'
<1> USE DEF conVars, chanVars, dataVars, ioVars, hubVars, peerVars
<1>1. CASE ReplyLookup(c)
  <2>1. Control' BY <1>1, GotoControl DEF ReplyLookup, Goto
  <2>2. Data' BY <1>1 DEF ReplyLookup, Data
  <2> QED BY <2>1, <2>2
<1>2. CASE ReplyNowhere(c)
  <2>1. Control' BY <1>2, ResumeControl DEF ReplyNowhere, Goto
  <2>2. Data' BY <1>2 DEF ReplyNowhere, Data
  <2> QED BY <2>1, <2>2
<1>3. CASE Push(c)
  <2>1. Control' BY <1>3, ResumeControl DEF Push, Goto
  <2>2. Data' BY <1>3, MessageTypes DEF Push, Data, Enqueue
  <2> QED BY <2>1, <2>2
<1>4. CASE Publish(c)
  <2>1. Control' BY <1>4, DoneControl DEF Publish, Goto
  <2>2. Data' BY <1>4, PostedTypes DEF Publish, Data, Select
  <2> QED BY <2>1, <2>2
<1>5. CASE Cast(c)
  <2>1. Control' BY <1>5, DoneControl DEF Cast, Goto
  <2>2. Data'
    <3>1. Cmd(c) \in {"typing", "status"} BY <1>5 DEF Cast, Control, JobOK
    <3>2. job[c].user \in Users \cup {None} /\ job[c].room \in Rooms \cup {None}
      BY DEF Control, Jobs
    <3>3. [type |-> Cmd(c), conn |-> c, n |-> 0, sender |-> job[c].user,
           to |-> IF Cmd(c) = "typing" THEN job[c].room ELSE None] \in Message
      BY <3>1, <3>2, HubAssumption DEF Message
    <3> QED BY <1>5, <3>3, FanOutTypes DEF Cast, Data
  <2> QED BY <2>1, <2>2
<1> QED BY <1>1, <1>2, <1>3, <1>4, <1>5 DEF Finish

\* Leaving, pumping and reading keep the types.
LEMMA DepartTypes ==
  ASSUME Control, Data, NEW c \in Conns, Depart(c) \/ Pump(c) \/ Dispatch(c) \/ Environment(c)
  PROVE  Control' /\ Data'
<1> USE DEF conVars, chanVars, dataVars, ioVars, hubVars, peerVars
<1>1. CASE ReadFail(c)
  <2>1. Control' BY <1>1, GotoControl DEF ReadFail, Goto, AfterLoop
  <2>2. Data' BY <1>1 DEF ReadFail, Data
  <2> QED BY <2>1, <2>2
<1>2. CASE HubUnregister(c)
  <2>1. Control' BY <1>2, GotoControl DEF HubUnregister, Goto
  <2>2. Data' BY <1>2 DEF HubUnregister, Data, Select
  <2> QED BY <2>1, <2>2
<1>3. CASE ScanUnregister(c)
  <2>1. Control' BY <1>3 DEF ScanUnregister, Control, JobOK, Cmd, Where
  <2>2. Data' BY <1>3 DEF ScanUnregister, Data, Select
  <2> QED BY <2>1, <2>2
<1>4. CASE PumpWrite(c)
  <2>1. Control' BY <1>4 DEF PumpWrite, Control, JobOK, Cmd, Where
  <2>2. Data' BY <1>4 DEF PumpWrite, Data
  <2> QED BY <2>1, <2>2
<1>5. CASE PumpEnd(c)
  <2>1. Control' BY <1>5 DEF PumpEnd, Control, JobOK, Cmd, Where
  <2>2. Data' BY <1>5 DEF PumpEnd, Data
  <2> QED BY <2>1, <2>2
<1>6. CASE Dispatch(c)
  <2>1. Control'
    <3> DEFINE j == [job[c] EXCEPT !.user = Read(c).user, !.room = Read(c).room]
    <3>1. job[c] \in Jobs BY DEF Control
    <3>2. Read(c).user \in Users \cup {None} /\ Read(c).room \in Rooms \cup {None}
      BY DEF Data, Read, Zero, Registration
    <3>3. j \in Jobs /\ j.what = job[c].what /\ j.then = job[c].then BY <3>1, <3>2 DEF Jobs
    <3>4. job' = [job EXCEPT ![c] = j] BY <1>6 DEF Dispatch
    <3> QED BY <1>6, <3>1, <3>3, <3>4 DEF Dispatch, Control, JobOK, Cmd, Where, Goto
  <2>2. Data' BY <1>6 DEF Dispatch, Data
  <2> QED BY <2>1, <2>2
<1>7. CASE Hangup(c)
  <2>1. Control' BY <1>7 DEF Hangup, Control, JobOK, Cmd, Where
  <2>2. Data' BY <1>7 DEF Hangup, Data
  <2> QED BY <2>1, <2>2
<1>8. CASE ScanEnd(c)
  <2>1. Control' BY <1>8 DEF ScanEnd, Control, JobOK, Cmd, Where
  <2>2. Data' BY <1>8 DEF ScanEnd, Data
  <2> QED BY <2>1, <2>2
<1>9. ASSUME NEW i \in Inputs[c], ReadInput(c, i) PROVE Control' /\ Data'
  <2>1. Control'
    <3>1. i \in Input BY HubAssumption, <1>9
    <3>2. [NoJob EXCEPT !.what = i] = [what |-> i, user |-> None, room |-> None, then |-> "loop"]
      BY DEF NoJob
    <3>3. [NoJob EXCEPT !.what = i] \in Jobs BY <3>1, <3>2 DEF Jobs
    <3> QED BY <1>9, <3>1, <3>2, <3>3 DEF ReadInput, Control, JobOK, Cmd, Where, Goto
  <2>2. Data' BY <1>9, HubAssumption DEF ReadInput, Data
  <2> QED BY <2>1, <2>2
<1> QED BY <1>1, <1>2, <1>3, <1>4, <1>5, <1>6, <1>7, <1>8, <1>9 DEF Depart, Pump, Environment

\* The readers of the peers keep the types.
LEMMA PeerTypes ==
  ASSUME Control, Data, NEW p \in Peers, PeerStep(p)
  PROVE  Control' /\ Data'
<1> USE DEF conVars, chanVars, dataVars, ioVars, hubVars
<1>1. ASSUME NEW r \in Relays[p], PeerRead(p, r) PROVE Control' /\ Data'
  <2>1. Control' BY <1>1 DEF PeerRead, Control, JobOK, Cmd
  <2> DEFINE m == [type |-> r.type, conn |-> p, n |-> heard[p] + 1, sender |-> None, to |-> r.to]
  <2>2. heard[p] \in 0..MaxHeard /\ heard[p] + 1 \in 0..MaxHeard /\ heard[p] + 1 \in Nat
    BY <1>1, HubAssumption DEF PeerRead, Data
  <2>3. m \in Message BY <2>2, HubAssumption, <1>1 DEF Relay, Message
  <2>4. reader' = [reader EXCEPT ![p] = [at |-> "save", msg |-> m]]
        /\ heard' = [heard EXCEPT ![p] = heard[p] + 1]
    BY <1>1 DEF PeerRead
  <2> HIDE DEF m
  <2>5. /\ reader' \in [Peers -> {Reading} \cup [at : {"save", "deliver"}, msg : Message]]
        /\ heard' \in [Peers -> 0..MaxHeard]
    BY <2>2, <2>3, <2>4 DEF Data
  <2> QED BY <1>1, <2>1, <2>5 DEF PeerRead, Data
<1>2. CASE PeerSave(p)
  <2>1. Control' BY <1>2 DEF PeerSave, Control, JobOK, Cmd
  <2>2. reader[p].msg \in Message /\ reader[p] = [at |-> "save", msg |-> reader[p].msg]
    BY <1>2, ReaderTypes DEF PeerSave
  <2>3. [reader[p] EXCEPT !.at = "deliver"] = [at |-> "deliver", msg |-> reader[p].msg] BY <2>2
  <2>4. reader' = [reader EXCEPT ![p] = [at |-> "deliver", msg |-> reader[p].msg]]
    BY <1>2, <2>3 DEF PeerSave
  <2>5. reader' \in [Peers -> {Reading} \cup [at : {"save", "deliver"}, msg : Message]]
    BY <2>2, <2>4 DEF Data
  <2>6. stored' \in Seq(Message) BY <1>2, <2>2 DEF PeerSave, Data
  <2> QED BY <1>2, <2>1, <2>5, <2>6 DEF PeerSave, Data
<1>3. CASE PeerDeliver(p)
  <2>1. Control' BY <1>3 DEF PeerDeliver, Control, JobOK, Cmd
  <2>2. reader[p].msg \in Message BY <1>3, ReaderTypes DEF PeerDeliver
  <2> QED BY <1>3, <2>1, <2>2, FanOutTypes DEF PeerDeliver, Data
<1> QED BY <1>1, <1>2, <1>3 DEF PeerStep, Reader

\* So does doing nothing.
LEMMA StutterTypes == ASSUME Control, Data, UNCHANGED vars PROVE Control' /\ Data'
<1> USE DEF vars, conVars, chanVars, dataVars, ioVars, hubVars, peerVars
<1>1. Control' BY DEF Control, JobOK, Cmd
<1>2. Data' BY DEF Data
<1> QED BY <1>1, <1>2

\* Every step keeps the types.
LEMMA NextTypes == ASSUME Typed, [Next]_vars PROVE Typed'
<1>1. Control /\ Data BY TypedParts
<1>2. ASSUME NEW c \in Conns, Handler(c) \/ Environment(c) PROVE Control' /\ Data'
  BY <1>1, <1>2, ConnectTypes, CommandTypes, FinishTypes, DepartTypes DEF Handler
<1>3. Control' /\ Data'
  BY <1>1, <1>2, HubStepTypes, PeerTypes, StutterTypes DEF Next
<1> QED BY <1>3 DEF Typed, TypeOK, Control, Data, Where

\* The initial state has the types.
LEMMA InitTypes == Init => Typed
<1> SUFFICES ASSUME Init PROVE Control /\ Data BY TypedParts
<1>1. Control
  <2>1. pc \in [Conns -> Where] /\ job \in [Conns -> Jobs]
    BY RegistrationTypes DEF Init, Where
  <2>2. \A c \in Conns : pc[c] = "idle" /\ job[c].then = "loop" BY DEF Init, NoJob
  <2> QED BY <2>1, <2>2, HubAssumption DEF Control, JobOK
<1>2. Data
  <2>1. \A c \in Conns : Absent \in Registration /\ <<>> \in Seq(Message)
    BY RegistrationTypes
  <2>2. clients \in [Conns -> Registration] BY <2>1 DEF Init
  <2>3. queue \in [Conns -> Seq(Message)] /\ stored \in Seq(Message) BY <2>1 DEF Init
  <2>4. /\ members \in [Rooms -> SUBSET (Users \cup {None})]
        /\ typed \in [Conns -> 0..MaxInputs]
        /\ seen \in [Conns -> SUBSET Message] /\ missed \in [Conns -> SUBSET Message]
        /\ heard \in [Peers -> 0..MaxHeard]
    BY HubAssumption DEF Init
  <2> QED BY <2>2, <2>3, <2>4 DEF Init, Data
<1> QED BY <1>1, <1>2

\* Every variable keeps its type, whatever the clients do.
THEOREM TypeCorrect == Spec => []TypeOK
<1>1. Typed => TypeOK BY DEF Typed
<1> QED BY <1>1, InitTypes, NextTypes, PTL DEF Spec

-----------------------------------------------------------------------------
(* What is in the buffers *)

\* A chat is stored before it is anywhere near a client, a direct message is for the
\* user who has it, and the Send channel of an entry is its user's own.
SavedFirst == \A m \in InFlight : m.type = "chat" => m \in Chats
OwnEntry == \A c \in Conns : clients[c].send = "chan" => clients[c].user = UserOf[c]
MayHave(c, m) ==
  /\ m.type = "chat" => m \in Chats
  /\ m.type = "dm" => UserOf[c] \in {m.sender, m.to}
Buffered == \A c \in Conns : \A i \in 1..Len(queue[c]) : MayHave(c, queue[c][i])
Shown == \A c \in Conns : \A m \in seen[c] : m.type = "chat" => m \in Chats

MailInv == SavedFirst /\ OwnEntry /\ Buffered /\ Shown

\* What the hub holds is in flight if it delivers it, and so with a peer reader.
LEMMA FlightParts ==
  \A m : m \in InFlight <=> \/ (hub.at = "deliver" /\ m = hub.msg)
                             \/ \E p \in Peers : reader[p].at = "deliver" /\ m = reader[p].msg
BY DEF InFlight

\* What is in flight is a message.
LEMMA FlightTypes == ASSUME Data PROVE InFlight \subseteq Message
BY HubTypes, ReaderTypes DEF InFlight

\* What is stored stays stored, and what is appended is stored.
LEMMA SavedStays ==
  ASSUME Data, NEW m \in Message, stored' = Append(stored, m)
  PROVE  Chats \subseteq Chats' /\ (m.type = "chat" => m \in Chats')
<1>1. /\ Len(stored) \in Nat /\ Len(stored') = Len(stored) + 1
      /\ \A i \in 1..Len(stored) : stored'[i] = stored[i]
      /\ stored'[Len(stored) + 1] = m
  BY DEF Data
<1>2. Chats \subseteq Chats'
  <2> SUFFICES ASSUME NEW i \in 1..Len(stored), stored[i].type = "chat" PROVE stored[i] \in Chats'
    BY DEF Chats
  <2>1. i \in 1..Len(stored') /\ stored'[i] = stored[i] BY <1>1
  <2> QED BY <2>1 DEF Chats
<1>3. ASSUME m.type = "chat" PROVE m \in Chats'
  <2>1. Len(stored) + 1 \in 1..Len(stored') BY <1>1
  <2> QED BY <1>1, <1>3, <2>1 DEF Chats
<1> QED BY <1>2, <1>3

\* The history is made of chats that are stored.
LEMMA ReplayedIsSaved == ASSUME Data PROVE Replayed \subseteq Chats
<1> SUFFICES ASSUME NEW m \in Replayed PROVE m \in Chats OBVIOUS
<1>1. Len(stored) \in Nat BY DEF Data
<1>2. \E k \in Nat \ {0} : \E i \in k..Len(stored) : m = stored[i] /\ m.type = "chat"
  BY <1>1, HubAssumption DEF Replayed
<1>3. PICK i \in 1..Len(stored) : m = stored[i] /\ m.type = "chat" BY <1>1, <1>2
<1> QED BY <1>3 DEF Chats

\* A fan-out gives a message to those who may have it.
LEMMA FanOutMail ==
  ASSUME Data, OwnEntry, Buffered, NEW m \in Message, m.type = "chat" => m \in Chats,
         FanOut(m), UNCHANGED stored
  PROVE  Buffered'
<1> SUFFICES ASSUME NEW c \in Conns, NEW i \in 1..Len(queue'[c]) PROVE MayHave(c, queue[c][i])'
  BY DEF Buffered
<1>1. \A x : MayHave(c, x)' <=> MayHave(c, x) BY DEF MayHave, Chats
<1>2. CASE queue'[c] = queue[c] BY <1>1, <1>2 DEF Buffered
<1>3. CASE queue'[c] = Append(queue[c], m) /\ c \in Recipients(m) /\ clients[c].send = "chan"
  <2>1. MayHave(c, m)
    <3>1. m.type = "dm" => UserOf[c] \in {m.sender, m.to}
      BY <1>3 DEF Recipients, Wants, OwnEntry
    <3> QED BY <3>1 DEF MayHave
  <2>2. queue[c] \in Seq(Message) BY DEF Data
  <2>3. i \in 1..Len(queue[c]) \/ i = Len(queue[c]) + 1 BY <1>3, <2>2
  <2>4. i \in 1..Len(queue[c]) => queue'[c][i] = queue[c][i] BY <1>3, <2>2
  <2>5. i = Len(queue[c]) + 1 => queue'[c][i] = m BY <1>3, <2>2
  <2> QED BY <1>1, <2>1, <2>3, <2>4, <2>5 DEF Buffered
<1> QED BY <1>2, <1>3 DEF FanOut, Enqueue

\* Steps that touch none of it.
LEMMA StillMail ==
  ASSUME MailInv, UNCHANGED <<clients, queue, seen, stored, reader>>,
         hub' = hub \/ hub'.at # "deliver"
  PROVE  MailInv'
<1>1. InFlight' \subseteq InFlight BY DEF InFlight
<1> QED BY <1>1 DEF MailInv, SavedFirst, OwnEntry, Buffered, Shown, MayHave, Chats

\* Steps that only change entries.
LEMMA EntryMail ==
  ASSUME MailInv, UNCHANGED <<queue, seen, stored, reader>>, hub' = hub \/ hub'.at # "deliver",
         OwnEntry'
  PROVE  MailInv'
<1>1. InFlight' \subseteq InFlight BY DEF InFlight
<1> QED BY <1>1 DEF MailInv, SavedFirst, OwnEntry, Buffered, Shown, MayHave, Chats

\* Saving puts a message where it is safe to show, whoever saves it.
LEMMA SaveMail ==
  ASSUME Data, MailInv, NEW m \in Message, InFlight' \subseteq InFlight \cup {m},
         stored' = IF Persistent(m) THEN Append(stored, m) ELSE stored,
         UNCHANGED <<clients, queue, seen>>
  PROVE  MailInv'
<1>1. Chats \subseteq Chats' /\ (m.type = "chat" => m \in Chats')
  <2>1. CASE Persistent(m) BY <2>1, SavedStays
  <2>2. CASE ~Persistent(m)
    <3>1. stored' = stored BY <2>2
    <3> QED BY <2>2, <3>1 DEF Chats, Persistent
  <2> QED BY <2>1, <2>2
<1> QED BY <1>1 DEF MailInv, SavedFirst, OwnEntry, Buffered, Shown, MayHave

\* So does delivering it to those who may have it.
LEMMA DeliverMail ==
  ASSUME Data, MailInv, NEW m \in InFlight, FanOut(m), InFlight' \subseteq InFlight,
         UNCHANGED <<clients, seen, stored>>
  PROVE  MailInv'
<1>1. m \in Message /\ (m.type = "chat" => m \in Chats) BY FlightTypes DEF MailInv, SavedFirst
<1>2. Buffered' BY <1>1, FanOutMail DEF MailInv
<1> QED BY <1>2 DEF MailInv, SavedFirst, OwnEntry, Shown, Chats

\* The hub saves, then delivers.
LEMMA HubMail ==
  ASSUME Control, Data, MailInv, HubStep
  PROVE  MailInv'
<1> USE DEF conVars, chanVars, dataVars, ioVars, hubVars, peerVars
<1>1. CASE HubInsert
  <2>1. OwnEntry'
    <3>1. \A c \in Conns : clients'[c] = IF c = hub.conn
             THEN [user |-> UserOf[hub.conn], room |-> General, send |-> "chan"] ELSE clients[c]
      BY <1>1 DEF HubInsert, Data
    <3> QED BY <3>1 DEF MailInv, OwnEntry
  <2> QED BY <1>1, <2>1, EntryMail DEF HubInsert, Select
<1>2. CASE HubRemove
  <2>1. OwnEntry'
    BY <1>2 DEF HubRemove, Deregistered, Absent, MailInv, OwnEntry, Data
  <2> QED BY <1>2, <2>1, EntryMail DEF HubRemove, Select
<1>3. CASE HubRemoveAgain
  BY <1>3, StillMail DEF HubRemoveAgain, Select
<1>4. CASE HubSave
  <2>1. hub.msg \in Message BY <1>4, HubTypes DEF HubSave
  <2>2. InFlight' \subseteq InFlight \cup {hub.msg} BY <1>4 DEF HubSave, InFlight
  <2> QED BY <1>4, <2>1, <2>2, SaveMail DEF HubSave
<1>5. CASE HubDeliver
  <2>1. hub.msg \in InFlight /\ InFlight' \subseteq InFlight
    BY <1>5 DEF HubDeliver, InFlight, Select
  <2> QED BY <1>5, <2>1, DeliverMail DEF HubDeliver
<1>6. ASSUME NEW m \in announce, HubAnnounce(m) PROVE MailInv'
  BY <1>6, StillMail DEF HubAnnounce
<1> QED BY <1>1, <1>2, <1>3, <1>4, <1>5, <1>6 DEF HubStep

\* So do the readers of the peers.
LEMMA PeerMail ==
  ASSUME Control, Data, MailInv, NEW p \in Peers, PeerStep(p)
  PROVE  MailInv'
<1> USE DEF conVars, chanVars, dataVars, ioVars, hubVars
<1>1. ASSUME NEW r \in Relays[p], PeerRead(p, r) PROVE MailInv'
  <2>1. \A q \in Peers : reader'[q].at = "deliver" => reader'[q] = reader[q]
    BY <1>1 DEF PeerRead, Data
  <2>2. InFlight' \subseteq InFlight BY <1>1, <2>1 DEF PeerRead, InFlight
  <2>3. UNCHANGED <<clients, queue, seen, stored>> BY <1>1 DEF PeerRead
  <2> QED BY <2>2, <2>3 DEF MailInv, SavedFirst, OwnEntry, Buffered, Shown, MayHave, Chats
<1>2. CASE PeerSave(p)
  <2>1. reader[p].msg \in Message /\ reader[p] = [at |-> "save", msg |-> reader[p].msg]
    BY <1>2, ReaderTypes DEF PeerSave
  <2>2. [reader[p] EXCEPT !.at = "deliver"].msg = reader[p].msg BY <2>1
  <2>3. \A q \in Peers : reader'[q].msg = reader[q].msg /\ (q # p => reader'[q] = reader[q])
    BY <1>2, <2>2 DEF PeerSave, Data
  <2>4. InFlight' \subseteq InFlight \cup {reader[p].msg} BY <1>2, <2>3 DEF PeerSave, InFlight
  <2> QED BY <1>2, <2>1, <2>4, SaveMail DEF PeerSave
<1>3. CASE PeerDeliver(p)
  <2>1. \A q \in Peers : reader'[q].at = "deliver" => reader'[q] = reader[q]
    BY <1>3 DEF PeerDeliver, Data, Reading
  <2>2. reader[p].msg \in InFlight /\ InFlight' \subseteq InFlight
    BY <1>3, <2>1 DEF PeerDeliver, InFlight
  <2> QED BY <1>3, <2>2, DeliverMail DEF PeerDeliver
<1> QED BY <1>1, <1>2, <1>3 DEF PeerStep, Reader

\* What a login shows is stored; the commands change entries, not their users.
LEMMA HandlerMail ==
  ASSUME Control, Data, MailInv, NEW c \in Conns, Connect(c) \/ Dispatch(c) \/ Command(c)
  PROVE  MailInv'
<1> USE DEF conVars, chanVars, dataVars, ioVars, hubVars, peerVars
<1>1. CASE History(c)
  <2>1. /\ UNCHANGED <<clients, queue, stored, hub, reader>>
        /\ seen' \in {seen, [seen EXCEPT ![c] = @ \cup Replayed]}
    BY <1>1 DEF History
  <2>2. \A x \in Conns : seen'[x] \subseteq seen[x] \cup Replayed
    <3>1. CASE seen' = seen BY <3>1
    <3>2. CASE seen' = [seen EXCEPT ![c] = @ \cup Replayed]
      <4>1. seen \in [Conns -> SUBSET Message] BY DEF Data
      <4> QED BY <3>2, <4>1
    <3> QED BY <2>1, <3>1, <3>2
  <2>3. Shown' BY <2>1, <2>2, ReplayedIsSaved DEF MailInv, Shown, Chats
  <2> QED BY <2>1, <2>3 DEF MailInv, SavedFirst, OwnEntry, Buffered, MayHave, Chats, InFlight
<1>2. CASE SetRoom(c)
  <2>1. OwnEntry'
    <3>1. clients[c] \in Registration BY DEF Data
    <3>2. Read(c).send = "chan" => Read(c).user = UserOf[c]
      BY DEF Read, Zero, MailInv, OwnEntry
    <3>3. \A r : /\ [Read(c) EXCEPT !.room = r].send = Read(c).send
                 /\ [Read(c) EXCEPT !.room = r].user = Read(c).user
      BY <3>1 DEF Read, Zero, Registration
    <3>4. \A x \in Conns : clients'[x] = clients[x]
                            \/ (x = c /\ \E r : clients'[x] = [Read(c) EXCEPT !.room = r])
      BY <1>2 DEF SetRoom, WriteBack, Data
    <3>5. ASSUME NEW x \in Conns, clients'[x].send = "chan" PROVE clients'[x].user = UserOf[x]
      <4>1. CASE clients'[x] = clients[x] BY <3>5, <4>1 DEF MailInv, OwnEntry
      <4>2. ASSUME NEW r, x = c, clients'[x] = [Read(c) EXCEPT !.room = r]
            PROVE  clients'[x].user = UserOf[x]
        BY <3>2, <3>3, <3>5, <4>2
      <4> QED BY <3>4, <4>1, <4>2
    <3> QED BY <3>5 DEF OwnEntry
  <2> QED BY <1>2, <2>1, EntryMail DEF SetRoom
<1>3. CASE Accept(c) \/ Reject(c) \/ AcceptSSH(c) \/ LoginOk(c) \/ LoginFail(c)
           \/ HubRegister(c) \/ JoinGeneral(c) \/ Dispatch(c)
  BY <1>3, StillMail DEF Accept, Reject, AcceptSSH, LoginOk, LoginFail, HubRegister, JoinGeneral,
                         Dispatch
<1>4. CASE Chat(c) \/ RefuseChat(c) \/ ReplyOrDM(c) \/ Info(c) \/ Typing(c) \/ Status(c)
           \/ JoinRoom(c) \/ LeaveRoom(c) \/ SwitchRoom(c)
           \/ Moderate(c) \/ RefuseModerate(c) \/ BanOnline(c) \/ BanOffline(c)
  BY <1>4, StillMail DEF Chat, RefuseChat, ReplyOrDM, Info, Typing, Status, JoinRoom, LeaveRoom,
                         SwitchRoom, Moderate, RefuseModerate, BanOnline, BanOffline
<1> QED BY <1>1, <1>2, <1>3, <1>4 DEF Connect, Command

\* A reply is no message of a user, and a fan-out by a handler none of the history.
LEMMA FinishMail ==
  ASSUME Control, Data, MailInv, NEW c \in Conns, Finish(c)
  PROVE  MailInv'
<1> USE DEF conVars, chanVars, dataVars, ioVars, hubVars, peerVars
<1>1. CASE Push(c)
  <2>1. UNCHANGED <<clients, seen, stored, hub, reader>> BY <1>1 DEF Push
  <2>2. \A x \in Conns : queue'[x] = queue[x] \/ queue'[x] = Append(queue[x], Answer(c))
    BY <1>1 DEF Push, Enqueue, Data
  <2>3. Buffered'
    <3> SUFFICES ASSUME NEW x \in Conns, NEW i \in 1..Len(queue'[x]) PROVE MayHave(x, queue[x][i])'
      BY DEF Buffered
    <3>1. \A y : MayHave(x, y)' <=> MayHave(x, y) BY <2>1 DEF MayHave, Chats
    <3>2. CASE queue'[x] = queue[x] BY <3>1, <3>2 DEF MailInv, Buffered
    <3>3. CASE queue'[x] = Append(queue[x], Answer(c))
      <4>1. queue[x] \in Seq(Message) BY DEF Data
      <4>2. MayHave(x, Answer(c)) BY DEF MayHave, Answer
      <4>3. i \in 1..Len(queue[x]) \/ i = Len(queue[x]) + 1 BY <3>3, <4>1
      <4>4. i \in 1..Len(queue[x]) => queue'[x][i] = queue[x][i] BY <3>3, <4>1
      <4>5. i = Len(queue[x]) + 1 => queue'[x][i] = Answer(c) BY <3>3, <4>1
      <4> QED BY <3>1, <4>2, <4>3, <4>4, <4>5 DEF MailInv, Buffered
    <3> QED BY <2>2, <3>2, <3>3
  <2> QED BY <2>1, <2>3 DEF MailInv, SavedFirst, OwnEntry, Shown, Chats, InFlight
<1>2. CASE Cast(c)
  <2> DEFINE m == [type |-> Cmd(c), conn |-> c, n |-> 0, sender |-> job[c].user,
                   to |-> IF Cmd(c) = "typing" THEN job[c].room ELSE None]
  <2>1. Cmd(c) \in {"typing", "status"} BY <1>2 DEF Cast, Control, JobOK
  <2>2. m \in Message /\ m.type # "chat"
    <3>1. job[c].user \in Users \cup {None} /\ job[c].room \in Rooms \cup {None}
      BY DEF Control, Jobs
    <3> QED BY <2>1, <3>1, HubAssumption DEF Message
  <2>3. FanOut(m) /\ UNCHANGED <<clients, seen, stored, hub, reader>> BY <1>2 DEF Cast
  <2> HIDE DEF m
  <2>4. Buffered' BY <2>2, <2>3, FanOutMail DEF MailInv
  <2> QED BY <2>3, <2>4 DEF MailInv, SavedFirst, OwnEntry, Shown, Chats, InFlight
<1>3. CASE ReplyLookup(c) \/ ReplyNowhere(c) \/ Publish(c)
  BY <1>3, StillMail DEF ReplyLookup, ReplyNowhere, Publish
<1> QED BY <1>1, <1>2, <1>3 DEF Finish

\* The pump shows what was buffered.
LEMMA DepartMail ==
  ASSUME Control, Data, MailInv, NEW c \in Conns, Depart(c) \/ Pump(c) \/ Environment(c)
  PROVE  MailInv'
<1> USE DEF conVars, chanVars, dataVars, ioVars, hubVars, peerVars
<1>1. CASE PumpWrite(c)
  <2>1. queue[c] \in Seq(Message) /\ queue[c] # <<>> BY <1>1 DEF PumpWrite, Data
  <2>2. /\ 1 \in 1..Len(queue[c]) /\ Head(queue[c]) = queue[c][1]
        /\ Len(Tail(queue[c])) = Len(queue[c]) - 1
        /\ \A i \in 1..Len(Tail(queue[c])) : Tail(queue[c])[i] = queue[c][i + 1]
    BY <2>1
  <2>3. \A x \in Conns : queue'[x] = IF x = c THEN Tail(queue[c]) ELSE queue[x]
    BY <1>1 DEF PumpWrite, Data
  <2>4. \A x \in Conns : seen'[x] \subseteq seen[x] \cup (IF x = c THEN {queue[c][1]} ELSE {})
    BY <1>1, <2>2 DEF PumpWrite, Data
  <2>5. UNCHANGED <<clients, stored, hub, reader>> BY <1>1 DEF PumpWrite
  <2>6. Buffered'
    <3> SUFFICES ASSUME NEW x \in Conns, NEW i \in 1..Len(queue'[x]) PROVE MayHave(x, queue[x][i])'
      BY DEF Buffered
    <3>1. \A y : MayHave(x, y)' <=> MayHave(x, y) BY <2>5 DEF MayHave, Chats
    <3>2. CASE x # c BY <2>3, <3>1, <3>2 DEF MailInv, Buffered
    <3>3. CASE x = c
      <4>1. Len(queue[c]) \in Nat BY <2>1
      <4>2. i + 1 \in 1..Len(queue[c]) /\ queue'[x][i] = queue[c][i + 1]
        <5>1. queue'[x] = Tail(queue[c]) BY <2>3, <3>3
        <5>2. i \in 1..Len(Tail(queue[c])) BY <5>1
        <5>3. i \in 1..(Len(queue[c]) - 1) BY <2>2, <5>2
        <5> QED BY <2>2, <4>1, <5>1, <5>2, <5>3
      <4>3. MayHave(c, queue[c][i + 1]) BY <4>2 DEF MailInv, Buffered
      <4>4. MayHave(x, queue'[x][i]) BY <3>3, <4>2, <4>3
      <4> QED BY <3>1, <4>4
    <3> QED BY <3>2, <3>3
  <2>7. Shown' BY <2>2, <2>4, <2>5 DEF MailInv, Shown, Buffered, MayHave, Chats
  <2> QED BY <2>5, <2>6, <2>7 DEF MailInv, SavedFirst, OwnEntry, Chats, InFlight
<1>2. CASE ReadFail(c) \/ HubUnregister(c) \/ ScanUnregister(c) \/ PumpEnd(c) \/ Hangup(c) \/ ScanEnd(c)
  BY <1>2, StillMail DEF ReadFail, HubUnregister, ScanUnregister, PumpEnd, Hangup, ScanEnd
<1>3. ASSUME NEW i \in Inputs[c], ReadInput(c, i) PROVE MailInv'
  BY <1>3, StillMail DEF ReadInput
<1> QED BY <1>1, <1>2, <1>3 DEF Depart, Pump, Environment

\* Every step keeps it.
LEMMA NextMail == ASSUME Typed, MailInv, [Next]_vars PROVE MailInv'
<1>1. Control /\ Data BY TypedParts
<1>2. ASSUME NEW c \in Conns, Handler(c) \/ Environment(c) PROVE MailInv'
  BY <1>1, <1>2, HandlerMail, FinishMail, DepartMail DEF Handler
<1>3. CASE UNCHANGED vars
  BY <1>3, StillMail DEF vars, conVars, chanVars, dataVars, ioVars, hubVars, peerVars
<1> QED BY <1>1, <1>2, <1>3, HubMail, PeerMail DEF Next

\* The invariant always holds.
LEMMA AlwaysMail == Spec => [](Typed /\ MailInv)
<1>1. Init => MailInv
  <2> SUFFICES ASSUME Init PROVE MailInv OBVIOUS
  <2>1. \A c \in Conns : queue[c] = <<>> /\ seen[c] = {} /\ clients[c].send = "absent"
    BY DEF Init, Absent
  <2>2. InFlight = {} BY DEF Init, Select, Reading, InFlight
  <2> QED BY <2>1, <2>2 DEF MailInv, SavedFirst, OwnEntry, Buffered, Shown
<1>2. Typed /\ MailInv /\ [Next]_vars => (Typed /\ MailInv)' BY NextTypes, NextMail
<1> QED BY <1>1, <1>2, InitTypes, PTL DEF Spec

\* Nobody is shown a chat that the history does not have, however handlers, pumps, peer
\* readers and hub interleave (node.go:271-277, peer.go:231-247).
THEOREM ShownIsSaved == Spec => []SavedBeforeShown
<1>1. MailInv => SavedBeforeShown
  BY DEF MailInv, Buffered, Shown, MayHave, SavedBeforeShown, Queued
<1> QED BY <1>1, AlwaysMail, PTL

\* A direct message is only ever buffered for its sender and its recipient, even if the
\* entry of a connection is rewritten behind the hub's back (client.go:21-25,
\* commands.go:325-361).
THEOREM DMsStayPrivate == Spec => []DMStaysPrivate
<1>1. MailInv => DMStaysPrivate
  BY DEF MailInv, Buffered, MayHave, DMStaysPrivate, Queued
<1> QED BY <1>1, AlwaysMail, PTL

-----------------------------------------------------------------------------
(* The order of delivery *)

\* While a handler has an input that it may publish, or a peer reader a message to save,
\* nothing with its number is posted.
Busy == {"dispatch", "run", "publish"}
Counted(m) ==
  IF m.conn \in Peers
  THEN m.n <= heard[m.conn] /\ (reader[m.conn].at = "save" => m.n < heard[m.conn])
  ELSE m.n <= typed[m.conn] /\ (pc[m.conn] \in Busy => m.n < typed[m.conn])
AllCounted ==
  /\ \A i \in 1..Len(stored) : Counted(stored[i])
  /\ hub.at = "save" /\ Persistent(hub.msg) => Counted(hub.msg)

\* The hub has messages of clients, a peer reader the last it heard.
Origins ==
  /\ hub.at \in {"save", "deliver"} => hub.msg.conn \in Conns
  /\ \A p \in Peers : reader[p].at \in {"save", "deliver"} =>
                         reader[p].msg.conn = p /\ reader[p].msg.n = heard[p]
  /\ \A m \in announce : m.conn \in Conns /\ ~Persistent(m)

\* So nothing is stored twice ...
Unrepeated == \A i, j \in 1..Len(stored) : stored[i] = stored[j] => i = j
SaveIsNew == hub.at = "save" /\ Persistent(hub.msg) => \A i \in 1..Len(stored) : stored[i] # hub.msg

\* ... what is delivered is the last of its goroutine that was stored, and nobody has it
\* yet ...
LastOfLane(m) ==
  \E k \in 1..Len(stored) : /\ stored[k] = m
                             /\ \A i \in 1..Len(stored) : i > k => ~SameLane(stored[i], m)
NobodyHas(m) == \A c \in Conns : \A i \in 1..Len(queue[c]) : queue[c][i] # m
DeliverIsLast == \A m \in InFlight : Persistent(m) => LastOfLane(m) /\ NobodyHas(m)

\* ... and every buffer has stored messages, those of one goroutine in the order of the
\* history.
InOrder(s) ==
  /\ \A i \in 1..Len(s) : Persistent(s[i]) => \E p \in 1..Len(stored) : stored[p] = s[i]
  /\ \A i, j \in 1..Len(s) : i < j /\ Persistent(s[i]) /\ Persistent(s[j]) /\ SameLane(s[i], s[j]) =>
       \A p, q \in 1..Len(stored) : stored[p] = s[i] /\ stored[q] = s[j] => p < q

NumberInv == AllCounted /\ Origins /\ SaveIsNew
LaneInv == Unrepeated /\ DeliverIsLast /\ \A c \in Conns : InOrder(queue[c])
OrderInv == NumberInv /\ LaneInv

\* What an append leaves and adds.
LEMMA AppendParts ==
  ASSUME NEW s \in Seq(Message), NEW m \in Message
  PROVE  /\ Len(s) \in Nat /\ Len(Append(s, m)) = Len(s) + 1
         /\ \A i \in 1..Len(s) : Append(s, m)[i] = s[i]
         /\ Append(s, m)[Len(s) + 1] = m
         /\ \A i \in 1..Len(Append(s, m)) : i \in 1..Len(s) \/ i = Len(s) + 1
OBVIOUS

\* What is not in the history may be put anywhere.
LEMMA OrderWithout ==
  ASSUME NEW s \in Seq(Message), NEW m \in Message, InOrder(s), ~Persistent(m)
  PROVE  InOrder(Append(s, m))
<1> DEFINE t == Append(s, m)
<1>1. /\ Len(t) = Len(s) + 1 /\ \A i \in 1..Len(s) : t[i] = s[i]
      /\ t[Len(s) + 1] = m /\ \A i \in 1..Len(t) : i \in 1..Len(s) \/ i = Len(s) + 1
  BY AppendParts
<1> HIDE DEF t
<1>2. ASSUME NEW i \in 1..Len(t), Persistent(t[i]) PROVE i \in 1..Len(s) /\ t[i] = s[i]
  BY <1>1, <1>2
<1>3. ASSUME NEW i \in 1..Len(t), Persistent(t[i])
      PROVE  \E p \in 1..Len(stored) : stored[p] = t[i]
  BY <1>2, <1>3 DEF InOrder
<1>4. ASSUME NEW i \in 1..Len(t), NEW j \in 1..Len(t), i < j, Persistent(t[i]), Persistent(t[j]),
             SameLane(t[i], t[j]),
             NEW p \in 1..Len(stored), NEW q \in 1..Len(stored), stored[p] = t[i], stored[q] = t[j]
      PROVE  p < q
  <2>1. i \in 1..Len(s) /\ t[i] = s[i] /\ j \in 1..Len(s) /\ t[j] = s[j] BY <1>2, <1>4
  <2> QED BY <1>4, <2>1 DEF InOrder
<1>5. InOrder(t) BY <1>3, <1>4 DEF InOrder
<1> QED BY <1>5 DEF t

\* The last of its goroutine goes behind all others.
LEMMA OrderWithLast ==
  ASSUME NEW s \in Seq(Message), NEW m \in Message, InOrder(s), Data, Unrepeated,
         LastOfLane(m), \A i \in 1..Len(s) : s[i] # m
  PROVE  InOrder(Append(s, m))
<1> DEFINE t == Append(s, m)
<1>1. /\ Len(s) \in Nat /\ Len(t) = Len(s) + 1 /\ \A i \in 1..Len(s) : t[i] = s[i]
      /\ t[Len(s) + 1] = m /\ \A i \in 1..Len(t) : i \in 1..Len(s) \/ i = Len(s) + 1
  BY AppendParts
<1>2. PICK k \in 1..Len(stored) :
        stored[k] = m /\ \A i \in 1..Len(stored) : i > k => ~SameLane(stored[i], m)
  BY DEF LastOfLane
<1>3. Len(stored) \in Nat BY DEF Data
<1> HIDE DEF t
<1>4. ASSUME NEW i \in 1..Len(t), Persistent(t[i])
      PROVE  \E p \in 1..Len(stored) : stored[p] = t[i]
  BY <1>1, <1>2, <1>4 DEF InOrder
<1>5. ASSUME NEW i \in 1..Len(t), NEW j \in 1..Len(t), i < j, Persistent(t[i]), Persistent(t[j]),
             SameLane(t[i], t[j]),
             NEW p \in 1..Len(stored), NEW q \in 1..Len(stored), stored[p] = t[i], stored[q] = t[j]
      PROVE  p < q
  <2>1. i \in 1..Len(s) /\ t[i] = s[i] /\ t[i] # m BY <1>1, <1>5
  <2>2. CASE j \in 1..Len(s)
    <3>1. t[j] = s[j] BY <1>1, <2>2
    <3> QED BY <1>5, <2>1, <2>2, <3>1 DEF InOrder
  <2>3. CASE j = Len(s) + 1
    <3>1. t[j] = m BY <1>1, <2>3
    <3>2. q = k BY <1>2, <1>5, <3>1 DEF Unrepeated
    <3>3. p # k BY <1>2, <1>5, <2>1
    <3>4. ~(p > k) BY <1>2, <1>5, <3>1
    <3> QED BY <1>3, <3>2, <3>3, <3>4
  <2> QED BY <1>1, <2>2, <2>3
<1>6. InOrder(t) BY <1>4, <1>5 DEF InOrder
<1> QED BY <1>6 DEF t

\* What is left after the first was written.
LEMMA OrderOfTail ==
  ASSUME NEW s \in Seq(Message), s # <<>>, InOrder(s)
  PROVE  InOrder(Tail(s)) /\ \A m : (\A i \in 1..Len(s) : s[i] # m)
                                      => \A i \in 1..Len(Tail(s)) : Tail(s)[i] # m
<1> DEFINE t == Tail(s)
<1>1. Len(s) \in Nat /\ Len(t) = Len(s) - 1 /\ \A i \in 1..Len(t) : t[i] = s[i + 1]
  OBVIOUS
<1> HIDE DEF t
<1>2. ASSUME NEW i \in 1..Len(t) PROVE i \in Nat /\ i + 1 \in 1..Len(s) /\ t[i] = s[i + 1]
  BY <1>1
<1>3. \A i, j \in 1..Len(t) : i < j => i + 1 < j + 1
  BY <1>1
<1>4. ASSUME NEW i \in 1..Len(t), Persistent(t[i])
      PROVE  \E p \in 1..Len(stored) : stored[p] = t[i]
  BY <1>2, <1>4 DEF InOrder
<1>5. ASSUME NEW i \in 1..Len(t), NEW j \in 1..Len(t), i < j, Persistent(t[i]), Persistent(t[j]),
             SameLane(t[i], t[j]),
             NEW p \in 1..Len(stored), NEW q \in 1..Len(stored), stored[p] = t[i], stored[q] = t[j]
      PROVE  p < q
  BY <1>2, <1>3, <1>5 DEF InOrder
<1>6. InOrder(t) BY <1>4, <1>5 DEF InOrder
<1>7. ASSUME NEW m, \A i \in 1..Len(s) : s[i] # m PROVE \A i \in 1..Len(t) : t[i] # m
  BY <1>2, <1>7
<1> QED BY <1>6, <1>7 DEF t

\* Steps that post and store nothing.
LEMMA StillNumber ==
  ASSUME Control, Data, NumberInv, UNCHANGED <<stored, typed, reader, heard>>,
         hub' = hub \/ hub'.at # "save",
         hub' = hub \/ (hub'.at = "deliver" => hub'.msg.conn \in Conns),
         \A m \in announce' : m \in announce \/ (m.conn \in Conns /\ ~Persistent(m)),
         \A c \in Conns : pc'[c] \in Busy => pc[c] \in Busy
  PROVE  NumberInv'
<1>1. \A m \in Message : Counted(m) => Counted(m)' BY DEF Counted, Message
<1>2. \A i \in 1..Len(stored) : stored[i] \in Message BY DEF Data
<1>3. AllCounted' BY <1>1, <1>2, HubTypes DEF NumberInv, AllCounted
<1>4. Origins' /\ SaveIsNew' BY DEF NumberInv, Origins, SaveIsNew
<1> QED BY <1>3, <1>4 DEF NumberInv

\* What it takes for a buffer to be in order after a step.
LEMMA ThenInOrder ==
  ASSUME NEW c \in Conns,
         \A i \in 1..Len(queue'[c]) : Persistent(queue'[c][i]) =>
           \E p \in 1..Len(stored') : stored'[p] = queue'[c][i],
         \A i, j \in 1..Len(queue'[c]) :
           i < j /\ Persistent(queue'[c][i]) /\ Persistent(queue'[c][j])
                 /\ SameLane(queue'[c][i], queue'[c][j]) =>
             \A p, q \in 1..Len(stored') :
               stored'[p] = queue'[c][i] /\ stored'[q] = queue'[c][j] => p < q
  PROVE  InOrder(queue[c])'
BY DEF InOrder

\* While nothing is stored.
LEMMA StillInOrder ==
  ASSUME UNCHANGED stored, NEW c \in Conns, InOrder(queue'[c]) PROVE InOrder(queue[c])'
<1>1. \A i \in 1..Len(queue'[c]) : Persistent(queue'[c][i]) =>
        \E p \in 1..Len(stored') : stored'[p] = queue'[c][i]
  BY DEF InOrder
<1>2. \A i, j \in 1..Len(queue'[c]) :
        i < j /\ Persistent(queue'[c][i]) /\ Persistent(queue'[c][j])
              /\ SameLane(queue'[c][i], queue'[c][j]) =>
          \A p, q \in 1..Len(stored') :
            stored'[p] = queue'[c][i] /\ stored'[q] = queue'[c][j] => p < q
  BY DEF InOrder
<1> QED BY <1>1, <1>2, ThenInOrder

\* Steps that buffer something: each buffer gets nothing, or something in order.
LEMMA BufferLane ==
  ASSUME LaneInv, UNCHANGED stored, \A c \in Conns : InOrder(queue'[c]),
         \A x \in InFlight' : x \in InFlight /\ (Persistent(x) => NobodyHas(x)')
  PROVE  LaneInv'
<1>1. Unrepeated' BY DEF LaneInv, Unrepeated
<1>2. \A x : LastOfLane(x)' <=> LastOfLane(x) BY DEF LastOfLane
<1>3. DeliverIsLast' BY <1>2 DEF LaneInv, DeliverIsLast
<1>4. ASSUME NEW c \in Conns PROVE InOrder(queue[c])'
  BY StillInOrder
<1> QED BY <1>1, <1>3, <1>4 DEF LaneInv

\* Steps that store, buffer and deliver nothing.
LEMMA StillLane ==
  ASSUME LaneInv, UNCHANGED <<stored, queue>>, InFlight' \subseteq InFlight PROVE LaneInv'
<1>1. \A x \in InFlight' : x \in InFlight /\ (Persistent(x) => NobodyHas(x)')
  BY DEF LaneInv, DeliverIsLast, NobodyHas
<1> QED BY <1>1, BufferLane DEF LaneInv

\* Steps that post, store, buffer and deliver nothing.
LEMMA StillOrder ==
  ASSUME Control, Data, OrderInv, UNCHANGED <<stored, queue, typed, reader, heard>>,
         hub' = hub \/ hub'.at \notin {"save", "deliver"},
         \A m \in announce' : m \in announce \/ (m.conn \in Conns /\ ~Persistent(m)),
         \A c \in Conns : pc'[c] \in Busy => pc[c] \in Busy
  PROVE  OrderInv'
<1>1. InFlight' \subseteq InFlight BY DEF InFlight
<1>2. LaneInv' BY <1>1, StillLane DEF OrderInv
<1>3. NumberInv' BY StillNumber DEF OrderInv
<1> QED BY <1>2, <1>3 DEF OrderInv

\* Saving something new makes it the last of its goroutine.
LEMMA SaveLane ==
  ASSUME Data, LaneInv, NEW m \in Message, \A i \in 1..Len(stored) : stored[i] # m,
         Persistent(m), stored' = Append(stored, m), UNCHANGED queue,
         \A x \in InFlight' : x = m \/ (x \in InFlight /\ ~SameLane(m, x))
  PROVE  LaneInv'
<1>1. /\ Len(stored) \in Nat /\ Len(stored') = Len(stored) + 1
      /\ \A i \in 1..Len(stored) : stored'[i] = stored[i]
      /\ stored'[Len(stored) + 1] = m
      /\ \A i \in 1..Len(stored') : i \in 1..Len(stored) \/ i = Len(stored) + 1
  BY AppendParts DEF Data
<1>2. Unrepeated' BY <1>1 DEF LaneInv, Unrepeated
<1>3. ASSUME NEW c \in Conns, NEW i \in 1..Len(queue[c]), Persistent(queue[c][i])
      PROVE  queue[c][i] # m /\ \E p \in 1..Len(stored) : stored[p] = queue[c][i]
  BY <1>3 DEF LaneInv, InOrder
<1>4. DeliverIsLast'
  <2>1. LastOfLane(m)'
    <3>1. Len(stored') \in 1..Len(stored') /\ stored'[Len(stored')] = m
          /\ \A i \in 1..Len(stored') : ~(i > Len(stored'))
      BY <1>1
    <3> QED BY <3>1 DEF LastOfLane
  <2>2. NobodyHas(m)'
    <3>1. \A c \in Conns : \A i \in 1..Len(queue[c]) : queue[c][i] # m BY <1>3
    <3> QED BY <3>1 DEF NobodyHas
  <2>3. ASSUME NEW x \in InFlight, ~SameLane(m, x), LastOfLane(x) PROVE LastOfLane(x)'
    <3>1. PICK k \in 1..Len(stored) :
            stored[k] = x /\ \A i \in 1..Len(stored) : i > k => ~SameLane(stored[i], x)
      BY <2>3 DEF LastOfLane
    <3>2. k \in 1..Len(stored') /\ stored'[k] = x BY <1>1, <3>1
    <3>3. \A i \in 1..Len(stored') : i > k => ~SameLane(stored'[i], x) BY <1>1, <2>3, <3>1
    <3> QED BY <3>2, <3>3 DEF LastOfLane, SameLane
  <2>4. \A x : NobodyHas(x)' <=> NobodyHas(x) BY DEF NobodyHas
  <2> QED BY <2>1, <2>2, <2>3, <2>4 DEF LaneInv, DeliverIsLast
<1>5. ASSUME NEW c \in Conns PROVE InOrder(queue[c])'
  <2>1. ASSUME NEW i \in 1..Len(queue'[c]), Persistent(queue'[c][i])
        PROVE  \E p \in 1..Len(stored') : stored'[p] = queue'[c][i]
    <3>1. PICK p \in 1..Len(stored) : stored[p] = queue[c][i] BY <1>3, <2>1
    <3>2. p \in 1..Len(stored') /\ stored'[p] = queue'[c][i] BY <1>1, <3>1
    <3> QED BY <3>2
  <2>2. ASSUME NEW i \in 1..Len(queue'[c]), NEW j \in 1..Len(queue'[c]), i < j,
               Persistent(queue'[c][i]), Persistent(queue'[c][j]),
               SameLane(queue'[c][i], queue'[c][j]),
               NEW p \in 1..Len(stored'), NEW q \in 1..Len(stored'),
               stored'[p] = queue'[c][i], stored'[q] = queue'[c][j]
        PROVE  p < q
    <3>1. queue[c][i] # m /\ queue[c][j] # m BY <1>3, <2>2
    <3>2. p \in 1..Len(stored) /\ q \in 1..Len(stored) BY <1>1, <2>2, <3>1
    <3>3. stored[p] = queue[c][i] /\ stored[q] = queue[c][j] BY <1>1, <2>2, <3>2
    <3> QED BY <2>2, <3>2, <3>3 DEF LaneInv, InOrder
  <2> QED BY <2>1, <2>2, ThenInOrder
<1> QED BY <1>2, <1>4, <1>5 DEF LaneInv

\* Delivering it puts it behind what its goroutine delivered before.
LEMMA DeliverLane ==
  ASSUME Data, LaneInv, NEW m \in InFlight, FanOut(m), UNCHANGED stored,
         \A x \in InFlight' : x \in InFlight /\ x # m
  PROVE  LaneInv'
<1>1. m \in Message BY FlightTypes
<1>2. ASSUME NEW c \in Conns PROVE InOrder(queue'[c])
  <2>1. queue[c] \in Seq(Message) /\ InOrder(queue[c]) /\ Unrepeated BY DEF Data, LaneInv
  <2>2. CASE queue'[c] = queue[c] BY <2>1, <2>2
  <2>3. CASE queue'[c] = Append(queue[c], m) /\ Persistent(m)
    <3>1. LastOfLane(m) /\ \A i \in 1..Len(queue[c]) : queue[c][i] # m
      BY <2>3 DEF LaneInv, DeliverIsLast, NobodyHas
    <3> QED BY <1>1, <2>1, <2>3, <3>1, OrderWithLast
  <2>4. CASE queue'[c] = Append(queue[c], m) /\ ~Persistent(m)
    BY <1>1, <2>1, <2>4, OrderWithout
  <2> QED BY <2>2, <2>3, <2>4 DEF FanOut, Enqueue
<1>3. ASSUME NEW x \in InFlight', Persistent(x) PROVE NobodyHas(x)'
  <2> SUFFICES ASSUME NEW c \in Conns, NEW i \in 1..Len(queue'[c]) PROVE queue'[c][i] # x
    BY DEF NobodyHas
  <2>1. \A k \in 1..Len(queue[c]) : queue[c][k] # x
    BY <1>3 DEF LaneInv, DeliverIsLast, NobodyHas
  <2>2. queue[c] \in Seq(Message) BY DEF Data
  <2>3. queue'[c] = queue[c] \/ queue'[c] = Append(queue[c], m) BY DEF FanOut, Enqueue
  <2> QED BY <1>1, <2>1, <2>2, <2>3, AppendParts
<1> QED BY <1>2, <1>3, BufferLane

\* Messages of the hub and of a reader, or of two readers, are of two goroutines.
LEMMA OtherLane ==
  ASSUME NEW m, NEW x, m.conn # x.conn, ~(m.conn \in Conns /\ x.conn \in Conns)
  PROVE  ~SameLane(m, x) /\ m # x
BY DEF SameLane

\* The hub saves, then delivers.
LEMMA HubOrder ==
  ASSUME Control, Data, OrderInv, HubStep
  PROVE  OrderInv'
<1> USE DEF conVars, chanVars, dataVars, ioVars, hubVars, peerVars
<1>1. ASSUME NEW c \in Conns, NEW kind \in {"join", "leave"}
      PROVE  Notice(kind, c).conn \in Conns /\ ~Persistent(Notice(kind, c))
  BY HubAssumption DEF Persistent, Notice
<1>2. CASE HubInsert
  <2>1. hub.conn \in Conns BY <1>2, HubTypes DEF HubInsert
  <2> QED BY <1>1, <1>2, <2>1, StillOrder DEF HubInsert, Select
<1>3. CASE HubRemove
  <2>1. hub.conn \in Conns BY <1>3, HubTypes DEF HubRemove
  <2> QED BY <1>1, <1>3, <2>1, StillOrder DEF HubRemove, Select
<1>4. CASE HubRemoveAgain
  BY <1>4, StillOrder DEF HubRemoveAgain, Select
<1>5. ASSUME NEW m \in announce, HubAnnounce(m) PROVE OrderInv'
  <2>1. ~Persistent(m) /\ m.conn \in Conns BY DEF OrderInv, NumberInv, Origins
  <2>2. hub' = [at |-> "save", msg |-> m] /\ announce' \subseteq announce
        /\ UNCHANGED <<stored, queue, typed, pc, reader, heard>>
    BY <1>5 DEF HubAnnounce
  <2>3. LaneInv'
    <3>1. InFlight' \subseteq InFlight BY <2>2 DEF InFlight
    <3> QED BY <2>2, <3>1, StillLane DEF OrderInv
  <2>4. NumberInv'
    BY <2>1, <2>2 DEF OrderInv, NumberInv, AllCounted, Counted, SaveIsNew, Origins
  <2> QED BY <2>3, <2>4 DEF OrderInv
<1>6. CASE HubSave
  <2> DEFINE m == hub.msg
  <2>1. /\ m \in Message /\ hub.at = "save" /\ hub' = [at |-> "deliver", msg |-> m]
        /\ UNCHANGED <<pc, typed, queue, announce, reader, heard>>
        /\ stored' = IF Persistent(m) THEN Append(stored, m) ELSE stored
    BY <1>6, HubTypes DEF HubSave
  <2>2. m.conn \in Conns BY <2>1 DEF OrderInv, NumberInv, Origins
  <2> HIDE DEF m
  <2>3. \A x : Counted(x)' <=> Counted(x) BY <2>1 DEF Counted
  <2>4. Origins' /\ SaveIsNew' BY <2>1, <2>2 DEF OrderInv, NumberInv, Origins, SaveIsNew
  <2>5. CASE ~Persistent(m)
    <3>1. stored' = stored BY <2>1, <2>5
    <3>2. AllCounted' BY <2>1, <2>3, <3>1 DEF OrderInv, NumberInv, AllCounted
    <3>3. \A x \in InFlight' : x = m \/ x \in InFlight BY <2>1 DEF InFlight
    <3>4. LaneInv'
      <4>1. \A x : Persistent(x) => (NobodyHas(x)' <=> NobodyHas(x)) /\ (LastOfLane(x)' <=> LastOfLane(x))
        BY <2>1, <3>1 DEF NobodyHas, LastOfLane
      <4>2. DeliverIsLast' BY <2>5, <3>3, <4>1 DEF OrderInv, LaneInv, DeliverIsLast
      <4>3. \A c \in Conns : InOrder(queue'[c]) BY <2>1 DEF OrderInv, LaneInv
      <4>4. \A c \in Conns : InOrder(queue[c])' BY <3>1, <4>3, StillInOrder
      <4>5. Unrepeated' BY <3>1 DEF OrderInv, LaneInv, Unrepeated
      <4> QED BY <4>2, <4>4, <4>5 DEF LaneInv
    <3> QED BY <2>4, <3>2, <3>4 DEF OrderInv, NumberInv
  <2>6. CASE Persistent(m)
    <3>1. Counted(m) /\ \A i \in 1..Len(stored) : stored[i] # m
      BY <2>1, <2>6 DEF OrderInv, NumberInv, AllCounted, SaveIsNew, m
    <3>2. /\ Len(stored) \in Nat /\ stored' = Append(stored, m)
          /\ \A i \in 1..Len(stored) : stored'[i] = stored[i]
          /\ stored'[Len(stored) + 1] = m
          /\ \A i \in 1..Len(stored') : i \in 1..Len(stored) \/ i = Len(stored) + 1
      BY <2>1, <2>6, AppendParts DEF Data
    <3>3. AllCounted' BY <2>1, <2>3, <3>1, <3>2 DEF OrderInv, NumberInv, AllCounted
    <3>4. ASSUME NEW x \in InFlight', x # m PROVE x \in InFlight /\ ~SameLane(m, x)
      <4>1. PICK p \in Peers : reader[p].at = "deliver" /\ x = reader[p].msg
        BY <2>1, <3>4 DEF InFlight
      <4>2. x.conn = p BY <4>1 DEF OrderInv, NumberInv, Origins
      <4>3. p \notin Conns BY HubAssumption
      <4> QED BY <2>2, <4>1, <4>2, <4>3, OtherLane DEF InFlight
    <3>5. LaneInv' BY <2>1, <2>6, <3>1, <3>2, <3>4, SaveLane DEF OrderInv
    <3> QED BY <2>4, <3>3, <3>5 DEF OrderInv, NumberInv
  <2> QED BY <2>5, <2>6
<1>7. CASE HubDeliver
  <2> DEFINE m == hub.msg
  <2>1. /\ m \in InFlight /\ hub' = Select /\ FanOut(m) /\ m.conn \in Conns
        /\ UNCHANGED <<stored, typed, announce, pc, reader, heard>>
    BY <1>7 DEF HubDeliver, InFlight, OrderInv, NumberInv, Origins
  <2> HIDE DEF m
  <2>2. ASSUME NEW x \in InFlight' PROVE x \in InFlight /\ x # m
    <3>1. PICK p \in Peers : reader[p].at = "deliver" /\ x = reader[p].msg
      BY <2>1, <2>2 DEF InFlight, Select
    <3>2. x.conn = p BY <3>1 DEF OrderInv, NumberInv, Origins
    <3> QED BY <2>1, <3>1, <3>2, HubAssumption DEF InFlight
  <2>3. LaneInv' BY <2>1, <2>2, DeliverLane DEF OrderInv
  <2>4. NumberInv' BY <2>1, StillNumber DEF OrderInv, Select
  <2> QED BY <2>3, <2>4 DEF OrderInv
<1> QED BY <1>2, <1>3, <1>4, <1>5, <1>6, <1>7 DEF HubStep

\* So do the readers of the peers, each with messages of its own.
LEMMA PeerOrder ==
  ASSUME Control, Data, OrderInv, NEW p \in Peers, PeerStep(p)
  PROVE  OrderInv'
<1> USE DEF conVars, chanVars, dataVars, ioVars, hubVars
<1>1. \A i \in 1..Len(stored) : stored[i] \in Message /\ Counted(stored[i])
  <2>1. \A i \in 1..Len(stored) : stored[i] \in Message BY DEF Data
  <2>2. \A i \in 1..Len(stored) : Counted(stored[i]) BY DEF OrderInv, NumberInv, AllCounted
  <2> QED BY <2>1, <2>2
<1>2. p \notin Conns /\ heard[p] \in Nat BY HubAssumption DEF Data
<1>3. ASSUME NEW r \in Relays[p], PeerRead(p, r) PROVE OrderInv'
  <2> DEFINE m == [type |-> r.type, conn |-> p, n |-> heard[p] + 1, sender |-> None, to |-> r.to]
  <2>1. /\ reader' = [reader EXCEPT ![p] = [at |-> "save", msg |-> m]]
        /\ heard' = [heard EXCEPT ![p] = heard[p] + 1] /\ reader[p] = Reading
        /\ m.conn = p /\ m.n = heard[p] + 1
        /\ UNCHANGED <<stored, queue, typed, pc, hub, announce>>
    BY <1>3 DEF PeerRead
  <2> HIDE DEF m
  <2>2. \A x \in Message : Counted(x) => Counted(x)'
    <3> SUFFICES ASSUME NEW x \in Message, Counted(x) PROVE Counted(x)' OBVIOUS
    <3>1. x.n \in Nat BY DEF Message
    <3>2. CASE x.conn = p BY <1>2, <2>1, <3>1, <3>2 DEF Counted, Data
    <3>3. CASE x.conn # p BY <2>1, <3>3 DEF Counted, Data
    <3> QED BY <3>2, <3>3
  <2>3. AllCounted' BY <1>1, <2>1, <2>2, HubTypes DEF OrderInv, NumberInv, AllCounted
  <2>4. Origins' /\ SaveIsNew' BY <2>1 DEF OrderInv, NumberInv, Origins, SaveIsNew, Data
  <2>5. LaneInv'
    <3>1. \A q \in Peers : reader'[q].at = "deliver" => reader'[q] = reader[q] BY <2>1 DEF Data
    <3>2. InFlight' \subseteq InFlight BY <2>1, <3>1 DEF InFlight
    <3> QED BY <2>1, <3>2, StillLane DEF OrderInv
  <2> QED BY <2>3, <2>4, <2>5 DEF OrderInv, NumberInv
<1>4. CASE PeerSave(p)
  <2>0. PICK m : m = reader[p].msg OBVIOUS
  <2>1. /\ m \in Message /\ reader[p].at = "save" /\ reader[p] = [at |-> "save", msg |-> m]
        /\ UNCHANGED <<pc, typed, queue, announce, hub, heard>>
        /\ stored' = IF Persistent(m) THEN Append(stored, m) ELSE stored
    BY <2>0, <1>4, ReaderTypes DEF PeerSave
  <2>2. m.conn = p /\ m.n = heard[p] BY <2>0, <2>1 DEF OrderInv, NumberInv, Origins
  <2>3. reader' = [reader EXCEPT ![p] = [at |-> "deliver", msg |-> m]]
    <3>1. [reader[p] EXCEPT !.at = "deliver"] = [at |-> "deliver", msg |-> m] BY <2>1
    <3> QED BY <1>4, <3>1 DEF PeerSave
  <2>4. \A x : Counted(x) => Counted(x)' BY <2>1, <2>3 DEF Counted, Data
  <2>5. Origins' BY <2>1, <2>2, <2>3 DEF OrderInv, NumberInv, Origins, Data
  <2>6. ASSUME NEW x \in InFlight', x # m PROVE x \in InFlight /\ ~SameLane(m, x)
    <3>1. CASE hub.at = "deliver" /\ x = hub.msg
      <4>1. x.conn \in Conns BY <3>1 DEF OrderInv, NumberInv, Origins
      <4> QED BY <1>2, <2>2, <3>1, <4>1, OtherLane DEF InFlight
    <3>2. ASSUME NEW q \in Peers, reader'[q].at = "deliver", x = reader'[q].msg
          PROVE  x \in InFlight /\ ~SameLane(m, x)
      <4>1. q # p BY <2>3, <2>6, <3>2 DEF Data
      <4>2. reader[q].at = "deliver" /\ x = reader[q].msg BY <2>3, <3>2, <4>1 DEF Data
      <4>3. x.conn = q BY <4>2 DEF OrderInv, NumberInv, Origins
      <4> QED BY <1>2, <2>2, <4>1, <4>2, <4>3, OtherLane DEF InFlight
    <3> QED BY <2>1, <2>6, <3>1, <3>2 DEF InFlight
  <2>7. CASE ~Persistent(m)
    <3>1. stored' = stored BY <2>1, <2>7
    <3>2. AllCounted' /\ SaveIsNew'
      BY <2>1, <2>4, <3>1 DEF OrderInv, NumberInv, AllCounted, SaveIsNew
    <3>3. LaneInv'
      <4>1. \A x : (NobodyHas(x)' <=> NobodyHas(x)) /\ (LastOfLane(x)' <=> LastOfLane(x))
        BY <2>1, <3>1 DEF NobodyHas, LastOfLane
      <4>2. DeliverIsLast' BY <2>6, <2>7, <4>1 DEF OrderInv, LaneInv, DeliverIsLast
      <4>3. \A c \in Conns : InOrder(queue'[c]) BY <2>1 DEF OrderInv, LaneInv
      <4>4. \A c \in Conns : InOrder(queue[c])' BY <3>1, <4>3, StillInOrder
      <4>5. Unrepeated' BY <3>1 DEF OrderInv, LaneInv, Unrepeated
      <4> QED BY <4>2, <4>4, <4>5 DEF LaneInv
    <3> QED BY <2>5, <3>2, <3>3 DEF OrderInv, NumberInv
  <2>8. CASE Persistent(m)
    <3>1. \A i \in 1..Len(stored) : stored[i] # m BY <1>1, <1>2, <2>1, <2>2 DEF Counted
    <3>2. /\ Len(stored) \in Nat /\ stored' = Append(stored, m)
          /\ \A i \in 1..Len(stored) : stored'[i] = stored[i]
          /\ stored'[Len(stored) + 1] = m
          /\ \A i \in 1..Len(stored') : i \in 1..Len(stored) \/ i = Len(stored) + 1
      BY <2>1, <2>8, AppendParts DEF Data
    <3>3. Counted(m)' BY <1>2, <2>1, <2>2, <2>3 DEF Counted, Data
    <3>4. AllCounted' BY <1>1, <2>1, <2>4, <3>2, <3>3 DEF OrderInv, NumberInv, AllCounted
    <3>5. SaveIsNew'
      <4>1. hub.at = "save" => hub.msg # m
        BY <1>2, <2>2 DEF OrderInv, NumberInv, Origins
      <4> QED BY <2>1, <3>2, <4>1 DEF OrderInv, NumberInv, SaveIsNew
    <3>6. LaneInv' BY <2>1, <2>6, <2>8, <3>1, <3>2, SaveLane DEF OrderInv
    <3> QED BY <2>5, <3>4, <3>5, <3>6 DEF OrderInv, NumberInv
  <2> QED BY <2>7, <2>8
<1>5. CASE PeerDeliver(p)
  <2> DEFINE m == reader[p].msg
  <2>1. /\ m \in InFlight /\ reader[p].at = "deliver" /\ FanOut(m) /\ m.conn = p
        /\ reader' = [reader EXCEPT ![p] = Reading]
        /\ UNCHANGED <<stored, typed, announce, pc, hub, heard>>
    BY <1>5 DEF PeerDeliver, InFlight, OrderInv, NumberInv, Origins
  <2> HIDE DEF m
  <2>2. ASSUME NEW x \in InFlight' PROVE x \in InFlight /\ x # m
    <3>1. CASE hub.at = "deliver" /\ x = hub.msg
      <4>1. x.conn \in Conns BY <3>1 DEF OrderInv, NumberInv, Origins
      <4> QED BY <1>2, <2>1, <3>1, <4>1 DEF InFlight
    <3>2. ASSUME NEW q \in Peers, reader'[q].at = "deliver", x = reader'[q].msg
          PROVE  x \in InFlight /\ x # m
      <4>1. q # p BY <2>1, <3>2 DEF Data, Reading
      <4>2. reader[q].at = "deliver" /\ x = reader[q].msg BY <2>1, <3>2, <4>1 DEF Data
      <4>3. x.conn = q BY <4>2 DEF OrderInv, NumberInv, Origins
      <4> QED BY <2>1, <4>1, <4>2, <4>3 DEF InFlight
    <3> QED BY <2>1, <2>2, <3>1, <3>2 DEF InFlight
  <2>3. LaneInv' BY <2>1, <2>2, DeliverLane DEF OrderInv
  <2>4. NumberInv'
    <3>1. \A x : Counted(x) => Counted(x)' BY <2>1 DEF Counted, Data, Reading
    <3>2. AllCounted' /\ SaveIsNew'
      BY <2>1, <3>1 DEF OrderInv, NumberInv, AllCounted, SaveIsNew
    <3>3. Origins' BY <2>1 DEF OrderInv, NumberInv, Origins, Data, Reading
    <3> QED BY <3>2, <3>3 DEF NumberInv
  <2> QED BY <2>3, <2>4 DEF OrderInv
<1> QED BY <1>3, <1>4, <1>5 DEF PeerStep, Reader

\* What a handler posts is new.
LEMMA PublishOrder ==
  ASSUME Control, Data, OrderInv, NEW c \in Conns, Publish(c)
  PROVE  OrderInv'
<1>0. PICK m : m = Posted(c) OBVIOUS
<1>1. /\ hub' = [at |-> "save", msg |-> m] /\ pc[c] = "publish"
      /\ pc' = [pc EXCEPT ![c] = "loop"] /\ UNCHANGED <<stored, queue, typed, announce>>
  BY <1>0 DEF Publish, Goto, chanVars, dataVars
<1>2. m \in Message /\ m.conn = c /\ m.n = typed[c] BY <1>0, PostedTypes DEF Posted
<1>3. typed[c] \in Nat BY HubAssumption DEF Data
<1>4. UNCHANGED <<reader, heard>> BY DEF Publish, peerVars
<1>5. \A x : Counted(x) => Counted(x)' BY <1>1, <1>4 DEF Counted, Control, Busy
<1>6. \A i \in 1..Len(stored) : stored[i] \in Message /\ Counted(stored[i])
  <2>1. \A i \in 1..Len(stored) : stored[i] \in Message BY DEF Data
  <2>2. \A i \in 1..Len(stored) : Counted(stored[i]) BY DEF OrderInv, NumberInv, AllCounted
  <2> QED BY <2>1, <2>2
<1>7. Counted(m)' BY <1>1, <1>2, <1>3, HubAssumption DEF Counted, Control, Busy
<1>8. AllCounted' BY <1>1, <1>5, <1>6, <1>7 DEF AllCounted
<1>9. \A i \in 1..Len(stored) : stored[i] # m
  BY <1>1, <1>2, <1>3, <1>6, HubAssumption DEF Counted, Busy
<1>10. SaveIsNew' BY <1>1, <1>9 DEF SaveIsNew
<1>11. Origins' BY <1>1, <1>2, <1>4 DEF OrderInv, NumberInv, Origins
<1>12. LaneInv'
  <2>1. InFlight' \subseteq InFlight BY <1>1, <1>4 DEF InFlight
  <2> QED BY <1>1, <2>1, StillLane DEF OrderInv
<1> QED BY <1>8, <1>10, <1>11, <1>12 DEF OrderInv, NumberInv

\* A handler that reads takes a number that no message has.
LEMMA ReadOrder ==
  ASSUME Control, Data, OrderInv, NEW c \in Conns, NEW i \in Inputs[c], ReadInput(c, i)
  PROVE  OrderInv'
<1>1. /\ typed' = [typed EXCEPT ![c] = @ + 1] /\ pc' = [pc EXCEPT ![c] = "dispatch"]
      /\ UNCHANGED <<stored, queue, hub, announce, reader, heard>>
  BY DEF ReadInput, Goto, chanVars, dataVars, hubVars, peerVars
<1>2. \A x \in Message : Counted(x) => Counted(x)'
  <2> SUFFICES ASSUME NEW x \in Message, Counted(x) PROVE Counted(x)' OBVIOUS
  <2>1. x.n \in Nat /\ (x.conn \in Conns => typed[x.conn] \in Nat)
    BY HubAssumption DEF Message, Data
  <2>2. CASE x.conn = c BY <1>1, <2>1, <2>2 DEF Counted, Data
  <2>3. CASE x.conn # c BY <1>1, <2>1, <2>3 DEF Counted, Data, Control
  <2> QED BY <2>2, <2>3
<1>3. \A k \in 1..Len(stored) : stored[k] \in Message BY DEF Data
<1>4. AllCounted' BY <1>1, <1>2, <1>3, HubTypes DEF OrderInv, NumberInv, AllCounted
<1>5. Origins' /\ SaveIsNew' BY <1>1 DEF OrderInv, NumberInv, Origins, SaveIsNew
<1>6. LaneInv'
  <2>1. InFlight' \subseteq InFlight BY <1>1 DEF InFlight
  <2> QED BY <1>1, <2>1, StillLane DEF OrderInv
<1> QED BY <1>4, <1>5, <1>6 DEF OrderInv, NumberInv

\* The other steps of a handler that ends a command.
LEMMA FinishOrder ==
  ASSUME Control, Data, OrderInv, NEW c \in Conns, Finish(c)
  PROVE  OrderInv'
<1> USE DEF conVars, chanVars, dataVars, ioVars, hubVars, peerVars
<1>1. ASSUME NEW m \in Message, ~Persistent(m),
             UNCHANGED <<stored, typed, announce, hub, reader, heard>>,
             \A x \in Conns : pc'[x] \in Busy => pc[x] \in Busy,
             \A x \in Conns : queue'[x] \in {queue[x], Append(queue[x], m)}
      PROVE  OrderInv'
  <2>1. ASSUME NEW x \in Conns PROVE InOrder(queue'[x])
    <3>1. queue[x] \in Seq(Message) /\ InOrder(queue[x]) BY DEF Data, OrderInv, LaneInv
    <3> QED BY <1>1, <3>1, OrderWithout
  <2>2. ASSUME NEW y \in InFlight, Persistent(y) PROVE NobodyHas(y)'
    <3> SUFFICES ASSUME NEW x \in Conns, NEW i \in 1..Len(queue'[x]) PROVE queue'[x][i] # y
      BY DEF NobodyHas
    <3>1. \A k \in 1..Len(queue[x]) : queue[x][k] # y
      BY <2>2 DEF OrderInv, LaneInv, DeliverIsLast, NobodyHas
    <3>2. CASE queue'[x] = queue[x] BY <3>1, <3>2
    <3>3. CASE queue'[x] = Append(queue[x], m)
      <4>1. queue[x] \in Seq(Message) BY DEF Data
      <4>2. queue'[x][i] = m \/ \E k \in 1..Len(queue[x]) : queue'[x][i] = queue[x][k]
        BY <1>1, <3>3, <4>1, AppendParts
      <4> QED BY <1>1, <2>2, <3>1, <4>2
    <3> QED BY <1>1, <3>2, <3>3
  <2>3. InFlight' = InFlight BY <1>1 DEF InFlight
  <2>4. LaneInv' BY <1>1, <2>1, <2>2, <2>3, BufferLane DEF OrderInv
  <2>5. NumberInv' BY <1>1, StillNumber DEF OrderInv
  <2> QED BY <2>4, <2>5 DEF OrderInv
<1>2. CASE Push(c)
  <2>1. Answer(c) \in Message /\ ~Persistent(Answer(c)) BY MessageTypes DEF Persistent, Answer
  <2>2. job[c].then \in {"loop", "cast", "banlock"} BY DEF Control, Jobs
  <2>3. \A x \in Conns : pc'[x] \in Busy => pc[x] \in Busy
    BY <1>2, <2>2 DEF Push, Resume, Goto, Busy, Control
  <2>4. \A x \in Conns : queue'[x] \in {queue[x], Append(queue[x], Answer(c))}
    BY <1>2 DEF Push, Enqueue, Data
  <2>5. UNCHANGED <<stored, typed, announce, hub, reader, heard>> BY <1>2 DEF Push
  <2> QED BY <1>1, <2>1, <2>3, <2>4, <2>5
<1>3. CASE Cast(c)
  <2> DEFINE m == [type |-> Cmd(c), conn |-> c, n |-> 0, sender |-> job[c].user,
                   to |-> IF Cmd(c) = "typing" THEN job[c].room ELSE None]
  <2>1. Cmd(c) \in {"typing", "status"} BY <1>3 DEF Cast, Control, JobOK
  <2>2. m \in Message /\ ~Persistent(m)
    <3>1. job[c].user \in Users \cup {None} /\ job[c].room \in Rooms \cup {None}
      BY DEF Control, Jobs
    <3> QED BY <2>1, <3>1, HubAssumption DEF Message, Persistent
  <2>3. FanOut(m) /\ pc' = [pc EXCEPT ![c] = "loop"]
        /\ UNCHANGED <<stored, typed, announce, hub, reader, heard>>
    BY <1>3 DEF Cast, Goto
  <2> HIDE DEF m
  <2>4. \A x \in Conns : queue'[x] \in {queue[x], Append(queue[x], m)}
    BY <2>3 DEF FanOut, Enqueue
  <2>5. \A x \in Conns : pc'[x] \in Busy => pc[x] \in Busy BY <2>3 DEF Busy, Control
  <2> QED BY <1>1, <2>2, <2>3, <2>4, <2>5
<1>4. CASE ReplyLookup(c) \/ ReplyNowhere(c)
  <2>1. job[c].then \in {"loop", "cast", "banlock"} BY DEF Control, Jobs
  <2>2. \A x \in Conns : pc'[x] \in Busy => pc[x] \in Busy
    BY <1>4, <2>1 DEF ReplyLookup, ReplyNowhere, Resume, Goto, Busy, Control
  <2> QED BY <1>4, <2>2, StillOrder DEF ReplyLookup, ReplyNowhere
<1> QED BY <1>2, <1>3, <1>4, PublishOrder DEF Finish

\* Logins, the lookup and the commands post nothing themselves.
LEMMA HandlerOrder ==
  ASSUME Control, Data, OrderInv, NEW c \in Conns, Connect(c) \/ Dispatch(c) \/ Command(c)
  PROVE  OrderInv'
<1> USE DEF conVars, chanVars, dataVars, ioVars, hubVars, peerVars
<1>1. CASE Connect(c)
  <2>1. c \in SSHConns => pc[c] \notin {"login", "history"} BY DEF Control
  <2>2. \A x \in Conns : pc'[x] \in Busy => pc[x] \in Busy
    <3>1. \A w : pc' = [pc EXCEPT ![c] = w] /\ w \notin Busy =>
                   \A x \in Conns : pc'[x] \in Busy => pc[x] \in Busy
      BY DEF Control
    <3>2. pc[c] \in {"login", "register", "join", "history"} => After(c) \notin Busy
      BY <2>1, AfterTypes DEF Busy
    <3>3. \E w : pc' = [pc EXCEPT ![c] = w] /\ w \notin Busy
      BY <1>1, <3>2 DEF Connect, Accept, Reject, AcceptSSH, LoginOk, LoginFail, HubRegister,
                        JoinGeneral, History, Goto, NextStepSSH, Busy
    <3> QED BY <3>1, <3>3
  <2>3. UNCHANGED <<stored, queue, typed, announce, reader, heard>>
        /\ (hub' = hub \/ hub'.at = "insert")
    BY <1>1 DEF Connect, Accept, Reject, AcceptSSH, LoginOk, LoginFail, HubRegister, JoinGeneral,
                History
  <2> QED BY <2>2, <2>3, StillOrder
<1>2. CASE Dispatch(c)
  <2>1. \A x \in Conns : pc'[x] \in Busy => pc[x] \in Busy
    BY <1>2 DEF Dispatch, Goto, Busy, Control
  <2> QED BY <1>2, <2>1, StillOrder DEF Dispatch
<1>3. CASE Command(c)
  <2>1. \A x \in Conns : pc'[x] \in Busy => pc[x] \in Busy
    BY <1>3 DEF Command, Chat, RefuseChat, ReplyOrDM, Info, Typing, Status, JoinRoom, LeaveRoom,
                SwitchRoom, SetRoom, Moderate, RefuseModerate, BanOnline, BanOffline,
                Running, ReplyThen, Goto, Busy, Control
  <2>2. UNCHANGED <<stored, queue, typed, announce, hub, reader, heard>>
    BY <1>3 DEF Command, Chat, RefuseChat, ReplyOrDM, Info, Typing, Status, JoinRoom, LeaveRoom,
                SwitchRoom, SetRoom, Moderate, RefuseModerate, BanOnline, BanOffline
  <2> QED BY <2>1, <2>2, StillOrder
<1> QED BY <1>1, <1>2, <1>3

\* The pump takes the first.
LEMMA DepartOrder ==
  ASSUME Control, Data, OrderInv, NEW c \in Conns, Depart(c) \/ Pump(c) \/ Environment(c)
  PROVE  OrderInv'
<1> USE DEF conVars, chanVars, dataVars, ioVars, hubVars, peerVars
<1>1. CASE PumpWrite(c)
  <2>1. /\ queue[c] \in Seq(Message) /\ queue[c] # <<>> /\ InOrder(queue[c])
        /\ UNCHANGED <<stored, typed, announce, pc, hub, reader, heard>>
    BY <1>1 DEF PumpWrite, Data, OrderInv, LaneInv
  <2>2. \A x \in Conns : queue'[x] = IF x = c THEN Tail(queue[c]) ELSE queue[x]
    BY <1>1 DEF PumpWrite, Data
  <2>3. \A x \in Conns : InOrder(queue'[x])
    BY <2>1, <2>2, OrderOfTail DEF OrderInv, LaneInv
  <2>4. ASSUME NEW m \in InFlight, Persistent(m) PROVE NobodyHas(m)'
    <3> SUFFICES ASSUME NEW x \in Conns PROVE \A i \in 1..Len(queue'[x]) : queue'[x][i] # m
      BY DEF NobodyHas
    <3>1. \A y \in Conns : \A i \in 1..Len(queue[y]) : queue[y][i] # m
      BY <2>4 DEF OrderInv, LaneInv, DeliverIsLast, NobodyHas
    <3>2. \A i \in 1..Len(Tail(queue[c])) : Tail(queue[c])[i] # m
      BY <2>1, <3>1, OrderOfTail
    <3>3. CASE x = c BY <2>2, <3>2, <3>3
    <3>4. CASE x # c BY <2>2, <3>1, <3>4
    <3> QED BY <3>3, <3>4
  <2>5. InFlight' = InFlight BY <2>1 DEF InFlight
  <2>6. LaneInv' BY <2>1, <2>3, <2>4, <2>5, BufferLane DEF OrderInv
  <2>7. NumberInv' BY <2>1, StillNumber DEF OrderInv
  <2> QED BY <2>6, <2>7 DEF OrderInv
<1>2. CASE ReadFail(c) \/ HubUnregister(c) \/ ScanUnregister(c) \/ PumpEnd(c) \/ Hangup(c) \/ ScanEnd(c)
  <2>1. \A x \in Conns : pc'[x] \in Busy => pc[x] \in Busy
    BY <1>2 DEF ReadFail, HubUnregister, ScanUnregister, PumpEnd, Hangup, ScanEnd, AfterLoop, Goto,
                Busy, Control
  <2>2. UNCHANGED <<stored, queue, typed, announce, reader, heard>>
        /\ (hub' = hub \/ hub'.at = "remove")
    BY <1>2 DEF ReadFail, HubUnregister, ScanUnregister, PumpEnd, Hangup, ScanEnd
  <2> QED BY <2>1, <2>2, StillOrder
<1> QED BY <1>1, <1>2, ReadOrder DEF Depart, Pump, Environment

\* Every step keeps it.
LEMMA NextOrder == ASSUME Typed, OrderInv, [Next]_vars PROVE OrderInv'
<1>1. Control /\ Data BY TypedParts
<1>2. ASSUME NEW c \in Conns, Handler(c) \/ Environment(c) PROVE OrderInv'
  BY <1>1, <1>2, HandlerOrder, FinishOrder, DepartOrder DEF Handler
<1>3. CASE UNCHANGED vars
  BY <1>1, <1>3, StillOrder DEF vars, conVars, chanVars, dataVars, ioVars, hubVars, peerVars
<1> QED BY <1>1, <1>2, <1>3, HubOrder, PeerOrder DEF Next

\* Every client receives what the hub saves and fans out in the order of the history, and
\* what the reader of a peer saves and fans out too: each does one message after the
\* other, whatever the others do between its two calls, and no message is posted twice
\* (node.go:269-277, peer.go:231-247).
THEOREM OrderIsTheHistorys == Spec => []DeliveredInOrder
<1>1. Init => OrderInv
  <2> SUFFICES ASSUME Init PROVE OrderInv OBVIOUS
  <2>1. hub.at = "select" /\ stored = <<>> /\ announce = {} /\ \A c \in Conns : queue[c] = <<>>
    BY DEF Init, Select
  <2>2. \A p \in Peers : reader[p] = Reading BY Zenon DEF Init
  <2>3. NumberInv BY <2>1, <2>2 DEF NumberInv, AllCounted, Origins, SaveIsNew, Reading
  <2>4. Unrepeated /\ DeliverIsLast BY <2>1, <2>2 DEF Unrepeated, DeliverIsLast, InFlight, Reading
  <2>5. \A c \in Conns : InOrder(queue[c]) BY <2>1 DEF InOrder
  <2> QED BY <2>3, <2>4, <2>5 DEF OrderInv, LaneInv
<1>2. Typed /\ OrderInv /\ [Next]_vars => (Typed /\ OrderInv)' BY NextTypes, NextOrder
<1>3. OrderInv => DeliveredInOrder
  <2> SUFFICES ASSUME OrderInv, NEW c \in Conns,
                      NEW i \in 1..Len(queue[c]), NEW j \in 1..Len(queue[c]), i < j,
                      Persistent(queue[c][i]), Persistent(queue[c][j]),
                      SameLane(queue[c][i], queue[c][j])
               PROVE  Position(queue[c][i]) < Position(queue[c][j])
    BY DEF DeliveredInOrder
  <2>1. ASSUME NEW k \in 1..Len(queue[c]), Persistent(queue[c][k])
        PROVE  /\ Position(queue[c][k]) \in 1..Len(stored)
               /\ stored[Position(queue[c][k])] = queue[c][k]
    <3>1. \E p \in 1..Len(stored) : stored[p] = queue[c][k]
      BY <2>1 DEF OrderInv, LaneInv, InOrder
    <3> QED BY <3>1 DEF Position
  <2>2. InOrder(queue[c]) BY DEF OrderInv, LaneInv
  <2>3. \A p, q \in 1..Len(stored) : stored[p] = queue[c][i] /\ stored[q] = queue[c][j] => p < q
    BY <2>2 DEF InOrder
  <2> QED BY <2>1, <2>3
<1> QED BY <1>1, <1>2, <1>3, InitTypes, PTL DEF Spec

-----------------------------------------------------------------------------
(* A node that serves TLS clients only never panics, whatever they type    *)
(* and whenever they leave.  Types alone do not show it: that no handler   *)
(* sends on a closed channel needs where each handler is when the hub      *)
(* closes it, which is what Lifecycle adds.  With SSH connections the      *)
(* claim is false (run HubSSHPanic).                                       *)

\* Variables Lifecycle speaks of, besides pc.
lifeVars == <<clients, chan, scan, hub, panic>>

\* What the hub holds after a rendezvous is a registration to insert or to remove.
LEMMA HubExpected ==
  ASSUME Typed
  PROVE  /\ hub.at \in {"insert", "remove"} => hub.conn \in Conns
         /\ hub.at \in {"insert", "remove"} => hub = [at |-> hub.at, conn |-> hub.conn]
         /\ hub.at \in {"select", "insert", "remove", "save", "deliver"}
         /\ pc \in [Conns -> Where] /\ clients \in [Conns -> Registration]
         /\ chan \in [Conns -> {"unmade", "open", "closed"}]
BY DEF Typed, TypeOK, Select, Where

\* A handler that stays inside its session disturbs nothing.
LEMMA InsideMove ==
  ASSUME Typed, LifecycleInv, NEW c \in Conns, NEW w \in Inside,
         pc[c] \in Inside, pc' = [pc EXCEPT ![c] = w], UNCHANGED lifeVars
  PROVE  LifecycleInv'
<1> USE DEF lifeVars, Inside
<1>1. pc \in [Conns -> Where] /\ (hub.at \in {"insert", "remove"} => hub.conn \in Conns)
  BY HubExpected
<1>2. HubExpects' BY <1>1 DEF LifecycleInv, HubExpects
<1>3. ASSUME NEW x \in Conns PROVE Lifecycle(x)'
  BY <1>1 DEF LifecycleInv, Lifecycle
<1> QED BY <1>2, <1>3 DEF LifecycleInv

\* Steps of pumps, peers and clients that only touch queues and wires.
LEMMA StillLife ==
  ASSUME LifecycleInv, UNCHANGED <<pc, lifeVars>> PROVE LifecycleInv'
BY DEF LifecycleInv, Lifecycle, HubExpects, lifeVars

\* The invariant says that no panic has happened.
LEMMA Unpanicked == ASSUME Typed, LifecycleInv PROVE panic = FALSE
BY DEF Typed, TypeOK, LifecycleInv

\* Fan-out meets open channels only.
LEMMA FanOutIsSafe ==
  ASSUME Typed, LifecycleInv, NEW m, FanOut(m) PROVE panic' = FALSE
BY DEF FanOut, LifecycleInv, Lifecycle, Recipients, Present

\* The hub inserts and removes live registrations only.
LEMMA HubStepLife == ASSUME Typed, LifecycleInv, HubStep PROVE LifecycleInv'
<1> USE HubExpected DEF conVars, chanVars, dataVars, ioVars, hubVars, peerVars
<1>1. CASE HubInsert
  <2> DEFINE c == hub.conn
  <2>1. c \in Conns /\ pc[c] \in Inside /\ chan[c] = "open"
    BY <1>1 DEF HubInsert, LifecycleInv, HubExpects, Lifecycle
  <2>2. clients' = [clients EXCEPT ![c] = [user |-> UserOf[c], room |-> General, send |-> "chan"]]
        /\ hub' = Select /\ UNCHANGED <<pc, chan, scan, panic>>
    BY <1>1 DEF HubInsert
  <2>3. ASSUME NEW x \in Conns PROVE Lifecycle(x)'
    <3>1. CASE x = c BY <2>1, <2>2, <3>1 DEF LifecycleInv, Lifecycle, Inside, Absent
    <3>2. CASE x # c
      BY <1>1, <2>1, <2>2, <3>2 DEF LifecycleInv, Lifecycle, HubInsert
    <3> QED BY <3>1, <3>2
  <2> QED BY <2>2, <2>3 DEF LifecycleInv, HubExpects, Select
<1>2. CASE HubRemove
  <2> DEFINE c == hub.conn
  <2>1. c \in Conns /\ pc[c] = "done" /\ clients[c] # Absent
    BY <1>2 DEF HubRemove, LifecycleInv, HubExpects, IsRegistered, Present
  <2>2. clients[c].send = "chan" /\ chan[c] = "open" BY <2>1 DEF LifecycleInv, Lifecycle
  <2>3. clients' = [clients EXCEPT ![c] = Absent] /\ hub' = Select /\ panic' = FALSE
        /\ chan' = [chan EXCEPT ![c] = "closed"] /\ UNCHANGED <<pc, scan>>
    BY <1>2, <2>2 DEF HubRemove, Deregistered
  <2>4. ASSUME NEW x \in Conns PROVE Lifecycle(x)'
    <3>1. CASE x = c BY <2>1, <2>3, <3>1 DEF LifecycleInv, Lifecycle, Inside, Absent
    <3>2. CASE x # c BY <1>2, <2>1, <2>3, <3>2 DEF LifecycleInv, Lifecycle, HubRemove
    <3> QED BY <3>1, <3>2
  <2> QED BY <2>3, <2>4 DEF LifecycleInv, HubExpects, Select
<1>3. CASE HubRemoveAgain
  <2>1. \A x \in Conns : hub = [at |-> "remove", conn |-> x] => clients[x] = Absent
    BY <1>3 DEF HubRemoveAgain, IsRegistered, Present
  <2>2. hub.at = "remove" /\ hub' = Select /\ UNCHANGED <<pc, clients, chan, scan, panic>>
    BY <1>3 DEF HubRemoveAgain
  <2> QED BY <2>1, <2>2 DEF LifecycleInv, Lifecycle, HubExpects, Select
<1>4. ASSUME hub.at \in {"select", "save", "deliver"}, hub'.at \in {"select", "save", "deliver"},
             UNCHANGED <<pc, clients, chan, scan, panic>>
      PROVE  LifecycleInv'
  BY <1>4 DEF LifecycleInv, Lifecycle, HubExpects
<1>5. CASE HubSave BY <1>4, <1>5 DEF HubSave
<1>6. CASE HubDeliver
  <2>1. panic' = panic BY <1>6, FanOutIsSafe, Unpanicked DEF HubDeliver
  <2> QED BY <1>4, <1>6, <2>1 DEF HubDeliver, Select
<1>7. ASSUME NEW m \in announce, HubAnnounce(m) PROVE LifecycleInv'
  BY <1>4, <1>7 DEF HubAnnounce
<1> QED BY <1>1, <1>2, <1>3, <1>5, <1>6, <1>7 DEF HubStep

\* Connecting keeps the lifecycle of a connection.
LEMMA ConnectLife ==
  ASSUME SSHConns = {}, Typed, LifecycleInv, NEW c \in Conns, Connect(c) PROVE LifecycleInv'
<1> USE HubExpected DEF conVars, chanVars, dataVars, ioVars, hubVars, peerVars, Goto
<1>1. ASSUME pc[c] \in {"idle", "login"}, NEW w \in {"login", "register", "done"},
             pc' = [pc EXCEPT ![c] = w], UNCHANGED <<clients, scan, hub, panic>>,
             chan' = chan \/ chan' = [chan EXCEPT ![c] = "open"],
             w = "register" => chan' = [chan EXCEPT ![c] = "open"]
      PROVE  LifecycleInv'
  <2>1. hub.at \in {"insert", "remove"} => hub.conn # c
    BY <1>1 DEF LifecycleInv, HubExpects, Inside
  <2>2. HubExpects' BY <1>1, <2>1 DEF LifecycleInv, HubExpects
  <2>3. ASSUME NEW x \in Conns PROVE Lifecycle(x)'
    BY <1>1 DEF LifecycleInv, Lifecycle, Inside, Absent, Where
  <2> QED BY <1>1, <2>2, <2>3 DEF LifecycleInv
<1>2. CASE Accept(c) BY <1>1, <1>2 DEF Accept
<1>3. CASE Reject(c) BY <1>1, <1>3 DEF Reject
<1>4. CASE AcceptSSH(c) BY <1>4 DEF AcceptSSH
<1>5. CASE LoginOk(c)
  <2>1. After(c) = "register" BY <1>5 DEF LoginOk, After, NextStep
  <2> QED BY <1>1, <1>5, <2>1 DEF LoginOk
<1>6. CASE LoginFail(c) BY <1>1, <1>6 DEF LoginFail
<1>7. CASE HubRegister(c)
  <2>1. After(c) = "join" BY <1>7 DEF HubRegister, After, NextStep
  <2>2. pc[c] = "register" /\ hub.at = "select" /\ hub' = [at |-> "insert", conn |-> c]
        /\ pc' = [pc EXCEPT ![c] = "join"] /\ UNCHANGED <<clients, chan, scan, panic>>
    BY <1>7, <2>1 DEF HubRegister
  <2>3. HubExpects' BY <2>2 DEF HubExpects, Inside
  <2>4. ASSUME NEW x \in Conns PROVE Lifecycle(x)'
    BY <2>2 DEF LifecycleInv, Lifecycle, Inside, Absent
  <2> QED BY <2>2, <2>3, <2>4 DEF LifecycleInv
<1>8. CASE JoinGeneral(c)
  <2>1. After(c) = "history" BY <1>8 DEF JoinGeneral, After, NextStep
  <2> QED BY <1>8, <2>1, InsideMove DEF JoinGeneral, Inside, lifeVars
<1>9. CASE History(c)
  <2>1. After(c) = "loop" BY <1>9 DEF History, After, NextStep
  <2> QED BY <1>9, <2>1, InsideMove DEF History, Inside, lifeVars
<1> QED BY <1>2, <1>3, <1>4, <1>5, <1>6, <1>7, <1>8, <1>9 DEF Connect

\* Commands change entries of handlers inside their session only.
LEMMA CommandLife ==
  ASSUME Typed, LifecycleInv, NEW c \in Conns, Command(c) PROVE LifecycleInv'
<1> USE DEF conVars, chanVars, dataVars, ioVars, hubVars, peerVars, Goto, Running, ReplyThen, lifeVars
<1>1. CASE SetRoom(c)
  <2>1. pc[c] = "setroom" /\ clients' = WriteBack(c) /\ pc' = [pc EXCEPT ![c] = "reply"]
        /\ UNCHANGED <<chan, scan, hub, panic>>
    BY <1>1 DEF SetRoom
  <2>2. chan[c] = "open" /\ (clients[c].send = "chan" \/ hub = [at |-> "insert", conn |-> c])
    BY <2>1 DEF LifecycleInv, Lifecycle, Inside
  <2>3. /\ \A x \in Conns \ {c} : clients'[x] = clients[x]
        /\ clients'[c].send \in {clients[c].send, Read(c).send}
        /\ clients'[c].user \in {clients[c].user, Read(c).user}
    BY <2>1, HubExpected DEF WriteBack, Read, Registration, Zero
  <2>4. /\ clients[c].send = "chan" => clients'[c].send = "chan" /\ clients'[c].user = clients[c].user
        /\ clients'[c].send \in {clients[c].send, "nil"}
    BY <2>3 DEF Read, Zero, Absent
  <2>5. HubExpects' BY <2>1, HubExpected DEF LifecycleInv, HubExpects, Inside
  <2>6. ASSUME NEW x \in Conns PROVE Lifecycle(x)'
    <3>1. CASE x = c BY <2>1, <2>2, <2>4, <3>1, HubExpected DEF LifecycleInv, Lifecycle, Inside
    <3>2. CASE x # c BY <2>1, <2>3, <3>2, HubExpected DEF LifecycleInv, Lifecycle, Inside
    <3> QED BY <3>1, <3>2
  <2> QED BY <2>1, <2>5, <2>6 DEF LifecycleInv
<1>2. CASE SwitchRoom(c)
  <2>1. \E w \in {"setroom", "reply"} : pc' = [pc EXCEPT ![c] = w] BY <1>2 DEF SwitchRoom
  <2> QED BY <1>2, <2>1, InsideMove DEF SwitchRoom, Inside
<1>3. CASE Chat(c) BY <1>3, InsideMove DEF Chat, Inside
<1>4. CASE RefuseChat(c) BY <1>4, InsideMove DEF RefuseChat, Inside
<1>5. CASE ReplyOrDM(c) BY <1>5, InsideMove DEF ReplyOrDM, Inside
<1>6. CASE Info(c) BY <1>6, InsideMove DEF Info, Inside
<1>7. CASE Typing(c) BY <1>7, InsideMove DEF Typing, Inside
<1>8. CASE Status(c) BY <1>8, InsideMove DEF Status, Inside
<1>9. CASE JoinRoom(c) BY <1>9, InsideMove DEF JoinRoom, Inside
<1>10. CASE LeaveRoom(c) BY <1>10, InsideMove DEF LeaveRoom, Inside
<1>11. CASE Moderate(c) BY <1>11, InsideMove DEF Moderate, Inside
<1>12. CASE RefuseModerate(c) BY <1>12, InsideMove DEF RefuseModerate, Inside
<1>13. CASE BanOnline(c) BY <1>13, InsideMove DEF BanOnline, Inside
<1>14. CASE BanOffline(c) BY <1>14, InsideMove DEF BanOffline, Inside
<1> QED BY <1>1, <1>2, <1>3, <1>4, <1>5, <1>6, <1>7, <1>8, <1>9, <1>10, <1>11, <1>12,
           <1>13, <1>14 DEF Command

\* A reply and a direct fan-out meet open channels.
LEMMA FinishLife ==
  ASSUME Typed, LifecycleInv, NEW c \in Conns, Finish(c) PROVE LifecycleInv'
<1> USE DEF conVars, chanVars, dataVars, ioVars, hubVars, peerVars, Goto, lifeVars
<1>1. job[c].then \in {"loop", "cast", "banlock"} /\ job[c].then \in Inside
  BY DEF Typed, TypeOK, Jobs, Inside
<1>2. CASE ReplyLookup(c) BY <1>2, InsideMove DEF ReplyLookup, Inside
<1>3. CASE ReplyNowhere(c) BY <1>1, <1>3, InsideMove DEF ReplyNowhere, Resume, Inside
<1>4. CASE Push(c)
  <2>1. pc[c] \in Inside /\ chan[c] = "open" BY <1>4 DEF Push, LifecycleInv, Lifecycle, Inside
  <2>2. panic' = panic BY <1>4, <2>1, Unpanicked DEF Push
  <2> QED BY <1>1, <1>4, <2>1, <2>2, InsideMove DEF Push, Resume
<1>5. CASE Cast(c)
  <2>1. panic' = panic BY <1>5, FanOutIsSafe, Unpanicked DEF Cast
  <2> QED BY <1>5, <2>1, InsideMove DEF Cast, Inside
<1>6. CASE Publish(c)
  <2>1. pc[c] = "publish" /\ hub.at = "select" /\ hub' = [at |-> "save", msg |-> Posted(c)]
        /\ pc' = [pc EXCEPT ![c] = "loop"] /\ UNCHANGED <<clients, chan, scan, panic>>
    BY <1>6 DEF Publish
  <2>2. HubExpects' BY <2>1 DEF HubExpects
  <2>3. ASSUME NEW x \in Conns PROVE Lifecycle(x)'
    BY <2>1, HubExpected DEF LifecycleInv, Lifecycle, Inside
  <2> QED BY <2>1, <2>2, <2>3 DEF LifecycleInv
<1> QED BY <1>2, <1>3, <1>4, <1>5, <1>6 DEF Finish

\* Leaving keeps the lifecycle.
LEMMA DepartLife ==
  ASSUME Typed, LifecycleInv, NEW c \in Conns,
         Depart(c) \/ Pump(c) \/ Dispatch(c) \/ Environment(c)
  PROVE  LifecycleInv'
<1> USE DEF conVars, chanVars, dataVars, ioVars, hubVars, peerVars, Goto, lifeVars
<1>1. scan[c] = "off" BY DEF LifecycleInv, Lifecycle
<1>2. CASE ReadFail(c) BY <1>2, InsideMove DEF ReadFail, AfterLoop, Inside
<1>3. CASE Dispatch(c) BY <1>3, InsideMove DEF Dispatch, Inside
<1>4. CASE HubUnregister(c)
  <2>1. pc[c] = "bye" /\ hub.at = "select" /\ hub' = [at |-> "remove", conn |-> c]
        /\ pc' = [pc EXCEPT ![c] = "done"] /\ UNCHANGED <<clients, chan, scan, panic>>
    BY <1>4 DEF HubUnregister
  <2>2. HubExpects' BY <2>1, HubExpected DEF HubExpects
  <2>3. ASSUME NEW x \in Conns PROVE Lifecycle(x)'
    BY <2>1, HubExpected DEF LifecycleInv, Lifecycle, Inside
  <2> QED BY <2>1, <2>2, <2>3 DEF LifecycleInv
<1>5. CASE ScanUnregister(c) \/ ScanEnd(c) BY <1>1, <1>5 DEF ScanUnregister, ScanEnd
<1>6. CASE Pump(c) \/ Hangup(c)
  BY <1>6, StillLife DEF Pump, PumpWrite, PumpEnd, Hangup
<1>7. ASSUME NEW i \in Inputs[c], ReadInput(c, i) PROVE LifecycleInv'
  BY <1>7, InsideMove DEF ReadInput, Inside
<1> QED BY <1>2, <1>3, <1>4, <1>5, <1>6, <1>7 DEF Depart, Environment

\* The readers of the peers fan out as the hub does.
LEMMA PeerLife ==
  ASSUME Typed, LifecycleInv, NEW p \in Peers, PeerStep(p) PROVE LifecycleInv'
<1> USE DEF conVars, chanVars, dataVars, ioVars, hubVars, lifeVars
<1>1. ASSUME NEW r \in Relays[p], PeerRead(p, r) PROVE LifecycleInv'
  BY <1>1, StillLife DEF PeerRead
<1>2. CASE PeerSave(p) BY <1>2, StillLife DEF PeerSave
<1>3. CASE PeerDeliver(p)
  <2>1. panic' = panic BY <1>3, FanOutIsSafe, Unpanicked DEF PeerDeliver
  <2> QED BY <1>3, <2>1, StillLife DEF PeerDeliver
<1> QED BY <1>1, <1>2, <1>3 DEF PeerStep, Reader

\* Initially no connection has begun.
LEMMA InitLife == Init => LifecycleInv
BY DEF Init, LifecycleInv, Lifecycle, HubExpects, Select, Absent, Inside

\* Every step keeps the invariant.
LEMMA NextLife ==
  ASSUME SSHConns = {}, Typed, LifecycleInv, [Next]_vars PROVE LifecycleInv'
<1>1. ASSUME NEW c \in Conns, Handler(c) \/ Environment(c) PROVE LifecycleInv'
  BY <1>1, ConnectLife, CommandLife, FinishLife, DepartLife DEF Handler
<1>2. CASE UNCHANGED vars
  BY <1>2, StillLife DEF vars, conVars, chanVars, dataVars, ioVars, hubVars, peerVars, lifeVars
<1> QED BY <1>1, <1>2, HubStepLife, PeerLife DEF Next

\* A node without SSH connections never panics: no send on a closed channel, no
\* close of a nil or closed one (client.go:56-72, node.go:246-251).
THEOREM TLSNeverPanics == SSHConns = {} => (Spec => []NoPanic)
<1> SUFFICES ASSUME SSHConns = {} PROVE Spec => []NoPanic OBVIOUS
<1>1. Init => Typed /\ LifecycleInv BY InitTypes, InitLife
<1>2. Typed /\ LifecycleInv /\ [Next]_vars => (Typed /\ LifecycleInv)'
  BY NextTypes, NextLife
<1>3. Typed /\ LifecycleInv => NoPanic BY DEF LifecycleInv, NoPanic
<1> QED BY <1>1, <1>2, <1>3, PTL DEF Spec

\* Without SSH connections the entries of n.clients are those of the live
\* registrations (node.go:229-251, commands.go:325-361).
THEOREM TLSEntriesAreLive == SSHConns = {} => (Spec => []EntriesAreLive)
<1> SUFFICES ASSUME SSHConns = {} PROVE Spec => []EntriesAreLive OBVIOUS
<1>1. Init => Typed /\ LifecycleInv BY InitTypes, InitLife
<1>2. Typed /\ LifecycleInv /\ [Next]_vars => (Typed /\ LifecycleInv)'
  BY NextTypes, NextLife
<1>3. Typed /\ LifecycleInv => EntriesAreLive
  <2> SUFFICES ASSUME Typed, LifecycleInv, NEW c \in Conns
               PROVE  /\ clients[c].send = "chan" => chan[c] = "open" /\ clients[c].user = UserOf[c]
                      /\ chan[c] = "closed" => clients[c] = Absent
    BY DEF EntriesAreLive, Present
  <2>1. pc[c] \in {"idle", "login", "register", "done"} \cup Inside
    BY HubExpected DEF Where, Inside
  <2> QED BY <2>1 DEF LifecycleInv, Lifecycle
<1> QED BY <1>1, <1>2, <1>3, PTL DEF Spec
-----------------------------------------------------------------------------
(* No gap between the history and the live messages, for TLS clients, as   *)
(* long as the history replayed at login is the whole of it and nobody     *)
(* leaves #general.                                                        *)

\* The precondition of the last theorem: nobody types /channel leave general.
NobodyLeavesGeneral == \A c \in Conns : \A i \in Inputs[c] : i.cmd = "leave" => i.arg # General

\* What a handler runs was typed on its connection.
JobIsInput == \A c \in Conns : pc[c] \in {"dispatch", "run"} => job[c].what \in Inputs[c]

\* The session of a TLS client: its channel is open and its entry complete, or about to be,
\* until the hub is asked to remove it, which its own handler does last of all.
OpenSession(c) ==
  /\ scan[c] = "off"
  /\ pc[c] = "register" => chan[c] = "open"
  /\ pc[c] \in Inside =>
       chan[c] = "open" /\ (clients[c].send = "chan" \/ hub = [at |-> "insert", conn |-> c])
  /\ hub = [at |-> "remove", conn |-> c] => pc[c] = "done"

\* Once it has joined #general it stays.
StaysInGeneral(c) == pc[c] \in Inside \ {"join"} => UserOf[c] \in members[General]

\* Past the replay of the history.
Live == Inside \ {"join", "history"}
Reached(c) == seen[c] \cup Queued(c) \cup missed[c] \cup InFlight
NothingMissed(c) ==
  pc[c] \in Live /\ wire[c] = "up" /\ Len(stored) <= HistoryLen =>
    \A m \in Chats : m.to = General => m \in Reached(c)

SessionInv == JobIsInput /\ \A c \in Conns \ SSHConns : OpenSession(c) /\ StaysInGeneral(c)
GapInv == \A c \in Conns \ SSHConns : NothingMissed(c)

TLS == Conns \ SSHConns

\* A handler that moves on within its session, or ends it without having begun one.
LEMMA SessionMove ==
  ASSUME Typed, SessionInv, NEW c \in Conns, NEW w \in Where,
         pc' = [pc EXCEPT ![c] = w], w \notin {"dispatch", "run", "register"},
         \A x \in Conns \ {c} : job'[x] = job[x],
         UNCHANGED <<clients, chan, scan, hub>>,
         \A r \in Users : r \in members[General] => r \in members'[General],
         pc[c] # "done",
         w \in Inside => pc[c] \in Inside \ {"join"}
  PROVE  SessionInv'
<1>1. pc \in [Conns -> Where] BY HubExpected
<1>2. JobIsInput' BY <1>1 DEF SessionInv, JobIsInput
<1>3. ASSUME NEW x \in Conns \ SSHConns PROVE OpenSession(x)'
  BY <1>1 DEF SessionInv, OpenSession
<1>4. ASSUME NEW x \in Conns \ SSHConns PROVE StaysInGeneral(x)'
  <2>1. UserOf[x] \in Users BY HubAssumption
  <2> QED BY <1>1, <2>1 DEF SessionInv, StaysInGeneral
<1> QED BY <1>2, <1>3, <1>4 DEF SessionInv

\* Steps that concern no session.
LEMMA StillSession ==
  ASSUME SessionInv, UNCHANGED <<pc, job, clients, chan, scan, members>>,
         hub' = hub \/ hub'.at \notin {"insert", "remove"},
         \A c \in TLS : hub # [at |-> "insert", conn |-> c] \/ hub' = hub
  PROVE  SessionInv'
BY DEF SessionInv, JobIsInput, OpenSession, StaysInGeneral, TLS

\* The hub completes an entry, and removes one when its handler is done.
LEMMA HubSession ==
  ASSUME Typed, SessionInv, HubStep
  PROVE  SessionInv'
<1> USE HubExpected DEF conVars, chanVars, dataVars, ioVars, hubVars, peerVars
<1>1. CASE HubInsert
  <2>1. PICK y \in Conns : hub = [at |-> "insert", conn |-> y] BY <1>1 DEF HubInsert
  <2>2. clients' = [clients EXCEPT ![y] = [user |-> UserOf[y], room |-> General, send |-> "chan"]]
        /\ hub' = Select /\ UNCHANGED <<pc, job, chan, scan, members>>
    BY <1>1, <2>1 DEF HubInsert
  <2>3. ASSUME NEW x \in Conns \ SSHConns PROVE OpenSession(x)'
    BY <2>1, <2>2 DEF SessionInv, OpenSession, Select
  <2> QED BY <2>2, <2>3 DEF SessionInv, JobIsInput, StaysInGeneral
<1>2. CASE HubRemove
  <2>1. PICK y \in Conns : hub = [at |-> "remove", conn |-> y] BY <1>2 DEF HubRemove
  <2>2. /\ clients' = [clients EXCEPT ![y] = Absent] /\ hub' = Select
        /\ UNCHANGED <<pc, job, scan, members>>
        /\ \A x \in Conns \ {y} : chan'[x] = chan[x]
    BY <1>2, <2>1 DEF HubRemove, Deregistered
  <2>3. ASSUME NEW x \in Conns \ SSHConns PROVE OpenSession(x)'
    <3>1. CASE x = y
      <4>1. pc[x] = "done" BY <2>1, <3>1 DEF SessionInv, OpenSession
      <4> QED BY <2>2, <4>1 DEF SessionInv, OpenSession, Select, Inside
    <3>2. CASE x # y BY <2>1, <2>2, <3>2 DEF SessionInv, OpenSession, Select
    <3> QED BY <3>1, <3>2
  <2> QED BY <2>2, <2>3 DEF SessionInv, JobIsInput, StaysInGeneral
<1>3. CASE HubRemoveAgain
  <2>1. hub.at = "remove" BY <1>3 DEF HubRemoveAgain
  <2> QED BY <1>3, <2>1, StillSession DEF HubRemoveAgain, Select
<1>4. CASE HubSave
  <2>1. hub.at = "save" BY <1>4 DEF HubSave
  <2> QED BY <1>4, <2>1, StillSession DEF HubSave
<1>5. CASE HubDeliver
  <2>1. hub.at = "deliver" BY <1>5 DEF HubDeliver
  <2> QED BY <1>5, <2>1, StillSession DEF HubDeliver, Select
<1>6. ASSUME NEW m \in announce, HubAnnounce(m) PROVE SessionInv'
  <2>1. hub.at = "select" BY <1>6 DEF HubAnnounce
  <2> QED BY <1>6, <2>1, StillSession DEF HubAnnounce
<1> QED BY <1>1, <1>2, <1>3, <1>4, <1>5, <1>6 DEF HubStep

\* The readers of the peers concern no session.
LEMMA PeerSession ==
  ASSUME SessionInv, NEW p \in Peers, PeerStep(p) PROVE SessionInv'
<1> USE DEF conVars, chanVars, dataVars, ioVars, hubVars
<1>1. UNCHANGED <<pc, job, clients, chan, scan, members, hub>>
  BY DEF PeerStep, Reader, PeerRead, PeerSave, PeerDeliver
<1> QED BY <1>1, StillSession

\* A login opens the channel, then registers, then joins #general.
LEMMA ConnectSession ==
  ASSUME Typed, SessionInv, NEW c \in Conns, Connect(c)
  PROVE  SessionInv'
<1> USE HubExpected DEF conVars, chanVars, dataVars, ioVars, hubVars, peerVars, Goto
<1>0. c \in SSHConns => pc[c] \notin {"login", "history"} BY DEF Typed, TypeOK
<1>1. ASSUME NEW w \in {"login", "done"}, pc[c] \in {"idle", "login"},
             pc' = [pc EXCEPT ![c] = w], UNCHANGED <<job, clients, chan, scan, hub, members>>
      PROVE  SessionInv'
  BY <1>1, SessionMove DEF Where, Inside
<1>2. CASE Accept(c) BY <1>1, <1>2 DEF Accept
<1>3. CASE Reject(c) BY <1>1, <1>3 DEF Reject
<1>4. CASE LoginFail(c) BY <1>1, <1>4 DEF LoginFail
<1>5. CASE AcceptSSH(c)
  <2>1. pc' = [pc EXCEPT ![c] = "join"] /\ chan' = [chan EXCEPT ![c] = "open"]
        /\ scan' = [scan EXCEPT ![c] = "running"] /\ c \in SSHConns
        /\ UNCHANGED <<job, clients, hub, members>>
    BY <1>5 DEF AcceptSSH, NextStepSSH
  <2>2. ASSUME NEW x \in Conns \ SSHConns
        PROVE  x # c /\ pc'[x] = pc[x] /\ chan'[x] = chan[x] /\ scan'[x] = scan[x]
    BY <2>1 DEF Typed, TypeOK
  <2>3. \A x \in Conns \ SSHConns : OpenSession(x)' /\ StaysInGeneral(x)'
    BY <2>1, <2>2 DEF SessionInv, OpenSession, StaysInGeneral
  <2> QED BY <2>1, <2>3 DEF SessionInv, JobIsInput
<1>6. CASE LoginOk(c)
  <2>1. pc' = [pc EXCEPT ![c] = "register"] /\ chan' = [chan EXCEPT ![c] = "open"]
        /\ pc[c] = "login" /\ UNCHANGED <<job, clients, hub, members, scan>>
    BY <1>0, <1>6, AfterTypes DEF LoginOk
  <2>2. \A x \in Conns \ SSHConns : OpenSession(x)' /\ StaysInGeneral(x)'
    BY <2>1 DEF SessionInv, OpenSession, StaysInGeneral, Inside
  <2> QED BY <2>1, <2>2 DEF SessionInv, JobIsInput
<1>7. CASE HubRegister(c)
  <2>0. After(c) \in {"register", "join", "loop"} /\ (c \notin SSHConns => After(c) = "join")
    BY <1>0, <1>7, AfterTypes DEF HubRegister
  <2>1. PICK w \in {"register", "join", "loop"} :
          pc' = [pc EXCEPT ![c] = w] /\ (c \notin SSHConns => w = "join")
    BY <1>7, <2>0 DEF HubRegister
  <2>2. pc[c] = "register" /\ hub.at = "select" /\ hub' = [at |-> "insert", conn |-> c]
        /\ UNCHANGED <<job, clients, chan, members, scan>>
    BY <1>7 DEF HubRegister
  <2>3. ASSUME NEW x \in Conns \ SSHConns PROVE OpenSession(x)'
    <3>1. CASE x = c BY <2>1, <2>2, <3>1 DEF SessionInv, OpenSession, Inside
    <3>2. CASE x # c BY <2>1, <2>2, <3>2 DEF SessionInv, OpenSession
    <3> QED BY <3>1, <3>2
  <2>4. ASSUME NEW x \in Conns \ SSHConns PROVE StaysInGeneral(x)'
    BY <2>1, <2>2 DEF SessionInv, StaysInGeneral
  <2> QED BY <2>1, <2>2, <2>3, <2>4 DEF SessionInv, JobIsInput
<1>8. CASE JoinGeneral(c)
  <2>0. After(c) \in {"register", "history", "loop"} /\ (c \notin SSHConns => After(c) = "history")
    BY <1>0, <1>8, AfterTypes DEF JoinGeneral
  <2>1. PICK w \in {"register", "history", "loop"} :
          pc' = [pc EXCEPT ![c] = w] /\ (c \notin SSHConns => w = "history")
    BY <1>8, <2>0 DEF JoinGeneral
  <2>2. pc[c] = "join" /\ members' = [members EXCEPT ![General] = @ \cup {UserOf[c]}]
        /\ UNCHANGED <<job, clients, chan, hub, scan>>
    BY <1>8 DEF JoinGeneral
  <2>3. members'[General] = members[General] \cup {UserOf[c]}
    BY <2>2, HubAssumption DEF Typed, TypeOK
  <2>4. ASSUME NEW x \in Conns \ SSHConns PROVE OpenSession(x)'
    <3>1. CASE x = c BY <2>1, <2>2, <3>1 DEF SessionInv, OpenSession, Inside
    <3>2. CASE x # c BY <2>1, <2>2, <3>2 DEF SessionInv, OpenSession
    <3> QED BY <3>1, <3>2
  <2>5. ASSUME NEW x \in Conns \ SSHConns PROVE StaysInGeneral(x)'
    BY <2>1, <2>2, <2>3 DEF SessionInv, StaysInGeneral
  <2> QED BY <2>1, <2>2, <2>4, <2>5 DEF SessionInv, JobIsInput
<1>9. CASE History(c)
  <2>1. After(c) = "loop" BY <1>0, <1>9, AfterTypes DEF History
  <2> QED BY <1>9, <2>1, SessionMove DEF History, Where, Inside
<1> QED BY <1>2, <1>3, <1>4, <1>5, <1>6, <1>7, <1>8, <1>9 DEF Connect

\* Commands run what was typed; nobody leaves #general, and an entry that is rewritten
\* keeps its channel.
LEMMA CommandSession ==
  ASSUME NobodyLeavesGeneral, Typed, SessionInv, NEW c \in Conns, Command(c)
  PROVE  SessionInv'
<1> USE DEF conVars, chanVars, dataVars, ioVars, hubVars, peerVars, Goto, Running, ReplyThen
<1>1. ASSUME NEW w \in {"publish", "reply", "cast", "setroom", "stuck", "loop"},
             pc[c] \in {"run", "setroom", "banlock"},
             pc' = [pc EXCEPT ![c] = w], \A x \in Conns \ {c} : job'[x] = job[x],
             UNCHANGED <<clients, chan, scan, hub>>,
             \A r \in Users : r \in members[General] => r \in members'[General]
      PROVE  SessionInv'
  BY <1>1, SessionMove DEF Where, Inside
<1>2. CASE SetRoom(c)
  <2>1. /\ pc[c] = "setroom" /\ clients' = WriteBack(c) /\ pc' = [pc EXCEPT ![c] = "reply"]
        /\ \A x \in Conns \ {c} : job'[x] = job[x]
        /\ UNCHANGED <<chan, scan, hub, members>>
    BY <1>2 DEF SetRoom
  <2>2. /\ \A x \in Conns \ {c} : clients'[x] = clients[x]
        /\ clients'[c].send \in {clients[c].send, Read(c).send}
    BY <2>1, HubExpected DEF WriteBack, Read, Registration, Zero
  <2>3. clients[c].send = "chan" => clients'[c].send = "chan"
    BY <2>2 DEF Read, Zero, Absent
  <2>4. ASSUME NEW x \in Conns \ SSHConns PROVE OpenSession(x)'
    <3>1. CASE x = c BY <2>1, <2>3, <3>1, HubExpected DEF SessionInv, OpenSession, Inside
    <3>2. CASE x # c BY <2>1, <2>2, <3>2, HubExpected DEF SessionInv, OpenSession
    <3> QED BY <3>1, <3>2
  <2>5. ASSUME NEW x \in Conns \ SSHConns PROVE StaysInGeneral(x)'
    BY <2>1, HubExpected DEF SessionInv, StaysInGeneral, Inside
  <2>6. JobIsInput' BY <2>1, HubExpected DEF SessionInv, JobIsInput
  <2> QED BY <2>4, <2>5, <2>6 DEF SessionInv
<1>3. CASE LeaveRoom(c)
  <2>1. job[c].what \in Inputs[c] /\ Cmd(c) = "leave" BY <1>3 DEF LeaveRoom, SessionInv, JobIsInput
  <2>2. Arg(c) # General BY <2>1 DEF NobodyLeavesGeneral, Arg, Cmd
  <2>3. members'[General] = members[General]
    BY <1>3, <2>2 DEF LeaveRoom, Typed, TypeOK
  <2> QED BY <1>1, <1>3, <2>3 DEF LeaveRoom
<1>4. CASE JoinRoom(c)
  <2>1. \A r \in Users : r \in members[General] => r \in members'[General]
    BY <1>4, HubAssumption DEF JoinRoom, Typed, TypeOK
  <2> QED BY <1>1, <1>4, <2>1 DEF JoinRoom
<1>5. CASE SwitchRoom(c)
  <2>1. PICK w \in {"setroom", "reply"} : pc' = [pc EXCEPT ![c] = w] BY <1>5 DEF SwitchRoom
  <2>2. \A x \in Conns \ {c} : job'[x] = job[x]
    <3>1. job' = job \/ job' = [job EXCEPT ![c].then = "loop"] BY <1>5 DEF SwitchRoom
    <3>2. job \in [Conns -> Jobs] BY DEF Typed, TypeOK
    <3> QED BY <3>1, <3>2
  <2> QED BY <1>1, <1>5, <2>1, <2>2 DEF SwitchRoom
<1>6. CASE Chat(c) BY <1>1, <1>6 DEF Chat
<1>7. CASE RefuseChat(c) BY <1>1, <1>7 DEF RefuseChat
<1>8. CASE ReplyOrDM(c) BY <1>1, <1>8 DEF ReplyOrDM
<1>9. CASE Info(c) BY <1>1, <1>9 DEF Info
<1>10. CASE Typing(c) BY <1>1, <1>10 DEF Typing
<1>11. CASE Status(c) BY <1>1, <1>11 DEF Status
<1>12. CASE Moderate(c) BY <1>1, <1>12 DEF Moderate
<1>13. CASE RefuseModerate(c) BY <1>1, <1>13 DEF RefuseModerate
<1>14. CASE BanOnline(c) BY <1>1, <1>14 DEF BanOnline
<1>15. CASE BanOffline(c) BY <1>1, <1>15 DEF BanOffline
<1> QED BY <1>2, <1>3, <1>4, <1>5, <1>6, <1>7, <1>8, <1>9, <1>10, <1>11, <1>12, <1>13, <1>14,
           <1>15 DEF Command

\* So do the replies, the posts and the direct fan-outs.
LEMMA FinishSession ==
  ASSUME Typed, SessionInv, NEW c \in Conns, Finish(c)
  PROVE  SessionInv'
<1> USE DEF conVars, chanVars, dataVars, ioVars, hubVars, peerVars, Goto
<1>1. ASSUME NEW w \in {"push", "loop", "cast", "banlock"}, pc[c] \in {"reply", "push", "cast"},
             pc' = [pc EXCEPT ![c] = w], \A x \in Conns \ {c} : job'[x] = job[x],
             UNCHANGED <<clients, chan, scan, hub, members>>
      PROVE  SessionInv'
  BY <1>1, SessionMove DEF Where, Inside
<1>2. CASE ReplyLookup(c) BY <1>1, <1>2 DEF ReplyLookup
<1>3. CASE ReplyNowhere(c) \/ Push(c)
  <2>1. job[c].then \in {"loop", "cast", "banlock"} BY DEF Typed, TypeOK, Jobs
  <2>2. /\ pc' = [pc EXCEPT ![c] = job[c].then] /\ pc[c] \in {"reply", "push"}
        /\ UNCHANGED <<clients, chan, scan, hub, members>>
        /\ job' = [job EXCEPT ![c] = NoJob] \/ job' = job
    BY <1>3 DEF ReplyNowhere, Push, Resume
  <2>3. \A x \in Conns \ {c} : job'[x] = job[x] BY <2>2 DEF Typed, TypeOK
  <2> QED BY <1>1, <2>1, <2>2, <2>3
<1>4. CASE Cast(c)
  <2>1. \A x \in Conns \ {c} : job'[x] = job[x] BY <1>4 DEF Cast
  <2> QED BY <1>1, <1>4, <2>1 DEF Cast
<1>5. CASE Publish(c)
  <2>1. /\ pc[c] = "publish" /\ hub.at = "select" /\ hub'.at = "save"
        /\ pc' = [pc EXCEPT ![c] = "loop"] /\ UNCHANGED <<clients, chan, scan, members>>
        /\ \A x \in Conns \ {c} : job'[x] = job[x]
    BY <1>5 DEF Publish
  <2>2. ASSUME NEW x \in Conns \ SSHConns PROVE OpenSession(x)' /\ StaysInGeneral(x)'
    BY <2>1, HubExpected DEF SessionInv, OpenSession, StaysInGeneral, Inside
  <2>3. JobIsInput' BY <2>1, HubExpected DEF SessionInv, JobIsInput
  <2> QED BY <2>2, <2>3 DEF SessionInv
<1> QED BY <1>2, <1>3, <1>4, <1>5 DEF Finish

\* Only a handler whose client has left asks for its removal.
LEMMA DepartSession ==
  ASSUME Typed, SessionInv, NEW c \in Conns,
         Depart(c) \/ Pump(c) \/ Dispatch(c) \/ Environment(c)
  PROVE  SessionInv'
<1> USE DEF conVars, chanVars, dataVars, ioVars, hubVars, peerVars, Goto
<1>1. c \notin SSHConns => scan[c] = "off" BY DEF SessionInv, OpenSession
<1>2. CASE ReadFail(c)
  BY <1>2, SessionMove DEF ReadFail, AfterLoop, Where, Inside
<1>3. CASE HubUnregister(c)
  <2>1. /\ pc[c] = "bye" /\ hub.at = "select" /\ hub' = [at |-> "remove", conn |-> c]
        /\ pc' = [pc EXCEPT ![c] = "done"] /\ UNCHANGED <<job, clients, chan, scan, members>>
    BY <1>3 DEF HubUnregister
  <2>2. ASSUME NEW x \in Conns \ SSHConns PROVE OpenSession(x)' /\ StaysInGeneral(x)'
    BY <2>1, HubExpected DEF SessionInv, OpenSession, StaysInGeneral, Inside
  <2>3. JobIsInput' BY <2>1, HubExpected DEF SessionInv, JobIsInput
  <2> QED BY <2>2, <2>3 DEF SessionInv
<1>4. CASE ScanUnregister(c)
  <2>1. /\ c \in SSHConns /\ hub.at = "select" /\ hub' = [at |-> "remove", conn |-> c]
        /\ scan' = [scan EXCEPT ![c] = "done"] /\ UNCHANGED <<pc, job, clients, chan, members>>
    BY <1>1, <1>4 DEF ScanUnregister
  <2>2. ASSUME NEW x \in Conns \ SSHConns PROVE OpenSession(x)' /\ StaysInGeneral(x)'
    BY <2>1, HubExpected DEF SessionInv, OpenSession, StaysInGeneral, Typed, TypeOK
  <2> QED BY <2>1, <2>2 DEF SessionInv, JobIsInput
<1>5. CASE ScanEnd(c)
  <2>1. /\ c \in SSHConns /\ scan' = [scan EXCEPT ![c] = "bye"]
        /\ UNCHANGED <<pc, job, clients, chan, members, hub>>
    BY <1>1, <1>5 DEF ScanEnd
  <2>2. ASSUME NEW x \in Conns \ SSHConns PROVE OpenSession(x)' /\ StaysInGeneral(x)'
    BY <2>1 DEF SessionInv, OpenSession, StaysInGeneral, Typed, TypeOK
  <2> QED BY <2>1, <2>2 DEF SessionInv, JobIsInput
<1>6. CASE PumpWrite(c) \/ PumpEnd(c) \/ Hangup(c)
  BY <1>6, StillSession DEF PumpWrite, PumpEnd, Hangup
<1>7. CASE Dispatch(c)
  <2>1. /\ pc[c] = "dispatch" /\ pc' = [pc EXCEPT ![c] = "run"]
        /\ UNCHANGED <<clients, chan, scan, hub, members>>
        /\ \A x \in Conns : job'[x].what = job[x].what
    BY <1>7 DEF Dispatch, Typed, TypeOK, Jobs
  <2>2. JobIsInput' BY <2>1, HubExpected DEF SessionInv, JobIsInput
  <2>3. ASSUME NEW x \in Conns \ SSHConns PROVE OpenSession(x)' /\ StaysInGeneral(x)'
    BY <2>1, HubExpected DEF SessionInv, OpenSession, StaysInGeneral, Inside
  <2> QED BY <2>2, <2>3 DEF SessionInv
<1>8. ASSUME NEW i \in Inputs[c], ReadInput(c, i) PROVE SessionInv'
  <2>1. /\ pc[c] = "loop" /\ pc' = [pc EXCEPT ![c] = "dispatch"]
        /\ job' = [job EXCEPT ![c] = [NoJob EXCEPT !.what = i]]
        /\ UNCHANGED <<clients, chan, scan, hub, members>>
    BY <1>8 DEF ReadInput
  <2>2. job'[c].what = i BY <2>1 DEF NoJob, Typed, TypeOK
  <2>3. JobIsInput' BY <2>1, <2>2, HubExpected DEF SessionInv, JobIsInput, Typed, TypeOK
  <2>4. ASSUME NEW x \in Conns \ SSHConns PROVE OpenSession(x)' /\ StaysInGeneral(x)'
    BY <2>1, HubExpected DEF SessionInv, OpenSession, StaysInGeneral, Inside
  <2> QED BY <2>3, <2>4 DEF SessionInv
<1> QED BY <1>2, <1>3, <1>4, <1>5, <1>6, <1>7, <1>8 DEF Depart, Pump, Environment

\* Every step keeps it.
LEMMA NextSession == ASSUME NobodyLeavesGeneral, Typed, SessionInv, [Next]_vars PROVE SessionInv'
<1>1. ASSUME NEW c \in Conns, Handler(c) \/ Environment(c) PROVE SessionInv'
  BY <1>1, ConnectSession, CommandSession, FinishSession, DepartSession DEF Handler
<1>2. CASE UNCHANGED vars
  BY <1>2, StillSession DEF vars, conVars, chanVars, dataVars, ioVars, hubVars, peerVars
<1> QED BY <1>1, <1>2, HubSession, PeerSession DEF Next

\* What has reached a client, or will, stays so.
LEMMA StillReached ==
  ASSUME GapInv, UNCHANGED <<stored>>,
         \A c \in TLS : pc'[c] \in Live => pc[c] \in Live,
         \A c \in TLS : wire'[c] = "up" => wire[c] = "up",
         \A c \in TLS : \A m \in Chats :
           /\ m \in seen[c] \cup Queued(c) \cup missed[c]
                => m \in seen'[c] \cup Queued(c)' \cup missed'[c]
           /\ m \in InFlight /\ m.to = General /\ pc[c] \in Live => m \in Reached(c)'
  PROVE  GapInv'
<1> SUFFICES ASSUME NEW c \in TLS, NothingMissed(c),
                    pc'[c] \in Live, wire'[c] = "up", Len(stored) <= HistoryLen,
                    NEW m \in Chats, m.to = General
             PROVE  m \in Reached(c)'
  BY DEF GapInv, NothingMissed, TLS, Chats
<1>1. m \in Reached(c) /\ pc[c] \in Live BY DEF NothingMissed
<1> QED BY <1>1 DEF Reached

\* The buffers before and after an append.
LEMMA AppendQueued ==
  ASSUME Data, NEW c \in Conns, NEW m \in Message, queue'[c] = Append(queue[c], m)
  PROVE  Queued(c)' = Queued(c) \cup {m}
<1>1. queue[c] \in Seq(Message) BY DEF Data
<1>2. /\ Len(queue[c]) \in Nat /\ Len(queue'[c]) = Len(queue[c]) + 1
      /\ \A i \in 1..Len(queue[c]) : queue'[c][i] = queue[c][i]
      /\ queue'[c][Len(queue[c]) + 1] = m
      /\ \A i \in 1..Len(queue'[c]) : i \in 1..Len(queue[c]) \/ i = Len(queue[c]) + 1
  BY <1>1, AppendParts
<1>3. \A x : x \in Queued(c)' <=> \E i \in 1..Len(queue'[c]) : x = queue'[c][i] BY DEF Queued
<1>4. \A x : x \in Queued(c) <=> \E i \in 1..Len(queue[c]) : x = queue[c][i] BY DEF Queued
<1>5. Len(queue[c]) + 1 \in 1..Len(queue'[c]) /\ \A i \in 1..Len(queue[c]) : i \in 1..Len(queue'[c])
  BY <1>2
<1> QED BY <1>2, <1>3, <1>4, <1>5

\* A client past its history is a recipient of what goes to #general, and gets it unless
\* its buffer is full or the hub has yet to insert its entry.
LEMMA DeliverReaches ==
  ASSUME Data, OwnEntry, SessionInv, NEW c \in TLS, pc[c] \in Live,
         NEW m \in Message, m.type = "chat", m.to = General, FanOut(m)
  PROVE  m \in Queued(c)' \cup missed'[c]
<1>1. c \in Conns /\ c \notin SSHConns /\ pc[c] \in Inside /\ pc[c] # "join"
  BY DEF TLS, Live, Inside
<1>2. CASE Inserting(c) BY <1>1, <1>2 DEF FanOut
<1>3. CASE ~Inserting(c)
  <2>1. /\ chan[c] = "open" /\ clients[c].send = "chan" /\ clients[c].user = UserOf[c]
        /\ UserOf[c] \in members[General]
    BY <1>1, <1>3 DEF SessionInv, OpenSession, StaysInGeneral, OwnEntry, Inserting
  <2>2. c \in Recipients(m) BY <1>1, <2>1 DEF Recipients, Present, Absent, Wants
  <2>3. CASE Len(queue[c]) < SendCap
    <3>1. queue'[c] = Append(queue[c], m) BY <1>1, <2>1, <2>2, <2>3 DEF FanOut, Enqueue
    <3> QED BY <1>1, <3>1, AppendQueued
  <2>4. CASE ~(Len(queue[c]) < SendCap)
    BY <1>1, <2>1, <2>2, <2>4 DEF FanOut
  <2> QED BY <2>3, <2>4
<1> QED BY <1>2, <1>3

\* A fan-out takes nothing away.
LEMMA FanOutKeeps ==
  ASSUME Data, NEW m \in Message, FanOut(m), NEW c \in Conns
  PROVE  Queued(c) \subseteq Queued(c)' /\ missed[c] \subseteq missed'[c]
<1>1. queue'[c] = queue[c] \/ queue'[c] = Append(queue[c], m) BY DEF FanOut, Enqueue
<1>2. Queued(c) \subseteq Queued(c)' BY <1>1, AppendQueued DEF Queued
<1>3. missed[c] \subseteq missed'[c] BY DEF FanOut
<1> QED BY <1>2, <1>3

\* What is saved is in flight until its goroutine has delivered it ...
LEMMA SaveGap ==
  ASSUME Data, GapInv, NEW m \in Message, UNCHANGED <<pc, wire, seen, queue, missed>>,
         stored' = stored \/ stored' = Append(stored, m), InFlight' = InFlight \cup {m}
  PROVE  GapInv'
<1>1. Chats' \subseteq Chats \cup {m} /\ (Len(stored') <= HistoryLen => Len(stored) <= HistoryLen)
  <2>1. CASE stored' = stored BY <2>1 DEF Chats
  <2>2. CASE stored' = Append(stored, m)
    <3>1. /\ Len(stored) \in Nat /\ Len(stored') = Len(stored) + 1
          /\ \A i \in 1..Len(stored) : stored'[i] = stored[i]
          /\ stored'[Len(stored) + 1] = m
          /\ \A i \in 1..Len(stored') : i \in 1..Len(stored) \/ i = Len(stored) + 1
      BY <2>2, AppendParts DEF Data
    <3>2. HistoryLen \in Nat BY HubAssumption
    <3>3. Len(stored') <= HistoryLen => Len(stored) <= HistoryLen BY <3>1, <3>2
    <3>4. Chats' \subseteq Chats \cup {m} BY <3>1 DEF Chats
    <3> QED BY <3>3, <3>4
  <2> QED BY <2>1, <2>2
<1>2. ASSUME NEW c \in TLS, NothingMissed(c), pc'[c] \in Live, wire'[c] = "up",
             Len(stored') <= HistoryLen, NEW x \in Chats', x.to = General
      PROVE  x \in Reached(c)'
  <2>1. x \in Reached(c) \cup {m} BY <1>1, <1>2 DEF NothingMissed
  <2>2. Queued(c)' = Queued(c) BY DEF Queued
  <2> QED BY <2>1, <2>2 DEF Reached
<1> QED BY <1>2 DEF GapInv, NothingMissed, TLS

\* ... which is before it has saved anything else.
LEMMA DeliverGap ==
  ASSUME Data, OwnEntry, SessionInv, GapInv, NEW m \in InFlight, FanOut(m),
         UNCHANGED <<pc, wire, seen, stored>>, \A x \in InFlight : x = m \/ x \in InFlight'
  PROVE  GapInv'
<1>1. m \in Message BY FlightTypes
<1>2. ASSUME NEW c \in TLS, NEW x \in Chats, x \in InFlight, x.to = General, pc[c] \in Live
      PROVE  x \in Reached(c)'
  <2>1. CASE x = m
    <3>1. x.type = "chat" BY <1>2 DEF Chats
    <3>2. x \in Queued(c)' \cup missed'[c] BY <1>1, <1>2, <2>1, <3>1, DeliverReaches
    <3> QED BY <3>2 DEF Reached
  <2>2. CASE x # m BY <1>2, <2>2 DEF Reached
  <2> QED BY <2>1, <2>2
<1>3. \A c \in TLS : Queued(c) \subseteq Queued(c)' /\ missed[c] \subseteq missed'[c]
  BY <1>1, FanOutKeeps DEF TLS
<1> QED BY <1>2, <1>3, StillReached

\* The hub delivers what it has saved before it takes anything else.
LEMMA HubGap ==
  ASSUME Control, Data, OwnEntry, SessionInv, GapInv, HubStep
  PROVE  GapInv'
<1> USE DEF conVars, chanVars, dataVars, ioVars, hubVars, peerVars
<1>1. CASE HubSave
  <2>1. PICK m \in Message :
          /\ hub.at = "save" /\ hub' = [at |-> "deliver", msg |-> m]
          /\ UNCHANGED <<pc, wire, seen, queue, missed, reader>>
          /\ stored' = stored \/ stored' = Append(stored, m)
    BY <1>1, HubTypes DEF HubSave
  <2>2. InFlight' = InFlight \cup {m} BY <2>1 DEF InFlight
  <2> QED BY <2>1, <2>2, SaveGap
<1>2. CASE HubDeliver
  <2>1. PICK m : m = hub.msg OBVIOUS
  <2>2. /\ m \in InFlight /\ FanOut(m) /\ hub' = Select
        /\ UNCHANGED <<pc, wire, seen, stored, reader>>
    BY <1>2, <2>1 DEF HubDeliver, InFlight
  <2>3. \A x \in InFlight : x = m \/ x \in InFlight' BY <2>1, <2>2 DEF InFlight
  <2> QED BY <2>2, <2>3, DeliverGap
<1>3. ASSUME hub.at # "deliver", hub'.at # "deliver",
             UNCHANGED <<pc, stored, seen, queue, missed, reader>>,
             \A c \in TLS : wire'[c] = "up" => wire[c] = "up"
      PROVE  GapInv'
  <2>1. InFlight' = InFlight BY <1>3 DEF InFlight
  <2>2. \A c : Queued(c)' = Queued(c) BY <1>3 DEF Queued
  <2> QED BY <1>3, <2>1, <2>2, StillReached DEF Reached
<1>4. CASE HubInsert BY <1>3, <1>4 DEF HubInsert, Select
<1>5. CASE HubRemove
  <2>1. \A c \in TLS : wire'[c] = "up" => wire[c] = "up" BY <1>5 DEF HubRemove, Data, TLS
  <2> QED BY <1>3, <1>5, <2>1 DEF HubRemove, Select
<1>6. CASE HubRemoveAgain BY <1>3, <1>6 DEF HubRemoveAgain, Select
<1>7. ASSUME NEW m \in announce, HubAnnounce(m) PROVE GapInv'
  BY <1>3, <1>7 DEF HubAnnounce
<1> QED BY <1>1, <1>2, <1>4, <1>5, <1>6, <1>7 DEF HubStep

\* So does the reader of a peer.
LEMMA PeerGap ==
  ASSUME Data, OwnEntry, SessionInv, GapInv, NEW p \in Peers, PeerStep(p)
  PROVE  GapInv'
<1> USE DEF conVars, chanVars, dataVars, ioVars, hubVars
<1>1. ASSUME NEW r \in Relays[p], PeerRead(p, r) PROVE GapInv'
  <2>1. /\ \A q \in Peers : reader[q].at = "deliver" => reader'[q] = reader[q]
        /\ \A q \in Peers : reader'[q].at = "deliver" => reader'[q] = reader[q]
        /\ UNCHANGED <<pc, stored, seen, queue, missed, wire, hub>>
    BY <1>1 DEF PeerRead, Data, Reading
  <2>2. InFlight' = InFlight BY <2>1 DEF InFlight
  <2>3. \A c : Queued(c)' = Queued(c) BY <2>1 DEF Queued
  <2> QED BY <2>1, <2>2, <2>3, StillReached DEF Reached
<1>2. CASE PeerSave(p)
  <2>1. PICK m \in Message :
          /\ reader[p] = [at |-> "save", msg |-> m] /\ reader' = [reader EXCEPT ![p].at = "deliver"]
          /\ UNCHANGED <<pc, wire, seen, queue, missed, hub>>
          /\ stored' = stored \/ stored' = Append(stored, m)
    BY <1>2, ReaderTypes DEF PeerSave
  <2>2. reader'[p] = [at |-> "deliver", msg |-> m] /\ \A q \in Peers \ {p} : reader'[q] = reader[q]
    BY <2>1 DEF Data
  <2>3. InFlight' = InFlight \cup {m} BY <2>1, <2>2 DEF InFlight
  <2> QED BY <2>1, <2>3, SaveGap
<1>3. CASE PeerDeliver(p)
  <2>1. PICK m : m = reader[p].msg OBVIOUS
  <2>2. /\ m \in InFlight /\ FanOut(m) /\ reader[p].at = "deliver"
        /\ reader' = [reader EXCEPT ![p] = Reading]
        /\ UNCHANGED <<pc, wire, seen, stored, hub>>
    BY <1>3, <2>1 DEF PeerDeliver, InFlight
  <2>3. \A q \in Peers \ {p} : reader'[q] = reader[q] BY <2>2 DEF Data
  <2>4. \A x \in InFlight : x = m \/ x \in InFlight' BY <2>1, <2>2, <2>3 DEF InFlight
  <2> QED BY <2>2, <2>4, DeliverGap
<1> QED BY <1>1, <1>2, <1>3 DEF PeerStep, Reader

\* A history as long as what is stored is all of it.
LEMMA ReplayedIsAll ==
  ASSUME Data, Len(stored) <= HistoryLen PROVE Chats \subseteq Replayed
<1>1. Len(stored) \in Nat /\ HistoryLen \in Nat BY HubAssumption DEF Data
<1>2. ~(Len(stored) > HistoryLen) BY <1>1
<1> QED BY <1>2 DEF Chats, Replayed

\* A login reaches its end with all that was posted.
LEMMA ConnectGap ==
  ASSUME Control, Data, GapInv, NEW c \in Conns, Connect(c)
  PROVE  GapInv'
<1> USE DEF conVars, chanVars, dataVars, ioVars, hubVars, peerVars
<1>0. c \in SSHConns => pc[c] \notin {"login", "history"} BY DEF Control
<1>1. ASSUME UNCHANGED <<stored, queue, missed, reader>>,
             hub' = hub \/ (hub.at = "select" /\ hub'.at = "insert"),
             NEW w, pc' = [pc EXCEPT ![c] = w], c \in TLS => w \notin Live,
             \A x \in TLS : wire'[x] = "up" => wire[x] = "up",
             \A x \in TLS : seen[x] \subseteq seen'[x]
      PROVE  GapInv'
  <2>1. \A x : Queued(x)' = Queued(x) BY <1>1 DEF Queued
  <2>2. InFlight' = InFlight BY <1>1 DEF InFlight
  <2>3. \A x \in TLS : pc'[x] \in Live => pc[x] \in Live BY <1>1 DEF Control, TLS
  <2> QED BY <1>1, <2>1, <2>2, <2>3, StillReached DEF Reached
<1>2. CASE History(c)
  <2>1. /\ pc' = [pc EXCEPT ![c] = "loop"] /\ UNCHANGED <<stored, queue, missed, hub, wire, reader>>
        /\ \A x \in Conns \ {c} : seen'[x] = seen[x]
        /\ wire[c] = "up" => seen'[c] = seen[c] \cup Replayed
    BY <1>0, <1>2, AfterTypes DEF History, Goto, Data
  <2>2. ASSUME NEW x \in TLS, pc'[x] \in Live, wire'[x] = "up", Len(stored') <= HistoryLen,
               NEW m \in Chats', m.to = General
        PROVE  m \in Reached(x)'
    <3>1. m \in Chats /\ x \in Conns BY <2>1 DEF Chats, TLS
    <3>2. CASE x = c
      <4>1. m \in seen'[c] BY <2>1, <2>2, <3>1, <3>2, ReplayedIsAll
      <4> QED BY <3>2, <4>1 DEF Reached
    <3>3. CASE x # c
      <4>1. pc[x] \in Live BY <2>1, <2>2, <3>1, <3>3 DEF Control
      <4>2. m \in Reached(x)
        BY <2>1, <2>2, <3>1, <4>1 DEF GapInv, NothingMissed, TLS
      <4> QED BY <2>1, <3>1, <3>3, <4>2 DEF Reached, Queued, InFlight
    <3> QED BY <3>2, <3>3
  <2> QED BY <2>2 DEF GapInv, NothingMissed, TLS
<1>3. CASE HubRegister(c)
  <2>1. pc' = [pc EXCEPT ![c] = After(c)] /\ (c \in TLS => After(c) \notin Live)
    BY <1>3, <1>0, AfterTypes DEF HubRegister, Goto, TLS, Live, Inside
  <2> QED BY <1>1, <1>3, <2>1 DEF HubRegister
<1>4. CASE JoinGeneral(c)
  <2>1. pc' = [pc EXCEPT ![c] = After(c)] /\ (c \in TLS => After(c) \notin Live)
    BY <1>4, <1>0, AfterTypes DEF JoinGeneral, Goto, TLS, Live, Inside
  <2> QED BY <1>1, <1>4, <2>1 DEF JoinGeneral
<1>5. CASE LoginOk(c)
  <2>1. pc' = [pc EXCEPT ![c] = After(c)] /\ (c \in TLS => After(c) \notin Live)
    BY <1>5, <1>0, AfterTypes DEF LoginOk, Goto, TLS, Live, Inside
  <2> QED BY <1>1, <1>5, <2>1 DEF LoginOk
<1>6. CASE AcceptSSH(c)
  BY <1>1, <1>6 DEF AcceptSSH, Goto, TLS
<1>7. CASE Accept(c) BY <1>1, <1>7 DEF Accept, Goto, Live, Inside
<1>8. CASE Reject(c)
  <2>1. \A x \in TLS : wire'[x] = "up" => wire[x] = "up" BY <1>8 DEF Reject, Data, TLS
  <2> QED BY <1>1, <1>8, <2>1 DEF Reject, Goto, Live, Inside
<1>9. CASE LoginFail(c)
  <2>1. \A x \in TLS : wire'[x] = "up" => wire[x] = "up" BY <1>9 DEF LoginFail, Data, TLS
  <2> QED BY <1>1, <1>9, <2>1 DEF LoginFail, Goto, Live, Inside
<1> QED BY <1>2, <1>3, <1>4, <1>5, <1>6, <1>7, <1>8, <1>9 DEF Connect

\* Commands happen within a session and show nobody anything.
LEMMA CommandGap ==
  ASSUME Control, Data, GapInv, NEW c \in Conns, Command(c) \/ Dispatch(c)
  PROVE  GapInv'
<1> USE DEF conVars, chanVars, dataVars, ioVars, hubVars, peerVars
<1>1. UNCHANGED <<stored, queue, missed, hub, seen, wire, reader>>
  BY DEF Command, Chat, RefuseChat, ReplyOrDM, Info, Typing, Status, JoinRoom, LeaveRoom,
         SwitchRoom, SetRoom, Moderate, RefuseModerate, BanOnline, BanOffline, Dispatch
<1>2. /\ pc[c] \in {"dispatch", "run", "setroom", "banlock"}
      /\ \E w : pc' = [pc EXCEPT ![c] = w]
  BY DEF Command, Chat, RefuseChat, ReplyOrDM, Info, Typing, Status, JoinRoom, LeaveRoom,
         SwitchRoom, SetRoom, Moderate, RefuseModerate, BanOnline, BanOffline, Dispatch,
         Running, ReplyThen, Goto
<1>3. \A x \in TLS : pc'[x] \in Live => pc[x] \in Live BY <1>2 DEF Control, TLS, Live, Inside
<1>4. InFlight' = InFlight /\ \A x : Queued(x)' = Queued(x) BY <1>1 DEF InFlight, Queued
<1> QED BY <1>1, <1>3, <1>4, StillReached DEF Reached

\* A reply and a direct fan-out only add to the buffers; a post waits for the hub.
LEMMA FinishGap ==
  ASSUME Control, Data, GapInv, NEW c \in Conns, Finish(c)
  PROVE  GapInv'
<1> USE DEF conVars, chanVars, dataVars, ioVars, hubVars, peerVars
<1>1. job[c].then \in {"loop", "cast", "banlock"} BY DEF Control, Jobs
<1>2. /\ pc[c] \in {"reply", "push", "publish", "cast"}
      /\ \E w : pc' = [pc EXCEPT ![c] = w]
      /\ UNCHANGED <<stored, seen, wire, reader>>
      /\ hub' = hub \/ (hub.at = "select" /\ hub'.at = "save")
  BY DEF Finish, ReplyLookup, ReplyNowhere, Push, Publish, Cast, Resume, Goto
<1>3. \A x \in TLS : pc'[x] \in Live => pc[x] \in Live BY <1>2 DEF Control, TLS, Live, Inside
<1>4. InFlight' = InFlight BY <1>2 DEF InFlight
<1>5. ASSUME NEW x \in Conns PROVE Queued(x) \subseteq Queued(x)' /\ missed[x] \subseteq missed'[x]
  <2>1. CASE Push(c)
    <3>1. missed' = missed /\ (queue'[x] = queue[x] \/ queue'[x] = Append(queue[x], Answer(c)))
      BY <2>1 DEF Push, Enqueue, Data
    <3>2. Answer(c) \in Message BY MessageTypes
    <3> QED BY <3>1, <3>2, AppendQueued DEF Queued
  <2>2. CASE Cast(c)
    <3> DEFINE m == [type |-> Cmd(c), conn |-> c, n |-> 0, sender |-> job[c].user,
                     to |-> IF Cmd(c) = "typing" THEN job[c].room ELSE None]
    <3>1. Cmd(c) \in {"typing", "status"} BY <2>2 DEF Cast, Control, JobOK
    <3>2. m \in Message
      <4>1. job[c].user \in Users \cup {None} /\ job[c].room \in Rooms \cup {None}
        BY DEF Control, Jobs
      <4> QED BY <3>1, <4>1, HubAssumption DEF Message
    <3>3. FanOut(m) BY <2>2 DEF Cast
    <3> HIDE DEF m
    <3> QED BY <3>2, <3>3, FanOutKeeps
  <2>3. CASE ReplyLookup(c) \/ ReplyNowhere(c) \/ Publish(c)
    BY <2>3 DEF ReplyLookup, ReplyNowhere, Publish, Queued
  <2> QED BY <2>1, <2>2, <2>3 DEF Finish
<1>6. \A x \in TLS : x \in Conns BY DEF TLS
<1> QED BY <1>2, <1>3, <1>4, <1>5, <1>6, StillReached DEF Reached

\* The pump writes the head of the buffer; a connection that is down asks nothing more.
LEMMA DepartGap ==
  ASSUME Control, Data, GapInv, NEW c \in Conns, Depart(c) \/ Pump(c) \/ Environment(c)
  PROVE  GapInv'
<1> USE DEF conVars, chanVars, dataVars, ioVars, hubVars, peerVars
<1>1. CASE PumpWrite(c)
  <2>1. queue[c] \in Seq(Message) /\ queue[c] # <<>> BY <1>1 DEF PumpWrite, Data
  <2>2. /\ queue' = [queue EXCEPT ![c] = Tail(queue[c])]
        /\ UNCHANGED <<stored, missed, hub, wire, pc, reader>>
        /\ Head(queue[c]).type = "chat" => seen' = [seen EXCEPT ![c] = @ \cup {Head(queue[c])}]
        /\ Head(queue[c]).type # "chat" => seen' = seen
    BY <1>1 DEF PumpWrite
  <2>3. ASSUME NEW x \in TLS, NEW m \in Chats, m \in seen[x] \cup Queued(x) \cup missed[x]
        PROVE  m \in seen'[x] \cup Queued(x)' \cup missed'[x]
    <3>1. x \in Conns /\ m.type = "chat" BY DEF TLS, Chats
    <3>2. seen[x] \subseteq seen'[x] BY <2>2, <3>1, ZenonT(60) DEF Data
    <3>3. CASE x # c BY <2>2, <2>3, <3>1, <3>2, <3>3 DEF Queued, Data
    <3>4. CASE x = c /\ m \in Queued(x)
      <4>1. PICK i \in 1..Len(queue[c]) : queue[c][i] = m BY <3>4 DEF Queued
      <4>2. queue'[c] = Tail(queue[c]) BY <2>2 DEF Data
      <4>3. CASE i = 1
        <5>1. m = Head(queue[c]) BY <2>1, <4>1, <4>3
        <5>2. m \in seen'[c] BY <2>2, <3>1, <5>1 DEF Data
        <5> QED BY <3>4, <5>2
      <4>4. CASE i # 1
        <5>1. /\ Len(queue[c]) \in Nat /\ Len(Tail(queue[c])) = Len(queue[c]) - 1
              /\ \A k \in 1..Len(Tail(queue[c])) : Tail(queue[c])[k] = queue[c][k + 1]
          BY <2>1
        <5>2. i - 1 \in 1..Len(Tail(queue[c])) /\ (i - 1) + 1 = i BY <4>1, <4>4, <5>1
        <5>3. queue'[c][i - 1] = m BY <4>1, <4>2, <5>1, <5>2
        <5>4. m \in Queued(c)' BY <4>2, <5>2, <5>3 DEF Queued
        <5> QED BY <3>4, <5>4
      <4> QED BY <4>3, <4>4
    <3>5. CASE x = c /\ m \notin Queued(x) BY <2>2, <2>3, <3>2, <3>5
    <3> QED BY <3>3, <3>4, <3>5
  <2>4. InFlight' = InFlight BY <2>2 DEF InFlight
  <2> QED BY <2>2, <2>3, <2>4, StillReached DEF Reached
<1>2. ASSUME UNCHANGED <<stored, queue, missed, seen, reader>>,
             hub' = hub \/ (hub.at = "select" /\ hub'.at = "remove"),
             \A x \in TLS : pc'[x] \in Live => pc[x] \in Live,
             \A x \in TLS : wire'[x] = "up" => wire[x] = "up"
      PROVE  GapInv'
  <2>1. InFlight' = InFlight /\ \A x : Queued(x)' = Queued(x) BY <1>2 DEF InFlight, Queued
  <2> QED BY <1>2, <2>1, StillReached DEF Reached
<1>3. CASE PumpEnd(c) \/ Hangup(c) \/ ScanEnd(c)
  <2>1. \A x \in TLS : wire'[x] = "up" => wire[x] = "up"
    BY <1>3 DEF PumpEnd, Hangup, ScanEnd, Data, TLS
  <2> QED BY <1>2, <1>3, <2>1 DEF PumpEnd, Hangup, ScanEnd
<1>4. CASE ScanUnregister(c) BY <1>2, <1>4 DEF ScanUnregister
<1>5. ASSUME pc[c] \in {"loop", "bye"}, \E w : pc' = [pc EXCEPT ![c] = w]
      PROVE  \A x \in TLS : pc'[x] \in Live => pc[x] \in Live
  BY <1>5 DEF Control, TLS, Live, Inside
<1>6. CASE ReadFail(c)
  <2>1. pc[c] = "loop" /\ \E w : pc' = [pc EXCEPT ![c] = w] BY <1>6 DEF ReadFail, Goto
  <2>2. \A x \in TLS : pc'[x] \in Live => pc[x] \in Live BY <1>5, <2>1
  <2> QED BY <1>2, <1>6, <2>2 DEF ReadFail
<1>7. CASE HubUnregister(c)
  <2>1. pc[c] = "bye" /\ \E w : pc' = [pc EXCEPT ![c] = w] BY <1>7 DEF HubUnregister, Goto
  <2>2. \A x \in TLS : pc'[x] \in Live => pc[x] \in Live BY <1>5, <2>1
  <2> QED BY <1>2, <1>7, <2>2 DEF HubUnregister
<1>8. ASSUME NEW i \in Inputs[c], ReadInput(c, i) PROVE GapInv'
  <2>1. pc[c] = "loop" /\ \E w : pc' = [pc EXCEPT ![c] = w] BY <1>8 DEF ReadInput, Goto
  <2>2. \A x \in TLS : pc'[x] \in Live => pc[x] \in Live BY <1>5, <2>1
  <2> QED BY <1>2, <1>8, <2>2 DEF ReadInput
<1> QED BY <1>1, <1>3, <1>4, <1>6, <1>7, <1>8 DEF Depart, Pump, Environment

\* Every step keeps it.
LEMMA NextGap == ASSUME Typed, MailInv, SessionInv, GapInv, [Next]_vars PROVE GapInv'
<1>1. Control /\ Data /\ OwnEntry BY TypedParts DEF MailInv
<1>2. ASSUME NEW c \in Conns, Handler(c) \/ Environment(c) PROVE GapInv'
  BY <1>1, <1>2, ConnectGap, CommandGap, FinishGap, DepartGap DEF Handler
<1>3. CASE UNCHANGED vars
  <2>1. UNCHANGED <<stored, queue, missed, seen, hub, pc, wire, reader>>
    BY <1>3 DEF vars, conVars, chanVars, dataVars, ioVars, hubVars, peerVars
  <2>2. InFlight' = InFlight /\ \A x : Queued(x)' = Queued(x) BY <2>1 DEF InFlight, Queued
  <2> QED BY <2>1, <2>2, StillReached DEF Reached
<1> QED BY <1>1, <1>2, <1>3, HubGap, PeerGap DEF Next

\* The history replayed at login and the live messages leave one gap between them and no
\* other: as long as the node holds no more than a history, and nobody leaves #general,
\* every #general chat that is stored was shown to each TLS client in its loop, waits in
\* its buffer, is about to be delivered, or was fanned out past it: on a full buffer, or
\* by the reader of a peer while the hub had the registration in hand.  So it is however
\* logins, posts, pumps, peer readers and hub interleave (client.go:139-160,
\* node.go:229-231, 269-277, peer.go:231-247).
THEOREM HistoryLeavesNoGap ==
  NobodyLeavesGeneral => (Spec => [](Len(stored) <= HistoryLen => NoGap))
<1> SUFFICES ASSUME NobodyLeavesGeneral PROVE Spec => [](Len(stored) <= HistoryLen => NoGap)
  OBVIOUS
<1>1. Init => SessionInv /\ GapInv
  <2> SUFFICES ASSUME Init PROVE SessionInv /\ GapInv OBVIOUS
  <2>1. /\ hub = [at |-> "select"] /\ hub.at = "select"
        /\ \A c \in Conns : pc[c] = "idle" /\ scan[c] = "off"
    BY DEF Init, Select
  <2>2. \A c \in Conns : hub # [at |-> "remove", conn |-> c] BY <2>1
  <2>3. "idle" \notin Inside /\ "idle" \notin Live BY DEF Inside, Live
  <2> QED BY <2>1, <2>2, <2>3 DEF SessionInv, JobIsInput, OpenSession, StaysInGeneral, GapInv,
                                  NothingMissed
<1>2. Typed /\ MailInv /\ SessionInv /\ GapInv /\ [Next]_vars => (SessionInv /\ GapInv)'
  BY NextSession, NextGap
<1>3. SessionInv /\ GapInv => (Len(stored) <= HistoryLen => NoGap)
  BY DEF GapInv, NothingMissed, NoGap, Reached, Live, Inside
<1> QED BY <1>1, <1>2, <1>3, AlwaysMail, PTL DEF Spec
=============================================================================
