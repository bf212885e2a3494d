------------------------------ MODULE Accounts ------------------------------
(***************************************************************************)
(* The accounts of internal/auth/auth.go, the commands that change them    *)
(* (client.go, commands.go) and the file they are saved to through         *)
(* internal/fileutil.                                                      *)
(*                                                                         *)
(* Every change marshals the whole table and writes it to users.json.tmp,  *)
(* which is then renamed to users.json, all under a.mu: a node does one    *)
(* thing at a time, but nodes started in one directory share both files.   *)
(* How often a password may be tried is in Lockout.                        *)
(***************************************************************************)
EXTENDS Integers, FiniteSets

CONSTANTS
  Nodes,      \* the processes started in one directory
  Users,      \* names
  AdminName,  \* the name "admin", which the migration makes an administrator
  Legacy,     \* the users of the users.json in the old format, when there is one
  Choices,    \* bound: what users set with /status; "away" stands for dnd and idle too
  Verdicts,   \* bound: what administrators decide
  MaxFaults   \* bound: failed writes

ASSUME AccountsAssumption ==
  /\ Legacy \subseteq Users
  /\ Choices \subseteq {"online", "away", "offline"}
  /\ Verdicts \subseteq {"banned", "muted", "online"}
  /\ MaxFaults \in Nat

Nobody == [role |-> "none", status |-> "none"]
Profile == [role : {"admin", "member"}, status : {"online", "away", "offline", "muted", "banned"}]
Tables == [Users -> Profile \cup {Nobody}]
NoTable == [u \in Users |-> Nobody]

\* "empty" is a file just truncated, "torn" one that is neither old nor new.
Files == [form : {"none", "empty", "torn", "old", "new"}, table : Tables]
NoFile == [form |-> "none", table |-> NoTable]
EmptyFile == [form |-> "empty", table |-> NoTable]
TornFile == [form |-> "torn", table |-> NoTable]
New(table) == [form |-> "new", table |-> table]

VARIABLES
  up,        \* the process runs
  started,   \* the nodes that were ever started
  users,     \* a.users
  dirty,     \* a.dirty
  saving,    \* where AtomicWriteFile is: "no", "write", "rename", "remove"
  fd,        \* what the file being written is called by now
  joining,   \* the user being registered, if any
  sessions,  \* users logged in at each node
  file,      \* users.json
  tmp,       \* users.json.tmp
  acked,     \* users told that they are registered
  faults     \* failed writes so far

procVars == <<up, started>>
memVars == <<users, dirty>>
ioVars == <<saving, fd, tmp>>
vars == <<procVars, memVars, ioVars, joining, sessions, file, acked, faults>>

Has(table, u) == table[u] # Nobody
Present(table) == {u \in Users : Has(table, u)}
Admins(table) == {u \in Users : table[u].role = "admin"}

\* The users of the old format, which only has names and hashes.
Migrated ==
  [u \in Users |->
     IF u \in Legacy
     THEN [role |-> IF u = AdminName THEN "admin" ELSE "member", status |-> "offline"]
     ELSE Nobody]

Init ==
  /\ up = [n \in Nodes |-> FALSE]
  /\ started = {}
  /\ users = [n \in Nodes |-> NoTable]
  /\ dirty = [n \in Nodes |-> FALSE]
  /\ saving = [n \in Nodes |-> "no"]
  /\ fd = [n \in Nodes |-> "lost"]
  /\ joining = [n \in Nodes |-> {}]
  /\ sessions = [n \in Nodes |-> {}]
  /\ file \in {NoFile, [form |-> "old", table |-> Migrated]}
  /\ tmp = NoFile
  /\ acked = Present(file.table)
  /\ faults = 0

-----------------------------------------------------------------------------
(* Saving: saveIfDirty and AtomicWriteFile *)

\* os.WriteFile opens the temporary file and truncates it, whoever else has it open.
Open(n) ==
  /\ saving' = [saving EXCEPT ![n] = "write"]
  /\ fd' = [fd EXCEPT ![n] = "tmp"]
  /\ tmp' = EmptyFile

\* Writing over what another process has written since may leave a mixture.
Overwritten(old, new) == IF old \in {EmptyFile, new} THEN {new} ELSE {new, TornFile}

\* Fault: users.json is written in place.
FaultyPut(n, contents) == file' \in contents /\ UNCHANGED tmp
\* What reaches the disk goes to whatever the open file is called by now.
Put(n, contents) ==
  /\ IF fd[n] = "tmp" THEN tmp' \in contents ELSE UNCHANGED tmp
  /\ IF fd[n] = "file" THEN file' \in contents ELSE UNCHANGED file

Write(n) ==
  /\ saving[n] = "write"
  /\ Put(n, Overwritten(IF fd[n] = "file" THEN file ELSE tmp, New(users[n])))
  /\ saving' = [saving EXCEPT ![n] = "rename"]
  /\ UNCHANGED <<procVars, memVars, fd, joining, sessions, acked, faults>>

\* The answer to a registration says nothing about the save.
Answered(n) ==
  /\ acked' = acked \cup joining[n]
  /\ joining' = [joining EXCEPT ![n] = {}]

\* Fault: the save counts as done although it failed.
FaultyStillDirty(n) == [dirty EXCEPT ![n] = FALSE]
StillDirty(n) == dirty

\* The disk is full: part of the data is written, and the change is kept in memory.
WriteFails(n) ==
  /\ saving[n] = "write" /\ faults < MaxFaults
  /\ faults' = faults + 1
  /\ Put(n, {TornFile})
  /\ saving' = [saving EXCEPT ![n] = "no"]
  /\ dirty' = StillDirty(n)
  /\ Answered(n)
  /\ UNCHANGED <<procVars, users, fd, sessions>>

\* Whoever still has the old temporary file open now writes to users.json.
Renamed(m) == IF fd[m] = "tmp" THEN "file" ELSE "lost"

Rename(n) ==
  /\ saving[n] = "rename" /\ tmp # NoFile
  /\ file' = tmp
  /\ tmp' = NoFile
  /\ fd' = [m \in Nodes |-> Renamed(m)]
  /\ saving' = [saving EXCEPT ![n] = "no"]
  /\ dirty' = [dirty EXCEPT ![n] = FALSE]
  /\ Answered(n)
  /\ UNCHANGED <<procVars, users, sessions, faults>>

\* Another process has renamed it.
RenameFails(n) ==
  /\ saving[n] = "rename" /\ tmp = NoFile
  /\ saving' = [saving EXCEPT ![n] = "remove"]
  /\ UNCHANGED <<procVars, memVars, fd, tmp, joining, sessions, file, acked, faults>>

\* os.Remove, whoever's file it is by now.
Remove(n) ==
  /\ saving[n] = "remove"
  /\ tmp' = NoFile
  /\ fd' = [m \in Nodes |-> IF fd[m] = "tmp" THEN "lost" ELSE fd[m]]
  /\ saving' = [saving EXCEPT ![n] = "no"]
  /\ Answered(n)
  /\ UNCHANGED <<procVars, memVars, sessions, file, faults>>

-----------------------------------------------------------------------------
(* The operations of the Authenticator; each holds a.mu until it has saved *)

Idle(n) == up[n] /\ saving[n] = "no"

\* A node changes a profile, and begins to save.
Change(n, u, profile) ==
  /\ Idle(n)
  /\ users' = [users EXCEPT ![n] = [@ EXCEPT ![u] = profile]]
  /\ dirty' = [dirty EXCEPT ![n] = TRUE]
  /\ Open(n)

\* Fault: off by one.
FaultyRoleOfNext(table) == IF Cardinality(Present(table)) <= 1 THEN "admin" ELSE "member"
\* The first user is the administrator.
RoleOfNext(table) == IF Present(table) = {} THEN "admin" ELSE "member"

Register(n, u) ==
  /\ ~Has(users[n], u)
  /\ Change(n, u, [role |-> RoleOfNext(users[n]), status |-> "offline"])
  /\ joining' = [joining EXCEPT ![n] = {u}]
  /\ UNCHANGED <<procVars, sessions, file, acked, faults>>

\* For a name that is not registered nothing happens.
SetStatus(n, u, status) ==
  /\ Has(users[n], u)
  /\ Change(n, u, [users[n][u] EXCEPT !.status = status])

\* Fault: only the password is checked.
FaultyAdmitted(n, u) == TRUE
Admitted(n, u) == users[n][u].status # "banned"

\* Check, with the right password and no lockout; every other outcome changes
\* nothing here.
Login(n, u) ==
  /\ Admitted(n, u)
  /\ SetStatus(n, u, "online")
  /\ sessions' = [sessions EXCEPT ![n] = @ \cup {u}]
  /\ UNCHANGED <<procVars, joining, file, acked, faults>>

Logout(n, u) ==
  /\ u \in sessions[n]
  /\ sessions' = [sessions EXCEPT ![n] = @ \ {u}]
  /\ UNCHANGED <<procVars, memVars, ioVars, joining, file, acked, faults>>

\* /status
UserStatus(n, u) ==
  /\ u \in sessions[n]
  /\ \E status \in Choices : SetStatus(n, u, status)
  /\ UNCHANGED <<procVars, joining, sessions, file, acked, faults>>

\* /ban, /mute and /unmute, by an administrator.  A user who is banned keeps the
\* session until the hub ends it.
Moderate(n, by, u, verdict) ==
  /\ by \in sessions[n] /\ users[n][by].role = "admin"
  /\ SetStatus(n, u, verdict)
  /\ UNCHANGED <<procVars, joining, sessions, file, acked, faults>>

-----------------------------------------------------------------------------
(* Start and crash *)

\* Fault: the old format is tried, the new one is not.
FaultyLoaded == IF file.form = "old" THEN file.table ELSE NoTable
\* A file that cannot be parsed counts as none.
Loaded == IF file.form \in {"old", "new"} THEN file.table ELSE NoTable

\* The old format is migrated, and saved at once.
Start(n) ==
  /\ ~up[n]
  /\ up' = [up EXCEPT ![n] = TRUE]
  /\ started' = started \cup {n}
  /\ users' = [users EXCEPT ![n] = Loaded]
  /\ IF file.form = "old"
     THEN Open(n) /\ dirty' = [dirty EXCEPT ![n] = TRUE]
     ELSE UNCHANGED <<ioVars, dirty>>
  /\ UNCHANGED <<joining, sessions, file, acked, faults>>

Crash(n) ==
  /\ up[n]
  /\ up' = [up EXCEPT ![n] = FALSE]
  /\ users' = [users EXCEPT ![n] = NoTable]
  /\ dirty' = [dirty EXCEPT ![n] = FALSE]
  /\ saving' = [saving EXCEPT ![n] = "no"]
  /\ fd' = [fd EXCEPT ![n] = "lost"]
  /\ joining' = [joining EXCEPT ![n] = {}]
  /\ sessions' = [sessions EXCEPT ![n] = {}]
  /\ UNCHANGED <<started, file, tmp, acked, faults>>

Save(n) == Write(n) \/ WriteFails(n) \/ Rename(n) \/ RenameFails(n) \/ Remove(n)

Next ==
  \E n \in Nodes :
    \/ Save(n) \/ Start(n) \/ Crash(n)
    \/ \E u \in Users : \/ Register(n, u) \/ Login(n, u) \/ Logout(n, u) \/ UserStatus(n, u)
                        \/ \E by \in Users, verdict \in Verdicts : Moderate(n, by, u, verdict)

Spec == Init /\ [][Next]_vars

-----------------------------------------------------------------------------
(* Properties *)

\* Every variable has its type.
TypeOK ==
  /\ up \in [Nodes -> BOOLEAN]
  /\ started \in SUBSET Nodes
  /\ users \in [Nodes -> Tables]
  /\ dirty \in [Nodes -> BOOLEAN]
  /\ saving \in [Nodes -> {"no", "write", "rename", "remove"}]
  /\ fd \in [Nodes -> {"tmp", "file", "lost"}]
  /\ joining \in [Nodes -> SUBSET Users]
  /\ sessions \in [Nodes -> SUBSET Users]
  /\ file \in Files /\ tmp \in Files
  /\ acked \in SUBSET Users
  /\ faults \in 0..MaxFaults

\* No second process was started in the directory.
Alone == \A m, n \in started : m = n

\* "This prevents data corruption if the process crashes mid-write"
\* (fileutil.go:8-9): users.json is never half written, whenever a write fails or
\* the process dies; with a second process it is left empty (see the README).
FileIsWhole == Alone => file.form \notin {"empty", "torn"}

\* Memory and file differ only as long as the node knows (auth.go:250-264): a
\* save that failed is not forgotten.
CleanIsSaved == Alone => \A n \in Nodes : Idle(n) /\ ~dirty[n] => users[n] = Loaded

\* As long as no write has failed, who was told to be registered still is after
\* a crash at any point, and so is everyone of the old format (auth.go:140-176,
\* 266-307).
AckedIsOnFile == Alone /\ faults = 0 => acked \subseteq Present(file.table)

\* Nobody but the first user gets the admin role, whatever file a node is
\* started from (auth.go:160-164, 290-303).
OneAdmin == \A n \in Nodes : Cardinality(Admins(users[n])) <= 1

\* A ban ends only by an administrator, with the process, or by the /status of a
\* session that began before it: no login gets past it (auth.go:74-75, 92-117).
BanHolds ==
  [][\A n \in Nodes, u \in Users :
       users[n][u].status = "banned" /\ users'[n][u].status # "banned" =>
         \/ ~up'[n]
         \/ \E by \in Users, verdict \in Verdicts : Moderate(n, by, u, verdict)
         \/ UserStatus(n, u)]_vars
=============================================================================
