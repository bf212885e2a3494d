--------------------------- MODULE AccountsProofs ---------------------------
(***************************************************************************)
(* The types of the accounts for any number of processes; and, as long as  *)
(* only one of them was started, that users.json is never half written,    *)
(* that a failed save is not forgotten, and that no acknowledged           *)
(* registration is lost.  For any number of them, that none of them has    *)
(* two administrators, whatever was left of the files, and that bans hold. *)
(***************************************************************************)
EXTENDS Accounts, FiniteSetTheorems, TLAPS

\* The constant tables and files have their types.
LEMMA FileTypes ==
  /\ NoTable \in Tables /\ Migrated \in Tables
  /\ NoFile \in Files /\ EmptyFile \in Files /\ TornFile \in Files
  /\ \A t \in Tables : New(t) \in Files
<1>1. NoTable \in Tables /\ Migrated \in Tables
  BY DEF NoTable, Migrated, Tables, Profile
<1> QED
  BY <1>1 DEF NoFile, EmptyFile, TornFile, New, Files

\* What is put on the disk is a file.
LEMMA PutTypes ==
  ASSUME TypeOK, NEW n \in Nodes, NEW contents \in SUBSET Files, Put(n, contents)
  PROVE  file' \in Files /\ tmp' \in Files
BY DEF Put, TypeOK

\* A node changes one profile and opens the temporary file.
LEMMA ChangeTypes ==
  ASSUME TypeOK, NEW n \in Nodes, NEW u \in Users, NEW p \in Profile, Change(n, u, p)
  PROVE  /\ users' \in [Nodes -> Tables] /\ dirty' \in [Nodes -> BOOLEAN]
         /\ saving' \in [Nodes -> {"no", "write", "rename", "remove"}]
         /\ fd' \in [Nodes -> {"tmp", "file", "lost"}] /\ tmp' \in Files
<1>1. [users[n] EXCEPT ![u] = p] \in Tables
  BY DEF TypeOK, Tables
<1> QED
  BY <1>1, FileTypes DEF Change, Open, TypeOK

\* A change of status leaves a profile.
LEMMA StatusTypes ==
  ASSUME TypeOK, NEW n \in Nodes, NEW u \in Users, Has(users[n], u),
         NEW status \in {"online", "away", "offline", "muted", "banned"}
  PROVE  [users[n][u] EXCEPT !.status = status] \in Profile
<1>1. users[n][u] \in Profile
  BY DEF TypeOK, Tables, Has
<1> QED
  BY <1>1 DEF Profile

\* The steps of a save keep the types.
LEMMA SaveTypes ==
  ASSUME TypeOK, NEW n \in Nodes, Save(n)
  PROVE  TypeOK'
<1>1. CASE Write(n)
  <2>1. Overwritten(IF fd[n] = "file" THEN file ELSE tmp, New(users[n])) \in SUBSET Files
    BY FileTypes DEF TypeOK, Overwritten
  <2>2. file' \in Files /\ tmp' \in Files
    BY <1>1, <2>1, PutTypes DEF Write
  <2> QED
    BY <1>1, <2>2 DEF Write, TypeOK, procVars, memVars
<1>2. CASE WriteFails(n)
  <2>1. file' \in Files /\ tmp' \in Files
    BY <1>2, FileTypes, PutTypes DEF WriteFails
  <2>2. faults' \in 0..MaxFaults
    BY <1>2, AccountsAssumption DEF WriteFails, TypeOK
  <2> QED
    BY <1>2, <2>1, <2>2 DEF WriteFails, StillDirty, Answered, TypeOK, procVars
<1>3. CASE Rename(n)
  BY <1>3, FileTypes DEF Rename, Renamed, Answered, TypeOK, procVars
<1>4. CASE RenameFails(n)
  BY <1>4 DEF RenameFails, TypeOK, procVars, memVars
<1>5. CASE Remove(n)
  BY <1>5, FileTypes DEF Remove, Answered, TypeOK, procVars, memVars
<1> QED
  BY <1>1, <1>2, <1>3, <1>4, <1>5 DEF Save

\* The operations keep the types.
LEMMA OperationTypes ==
  ASSUME TypeOK, NEW n \in Nodes, NEW u \in Users,
         \/ Register(n, u) \/ Login(n, u) \/ Logout(n, u) \/ UserStatus(n, u)
         \/ \E by \in Users, verdict \in Verdicts : Moderate(n, by, u, verdict)
  PROVE  TypeOK'
<1>1. CASE Register(n, u)
  <2>1. [role |-> RoleOfNext(users[n]), status |-> "offline"] \in Profile
    BY DEF RoleOfNext, Profile
  <2> QED
    BY <1>1, <2>1, ChangeTypes DEF Register, TypeOK, procVars
<1>2. CASE Login(n, u)
  BY <1>2, StatusTypes, ChangeTypes DEF Login, SetStatus, TypeOK, procVars
<1>3. CASE Logout(n, u)
  BY <1>3 DEF Logout, TypeOK, procVars, memVars, ioVars
<1>4. CASE UserStatus(n, u)
  BY <1>4, StatusTypes, ChangeTypes, AccountsAssumption DEF UserStatus, SetStatus, TypeOK, procVars
<1>5. CASE \E by \in Users, verdict \in Verdicts : Moderate(n, by, u, verdict)
  <2> PICK by \in Users, verdict \in Verdicts : Moderate(n, by, u, verdict)
    BY <1>5
  <2>1. verdict \in {"online", "away", "offline", "muted", "banned"}
    BY AccountsAssumption
  <2> QED
    BY <2>1, StatusTypes, ChangeTypes DEF Moderate, SetStatus, TypeOK, procVars
<1> QED
  BY <1>1, <1>2, <1>3, <1>4, <1>5

\* Starting and crashing keep the types.
LEMMA ProcessTypes ==
  ASSUME TypeOK, NEW n \in Nodes, Start(n) \/ Crash(n)
  PROVE  TypeOK'
<1>1. CASE Start(n)
  <2>1. Loaded \in Tables
    BY FileTypes DEF Loaded, TypeOK, Files
  <2> QED
    BY <1>1, <2>1, FileTypes DEF Start, Open, ioVars, TypeOK
<1>2. CASE Crash(n)
  BY <1>2, FileTypes DEF Crash, TypeOK
<1> QED
  BY <1>1, <1>2

\* Every step keeps the types.
LEMMA NextTypes == TypeOK /\ [Next]_vars => TypeOK'
<1>1. ASSUME TypeOK, UNCHANGED vars PROVE TypeOK'
  BY <1>1 DEF vars, procVars, memVars, ioVars, TypeOK
<1> QED
  BY <1>1, SaveTypes, OperationTypes, ProcessTypes DEF Next

\* The initial state has the types.
LEMMA InitTypes == Init => TypeOK
BY FileTypes, AccountsAssumption DEF Init, TypeOK, Files, Present

\* The variables of the accounts have their types, for any number of processes
\* (auth.go:20-47).
THEOREM AccountTypes == Spec => []TypeOK
<1> QED
  BY InitTypes, NextTypes, PTL DEF Spec

-----------------------------------------------------------------------------
(* Which process is alone *)

Quiet(m) == ~up[m] /\ saving[m] = "no" /\ joining[m] = {}
Others(n) == \A m \in Nodes : m # n => Quiet(m)

\* A process that was never started has done nothing.
StartedInv == \A m \in Nodes : m \notin started => Quiet(m)

\* The operations of an Authenticator, all but the end of a session.
Operation(n, u) ==
  \/ Register(n, u) \/ Login(n, u) \/ UserStatus(n, u)
  \/ \E by \in Users, verdict \in Verdicts : Moderate(n, by, u, verdict)

\* An operation changes one profile and begins to save.
LEMMA OperationChanges ==
  ASSUME TypeOK, NEW n \in Nodes, NEW u \in Users, Operation(n, u)
  PROVE  /\ \E p \in Profile : Change(n, u, p)
         /\ UNCHANGED <<procVars, file, acked, faults>>
         /\ joining' \in {joining, [joining EXCEPT ![n] = {u}]}
<1>1. CASE Register(n, u)
  <2>1. [role |-> RoleOfNext(users[n]), status |-> "offline"] \in Profile
    BY DEF RoleOfNext, Profile
  <2> QED
    BY <1>1, <2>1 DEF Register
<1>2. ASSUME NEW status \in {"online", "away", "offline", "muted", "banned"},
             SetStatus(n, u, status)
      PROVE  \E p \in Profile : Change(n, u, p)
  BY <1>2, StatusTypes DEF SetStatus
<1>3. CASE Login(n, u) \/ UserStatus(n, u)
           \/ \E by \in Users, verdict \in Verdicts : Moderate(n, by, u, verdict)
  <2>1. \E status \in {"online", "away", "offline", "muted", "banned"} : SetStatus(n, u, status)
    BY <1>3, AccountsAssumption DEF Login, UserStatus, Moderate
  <2> QED
    BY <1>2, <1>3, <2>1 DEF Login, UserStatus, Moderate
<1> QED
  BY <1>1, <1>3 DEF Operation

\* The process whose step it is does what it does for itself.
LEMMA OthersStay ==
  ASSUME TypeOK, NEW n \in Nodes, Others(n),
         Save(n) \/ Start(n) \/ Crash(n) \/ \E u \in Users : Operation(n, u)
  PROVE  Others(n)'
<1>1. CASE Save(n)
  BY <1>1 DEF Save, Write, WriteFails, Rename, RenameFails, Remove, Answered, Others, Quiet,
              TypeOK, procVars
<1>2. CASE Start(n) \/ Crash(n)
  BY <1>2 DEF Start, Crash, Open, Others, Quiet, TypeOK, ioVars
<1>3. CASE \E u \in Users : Operation(n, u)
  <2> PICK u \in Users : Operation(n, u)
    BY <1>3
  <2>1. PICK p \in Profile : Change(n, u, p)
    BY OperationChanges
  <2>2. up' = up /\ joining' \in {joining, [joining EXCEPT ![n] = {u}]}
    BY OperationChanges DEF procVars
  <2> QED
    BY <2>1, <2>2 DEF Change, Open, Others, Quiet, TypeOK
<1> QED
  BY <1>1, <1>2, <1>3

\* Only Start adds to the started processes.
LEMMA StartedGrows == TypeOK /\ [Next]_vars => started \subseteq started'
<1>1. ASSUME NEW n \in Nodes, Save(n) \/ Start(n) \/ Crash(n) PROVE started \subseteq started'
  BY <1>1 DEF Save, Write, WriteFails, Rename, RenameFails, Remove, Start, Crash, procVars
<1>2. ASSUME TypeOK, NEW n \in Nodes, NEW u \in Users, Operation(n, u) \/ Logout(n, u)
      PROVE  started \subseteq started'
  BY <1>2, OperationChanges DEF Logout, procVars
<1> QED
  BY <1>1, <1>2 DEF Next, Operation, vars, procVars

\* The processes that were never started stay so, or are started.
LEMMA NextStarted == TypeOK /\ StartedInv /\ [Next]_vars => StartedInv'
<1> SUFFICES ASSUME TypeOK, StartedInv, [Next]_vars, NEW m \in Nodes, m \notin started'
             PROVE  Quiet(m)'
  BY DEF StartedInv
<1>1. Quiet(m)
  BY StartedGrows DEF StartedInv
<1>2. ASSUME NEW n \in Nodes, Save(n) \/ Crash(n) PROVE Quiet(m)'
  BY <1>1, <1>2 DEF Save, Write, WriteFails, Rename, RenameFails, Remove, Answered, Crash,
                    Quiet, TypeOK, procVars
<1>3. ASSUME NEW n \in Nodes, Start(n) PROVE Quiet(m)'
  <2>1. m # n
    BY <1>3 DEF Start
  <2> QED
    BY <1>1, <1>3, <2>1 DEF Start, Open, Quiet, TypeOK, ioVars
<1>4. ASSUME NEW n \in Nodes, NEW u \in Users, Operation(n, u) PROVE Quiet(m)'
  <2>1. PICK p \in Profile : Change(n, u, p)
    BY <1>4, OperationChanges
  <2>2. up' = up /\ joining' \in {joining, [joining EXCEPT ![n] = {u}]}
    BY <1>4, OperationChanges DEF procVars
  <2>3. m # n
    BY <1>1, <2>1 DEF Change, Idle, Quiet
  <2> QED
    BY <1>1, <2>1, <2>2, <2>3 DEF Change, Open, Quiet, TypeOK
<1>5. ASSUME NEW n \in Nodes, NEW u \in Users, Logout(n, u) PROVE Quiet(m)'
  BY <1>1, <1>5 DEF Logout, Quiet, procVars, ioVars
<1>6. CASE UNCHANGED vars
  BY <1>1, <1>6 DEF vars, Quiet, procVars, ioVars
<1> QED
  BY <1>2, <1>3, <1>4, <1>5, <1>6 DEF Next, Operation

\* While one process is alone, whoever takes a step other than Logout is that one.
LEMMA ActorIsAlone ==
  ASSUME TypeOK, StartedInv, [Next]_vars, Alone', NEW n \in Nodes,
         Save(n) \/ Start(n) \/ Crash(n) \/ \E u \in Users : Operation(n, u)
  PROVE  Others(n)
<1>1. n \in started'
  <2>1. CASE Start(n)
    BY <2>1 DEF Start
  <2>2. CASE Save(n) \/ Crash(n) \/ \E u \in Users : Operation(n, u)
    <3>1. ~Quiet(n)
      <4>1. CASE Save(n)
        BY <4>1 DEF Save, Write, WriteFails, Rename, RenameFails, Remove, Quiet
      <4>2. CASE Crash(n)
        BY <4>2 DEF Crash, Quiet
      <4>3. CASE \E u \in Users : Operation(n, u)
        BY <4>3, OperationChanges DEF Change, Idle, Quiet
      <4> QED
        BY <2>2, <4>1, <4>2, <4>3
    <3> QED
      BY <3>1, StartedGrows DEF StartedInv
  <2> QED
    BY <2>1, <2>2
<1> QED
  BY <1>1, StartedGrows DEF Alone, StartedInv, Others

-----------------------------------------------------------------------------
(* A process alone in its directory *)

\* What the temporary file holds at each stage of a save, and that the node is
\* dirty meanwhile.
SaveInv ==
  \A n \in Nodes :
    /\ saving[n] # "no" => up[n] /\ dirty[n]
    /\ saving[n] = "write" => fd[n] = "tmp" /\ tmp = EmptyFile
    /\ saving[n] = "rename" => tmp = New(users[n])
    /\ saving[n] # "remove"

\* users.json can be read, and what is read from it is its table.
Readable == file.form \notin {"empty", "torn"} /\ (file.form = "none" => file.table = NoTable)

\* Memory and file agree, or the node is dirty.
InStep == \A n \in Nodes : Idle(n) /\ ~dirty[n] => users[n] = Loaded

SoloInv == SaveInv /\ Readable /\ InStep

\* Inductive, for any number of processes.
DirInv == TypeOK /\ StartedInv /\ (Alone => SoloInv)

\* What is loaded from a file that can be read is its table.
LEMMA LoadedIsTable == TypeOK /\ Readable => Loaded = file.table
BY DEF TypeOK, Readable, Loaded, Files

\* A whole file is none of the broken ones.
LEMMA NewIsWhole ==
  ASSUME NEW t
  PROVE  /\ New(t).form = "new" /\ New(t).table = t /\ New(t) # NoFile
         /\ EmptyFile # NoFile
BY DEF New, NoFile, EmptyFile

\* For the process that is alone, the invariant is about its own state.
LEMMA SoloOfOne ==
  ASSUME NEW n \in Nodes, Others(n)', Readable',
         /\ saving'[n] # "no" => up'[n] /\ dirty'[n]
         /\ saving'[n] = "write" => fd'[n] = "tmp" /\ tmp' = EmptyFile
         /\ saving'[n] = "rename" => tmp' = New(users'[n])
         /\ saving'[n] # "remove",
         up'[n] /\ saving'[n] = "no" /\ ~dirty'[n] => users'[n] = Loaded'
  PROVE  SoloInv'
BY DEF SoloInv, SaveInv, InStep, Idle, Others, Quiet

\* A change begins a save, and leaves users.json alone.
LEMMA ChangeSolo ==
  ASSUME TypeOK, SoloInv, NEW n \in Nodes, Others(n)', NEW u \in Users, NEW p,
         Change(n, u, p), up' = up, file' = file
  PROVE  SoloInv'
<1>1. saving'[n] = "write" /\ fd'[n] = "tmp" /\ tmp' = EmptyFile /\ dirty'[n] = TRUE /\ up'[n]
  BY DEF TypeOK, Change, Open, Idle
<1> QED
  BY <1>1, SoloOfOne DEF SoloInv, Readable

\* The steps of a save put whole files in place of users.json only.
LEMMA SaveSolo ==
  ASSUME TypeOK, SoloInv, NEW n \in Nodes, Others(n)', Save(n)
  PROVE  SoloInv'
<1> USE DEF SoloInv
<1>1. CASE Write(n)
  <2>1. fd[n] = "tmp" /\ tmp = EmptyFile /\ up[n] /\ dirty[n]
    BY <1>1 DEF SaveInv, Write
  <2>2. Put(n, {New(users[n])})
    BY <1>1, <2>1 DEF Write, Overwritten
  <2>3. tmp' = New(users[n]) /\ file' = file
    BY <2>1, <2>2 DEF Put
  <2>4. saving'[n] = "rename" /\ users' = users /\ up' = up /\ dirty' = dirty
    BY <1>1 DEF Write, TypeOK, procVars, memVars
  <2> QED
    BY <2>1, <2>3, <2>4, SoloOfOne DEF Readable
<1>2. CASE WriteFails(n)
  <2>1. fd[n] = "tmp" /\ up[n] /\ dirty[n]
    BY <1>2 DEF SaveInv, WriteFails
  <2>2. file' = file /\ saving'[n] = "no" /\ dirty' = dirty
    BY <1>2, <2>1 DEF WriteFails, Put, StillDirty, TypeOK
  <2> QED
    BY <2>1, <2>2, SoloOfOne DEF Readable
<1>3. CASE Rename(n)
  <2>1. tmp = New(users[n]) /\ file' = tmp /\ users' = users /\ saving'[n] = "no"
    BY <1>3 DEF SaveInv, Rename, TypeOK
  <2>2. file'.form = "new" /\ file'.table = users[n]
    BY <2>1, NewIsWhole
  <2>3. Readable' /\ Loaded' = users'[n]
    BY <2>1, <2>2 DEF Readable, Loaded
  <2> QED
    BY <2>1, <2>3, SoloOfOne
<1>4. CASE RenameFails(n)
  BY <1>4, NewIsWhole DEF RenameFails, SaveInv
<1>5. CASE Remove(n)
  BY <1>5 DEF Remove, SaveInv
<1> QED
  BY <1>1, <1>2, <1>3, <1>4, <1>5 DEF Save

\* Starting reads what a save left; a crash leaves users.json as it is.
LEMMA ProcessSolo ==
  ASSUME TypeOK, SoloInv, NEW n \in Nodes, Others(n)', Start(n) \/ Crash(n)
  PROVE  SoloInv'
<1> USE DEF SoloInv
<1>0. file' = file /\ Readable'
  BY DEF Start, Crash, Readable
<1>1. CASE Start(n)
  <2>1. up'[n] /\ users'[n] = Loaded /\ Loaded' = Loaded /\ saving[n] = "no"
    BY <1>0, <1>1 DEF Start, TypeOK, Loaded, SaveInv
  <2>2. CASE file.form = "old"
    <3>1. saving'[n] = "write" /\ fd'[n] = "tmp" /\ tmp' = EmptyFile /\ dirty'[n] = TRUE
      BY <1>1, <2>2 DEF Start, Open, TypeOK
    <3> QED
      BY <1>0, <2>1, <3>1, SoloOfOne
  <2>3. CASE file.form # "old"
    <3>1. saving' = saving
      BY <1>1, <2>3 DEF Start, ioVars
    <3> QED
      BY <1>0, <2>1, <3>1, SoloOfOne
  <2> QED
    BY <2>2, <2>3
<1>2. CASE Crash(n)
  <2>1. ~up'[n] /\ saving'[n] = "no"
    BY <1>2 DEF Crash, TypeOK
  <2> QED
    BY <1>0, <2>1, SoloOfOne
<1> QED
  BY <1>1, <1>2

\* Every step keeps the invariant.
LEMMA NextDir == DirInv /\ [Next]_vars => DirInv'
<1> SUFFICES ASSUME DirInv, [Next]_vars, Alone' PROVE SoloInv'
  BY NextTypes, NextStarted DEF DirInv
<1>0. TypeOK /\ StartedInv /\ SoloInv
  BY StartedGrows DEF DirInv, Alone
<1>1. ASSUME NEW n \in Nodes,
             Save(n) \/ Start(n) \/ Crash(n) \/ \E u \in Users : Operation(n, u)
      PROVE  Others(n)'
  BY <1>0, <1>1, ActorIsAlone, OthersStay
<1>2. ASSUME NEW n \in Nodes, NEW u \in Users, Operation(n, u) PROVE SoloInv'
  <2>1. (\E p \in Profile : Change(n, u, p)) /\ up' = up /\ file' = file
    BY <1>0, <1>2, OperationChanges DEF procVars
  <2> QED
    BY <1>0, <1>1, <1>2, <2>1, ChangeSolo
<1>3. ASSUME NEW n \in Nodes, NEW u \in Users, Logout(n, u) PROVE SoloInv'
  BY <1>0, <1>3 DEF Logout, procVars, memVars, ioVars, SoloInv, SaveInv, Readable, InStep, Idle,
                    Loaded
<1>4. CASE UNCHANGED vars
  BY <1>0, <1>4 DEF vars, procVars, memVars, ioVars, SoloInv, SaveInv, Readable, InStep, Idle,
                    Loaded
<1>5. ASSUME NEW n \in Nodes, Save(n) \/ Start(n) \/ Crash(n) PROVE SoloInv'
  BY <1>0, <1>1, <1>5, SaveSolo, ProcessSolo
<1> QED
  BY <1>2, <1>3, <1>4, <1>5 DEF Next, Operation

\* Initially nothing runs, and the file is an old one or none.
LEMMA InitDir == Init => DirInv
<1> SUFFICES ASSUME Init PROVE DirInv
  OBVIOUS
<1>1. SaveInv /\ InStep /\ StartedInv
  BY DEF Init, SaveInv, InStep, Idle, StartedInv, Quiet
<1>2. Readable
  BY DEF Init, Readable, NoFile
<1> QED
  BY <1>1, <1>2, InitTypes DEF DirInv, SoloInv

\* As long as one process is alone in its directory, it never leaves a users.json
\* that is half written, whatever fails and whenever it dies (fileutil.go:8-31).
THEOREM LoneFileIsWhole == Spec => []FileIsWhole
<1>1. DirInv => FileIsWhole
  BY DEF DirInv, SoloInv, Readable, FileIsWhole
<1> QED
  BY <1>1, NextDir, InitDir, PTL DEF Spec

\* It knows whenever memory and users.json differ (auth.go:250-264).
THEOREM LoneCleanIsSaved == Spec => []CleanIsSaved
<1>1. DirInv => CleanIsSaved
  BY DEF DirInv, SoloInv, InStep, CleanIsSaved
<1> QED
  BY <1>1, NextDir, InitDir, PTL DEF Spec

-----------------------------------------------------------------------------
(* Acknowledged registrations, as long as no write has failed *)

\* Who was acknowledged is in the file, and in the memory of a process that
\* runs; who is being registered is in memory.
Acked ==
  /\ acked \subseteq Present(file.table)
  /\ \A n \in Nodes : /\ up[n] => acked \subseteq Present(users[n])
                      /\ joining[n] \subseteq Present(users[n])
                      /\ saving[n] = "no" => joining[n] = {}

AckInv == Alone /\ faults = 0 => Acked

\* No step takes a failed write back.
LEMMA FaultsStay == TypeOK /\ [Next]_vars => (faults' = 0 => faults = 0)
<1>1. faults \in 0..MaxFaults /\ faults' = faults + 1 => faults' # 0
  BY AccountsAssumption
<1>2. ASSUME NEW n \in Nodes, Save(n) PROVE faults' = faults \/ faults' = faults + 1
  BY <1>2 DEF Save, Write, WriteFails, Rename, RenameFails, Remove
<1>3. ASSUME NEW n \in Nodes, Start(n) \/ Crash(n) PROVE faults' = faults
  BY <1>3 DEF Start, Crash
<1>4. ASSUME TypeOK, NEW n \in Nodes, NEW u \in Users, Operation(n, u) \/ Logout(n, u)
      PROVE  faults' = faults
  BY <1>4, OperationChanges DEF Logout
<1> QED
  BY <1>1, <1>2, <1>3, <1>4 DEF Next, Operation, vars, TypeOK

\* For the process that is alone, this too is about its own state.
LEMMA AckedOfOne ==
  ASSUME NEW n \in Nodes, Others(n)',
         acked' \subseteq Present(file'.table),
         up'[n] => acked' \subseteq Present(users'[n]),
         joining'[n] \subseteq Present(users'[n]),
         saving'[n] = "no" => joining'[n] = {}
  PROVE  Acked'
<1>1. ASSUME NEW m \in Nodes, m # n
      PROVE  ~up'[m] /\ joining'[m] = {}
  BY <1>1 DEF Others, Quiet
<1> QED
  BY <1>1 DEF Acked, Present

\* A change loses no profile.
LEMMA ChangeAcked ==
  ASSUME TypeOK, Acked, NEW n \in Nodes, Others(n)', NEW u \in Users, NEW p \in Profile,
         Change(n, u, p), up' = up, file' = file, acked' = acked,
         joining' \in {joining, [joining EXCEPT ![n] = {u}]}
  PROVE  Acked'
<1>1. up[n] /\ saving'[n] = "write" /\ users'[n] = [users[n] EXCEPT ![u] = p]
  BY DEF TypeOK, Change, Open, Idle
<1>2. users[n] \in Tables /\ p # Nobody
  BY <1>1 DEF TypeOK, Profile, Nobody
<1>3. Present(users'[n]) = Present(users[n]) \cup {u}
  BY <1>1, <1>2 DEF Present, Has, Tables
<1>4. joining'[n] \subseteq joining[n] \cup {u}
  BY <1>1 DEF TypeOK
<1>5. /\ acked' \subseteq Present(file'.table) /\ acked' \subseteq Present(users'[n])
      /\ joining'[n] \subseteq Present(users'[n])
  BY <1>1, <1>3, <1>4 DEF Acked, Present
<1> QED
  BY <1>1, <1>5, AckedOfOne

\* A save acknowledges what it has put in the file.
LEMMA SaveAcked ==
  ASSUME TypeOK, SoloInv, faults' = 0, Acked, NEW n \in Nodes, Others(n)', Save(n)
  PROVE  Acked'
<1>0. SaveInv
  BY DEF SoloInv
<1>1. CASE Write(n)
  <2>1. fd[n] = "tmp"
    BY <1>0, <1>1 DEF SaveInv, Write
  <2>2. file' = file /\ acked' = acked /\ users' = users /\ up' = up /\ joining' = joining
    BY <1>1, <2>1 DEF Write, Put, procVars, memVars
  <2>3. saving'[n] = "rename"
    BY <1>1 DEF Write, TypeOK
  <2> QED
    BY <2>2, <2>3, AckedOfOne DEF Acked
<1>2. CASE WriteFails(n)
  BY <1>2, AccountsAssumption DEF WriteFails, TypeOK
<1>3. CASE Rename(n)
  <2>1. tmp = New(users[n]) /\ file' = tmp /\ users' = users /\ up[n]
    BY <1>0, <1>3 DEF SaveInv, Rename
  <2>2. acked' = acked \cup joining[n] /\ joining'[n] = {}
    BY <1>3 DEF Rename, Answered, TypeOK
  <2>3. file'.table = users[n]
    BY <2>1, NewIsWhole
  <2>4. acked' \subseteq Present(users[n])
    BY <2>1, <2>2 DEF Acked
  <2>5. joining'[n] \subseteq Present(users'[n])
    BY <2>2
  <2> QED
    BY <2>1, <2>2, <2>3, <2>4, <2>5, AckedOfOne
<1>4. CASE RenameFails(n)
  BY <1>0, <1>4, NewIsWhole DEF RenameFails, SaveInv
<1>5. CASE Remove(n)
  BY <1>0, <1>5 DEF Remove, SaveInv
<1> QED
  BY <1>1, <1>2, <1>3, <1>4, <1>5 DEF Save

\* A start reads back everyone the file has.
LEMMA ProcessAcked ==
  ASSUME TypeOK, SoloInv, Acked, NEW n \in Nodes, Others(n)', Start(n) \/ Crash(n)
  PROVE  Acked'
<1>0. file' = file /\ acked' = acked
  BY DEF Start, Crash
<1>1. CASE Start(n)
  <2>1. users'[n] = file.table /\ joining' = joining /\ saving[n] = "no"
    BY <1>1, LoadedIsTable DEF Start, TypeOK, SoloInv, SaveInv
  <2>2. joining'[n] = {}
    BY <2>1 DEF Acked
  <2> QED
    BY <1>0, <2>1, <2>2, AckedOfOne DEF Acked
<1>2. CASE Crash(n)
  <2>1. ~up'[n] /\ joining'[n] = {}
    BY <1>2 DEF Crash, TypeOK
  <2> QED
    BY <1>0, <2>1, AckedOfOne DEF Acked
<1> QED
  BY <1>1, <1>2

\* Every step keeps it.
LEMMA NextAcked == DirInv /\ AckInv /\ [Next]_vars => AckInv'
<1> SUFFICES ASSUME DirInv, AckInv, [Next]_vars, Alone', faults' = 0 PROVE Acked'
  BY DEF AckInv
<1>0. TypeOK /\ StartedInv /\ SoloInv /\ Acked
  BY StartedGrows, FaultsStay DEF DirInv, AckInv, Alone
<1>1. ASSUME NEW n \in Nodes,
             Save(n) \/ Start(n) \/ Crash(n) \/ \E u \in Users : Operation(n, u)
      PROVE  Others(n)'
  BY <1>0, <1>1, ActorIsAlone, OthersStay
<1>2. ASSUME NEW n \in Nodes, NEW u \in Users, Operation(n, u) PROVE Acked'
  <2>1. PICK p \in Profile : Change(n, u, p)
    BY <1>0, <1>2, OperationChanges
  <2>2. /\ up' = up /\ file' = file /\ acked' = acked
        /\ joining' \in {joining, [joining EXCEPT ![n] = {u}]}
    BY <1>0, <1>2, OperationChanges DEF procVars
  <2> QED
    BY <1>0, <1>1, <1>2, <2>1, <2>2, ChangeAcked
<1>3. ASSUME NEW n \in Nodes, Save(n) \/ Start(n) \/ Crash(n) PROVE Acked'
  BY <1>0, <1>1, <1>3, SaveAcked, ProcessAcked
<1>4. ASSUME NEW n \in Nodes, NEW u \in Users, Logout(n, u) PROVE Acked'
  BY <1>0, <1>4 DEF Logout, procVars, memVars, ioVars, Acked
<1>5. CASE UNCHANGED vars
  BY <1>0, <1>5 DEF vars, procVars, memVars, ioVars, Acked
<1> QED
  BY <1>2, <1>3, <1>4, <1>5 DEF Next, Operation

\* As long as one process is alone in its directory, it loses no registration it
\* has acknowledged and nobody of the old format, whenever it dies, unless a write
\* has failed (auth.go:140-176, 250-307).
THEOREM LoneAckedIsOnFile == Spec => []AckedIsOnFile
<1>1. Init => AckInv
  BY DEF Init, AckInv, Acked
<1>2. DirInv /\ AckInv /\ [Next]_vars => (DirInv /\ AckInv)'
  BY NextDir, NextAcked
<1>3. AckInv => AckedIsOnFile
  BY DEF AckInv, Acked, AckedIsOnFile
<1> QED
  BY <1>1, <1>2, <1>3, InitDir, PTL DEF Spec

-----------------------------------------------------------------------------
(* The administrator, for any number of processes and whatever fails *)

AtMostOne(table) == \A u, v \in Admins(table) : u = v

\* No table has two: neither in a memory nor on the disk, so that whatever a
\* process loads will do.
AdminInv ==
  /\ \A n \in Nodes : AtMostOne(users[n])
  /\ AtMostOne(file.table) /\ AtMostOne(tmp.table)

\* The tables that no operation made have one administrator at most.
LEMMA ConstantTables ==
  /\ AtMostOne(NoTable) /\ AtMostOne(Migrated)
  /\ AtMostOne(NoFile.table) /\ AtMostOne(EmptyFile.table) /\ AtMostOne(TornFile.table)
<1>1. AtMostOne(NoTable)
  BY DEF AtMostOne, Admins, NoTable, Nobody
<1>2. AtMostOne(Migrated)
  BY DEF AtMostOne, Admins, Migrated, Nobody
<1> QED
  BY <1>1, <1>2 DEF NoFile, EmptyFile, TornFile

\* Neither a status nor the role of a newcomer makes a second one.
LEMMA ProfileKeepsOne ==
  ASSUME NEW table \in Tables, AtMostOne(table), NEW u \in Users, NEW p,
         p.role = "admin" => table[u].role = "admin" \/ Present(table) = {}
  PROVE  AtMostOne([table EXCEPT ![u] = p])
<1>1. SUFFICES ASSUME NEW v \in Users, NEW w \in Users, v # w,
                      [table EXCEPT ![u] = p][v].role = "admin",
                      [table EXCEPT ![u] = p][w].role = "admin"
               PROVE  FALSE
  BY DEF AtMostOne, Admins
<1>2. CASE v # u /\ w # u
  BY <1>1, <1>2 DEF AtMostOne, Admins, Tables
<1>3. ASSUME NEW x \in Users, x # u, p.role = "admin", table[x].role = "admin" PROVE FALSE
  <2>1. x \in Present(table)
    BY <1>3 DEF Present, Has, Nobody
  <2> QED
    BY <1>3, <2>1 DEF AtMostOne, Admins
<1> QED
  BY <1>1, <1>2, <1>3 DEF Tables

\* An operation changes one profile, and the role only of the first user.
LEMMA OperationRole ==
  ASSUME TypeOK, NEW n \in Nodes, NEW u \in Users, Operation(n, u)
  PROVE  \E p : /\ Change(n, u, p)
                /\ p.role = "admin" => users[n][u].role = "admin" \/ Present(users[n]) = {}
<1>1. CASE Register(n, u)
  <2>1. RoleOfNext(users[n]) = "admin" => Present(users[n]) = {}
    BY DEF RoleOfNext
  <2> QED
    BY <1>1, <2>1 DEF Register
<1>2. ASSUME NEW status, SetStatus(n, u, status)
      PROVE  \E p : Change(n, u, p) /\ p.role = users[n][u].role
  <2>1. users[n][u] \in Profile
    BY <1>2 DEF SetStatus, Has, TypeOK, Tables
  <2>2. [users[n][u] EXCEPT !.status = status].role = users[n][u].role
    BY <2>1 DEF Profile
  <2> QED
    BY <1>2, <2>2 DEF SetStatus
<1>3. CASE Login(n, u) \/ UserStatus(n, u)
           \/ \E by \in Users, verdict \in Verdicts : Moderate(n, by, u, verdict)
  <2>1. \E status : SetStatus(n, u, status)
    BY <1>3 DEF Login, UserStatus, Moderate
  <2> QED
    BY <1>2, <2>1
<1> QED
  BY <1>1, <1>3 DEF Operation

\* What a save puts on the disk is a table of its memory, or none.
LEMMA PutKeepsOne ==
  ASSUME AdminInv, NEW n \in Nodes, NEW contents, Put(n, contents),
         \A f \in contents : AtMostOne(f.table)
  PROVE  AtMostOne(file'.table) /\ AtMostOne(tmp'.table)
BY DEF Put, AdminInv

\* Every step of a save moves tables about.
LEMMA SaveKeepsOne ==
  ASSUME TypeOK, AdminInv, NEW n \in Nodes, Save(n)
  PROVE  AdminInv'
<1>1. CASE Write(n)
  <2>1. AtMostOne(New(users[n]).table)
    BY NewIsWhole DEF AdminInv
  <2>2. \A f \in Overwritten(IF fd[n] = "file" THEN file ELSE tmp, New(users[n])) :
          AtMostOne(f.table)
    BY <2>1, ConstantTables DEF Overwritten
  <2>3. AtMostOne(file'.table) /\ AtMostOne(tmp'.table)
    BY <1>1, <2>2, PutKeepsOne DEF Write
  <2> QED
    BY <1>1, <2>3 DEF Write, memVars, AdminInv
<1>2. CASE WriteFails(n)
  <2>1. AtMostOne(file'.table) /\ AtMostOne(tmp'.table)
    BY <1>2, ConstantTables, PutKeepsOne DEF WriteFails
  <2> QED
    BY <1>2, <2>1 DEF WriteFails, AdminInv
<1>3. CASE Rename(n)
  BY <1>3, ConstantTables DEF Rename, AdminInv
<1>4. CASE RenameFails(n)
  BY <1>4 DEF RenameFails, memVars, AdminInv
<1>5. CASE Remove(n)
  BY <1>5, ConstantTables DEF Remove, memVars, AdminInv
<1> QED
  BY <1>1, <1>2, <1>3, <1>4, <1>5 DEF Save

\* Starting loads one of those tables.
LEMMA ProcessKeepsOne ==
  ASSUME TypeOK, AdminInv, NEW n \in Nodes, Start(n) \/ Crash(n)
  PROVE  AdminInv'
<1>1. CASE Start(n)
  <2>1. AtMostOne(Loaded)
    BY ConstantTables DEF Loaded, AdminInv
  <2>2. tmp' \in {tmp, EmptyFile} /\ file' = file
    BY <1>1 DEF Start, Open, ioVars
  <2> QED
    BY <1>1, <2>1, <2>2, ConstantTables DEF Start, AdminInv, TypeOK
<1>2. CASE Crash(n)
  BY <1>2, ConstantTables DEF Crash, AdminInv, TypeOK
<1> QED
  BY <1>1, <1>2

\* Every step keeps it.
LEMMA NextAdmin == TypeOK /\ AdminInv /\ [Next]_vars => AdminInv'
<1>1. ASSUME TypeOK, AdminInv, NEW n \in Nodes, NEW u \in Users, Operation(n, u)
      PROVE  AdminInv'
  <2>1. PICK p : /\ Change(n, u, p)
                 /\ p.role = "admin" => users[n][u].role = "admin" \/ Present(users[n]) = {}
    BY <1>1, OperationRole
  <2>2. users[n] \in Tables /\ AtMostOne(users[n])
    BY <1>1 DEF TypeOK, AdminInv
  <2>3. AtMostOne([users[n] EXCEPT ![u] = p])
    BY <2>1, <2>2, ProfileKeepsOne
  <2>4. tmp' = EmptyFile /\ file' = file /\ users' = [users EXCEPT ![n] = [users[n] EXCEPT ![u] = p]]
    BY <1>1, <2>1, OperationChanges DEF Change, Open
  <2> QED
    BY <1>1, <2>3, <2>4, ConstantTables DEF AdminInv, TypeOK
<1>2. ASSUME AdminInv, UNCHANGED <<users, file, tmp>> PROVE AdminInv'
  BY <1>2 DEF AdminInv
<1>3. ASSUME NEW n \in Nodes, NEW u \in Users, Logout(n, u) PROVE UNCHANGED <<users, file, tmp>>
  BY <1>3 DEF Logout, memVars, ioVars
<1> QED
  BY <1>1, <1>2, <1>3, SaveKeepsOne, ProcessKeepsOne
     DEF Next, Operation, vars, memVars, ioVars

\* Whatever fails, whoever dies and however many processes share the files, no
\* process ever has a second administrator (auth.go:160-164, 290-303).
THEOREM NoSecondAdmin == Spec => []OneAdmin
<1>1. Init => AdminInv
  <2>1. ASSUME Init PROVE AtMostOne(file.table) /\ AtMostOne(tmp.table)
    BY <2>1, ConstantTables DEF Init
  <2> QED
    BY <2>1, ConstantTables DEF Init, AdminInv
<1>2. TypeOK /\ AdminInv /\ [Next]_vars => (TypeOK /\ AdminInv)'
  BY NextTypes, NextAdmin
<1>3. AdminInv => OneAdmin
  <2> SUFFICES ASSUME AdminInv, NEW n \in Nodes PROVE Cardinality(Admins(users[n])) <= 1
    BY DEF OneAdmin
  <2>1. CASE Admins(users[n]) = {}
    BY <2>1, FS_EmptySet
  <2>2. ASSUME NEW u \in Admins(users[n]) PROVE Cardinality(Admins(users[n])) <= 1
    <3>1. Admins(users[n]) = {u}
      BY <2>2 DEF AdminInv, AtMostOne
    <3>2. Cardinality({u}) = 1
      BY FS_Singleton, Zenon
    <3> QED
      BY <3>1, <3>2
  <2> QED
    BY <2>1, <2>2
<1> QED
  BY <1>1, <1>2, <1>3, InitTypes, PTL DEF Spec

-----------------------------------------------------------------------------
(* Bans, for any number of processes *)

\* A process that is down has nothing in memory.
DownIsEmpty == \A n \in Nodes : ~up[n] => users[n] = NoTable

\* What runs was loaded by a start, what dies is emptied.
LEMMA NextDown == TypeOK /\ DownIsEmpty /\ [Next]_vars => DownIsEmpty'
<1> SUFFICES ASSUME TypeOK, DownIsEmpty, [Next]_vars PROVE DownIsEmpty'
  OBVIOUS
<1>1. ASSUME NEW n \in Nodes, Save(n) PROVE up' = up /\ users' = users
  BY <1>1 DEF Save, Write, WriteFails, Rename, RenameFails, Remove, procVars, memVars
<1>2. ASSUME NEW n \in Nodes, Start(n) \/ Crash(n) PROVE DownIsEmpty'
  BY <1>2 DEF Start, Crash, DownIsEmpty, TypeOK
<1>3. ASSUME NEW n \in Nodes, NEW u \in Users, Operation(n, u) PROVE DownIsEmpty'
  <2>1. up' = up /\ \E p : Change(n, u, p)
    BY <1>3, OperationChanges DEF procVars
  <2> QED
    BY <2>1 DEF Change, Idle, DownIsEmpty, TypeOK
<1>4. ASSUME NEW n \in Nodes, NEW u \in Users, Logout(n, u) PROVE up' = up /\ users' = users
  BY <1>4 DEF Logout, procVars, memVars
<1>5. CASE UNCHANGED vars
  BY <1>5 DEF vars, procVars, memVars, DownIsEmpty
<1> QED
  BY <1>1, <1>2, <1>3, <1>4, <1>5 DEF Next, Operation, DownIsEmpty

\* What lifts a ban.
Lifted(n, u) ==
  \/ ~up'[n]
  \/ \E by \in Users, verdict \in Verdicts : Moderate(n, by, u, verdict)
  \/ UserStatus(n, u)

\* Every step of a process that runs leaves a ban in place, or may lift it.
LEMMA NextBan ==
  ASSUME TypeOK, DownIsEmpty, Next, NEW n \in Nodes, NEW u \in Users,
         users[n][u].status = "banned", users'[n][u].status # "banned"
  PROVE  Lifted(n, u)
<1>1. ASSUME NEW m \in Nodes, Save(m) PROVE FALSE
  BY <1>1 DEF Save, Write, WriteFails, Rename, RenameFails, Remove, memVars
<1>2. ASSUME NEW m \in Nodes, NEW v \in Users, Logout(m, v) PROVE FALSE
  BY <1>2 DEF Logout, memVars
<1>3. ASSUME NEW m \in Nodes, Start(m) PROVE FALSE
  BY <1>3 DEF Start, DownIsEmpty, NoTable, Nobody, TypeOK
<1>4. ASSUME NEW m \in Nodes, Crash(m) PROVE Lifted(n, u)
  BY <1>4 DEF Crash, Lifted, TypeOK
<1>5. ASSUME NEW m \in Nodes, NEW v \in Users, Operation(m, v) PROVE Lifted(n, u)
  <2>1. m = n /\ v = u
    <3>1. PICK p \in Profile : Change(m, v, p)
      BY <1>5, OperationChanges
    <3> QED
      BY <3>1 DEF Change, TypeOK, Tables
  <2>2. ~Register(n, u)
    BY DEF Register, Has, Nobody
  <2>3. ~Login(n, u)
    BY DEF Login, Admitted
  <2> QED
    BY <1>5, <2>1, <2>2, <2>3 DEF Operation, Lifted
<1> QED
  BY <1>1, <1>2, <1>3, <1>4, <1>5 DEF Next, Operation

\* No login, registration, failed save or second process ends a ban: only an
\* administrator, the end of the process, or the /status of a session that is older
\* than the ban (auth.go:74-75, 92-117).
THEOREM BansHold == Spec => BanHolds
<1> DEFINE Body == \A n \in Nodes, u \in Users :
                     users[n][u].status = "banned" /\ users'[n][u].status # "banned" => Lifted(n, u)
<1>1. Init => DownIsEmpty
  BY DEF Init, DownIsEmpty
<1>2. TypeOK /\ DownIsEmpty /\ [Next]_vars => (TypeOK /\ DownIsEmpty)'
  BY NextTypes, NextDown
<1>3. TypeOK /\ DownIsEmpty /\ [Next]_vars => [Body]_vars
  BY NextBan
<1>4. Spec => [][Body]_vars
  <2> HIDE DEF Body
  <2> QED
    BY <1>1, <1>2, <1>3, InitTypes, PTL DEF Spec
<1> QED
  BY <1>4 DEF Lifted, BanHolds
=============================================================================
