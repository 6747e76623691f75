--------------------------- MODULE WriteProbeProofs ---------------------------
(***************************************************************************)
(* Proofs about WriteProbe, for any number of processes, users and files.  *)
(***************************************************************************)
EXTENDS WriteProbe, TLAPS

Places == {"idle", "exists", "append", "parent", "create", "remove", "write",
           "written", "refused", "failed", "killed"}

(* The temporary file belongs to somebody who may remove it, and unless it *)
(* was there before to one of the processes' users.                        *)
TempOwned ==
    file[Temp] # Absent =>
        /\ file[Temp].owner \in MayWrite
        /\ ~foreign => \E p \in Proc : file[Temp].owner = user[p]

(* The history is kept: p could have written its file up to now, or else   *)
(* that is noted.                                                          *)
CouldKept(p) == Active(p) /\ could[p] => CanOpen(p, target[p])

(* Who has found no file may create one.                                   *)
MayCreate(p) == at[p] \in {"parent", "create"} /\ could[p] => user[p] \in MayWrite

Refused(p) == at[p] = "refused" => ~could[p] \/ foreign \/ ~OneWriter

(* What a process has found out still holds, unless somebody interferes.   *)
StillAbsent(p) ==
    at[p] \in {"parent", "create", "remove"} /\ ~changed[p] => file[target[p]] = Absent
StillWritable(p) == at[p] = "write" /\ ~changed[p] => CanOpen(p, target[p])
Failed(p) == at[p] = "failed" => changed[p]

Known(p) ==
    CouldKept(p) /\ MayCreate(p) /\ Refused(p) /\ StillAbsent(p) /\ StillWritable(p) /\ Failed(p)

WInv == TypeOK /\ TempOwned /\ NoLitter /\ \A p \in Proc : Known(p)

-----------------------------------------------------------------------------
LEMMA NamesAreFiles ==
    ASSUME TypeOK, NEW p \in Proc
    PROVE  /\ target[p] \in Name /\ target[p] \in Path /\ target[p] # Temp /\ Temp \in Name
           /\ user[p] \in User /\ Absent \notin File
           /\ \A n \in Name : file[n] \in File \cup {Absent}
BY WriteProbeAssumption DEF TypeOK, Name

LEMMA ChangeType ==
    ASSUME TypeOK, NEW who, NEW d \in BOOLEAN, NEW fs \in [Name -> File \cup {Absent}],
           Change(who, d, fs)
    PROVE  /\ dir' = d /\ file' = fs
           /\ changed' \in [Proc -> BOOLEAN] /\ could' \in [Proc -> BOOLEAN]
           /\ \A p \in Proc : /\ changed[p] => changed'[p]
                              /\ could'[p] => could[p]
                              /\ p # who /\ Active(p) /\ fs[target[p]] # file[target[p]] => changed'[p]
                              /\ could'[p] /\ Active(p) => Opens(user[p], target[p], d, fs)
<1>1. dir' = d /\ file' = fs BY DEF Change
<1>2. changed' = [p \in Proc |-> changed[p] \/
                     (p # who /\ Active(p) /\ fs[target[p]] # file[target[p]])]
      /\ could' = [p \in Proc |-> could[p] /\ (Active(p) => Opens(user[p], target[p], d, fs))]
    BY DEF Change
<1>3. changed \in [Proc -> BOOLEAN] /\ could \in [Proc -> BOOLEAN] BY DEF TypeOK
<1>4. changed' \in [Proc -> BOOLEAN] /\ could' \in [Proc -> BOOLEAN] BY <1>2, Zenon
<1>5. ASSUME NEW p \in Proc
      PROVE  /\ changed[p] => changed'[p]
             /\ could'[p] => could[p]
             /\ p # who /\ Active(p) /\ fs[target[p]] # file[target[p]] => changed'[p]
             /\ could'[p] /\ Active(p) => Opens(user[p], target[p], d, fs)
    BY <1>2, Zenon
<1> QED BY <1>1, <1>4, <1>5

(* Where p goes, and that it goes there alone.                             *)
LEMMA GotoType ==
    ASSUME TypeOK, NEW p \in Proc, NEW s \in Places, Goto(p, s)
    PROVE  /\ at' \in [Proc -> Places] /\ at'[p] = s
           /\ user' = user /\ target' = target /\ foreign' = foreign
           /\ \A q \in Proc : q # p => at'[q] = at[q]
BY DEF Goto, TypeOK, Places

LEMMA OpenedFile ==
    ASSUME TypeOK, NEW p \in Proc, NEW n \in Name, NEW d \in {"empty", "old", "new"}
    PROVE  /\ Opened(p, n, d) \in [Name -> File \cup {Absent}]
           /\ Opened(p, n, d)[n] # Absent /\ Opened(p, n, d)[n].owner = user[p]
           /\ \A m \in Name : m # n => Opened(p, n, d)[m] = file[m]
<1> DEFINE new == [owner |-> user[p], data |-> IF file[n] = Absent THEN "empty" ELSE d]
<1>1. new \in File BY DEF TypeOK, File
<1>2. new # Absent BY <1>1, WriteProbeAssumption
<1>3. new.owner = user[p] OBVIOUS
<1> HIDE DEF new
<1>4. Opened(p, n, d) = [file EXCEPT ![n] = new] BY DEF Opened, new
<1> QED BY <1>1, <1>2, <1>3, <1>4 DEF TypeOK

(* What q knows survives a step that does not concern it.                  *)
Untouched(q) ==
    /\ changed[q] => changed'[q]
    /\ could'[q] => could[q]
    /\ Active(q) /\ file'[target[q]] # file[target[q]] => changed'[q]
    /\ could'[q] /\ Active(q) => Opens(user[q], target[q], dir', file')

LEMMA KnownFrame ==
    ASSUME WInv, NEW q \in Proc, Untouched(q), at'[q] = at[q], target'[q] = target[q],
           user' = user, foreign' = foreign, dir => dir'
    PROVE  Known(q)'
<1>1. Known(q) BY DEF WInv
<1>2. Active(q)' <=> Active(q) BY DEF Active
<1>3. CouldKept(q)' BY <1>2 DEF CouldKept, CanOpen, Untouched
<1>4. MayCreate(q)' /\ Refused(q)' /\ Failed(q)'
    BY <1>1 DEF Known, MayCreate, Refused, Failed, OneWriter, Untouched
<1>5. StillAbsent(q)' BY <1>1 DEF Known, StillAbsent, Untouched, Active
<1>6. StillWritable(q)'
    BY <1>1 DEF Known, StillWritable, Untouched, Active, CanOpen, Opens
<1> QED BY <1>3, <1>4, <1>5, <1>6 DEF Known

LEMMA NoChangeUntouched ==
    ASSUME WInv, NoChange
    PROVE  \A q \in Proc : Untouched(q)
BY DEF WInv, Known, CouldKept, CanOpen, NoChange, Untouched

(* The steps of p on the file system, and what they make of it.            *)
Outcome(p, fs) ==
    \/ at[p] = "append" /\ fs = IF file[target[p]] = Absent THEN Opened(p, target[p], "empty") ELSE file
    \/ at[p] = "create" /\ CanOpen(p, Temp) /\ fs = Opened(p, Temp, "empty")
    \/ at[p] = "remove" /\ fs = [file EXCEPT ![Temp] = Absent]
    \/ at[p] = "write" /\ fs = [file EXCEPT ![target[p]] = [owner |-> user[p], data |-> "new"]]

LEMMA WrittenFile ==
    ASSUME TypeOK, NEW p \in Proc
    PROVE  LET fs == [file EXCEPT ![target[p]] = [owner |-> user[p], data |-> "new"]]
           IN fs \in [Name -> File \cup {Absent}] /\ \A m \in Name : m # target[p] => fs[m] = file[m]
<1>1. [owner |-> user[p], data |-> "new"] \in File BY DEF TypeOK, File
<1> QED BY <1>1 DEF TypeOK

LEMMA OutcomeType ==
    ASSUME TypeOK, NEW p \in Proc, NEW fs, Outcome(p, fs)
    PROVE  fs \in [Name -> File \cup {Absent}]
<1>1. CASE at[p] = "append" BY <1>1, OpenedFile, NamesAreFiles DEF Outcome, TypeOK
<1>2. CASE at[p] = "create" BY <1>2, OpenedFile, NamesAreFiles DEF Outcome
<1>3. CASE at[p] = "remove" BY <1>3 DEF Outcome, TypeOK
<1>4. CASE at[p] = "write" BY <1>4, WrittenFile DEF Outcome
<1> QED BY <1>1, <1>2, <1>3, <1>4 DEF Outcome

(* Every step of a process: it starts, or goes on, with or without a       *)
(* change of the file system.                                              *)
LEMMA ProcStep ==
    ASSUME WInv, NEW p \in Proc, Start(p) \/ Work(p) \/ Kill(p)
    PROVE  /\ user' = user /\ foreign' = foreign /\ dir' = dir
           /\ file' = file \/ Outcome(p, file')
           /\ file' \in [Name -> File \cup {Absent}]
           /\ at' \in [Proc -> Places] /\ target' \in [Proc -> Path]
           /\ changed' \in [Proc -> BOOLEAN] /\ could' \in [Proc -> BOOLEAN]
           /\ runs' \in 0..MaxRuns /\ faults' \in 0..MaxFaults /\ edits' \in 0..MaxEdits
           /\ faults \in Nat /\ (Kill(p) => faults' > 0) /\ faults' >= faults
           /\ \A q \in Proc : q # p => at'[q] = at[q] /\ target'[q] = target[q] /\ Untouched(q)
<1>1. TypeOK BY DEF WInv
<1>2. CASE Start(p)
  <2>1. /\ UNCHANGED <<dir, file, user, faults, edits, foreign>>
        /\ at' = [at EXCEPT ![p] = "exists"] /\ changed' = [changed EXCEPT ![p] = FALSE]
        /\ \E n \in Path : /\ target' = [target EXCEPT ![p] = n]
                           /\ could' = [could EXCEPT ![p] = CanOpen(p, n)]
        /\ runs' = runs + 1 /\ runs < MaxRuns
      BY <1>2 DEF Start
  <2>2. at' \in [Proc -> Places] /\ target' \in [Proc -> Path] /\ changed' \in [Proc -> BOOLEAN]
      BY <1>1, <2>1 DEF TypeOK, Places
  <2>3. could' \in [Proc -> BOOLEAN]
    <3>1. \A n : CanOpen(p, n) \in BOOLEAN BY <1>1 DEF CanOpen, Opens, TypeOK
    <3> QED BY <1>1, <2>1, <3>1 DEF TypeOK
  <2>4. ASSUME NEW q \in Proc, q # p
        PROVE  at'[q] = at[q] /\ target'[q] = target[q] /\ Untouched(q)
    <3>1. /\ at'[q] = at[q] /\ target'[q] = target[q]
          /\ changed'[q] = changed[q] /\ could'[q] = could[q]
        BY <1>1, <2>1, <2>4 DEF TypeOK
    <3> QED BY <2>1, <3>1 DEF Untouched, WInv, Known, CouldKept, CanOpen
  <2>5. ~Kill(p)
    <3>1. faults \in Nat BY <1>1, WriteProbeAssumption DEF TypeOK
    <3> QED BY <2>1, <3>1 DEF Kill
  <2>6. runs' \in 0..MaxRuns /\ faults' \in 0..MaxFaults /\ edits' \in 0..MaxEdits
        /\ faults \in Nat /\ faults' >= faults
      BY <1>1, <2>1, WriteProbeAssumption DEF TypeOK
  <2>7. file' \in [Name -> File \cup {Absent}] BY <1>1, <2>1 DEF TypeOK
  <2> QED BY <2>1, <2>2, <2>3, <2>4, <2>5, <2>6, <2>7
<1>3. CASE Work(p) \/ Kill(p)
  <2>1. PICK s \in Places : Goto(p, s)
      BY <1>3 DEF Work, Kill, Exists, OpenForAppending, AppendFails, ParentExists, CreateTemp,
         CreateFails, RemoveTemp, WriteProof, WriteFails, Places
  <2>2. at' \in [Proc -> Places] /\ user' = user /\ target' = target /\ foreign' = foreign
        /\ \A q \in Proc : q # p => at'[q] = at[q]
      BY <1>1, <2>1, GotoType
  <2>3. /\ runs' \in 0..MaxRuns /\ faults' \in 0..MaxFaults /\ edits' \in 0..MaxEdits
        /\ faults \in Nat /\ (Kill(p) => faults' > 0) /\ faults' >= faults
    <3>1. runs \in 0..MaxRuns /\ faults \in 0..MaxFaults /\ edits \in 0..MaxEdits
        BY <1>1 DEF TypeOK
    <3>2. \/ UNCHANGED environment
          \/ faults < MaxFaults /\ faults' = faults + 1 /\ UNCHANGED <<runs, edits>>
        BY <1>3 DEF Work, Kill, Exists, OpenForAppending, AppendFails, ParentExists,
           CreateTemp, CreateFails, RemoveTemp, WriteProof, WriteFails
    <3>3. Kill(p) => faults' = faults + 1 BY DEF Kill
    <3> QED BY <3>1, <3>2, <3>3, WriteProbeAssumption DEF environment
  <2>4. NoChange \/ \E fs : Change(p, dir, fs) /\ Outcome(p, fs)
      BY <1>3 DEF Work, Kill, Exists, OpenForAppending, AppendFails, ParentExists,
         CreateTemp, CreateFails, RemoveTemp, WriteProof, WriteFails, Outcome
  <2>5. CASE NoChange
    <3>1. UNCHANGED <<dir, file, changed, could>> BY <2>5 DEF NoChange
    <3> QED BY <1>1, <2>2, <2>3, <2>5, <3>1, NoChangeUntouched DEF TypeOK
  <2>6. ASSUME NEW fs, Change(p, dir, fs), Outcome(p, fs)
        PROVE  /\ dir' = dir /\ file' = fs /\ fs \in [Name -> File \cup {Absent}]
               /\ changed' \in [Proc -> BOOLEAN] /\ could' \in [Proc -> BOOLEAN]
               /\ \A q \in Proc : q # p => Untouched(q)
    <3>1. fs \in [Name -> File \cup {Absent}] BY <1>1, <2>6, OutcomeType
    <3>2. dir \in BOOLEAN BY <1>1 DEF TypeOK
    <3>3. /\ dir' = dir /\ file' = fs
          /\ changed' \in [Proc -> BOOLEAN] /\ could' \in [Proc -> BOOLEAN]
          /\ \A q \in Proc : /\ changed[q] => changed'[q]
                             /\ could'[q] => could[q]
                             /\ q # p /\ Active(q) /\ fs[target[q]] # file[target[q]] => changed'[q]
                             /\ could'[q] /\ Active(q) => Opens(user[q], target[q], dir, fs)
        BY <1>1, <2>6, <3>1, <3>2, ChangeType
    <3> QED BY <3>1, <3>3 DEF Untouched
  <2> QED BY <1>1, <2>2, <2>3, <2>4, <2>5, <2>6 DEF TypeOK
<1> QED BY <1>2, <1>3

(* The same for p itself, but for what it has changed.                     *)
LEMMA OwnHistory ==
    ASSUME WInv, NEW p \in Proc, Work(p) \/ Kill(p)
    PROVE  /\ target' = target /\ user' = user /\ foreign' = foreign /\ dir' = dir
           /\ changed[p] => changed'[p]
           /\ could'[p] => could[p]
           /\ could'[p] => Opens(user[p], target[p], dir', file')
<1>1. TypeOK BY DEF WInv
<1>2. Active(p)
    BY DEF Active, Work, Kill, Exists, OpenForAppending, AppendFails, ParentExists, CreateTemp,
       CreateFails, RemoveTemp, WriteProof, WriteFails
<1>3. target' = target /\ user' = user /\ foreign' = foreign /\ dir' = dir
  <2>1. target' = target
      BY DEF Goto, Work, Kill, Exists, OpenForAppending, AppendFails, ParentExists, CreateTemp,
         CreateFails, RemoveTemp, WriteProof, WriteFails
  <2> QED BY <2>1, ProcStep
<1>4. NoChange \/ \E fs : Change(p, dir, fs) /\ Outcome(p, fs)
    BY DEF Work, Kill, Exists, OpenForAppending, AppendFails, ParentExists,
       CreateTemp, CreateFails, RemoveTemp, WriteProof, WriteFails, Outcome
<1>5. CASE NoChange BY <1>2, <1>3, <1>5, NoChangeUntouched DEF Untouched
<1>6. ASSUME NEW fs, Change(p, dir, fs), Outcome(p, fs)
      PROVE  /\ changed[p] => changed'[p]
             /\ could'[p] => could[p]
             /\ could'[p] => Opens(user[p], target[p], dir', file')
  <2>1. fs \in [Name -> File \cup {Absent}] /\ dir \in BOOLEAN
      BY <1>1, <1>6, OutcomeType DEF TypeOK
  <2> QED BY <1>1, <1>2, <1>6, <2>1, ChangeType
<1> QED BY <1>3, <1>4, <1>5, <1>6

LEMMA OwnKnown ==
    ASSUME WInv, NEW p \in Proc, Start(p) \/ Work(p) \/ Kill(p)
    PROVE  Known(p)'
<1> USE DEF Known
<1>1. TypeOK /\ TempOwned /\ Known(p) BY DEF WInv
<1>2. at \in [Proc -> Places] BY <1>1 DEF TypeOK, Places
<1>3. CASE Start(p)
  <2>1. PICK n \in Path : target' = [target EXCEPT ![p] = n]
                          /\ could' = [could EXCEPT ![p] = CanOpen(p, n)]
      BY <1>3 DEF Start
  <2>2. at'[p] = "exists" /\ target'[p] = n /\ could'[p] = CanOpen(p, n)
        /\ UNCHANGED <<dir, file, user>>
      BY <1>1, <1>3, <2>1 DEF Start, TypeOK
  <2>3. CouldKept(p)' BY <2>2 DEF CouldKept, CanOpen
  <2> QED BY <2>2, <2>3 DEF MayCreate, Refused, StillAbsent, StillWritable, Failed
<1>4. ASSUME Work(p) \/ Kill(p) PROVE Known(p)'
  <2>1. /\ target' = target /\ user' = user /\ foreign' = foreign /\ dir' = dir
        /\ changed[p] => changed'[p]
        /\ could'[p] => could[p]
        /\ could'[p] => Opens(user[p], target[p], dir', file')
      BY <1>4, OwnHistory
  <2>2. CouldKept(p)' BY <2>1 DEF CouldKept, CanOpen
  <2>3. Active(p) /\ could[p] => CanOpen(p, target[p]) BY <1>1 DEF CouldKept
  <2>4. CASE Exists(p)
    <3>1. at[p] = "exists" /\ UNCHANGED <<file, changed, could>>
          /\ at'[p] = IF file[target[p]] # Absent THEN "append" ELSE "parent"
        BY <1>2, <2>4 DEF Exists, Goto, NoChange
    <3>2. MayCreate(p)' BY <2>1, <2>3, <3>1 DEF MayCreate, CanOpen, Opens, Active
    <3>3. StillAbsent(p)' BY <2>1, <3>1 DEF StillAbsent
    <3> QED BY <2>2, <3>1, <3>2, <3>3 DEF Refused, StillWritable, Failed
  <2>5. CASE OpenForAppending(p)
    <3>1. at'[p] = "write" BY <1>2, <2>5 DEF OpenForAppending, Goto
    <3>2. file' = IF file[target[p]] = Absent THEN Opened(p, target[p], "empty") ELSE file
        BY <2>5 DEF OpenForAppending, Change
    <3>3. CanOpen(p, target[p])'
      <4>1. CASE file[target[p]] = Absent
          BY <1>1, <2>1, <3>2, <4>1, OpenedFile, NamesAreFiles DEF CanOpen, Opens
      <4>2. CASE file[target[p]] # Absent
          BY <2>1, <2>5, <3>2, <4>2 DEF OpenForAppending, CanOpen, Opens
      <4> QED BY <4>1, <4>2
    <3> QED BY <2>2, <3>1, <3>3 DEF MayCreate, Refused, StillAbsent, StillWritable, Failed
  <2>6. CASE AppendFails(p)
    <3>1. at'[p] = "refused" /\ at[p] = "append" /\ ~CanOpen(p, target[p])
        BY <1>2, <2>6 DEF AppendFails, Goto
    <3>2. ~could'[p] BY <2>1, <2>3, <3>1 DEF Active
    <3> QED BY <2>2, <3>1, <3>2 DEF MayCreate, Refused, StillAbsent, StillWritable, Failed
  <2>7. CASE ParentExists(p)
    <3>1. at[p] = "parent" /\ UNCHANGED <<file, changed, could>>
          /\ at'[p] = IF dir THEN "create" ELSE "refused"
        BY <1>2, <2>7 DEF ParentExists, Goto, NoChange
    <3>2. MayCreate(p)' /\ StillAbsent(p)'
        BY <1>1, <2>1, <3>1 DEF MayCreate, StillAbsent
    <3>3. Refused(p)'
      <4>1. ~dir => ~could[p]
        <5>1. ~dir => file[target[p]] = Absent BY <1>1, NamesAreFiles DEF TypeOK
        <5> QED BY <2>3, <3>1, <5>1 DEF CanOpen, Opens, Active
      <4> QED BY <2>1, <3>1, <4>1 DEF Refused
    <3> QED BY <2>2, <3>1, <3>2, <3>3 DEF StillWritable, Failed
  <2>8. CASE CreateTemp(p)
    <3>1. at[p] = "create" /\ at'[p] = "remove" BY <1>2, <2>8 DEF CreateTemp, Goto
    <3>2. file'[target[p]] = file[target[p]]
        BY <1>1, <2>8, OpenedFile, NamesAreFiles DEF CreateTemp, Change
    <3>3. StillAbsent(p)' BY <1>1, <2>1, <3>1, <3>2 DEF StillAbsent
    <3> QED BY <2>2, <3>1, <3>3 DEF MayCreate, Refused, StillWritable, Failed
  <2>9. CASE CreateFails(p)
    <3>1. at[p] = "create" /\ at'[p] = "refused" /\ ~CanOpen(p, Temp)
        BY <1>2, <2>9 DEF CreateFails, Goto
    <3>2. ASSUME could[p], ~foreign, OneWriter PROVE FALSE
      <4>1. user[p] \in MayWrite BY <1>1, <3>1, <3>2 DEF MayCreate
      <4>2. dir
        <5>1. CanOpen(p, target[p]) BY <2>3, <3>1, <3>2 DEF Active
        <5>2. file[target[p]] # Absent => dir BY <1>1, NamesAreFiles DEF TypeOK
        <5> QED BY <5>1, <5>2 DEF CanOpen, Opens
      <4>3. file[Temp] # Absent /\ file[Temp].owner # user[p]
          BY <3>1, <4>1, <4>2 DEF CanOpen, Opens
      <4>4. PICK q \in Proc : file[Temp].owner = user[q] /\ user[q] \in MayWrite
          BY <1>1, <3>2, <4>3 DEF TempOwned
      <4> QED BY <3>2, <4>1, <4>3, <4>4 DEF OneWriter
    <3>3. Refused(p)' BY <2>1, <3>2 DEF Refused, OneWriter
    <3> QED BY <2>2, <3>1, <3>3 DEF MayCreate, StillAbsent, StillWritable, Failed
  <2>10. CASE RemoveTemp(p)
    <3>1. at[p] = "remove" /\ at'[p] = "write" /\ file' = [file EXCEPT ![Temp] = Absent]
        BY <1>2, <2>10 DEF RemoveTemp, Goto, Change
    <3>2. file'[target[p]] = file[target[p]] BY <1>1, <3>1, NamesAreFiles DEF TypeOK
    <3>3. dir /\ user[p] \in MayWrite BY <1>1, <3>1 DEF TypeOK
    <3>4. StillWritable(p)'
        BY <1>1, <2>1, <3>1, <3>2, <3>3 DEF StillWritable, StillAbsent, CanOpen, Opens
    <3> QED BY <2>2, <3>1, <3>4 DEF MayCreate, Refused, StillAbsent, Failed
  <2>11. CASE WriteProof(p) \/ Kill(p)
    <3>1. at'[p] \in {"written", "killed"} BY <1>2, <2>11 DEF WriteProof, Kill, Goto
    <3> QED BY <2>2, <3>1 DEF MayCreate, Refused, StillAbsent, StillWritable, Failed
  <2>12. CASE WriteFails(p)
    <3>1. at[p] = "write" /\ at'[p] = "failed" /\ ~CanOpen(p, target[p])
        BY <1>2, <2>12 DEF WriteFails, Goto
    <3>2. Failed(p)' BY <1>1, <2>1, <3>1 DEF Failed, StillWritable
    <3> QED BY <2>2, <3>1, <3>2 DEF MayCreate, Refused, StillAbsent, StillWritable
  <2> QED BY <1>4, <2>4, <2>5, <2>6, <2>7, <2>8, <2>9, <2>10, <2>11, <2>12 DEF Work
<1> QED BY <1>3, <1>4

-----------------------------------------------------------------------------
LEMMA ProcInv ==
    ASSUME WInv, NEW p \in Proc, Start(p) \/ Work(p) \/ Kill(p)
    PROVE  WInv'
<1>1. TypeOK /\ TempOwned /\ NoLitter BY DEF WInv
<1>2. /\ user' = user /\ foreign' = foreign /\ dir' = dir
      /\ file' = file \/ Outcome(p, file')
      /\ file' \in [Name -> File \cup {Absent}]
      /\ at' \in [Proc -> Places] /\ target' \in [Proc -> Path]
      /\ changed' \in [Proc -> BOOLEAN] /\ could' \in [Proc -> BOOLEAN]
      /\ runs' \in 0..MaxRuns /\ faults' \in 0..MaxFaults /\ edits' \in 0..MaxEdits
      /\ faults \in Nat /\ (Kill(p) => faults' > 0) /\ faults' >= faults
      /\ \A q \in Proc : q # p => at'[q] = at[q] /\ target'[q] = target[q] /\ Untouched(q)
    BY ProcStep
<1>3. \A q \in Proc : Known(q)'
  <2>1. ASSUME NEW q \in Proc, q # p PROVE Known(q)' BY <1>2, <2>1, KnownFrame
  <2> QED BY <2>1, OwnKnown
<1>4. ~dir => \A n \in Name : file'[n] = Absent
  <2>1. SUFFICES ASSUME ~dir PROVE \A n \in Name : file'[n] = Absent OBVIOUS
  <2>2. \A n \in Name : file[n] = Absent BY <1>1, <2>1 DEF TypeOK
  <2>3. UNCHANGED file \/ RemoveTemp(p)
    <3>1. ~CanOpen(p, Temp) /\ ~CanOpen(p, target[p])
        BY <1>1, <2>1, <2>2, NamesAreFiles DEF CanOpen, Opens
    <3> QED BY <3>1 DEF Start, Work, Kill, Exists, OpenForAppending, AppendFails, ParentExists,
               CreateTemp, CreateFails, WriteProof, WriteFails, NoChange
  <2> QED BY <1>1, <2>2, <2>3 DEF RemoveTemp, Change, TypeOK
<1>5. at'[p] = "remove" => dir /\ user[p] \in MayWrite
  <2>1. SUFFICES ASSUME at'[p] = "remove" PROVE dir /\ user[p] \in MayWrite OBVIOUS
  <2>2. CanOpen(p, Temp)
      BY <1>1, <2>1 DEF TypeOK, Start, Work, Kill, Exists, OpenForAppending, AppendFails, ParentExists,
         CreateTemp, CreateFails, RemoveTemp, WriteProof, WriteFails, Goto
  <2> QED BY <1>1, <2>2, NamesAreFiles DEF CanOpen, Opens, TempOwned, TypeOK
<1>6. TypeOK'
  <2>1. \A q \in Proc : at'[q] = "remove" => dir' /\ user'[q] \in MayWrite
      BY <1>1, <1>2, <1>5 DEF TypeOK
  <2>2. dir' \in BOOLEAN /\ user' \in [Proc -> User] /\ foreign' \in BOOLEAN
      BY <1>1, <1>2 DEF TypeOK
  <2>3. ~dir' => \A n \in Name : file'[n] = Absent BY <1>2, <1>4
  <2> QED BY <1>2, <2>1, <2>2, <2>3 DEF TypeOK, Places
<1>7. \/ file'[Temp] = file[Temp] \/ file'[Temp] = Absent
      \/ /\ at[p] = "create" /\ CanOpen(p, Temp) /\ file'[Temp].owner = user[p]
         /\ file' # file /\ file'[Temp] # Absent
  <2>1. CASE file' = file BY <2>1
  <2>2. CASE file' # file /\ at[p] = "create"
      BY <1>1, <1>2, <2>2, OpenedFile, NamesAreFiles DEF Outcome
  <2>3. CASE at[p] = "append" BY <1>1, <1>2, <2>3, OpenedFile, NamesAreFiles DEF Outcome
  <2>4. CASE at[p] = "remove" BY <1>1, <1>2, <2>4, NamesAreFiles DEF Outcome, TypeOK
  <2>5. CASE at[p] = "write" BY <1>1, <1>2, <2>5, WrittenFile, NamesAreFiles DEF Outcome
  <2> QED BY <1>2, <2>1, <2>2, <2>3, <2>4, <2>5 DEF Outcome
<1>8. TempOwned'
  <2>1. CASE file'[Temp] = file[Temp] \/ file'[Temp] = Absent BY <1>1, <1>2, <2>1 DEF TempOwned
  <2>2. CASE CanOpen(p, Temp) /\ file'[Temp].owner = user[p]
      BY <1>1, <1>2, <2>2 DEF TempOwned, CanOpen, Opens
  <2> QED BY <1>7, <2>1, <2>2
<1>9. NoLitter'
  <2> SUFFICES ASSUME ~foreign, faults' = 0, \A q \in Proc : at'[q] # "remove"
               PROVE  file'[Temp] = Absent
      BY <1>2 DEF NoLitter
  <2>1. faults = 0 /\ ~Kill(p) BY <1>2
  <2>2. CASE at[p] = "remove"
    <3>1. RemoveTemp(p)
        BY <2>1, <2>2 DEF Start, Active, Work, Exists, OpenForAppending, AppendFails, ParentExists,
           CreateTemp, CreateFails, WriteProof, WriteFails
    <3> QED BY <1>1, <3>1, NamesAreFiles DEF RemoveTemp, Change, TypeOK
  <2>3. CASE at[p] # "remove"
    <3>1. file[Temp] = Absent BY <1>1, <1>2, <2>1, <2>3 DEF NoLitter
    <3>2. CASE file'[Temp] = file[Temp] \/ file'[Temp] = Absent BY <3>1, <3>2
    <3>3. CASE at[p] = "create" /\ CanOpen(p, Temp) /\ file' # file
      <4>1. CreateTemp(p)
          BY <2>1, <3>3 DEF Start, Active, Work, Exists, OpenForAppending, AppendFails,
             ParentExists, CreateFails, RemoveTemp, WriteProof, WriteFails
      <4>2. at'[p] = "remove" BY <1>1, <4>1 DEF CreateTemp, Goto, TypeOK
      <4> QED BY <4>2
    <3> QED BY <1>7, <3>2, <3>3
  <2> QED BY <2>2, <2>3
<1> QED BY <1>3, <1>6, <1>8, <1>9 DEF WInv

LEMMA EditInv ==
    ASSUME WInv, NEW u \in User, Edit(u)
    PROVE  WInv'
<1>1. TypeOK /\ TempOwned /\ NoLitter BY DEF WInv
<1>2. PICK fs \in [Name -> File \cup {Absent}], d \in BOOLEAN :
         Change(u, d, fs) /\ d /\ fs[Temp] = file[Temp]
  <2>1. CASE Change(u, TRUE, file) BY <1>1, <2>1 DEF TypeOK
  <2>2. CASE dir /\ \E n \in Path : Change(u, dir,
                [file EXCEPT ![n] = IF @ = Absent THEN [owner |-> u, data |-> "old"] ELSE Absent])
    <3>1. PICK n \in Path : Change(u, dir,
             [file EXCEPT ![n] = IF @ = Absent THEN [owner |-> u, data |-> "old"] ELSE Absent])
        BY <2>2
    <3>2. PICK v \in File \cup {Absent} : Change(u, dir, [file EXCEPT ![n] = v])
      <4>1. [owner |-> u, data |-> "old"] \in File BY DEF File
      <4> QED BY <3>1, <4>1
    <3>3. n \in Name /\ n # Temp /\ Temp \in Name BY WriteProbeAssumption DEF Name
    <3>4. /\ [file EXCEPT ![n] = v] \in [Name -> File \cup {Absent}]
          /\ [file EXCEPT ![n] = v][Temp] = file[Temp]
        BY <1>1, <3>3 DEF TypeOK
    <3> QED BY <2>2, <3>2, <3>4
  <2> QED BY <2>1, <2>2 DEF Edit
<1>3. /\ dir' /\ file' = fs /\ file' \in [Name -> File \cup {Absent}] /\ file'[Temp] = file[Temp]
      /\ changed' \in [Proc -> BOOLEAN] /\ could' \in [Proc -> BOOLEAN]
      /\ \A q \in Proc : Untouched(q)
  <2>1. \A q \in Proc : q # u BY WriteProbeAssumption
  <2>2. dir' = d /\ file' = fs BY <1>2 DEF Change
  <2> QED BY <1>1, <1>2, <2>1, <2>2, ChangeType DEF Untouched
<1>4. UNCHANGED <<user, target, at, foreign, runs, faults>> /\ edits' \in 0..MaxEdits
    BY <1>1, WriteProbeAssumption DEF Edit, TypeOK
<1>5. \A q \in Proc : Known(q)' BY <1>3, <1>4, KnownFrame
<1>6. TypeOK' BY <1>1, <1>3, <1>4 DEF TypeOK
<1>7. TempOwned' /\ NoLitter' BY <1>1, <1>3, <1>4 DEF TempOwned, NoLitter
<1> QED BY <1>5, <1>6, <1>7 DEF WInv

LEMMA WInvInit == Init => WInv
<1> SUFFICES ASSUME Init PROVE WInv OBVIOUS
<1>1. [owner : User, data : {"old"}] \subseteq File BY DEF File
<1>2. TypeOK BY <1>1, WriteProbeAssumption DEF Init, TypeOK
<1>3. TempOwned /\ NoLitter BY DEF Init, TempOwned, NoLitter
<1>4. \A p \in Proc : Known(p)
    BY DEF Init, Known, CouldKept, MayCreate, Refused, StillAbsent, StillWritable, Failed, Active
<1> QED BY <1>2, <1>3, <1>4 DEF WInv

LEMMA WInvStep == WInv /\ [Next]_vars => WInv'
<1> SUFFICES ASSUME WInv, [Next]_vars PROVE WInv' OBVIOUS
<1>1. CASE UNCHANGED vars
  <2>1. TypeOK' /\ TempOwned' /\ NoLitter'
      BY <1>1 DEF WInv, vars, environment, TypeOK, TempOwned, NoLitter
  <2>2. \A q \in Proc : Untouched(q)
      BY <1>1 DEF WInv, vars, Untouched, Known, CouldKept, CanOpen
  <2>3. \A q \in Proc : Known(q)' BY <1>1, <2>2, KnownFrame DEF vars
  <2> QED BY <2>1, <2>3 DEF WInv
<1> QED BY <1>1, ProcInv, EditInv DEF Next

LEMMA WInvCorrect == Spec => []WInv
<1> QED BY WInvInit, WInvStep, PTL DEF Spec

(* Every variable has its type, and whoever removes the temporary file has *)
(* the right to (file_operations.hpp:86).                                  *)
THEOREM TypeCorrect == Spec => []TypeOK
<1>1. WInv => TypeOK BY DEF WInv
<1> QED BY <1>1, WInvCorrect, PTL

(* Without deaths, nothing is left of any number of probes that share one  *)
(* name and remove it for each other (file_operations.hpp:78-86).          *)
THEOREM NothingLeft == Spec => []NoLitter
<1>1. WInv => NoLitter BY DEF WInv
<1> QED BY <1>1, WInvCorrect, PTL

(* If a probe says yes and the proof cannot be written, somebody else has  *)
(* put it there or taken it away (file_operations.hpp:58-93).              *)
THEOREM YesIsReliable == Spec => []YesHolds
<1>1. WInv => YesHolds BY DEF WInv, Known, Failed, YesHolds
<1> QED BY <1>1, WInvCorrect, PTL

(* A probe that says no is right where one user runs the producer.         *)
THEOREM NoIsReliable == Spec => []NoHolds
<1>1. WInv => NoHolds BY DEF WInv, Known, Refused, NoHolds
<1> QED BY <1>1, WInvCorrect, PTL

(* No probe touches a proof that exists, whatever other processes and      *)
(* users do meanwhile (file_operations.hpp:62-72).                         *)
THEOREM ProofsSurvive == Spec => ProofsSurviveProbes
<1> DEFINE Spared ==
      \A n \in Path : file[n] # Absent /\ file'[n] # file[n] =>
          \/ edits' # edits
          \/ \E p \in Proc : at[p] = "write" /\ target[p] = n
<1>1. WInv /\ [Next]_vars => [Spared]_vars
  <2> SUFFICES ASSUME WInv, Next PROVE Spared BY DEF vars
  <2>1. TypeOK BY DEF WInv
  <2>2. ASSUME NEW p \in Proc, Start(p) \/ Work(p) \/ Kill(p) PROVE Spared
    <3>1. file' = file \/ Outcome(p, file') BY <2>2, ProcStep
    <3>2. SUFFICES ASSUME NEW n \in Path, file[n] # Absent, Outcome(p, file'), at[p] # "write"
                   PROVE  file'[n] = file[n]
      <4>1. CASE file' = file BY <4>1
      <4>2. CASE Outcome(p, file') /\ at[p] # "write" BY <3>2, <4>2
      <4>3. CASE Outcome(p, file') /\ at[p] = "write"
        <5>1. \A n \in Path : n # target[p] => file'[n] = file[n]
            BY <2>1, <4>3, WrittenFile DEF Outcome, Name
        <5> QED BY <4>3, <5>1
      <4> QED BY <3>1, <4>1, <4>2, <4>3
    <3>3. n \in Name /\ n # Temp BY WriteProbeAssumption DEF Name
    <3>4. CASE at[p] = "append" BY <2>1, <3>2, <3>3, <3>4, OpenedFile, NamesAreFiles DEF Outcome
    <3>5. CASE at[p] = "create" BY <2>1, <3>2, <3>3, <3>5, OpenedFile, NamesAreFiles DEF Outcome
    <3>6. CASE at[p] = "remove" BY <2>1, <3>2, <3>3, <3>6 DEF Outcome, TypeOK
    <3> QED BY <3>2, <3>4, <3>5, <3>6 DEF Outcome
  <2>3. ASSUME NEW u \in User, Edit(u) PROVE Spared
    <3>1. edits' = edits + 1 /\ edits \in Nat
        BY <2>1, <2>3, WriteProbeAssumption DEF Edit, TypeOK
    <3> QED BY <3>1
  <2> QED BY <2>2, <2>3 DEF Next
<1> QED BY <1>1, WInvCorrect, PTL DEF Spec, ProofsSurviveProbes
===============================================================================
