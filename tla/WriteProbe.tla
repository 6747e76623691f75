----------------------------- MODULE WriteProbe -----------------------------
(***************************************************************************)
(* can_write_to_file: the probe that comes before a proof is generated, in *)
(* processes that put their proofs into one directory.  Each call into the *)
(* file system is a step.  A file that exists is opened for appending; for *)
(* one that does not, a file with a fixed name is created beside it and    *)
(* removed again.  Files can be written by their owners (mode 0644), and   *)
(* created and removed by all who may write to the directory.              *)
(*                                                                         *)
(* OpenTruncating, OpenWithoutCreating, ProbeWorkingDirectory and          *)
(* LeaveTemp are mistaken versions of the definitions they precede.        *)
(***************************************************************************)
EXTENDS Integers

CONSTANTS
    Proc,        \* slots in which processes run, one after another
    User,
    MayWrite,    \* the users who may write to the directory
    Path,        \* names of proofs in the directory
    Temp,        \* temp_file_to_test_write_permission
    Absent,      \* no such file
    MaxRuns, MaxFaults, MaxEdits  \* bounds on the environment

Name == Path \cup {Temp}
File == [owner : User, data : {"empty", "old", "new"}]

ASSUME WriteProbeAssumption ==
    /\ MayWrite \subseteq User
    /\ Temp \notin Path
    /\ Proc \cap User = {}
    /\ Absent \notin File
    /\ MaxRuns \in Nat /\ MaxFaults \in Nat /\ MaxEdits \in Nat

VARIABLES
    dir,     \* whether the directory exists
    file,    \* what is in it
    user,    \* user[p]: who runs the processes in slot p
    target,  \* target[p]: the proof file of the process in slot p
    at,      \* where that process is
    runs, faults, edits,  \* environment counters, for the bounds
    changed, \* history: the target has been changed by others since p looked
    could,   \* history: p's user could write to the target ever since
    foreign  \* history: the temporary file's name was in use before all runs

environment == <<runs, faults, edits>>
vars == <<dir, file, user, target, at, environment, changed, could, foreign>>

Active(p) == at[p] \in {"exists", "append", "parent", "create", "remove", "write"}

(* u opens name n for writing, creating it if need be.                     *)
Opens(u, n, d, fs) == IF fs[n] = Absent THEN d /\ u \in MayWrite ELSE fs[n].owner = u
CanOpen(p, n) == Opens(user[p], n, dir, file)

Goto(p, s) == at' = [at EXCEPT ![p] = s] /\ UNCHANGED <<user, target, foreign>>

(* who changes the file system to d and fs.                                *)
Change(who, d, fs) ==
    /\ dir' = d
    /\ file' = fs
    /\ changed' = [p \in Proc |-> changed[p] \/
                      (p # who /\ Active(p) /\ fs[target[p]] # file[target[p]])]
    /\ could' = [p \in Proc |-> could[p] /\ (Active(p) => Opens(user[p], target[p], d, fs))]

NoChange == UNCHANGED <<dir, file, changed, could>>

(* p has opened name n, whose contents become d if it exists.              *)
Opened(p, n, d) ==
    [file EXCEPT ![n] = [owner |-> user[p], data |-> IF file[n] = Absent THEN "empty" ELSE d]]

----------------------------------------------------------------------------
Init ==
    /\ dir \in BOOLEAN
    /\ file \in [Name -> {Absent} \cup [owner : User, data : {"old"}]]
    /\ ~dir => \A n \in Name : file[n] = Absent
    /\ file[Temp] # Absent => file[Temp].owner \in MayWrite
    /\ user \in [Proc -> User]
    /\ target \in [Proc -> Path]
    /\ at = [p \in Proc |-> "idle"]
    /\ runs = 0 /\ faults = 0 /\ edits = 0
    /\ changed = [p \in Proc |-> FALSE]
    /\ could = [p \in Proc |-> FALSE]
    /\ foreign = (file[Temp] # Absent)

Start(p) ==
    /\ ~Active(p)
    /\ runs < MaxRuns
    /\ runs' = runs + 1
    /\ \E n \in Path :
          /\ target' = [target EXCEPT ![p] = n]
          /\ could' = [could EXCEPT ![p] = CanOpen(p, n)]
    /\ changed' = [changed EXCEPT ![p] = FALSE]
    /\ at' = [at EXCEPT ![p] = "exists"]
    /\ UNCHANGED <<dir, file, user, faults, edits, foreign>>

Exists(p) ==
    /\ at[p] = "exists"
    /\ Goto(p, IF file[target[p]] # Absent THEN "append" ELSE "parent")
    /\ NoChange
    /\ UNCHANGED environment

OpenTruncating(p) ==
    /\ at[p] = "append"
    /\ CanOpen(p, target[p])
    /\ Change(p, dir, Opened(p, target[p], "empty"))
    /\ Goto(p, "write")
    /\ UNCHANGED environment

(* Opening for appending: a file that has gone is created.                 *)
OpenForAppending(p) ==
    /\ at[p] = "append"
    /\ CanOpen(p, target[p])
    /\ Change(p, dir, IF file[target[p]] = Absent THEN Opened(p, target[p], "empty") ELSE file)
    /\ Goto(p, "write")
    /\ UNCHANGED environment

OpenWithoutCreating(p) ==
    /\ at[p] = "append"
    /\ file[target[p]] = Absent \/ ~CanOpen(p, target[p])
    /\ Goto(p, "refused")
    /\ NoChange
    /\ UNCHANGED environment

AppendFails(p) ==
    /\ at[p] = "append"
    /\ ~CanOpen(p, target[p])
    /\ Goto(p, "refused")
    /\ NoChange
    /\ UNCHANGED environment

ParentExists(p) ==
    /\ at[p] = "parent"
    /\ Goto(p, IF dir THEN "create" ELSE "refused")
    /\ NoChange
    /\ UNCHANGED environment

ProbeWorkingDirectory(p) ==
    /\ at[p] = "create"
    /\ Goto(p, "remove")
    /\ NoChange
    /\ UNCHANGED environment

CreateTemp(p) ==
    /\ at[p] = "create"
    /\ CanOpen(p, Temp)
    /\ Change(p, dir, Opened(p, Temp, "empty"))
    /\ Goto(p, "remove")
    /\ UNCHANGED environment

CreateFails(p) ==
    /\ at[p] = "create"
    /\ ~CanOpen(p, Temp)
    /\ Goto(p, "refused")
    /\ NoChange
    /\ UNCHANGED environment

LeaveTemp(p) ==
    /\ at[p] = "remove"
    /\ Goto(p, "write")
    /\ NoChange
    /\ UNCHANGED environment

(* remove is content if another process has been faster.                   *)
RemoveTemp(p) ==
    /\ at[p] = "remove"
    /\ Change(p, dir, [file EXCEPT ![Temp] = Absent])
    /\ Goto(p, "write")
    /\ UNCHANGED environment

(* The proof is generated, and its file opened.                            *)
WriteProof(p) ==
    /\ at[p] = "write"
    /\ CanOpen(p, target[p])
    /\ Change(p, dir, [file EXCEPT ![target[p]] = [owner |-> user[p], data |-> "new"]])
    /\ Goto(p, "written")
    /\ UNCHANGED environment

WriteFails(p) ==
    /\ at[p] = "write"
    /\ ~CanOpen(p, target[p])
    /\ Goto(p, "failed")
    /\ NoChange
    /\ UNCHANGED environment

Kill(p) ==
    /\ Active(p)
    /\ faults < MaxFaults
    /\ faults' = faults + 1
    /\ Goto(p, "killed")
    /\ NoChange
    /\ UNCHANGED <<runs, edits>>

(* A user creates the directory, or a proof, or removes one.               *)
Edit(u) ==
    /\ edits < MaxEdits
    /\ edits' = edits + 1
    /\ u \in MayWrite
    /\ \/ ~dir /\ Change(u, TRUE, file)
       \/ /\ dir
          /\ \E n \in Path : Change(u, dir,
                [file EXCEPT ![n] = IF @ = Absent THEN [owner |-> u, data |-> "old"] ELSE Absent])
    /\ UNCHANGED <<user, target, at, foreign, runs, faults>>

Work(p) ==
    \/ Exists(p) \/ OpenForAppending(p) \/ AppendFails(p)
    \/ ParentExists(p) \/ CreateTemp(p) \/ CreateFails(p) \/ RemoveTemp(p)
    \/ WriteProof(p) \/ WriteFails(p)

Next ==
    \/ \E p \in Proc : Start(p) \/ Work(p) \/ Kill(p)
    \/ \E u \in User : Edit(u)

Spec == Init /\ [][Next]_vars

----------------------------------------------------------------------------
(* Every variable has its type, a directory that is not there is empty,    *)
(* and a process that is to remove the temporary file has the right to, so *)
(* that remove does not throw.                                             *)
TypeOK ==
    /\ dir \in BOOLEAN
    /\ file \in [Name -> File \cup {Absent}]
    /\ ~dir => \A n \in Name : file[n] = Absent
    /\ user \in [Proc -> User]
    /\ target \in [Proc -> Path]
    /\ at \in [Proc -> {"idle", "exists", "append", "parent", "create", "remove", "write",
                        "written", "refused", "failed", "killed"}]
    /\ \A p \in Proc : at[p] = "remove" => dir /\ user[p] \in MayWrite
    /\ changed \in [Proc -> BOOLEAN] /\ could \in [Proc -> BOOLEAN]
    /\ foreign \in BOOLEAN
    /\ runs \in 0..MaxRuns /\ faults \in 0..MaxFaults /\ edits \in 0..MaxEdits

(* A probe leaves every proof that exists as it is: only a process that    *)
(* has its answer overwrites one.                                          *)
ProofsSurviveProbes ==
    [][\A n \in Path : file[n] # Absent /\ file'[n] # file[n] =>
          \/ edits' # edits
          \/ \E p \in Proc : at[p] = "write" /\ target[p] = n]_vars

(* When no process is between the creation and the removal, and none has   *)
(* died, nothing is left of the probes, although all share the one name    *)
(* and may remove it for each other.                                       *)
NoLitter ==
    ~foreign /\ faults = 0 /\ (\A p \in Proc : at[p] # "remove") => file[Temp] = Absent

(* A proof that cannot be written although the probe said so has been put  *)
(* there, or taken away, by somebody else in between.                      *)
YesHolds == \A p \in Proc : at[p] = "failed" => changed[p]

(* Whether only one of those who may write to the directory does.          *)
OneWriter == \A p, q \in Proc : {user[p], user[q]} \subseteq MayWrite => user[p] = user[q]

(* A refusal ("Can't write to file") means that at some time since it was  *)
(* started the process could not have written the file.  It holds in a     *)
(* directory where one user runs the producer, whatever processes that     *)
(* died have left there; not where several do, or where somebody uses the  *)
(* name of the temporary file for a file of his own: their files keep the  *)
(* probe from creating its own, and a proof that could be written is       *)
(* refused.                                                                *)
NoHolds == ~foreign /\ OneWriter => \A p \in Proc : at[p] = "refused" => ~could[p]
=============================================================================
