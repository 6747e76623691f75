-------------------------------- MODULE Prover --------------------------------
(***************************************************************************)
(* Processes of the proof producer working on one file system.  A process  *)
(* runs one stage (run_prover in main.cpp): a chain of operations of the   *)
(* class Prover joined by &&, each of which reads or writes one file or    *)
(* fills the std::optional members of the Prover object.                   *)
(*                                                                         *)
(* An operation on memory is one step.  Reading a file is one step.        *)
(* Writing one is two, because other processes can run, and this one can   *)
(* die, between the truncation of the file and the end of the write.       *)
(***************************************************************************)
EXTENDS Placeholder, Integers, Sequences

CONSTANTS
    Proc,         \* slots in which producer processes run, one after another
    Loc,          \* values of the path options; a file is a role and a Loc
    Invocation,   \* the command lines each slot's user starts the producer with
    Absent, Torn, \* no such file; a truncated, partial or mixed-up file
    LateFlushFails, \* whether the flush in ~ofstream can fail unnoticed
    MaxRuns, MaxFaults, MaxEdits  \* bounds on the environment

Stage == {"all", "preprocess", "prove", "verify"}

Role == {"circuit", "table", "description", "common", "public",
         "commitment", "proof", "json"}

(* ProverOptions: the stage, the FRI options and the path of every role,   *)
(* None where the option is not given and has no default.                  *)
ProverOptions == [stage : Stage, fri : Fri, at : [Role -> Loc \cup {None}]]

JsonInput == [proof : Proof, inputs : Table \cup {None}]

(* What a complete file of each role holds.                                *)
FileData(r) ==
    CASE r = "circuit"     -> Circuit
      [] r = "table"       -> Table
      [] r = "description" -> Shape
      [] r = "common"      -> CommonData
      [] r = "public"      -> PublicPreprocessedData
      [] r = "commitment"  -> LpcScheme
      [] r = "proof"       -> Proof
      [] r = "json"        -> JsonInput

AllFileData == UNION {FileData(r) : r \in Role}

ASSUME ProverAssumption ==
    /\ Proc # {}
    /\ Invocation \in [Proc -> SUBSET ProverOptions]
    /\ None \notin Proc \cup Loc \cup Circuit \cup Table \cup Shape \cup Fri
                 \cup AllFileData \cup PrivatePreprocessedData
                 \cup ProverOptions
    /\ Absent \notin AllFileData \cup {Torn}
    /\ Torn \notin AllFileData
    /\ LateFlushFails \in BOOLEAN
    /\ MaxRuns \in Nat /\ MaxFaults \in Nat /\ MaxEdits \in Nat

VARIABLES
    inv,     \* inv[p]: the options process p was started with
    status,  \* "idle", "running", "exit0", "exit1" or "killed"
    pc,      \* index in the stage's chain of the operation p executes
    mem,     \* the std::optional members of p's Prover, and its local proof
    res,     \* the local variable res of generate_to_file
    fd,      \* the file p has open for writing
    files,   \* the file system
    runs, faults, edits  \* environment counters, for the bounds

vars == <<inv, status, pc, mem, res, fd, files, runs, faults, edits>>
control == <<inv, status, pc>>
environment == <<runs, faults, edits>>

-------------------------------------------------------------------------------
(* The Prover object.  The assignment table is kept as the two halves that *)
(* are moved out of it separately; the other fields are the members of the *)
(* same name, and the proof that generate_to_file holds in a local.        *)
Memory ==
    [constraint_system : Circuit \cup {None},
     table_description : Shape \cup {None},
     public_table : Table \cup {None},
     private_table : Table \cup {None},
     public_inputs : Table \cup {None},
     public_preprocessed_data : PublicPreprocessedData \cup {None},
     common_data : CommonData \cup {None},
     private_preprocessed_data : PrivatePreprocessedData \cup {None},
     lpc_scheme : LpcScheme \cup {None},
     proof : Proof \cup {None}]

FreshProver ==
    [constraint_system |-> None, table_description |-> None,
     public_table |-> None, private_table |-> None, public_inputs |-> None,
     public_preprocessed_data |-> None, common_data |-> None,
     private_preprocessed_data |-> None, lpc_scheme |-> None, proof |-> None]

(* The && chain of each stage, with generate_to_file (skip_verification is *)
(* false in "all" and true in "prove") and verify_from_file unrolled.      *)
(* The definitions before a chain, or before an operator further down, are *)
(* mistaken versions of it, to show that the properties notice.            *)
AllUnverified ==
    <<"read_circuit", "read_assignment_table",
      "preprocess_public_data", "preprocess_private_data",
      "can_write_to_file", "placeholder_prover", "write_proof", "write_json",
      "save_common_data", "save_public_data", "save_commitment_state">>

AllPrivateFirst ==
    <<"read_circuit", "read_assignment_table",
      "preprocess_private_data", "preprocess_public_data",
      "can_write_to_file", "placeholder_prover", "verify", "write_proof", "write_json",
      "save_common_data", "save_public_data", "save_commitment_state">>

AllSavesEarly ==
    <<"read_circuit", "read_assignment_table",
      "preprocess_public_data", "save_common_data", "preprocess_private_data",
      "can_write_to_file", "placeholder_prover", "verify", "write_proof", "write_json",
      "save_public_data", "save_commitment_state">>

AllJsonEarly ==
    <<"read_circuit", "read_assignment_table",
      "preprocess_public_data", "preprocess_private_data",
      "can_write_to_file", "placeholder_prover", "write_json", "verify", "write_proof",
      "save_common_data", "save_public_data", "save_commitment_state">>

All ==
    <<"read_circuit", "read_assignment_table",
      "preprocess_public_data", "preprocess_private_data",
      "can_write_to_file", "placeholder_prover", "verify", "write_proof", "write_json",
      "save_common_data", "save_public_data", "save_commitment_state">>

Preprocess ==
    <<"read_circuit", "read_assignment_table", "save_assignment_description",
      "preprocess_public_data",
      "save_common_data", "save_public_data", "save_commitment_state">>

ProveWithNewScheme ==
    <<"read_circuit", "read_assignment_table", "read_public_data",
      "create_lpc_scheme", "preprocess_private_data",
      "can_write_to_file", "placeholder_prover", "write_proof", "write_json">>

Prove ==
    <<"read_circuit", "read_assignment_table", "read_public_data",
      "read_commitment_scheme", "preprocess_private_data",
      "can_write_to_file", "placeholder_prover", "write_proof", "write_json">>

VerifyStage ==
    <<"read_circuit", "read_common_data", "read_assignment_description",
      "create_lpc_scheme", "verify_from_file">>

Program == [all |-> All, preprocess |-> Preprocess, prove |-> Prove, verify |-> VerifyStage]

Chain(p) == Program[inv[p].stage]
Step(p) == Chain(p)[pc[p]]
Running(p) == status[p] = "running"

(* The role of the file an operation reads, or writes.                     *)
Source ==
    [read_circuit |-> "circuit", read_assignment_table |-> "table",
     read_public_data |-> "public", read_commitment_scheme |-> "commitment",
     read_common_data |-> "common", read_assignment_description |-> "description",
     verify_from_file |-> "proof"]

Sink ==
    [write_proof |-> "proof", write_json |-> "json",
     save_assignment_description |-> "description", save_common_data |-> "common",
     save_public_data |-> "public", save_commitment_state |-> "commitment"]

(* The optionals an operation dereferences.  The JSON file is opened       *)
(* before the operands of its contents are evaluated.                      *)
Operands(p) ==
    LET s == Step(p)
        preprocessed == IF mem[p].public_preprocessed_data # None
                        THEN "public_preprocessed_data" ELSE "common_data"
    IN CASE s = "preprocess_public_data" ->
               {"public_table", "constraint_system", "table_description"}
         [] s = "preprocess_private_data" ->
               {"constraint_system", "private_table", "table_description"}
         [] s = "placeholder_prover" ->
               {"public_preprocessed_data", "private_preprocessed_data",
                "table_description", "constraint_system", "lpc_scheme"}
         [] s \in {"verify", "verify_from_file"} ->
               {preprocessed, "table_description", "constraint_system", "lpc_scheme"}
         [] s = "write_proof" -> {"proof", "lpc_scheme"}
         [] s = "write_json" ->
               IF fd[p] = None THEN {}
               ELSE {"proof", "table_description", "public_inputs", "constraint_system"}
         [] s = "create_lpc_scheme" -> {"table_description"}
         [] s = "save_assignment_description" -> {"table_description"}
         [] s \in {"save_common_data", "save_public_data"} -> {"public_preprocessed_data"}
         [] s = "save_commitment_state" -> {"lpc_scheme"}
         [] OTHER -> {}

Empty(p) == {o \in Operands(p) : mem[p][o] = None}

(* p is about to execute operation s, and that is defined behaviour.       *)
At(p, s) == Running(p) /\ Step(p) = s /\ Empty(p) = {}

File(p, r) == <<r, inv[p].at[r]>>
Contents(p, r) == IF inv[p].at[r] = None THEN Absent ELSE files[File(p, r)]

(* decode_marshalling_from_file: a missing file cannot be opened, and what *)
(* is left of a truncated one does not decode.                             *)
Decodes(p, r) == Contents(p, r) \notin {Absent, Torn}

(* An operation returned true: the next one, or exit 0 after the last.     *)
Proceed(p) ==
    /\ pc' = [pc EXCEPT ![p] = @ + 1]
    /\ status' = [status EXCEPT ![p] = IF pc[p] = Len(Chain(p)) THEN "exit0" ELSE @]
    /\ UNCHANGED inv

(* An operation returned false, or threw: the chain is cut.                *)
Stop(p, s) ==
    /\ status' = [status EXCEPT ![p] = s]
    /\ UNCHANGED <<inv, pc>>

(* Something outside the model goes wrong.                                 *)
Fault ==
    /\ faults < MaxFaults
    /\ faults' = faults + 1
    /\ UNCHANGED <<runs, edits>>

-------------------------------------------------------------------------------
Init ==
    /\ inv = [p \in Proc |-> None]
    /\ status = [p \in Proc |-> "idle"]
    /\ pc = [p \in Proc |-> 1]
    /\ mem = [p \in Proc |-> FreshProver]
    /\ res = [p \in Proc |-> TRUE]
    /\ fd = [p \in Proc |-> None]
    /\ \E circuit \in [Loc -> Circuit], table \in [Loc -> Table] :
          files = [f \in Role \X Loc |->
                      CASE f[1] = "circuit" -> circuit[f[2]]
                        [] f[1] = "table"   -> table[f[2]]
                        [] OTHER            -> Absent]
    /\ runs = 0 /\ faults = 0 /\ edits = 0

(* A user runs the producer with options i.                                *)
Start(p, i) ==
    /\ ~Running(p)
    /\ runs < MaxRuns
    /\ runs' = runs + 1
    /\ inv' = [inv EXCEPT ![p] = i]
    /\ status' = [status EXCEPT ![p] = "running"]
    /\ pc' = [pc EXCEPT ![p] = 1]
    /\ mem' = [mem EXCEPT ![p] = FreshProver]
    /\ res' = [res EXCEPT ![p] = TRUE]
    /\ UNCHANGED <<fd, files, faults, edits>>

(* A reading operation that succeeds executes this on the members it fills *)
Load(p, m) ==
    /\ mem' = [mem EXCEPT ![p] = m]
    /\ Proceed(p)
    /\ UNCHANGED <<res, fd, files>>
    /\ UNCHANGED environment

ReadCircuit(p) ==
    /\ At(p, "read_circuit")
    /\ Decodes(p, "circuit")
    /\ Load(p, [mem[p] EXCEPT !.constraint_system = Contents(p, "circuit")])

ReadAssignmentTable(p) ==
    /\ At(p, "read_assignment_table")
    /\ Decodes(p, "table")
    /\ LET t == Contents(p, "table")
       IN Load(p, [mem[p] EXCEPT !.table_description = ShapeOf[t],
                                 !.public_table = t, !.private_table = t])

ReadAssignmentDescription(p) ==
    /\ At(p, "read_assignment_description")
    /\ Decodes(p, "description")
    /\ Load(p, [mem[p] EXCEPT !.table_description = Contents(p, "description")])

ReadCommonData(p) ==
    /\ At(p, "read_common_data")
    /\ Decodes(p, "common")
    /\ Load(p, [mem[p] EXCEPT !.common_data = Contents(p, "common")])

ReadPublicData(p) ==
    /\ At(p, "read_public_data")
    /\ Decodes(p, "public")
    /\ Load(p, [mem[p] EXCEPT !.public_preprocessed_data = Contents(p, "public")])

ReadCommitmentScheme(p) ==
    /\ At(p, "read_commitment_scheme")
    /\ Decodes(p, "commitment")
    /\ Load(p, [mem[p] EXCEPT !.lpc_scheme = Contents(p, "commitment")])

ReadRetried(p) ==
    /\ Running(p)
    /\ Step(p) \in DOMAIN Source
    /\ ~Decodes(p, Source[Step(p)])
    /\ UNCHANGED vars

(* The file of a reading operation cannot be opened or does not decode.    *)
ReadFails(p) ==
    /\ Running(p)
    /\ Step(p) \in DOMAIN Source
    /\ Empty(p) = {}
    /\ ~Decodes(p, Source[Step(p)])
    /\ Stop(p, "exit1")
    /\ UNCHANGED <<mem, res, fd, files>>
    /\ UNCHANGED environment

PreprocessPublicDataByValue(p) ==
    /\ At(p, "preprocess_public_data")
    /\ LET m == mem[p]
           scheme == NewLpcScheme(m.table_description, inv[p].fri)
       IN Load(p, [m EXCEPT
             !.public_inputs = m.public_table,
             !.lpc_scheme = scheme,
             !.public_preprocessed_data =
                 PublicPreprocess(m.constraint_system, m.public_table, scheme),
             !.public_table = None])

(* preprocess_public_data: takes the public inputs, creates the scheme and *)
(* moves the public half out of the assignment table.                      *)
PreprocessPublicData(p) ==
    /\ At(p, "preprocess_public_data")
    /\ LET m == mem[p]
           scheme == NewLpcScheme(m.table_description, inv[p].fri)
       IN Load(p, [m EXCEPT
             !.public_inputs = m.public_table,
             !.lpc_scheme =
                 WithFixedBatch(scheme, m.constraint_system, m.table_description),
             !.public_preprocessed_data =
                 PublicPreprocess(m.constraint_system, m.public_table, scheme),
             !.public_table = None])

(* preprocess_private_data: moves the private half out and resets the      *)
(* assignment table.                                                       *)
PreprocessPrivateData(p) ==
    /\ At(p, "preprocess_private_data")
    /\ LET m == mem[p]
       IN Load(p, [m EXCEPT
             !.private_preprocessed_data =
                 PrivatePreprocess(m.constraint_system, m.private_table, m.table_description),
             !.public_table = None, !.private_table = None])

CreateLpcScheme(p) ==
    /\ At(p, "create_lpc_scheme")
    /\ Load(p, [mem[p] EXCEPT
          !.lpc_scheme = NewLpcScheme(mem[p].table_description, inv[p].fri)])

(* generate_to_file, up to the writing of the proof.                       *)
CanWriteToFile(p) ==
    /\ At(p, "can_write_to_file")
    /\ Load(p, mem[p])

CannotWriteToFile(p) ==
    /\ At(p, "can_write_to_file")
    /\ Fault
    /\ Stop(p, "exit1")
    /\ UNCHANGED <<mem, res, fd, files>>

GenerateProof(p) ==
    /\ At(p, "placeholder_prover")
    /\ LET m == mem[p]
       IN Load(p, [m EXCEPT
             !.proof = PlaceholderProve(m.public_preprocessed_data, m.private_preprocessed_data,
                           m.table_description, m.constraint_system, m.lpc_scheme)])

(* verify(proof): the common data come with the preprocessed data if those *)
(* are there.                                                              *)
Accepts(p, proof) ==
    LET m == mem[p]
        common == IF m.public_preprocessed_data # None
                  THEN m.public_preprocessed_data.common ELSE m.common_data
    IN PlaceholderVerify(common, proof, m.table_description, m.constraint_system, m.lpc_scheme)

Conclude(p, accepted) ==
    /\ IF accepted THEN Proceed(p) ELSE Stop(p, "exit1")
    /\ UNCHANGED <<mem, res, fd, files>>
    /\ UNCHANGED environment

Verify(p) ==
    /\ At(p, "verify")
    /\ Conclude(p, Accepts(p, mem[p].proof))

VerifyFromFile(p) ==
    /\ At(p, "verify_from_file")
    /\ Decodes(p, "proof")
    /\ Conclude(p, Accepts(p, Contents(p, "proof")))

-------------------------------------------------------------------------------
(* Writing.  fd[p] names the file and tells whether p has been the only    *)
(* process to have it open since it was truncated.                         *)
Descriptor == [file : Role \X Loc, alone : BOOLEAN]

Target(p) == File(p, Sink[Step(p)])
AtWrite(p) == Running(p) /\ Step(p) \in DOMAIN Sink /\ Empty(p) = {}
Opens(q, f) == fd[q] # None /\ fd[q].file = f

(* The value a writing operation encodes.                                  *)
Payload(p, r) ==
    CASE r = "description" -> mem[p].table_description
      [] r = "common"      -> mem[p].public_preprocessed_data.common
      [] r = "public"      -> mem[p].public_preprocessed_data
      [] r = "commitment"  -> mem[p].lpc_scheme
      [] r = "proof"       -> mem[p].proof
      [] r = "json"        -> [proof |-> mem[p].proof, inputs |-> mem[p].public_inputs]

(* Truncating open; every other process that has the file open now shares  *)
(* it with p.                                                              *)
OpenOutput(p) ==
    /\ AtWrite(p)
    /\ fd[p] = None
    /\ inv[p].at[Sink[Step(p)]] # None
    /\ LET f == Target(p)
       IN /\ files' = [files EXCEPT ![f] = Torn]
          /\ fd' = [q \in Proc |->
                      IF q = p THEN [file |-> f, alone |-> \A o \in Proc : ~Opens(o, f)]
                      ELSE IF Opens(q, f) THEN [file |-> f, alone |-> FALSE]
                      ELSE fd[q]]
    /\ UNCHANGED control
    /\ UNCHANGED <<mem, res>>
    /\ UNCHANGED environment

ReturnIgnoringRes(p, ok) ==
    /\ IF ok \/ Step(p) \in {"write_proof", "write_json"} THEN Proceed(p) ELSE Stop(p, "exit1")
    /\ UNCHANGED res

(* How a writing operation that ends with "ok" continues.  Failing to      *)
(* write the proof does not keep the JSON file from being written;         *)
(* generate_to_file then returns res whatever became of the JSON file.     *)
Return(p, ok) ==
    \/ /\ Step(p) = "write_proof"
       /\ res' = [res EXCEPT ![p] = ok]
       /\ Proceed(p)
    \/ /\ Step(p) # "write_proof"
       /\ LET good == IF Step(p) = "write_json" THEN res[p] ELSE ok
          IN IF good THEN Proceed(p) ELSE Stop(p, "exit1")
       /\ UNCHANGED res

(* Opening fails: the path is empty ...                                    *)
NoOutputPath(p) ==
    /\ AtWrite(p)
    /\ fd[p] = None
    /\ inv[p].at[Sink[Step(p)]] = None
    /\ Return(p, FALSE)
    /\ UNCHANGED <<mem, fd, files>>
    /\ UNCHANGED environment

(* ... or cannot be written to.                                            *)
OpenFails(p) ==
    /\ AtWrite(p)
    /\ fd[p] = None
    /\ Fault
    /\ Return(p, FALSE)
    /\ UNCHANGED <<mem, fd, files>>

(* What an interrupted write leaves in p's file: a torn one, or what       *)
(* another process has put there in the meantime.                          *)
Residue(p) == IF fd[p].alone THEN {Torn} ELSE {Torn, files[fd[p].file]}

(* What a finished write of data leaves: where other writers interfered,   *)
(* theirs may be mixed with it.                                            *)
Outcome(p, data) == IF fd[p].alone THEN {data} ELSE {data, Torn}

CloseForgotten(p, value, ok) ==
    /\ files' = [files EXCEPT ![fd[p].file] = value]
    /\ Return(p, ok)
    /\ UNCHANGED <<mem, fd>>

(* p writes value to the file it has open and closes it.                   *)
CloseWith(p, value, ok) ==
    /\ files' = [files EXCEPT ![fd[p].file] = value]
    /\ fd' = [fd EXCEPT ![p] = None]
    /\ Return(p, ok)
    /\ UNCHANGED mem

FinishWrite(p) ==
    /\ AtWrite(p)
    /\ fd[p] # None
    /\ \E value \in Outcome(p, Payload(p, Sink[Step(p)])) : CloseWith(p, value, TRUE)
    /\ UNCHANGED environment

(* A write fails: the stream is checked, except that of the JSON file.     *)
WriteFails(p) ==
    /\ AtWrite(p)
    /\ fd[p] # None
    /\ Fault
    /\ \E value \in Residue(p) : CloseWith(p, value, FALSE)

(* The last buffer is flushed after stream.fail() has been consulted.      *)
LateFlush(p) ==
    /\ LateFlushFails
    /\ AtWrite(p)
    /\ fd[p] # None
    /\ Step(p) # "write_json"
    /\ Fault
    /\ \E value \in Residue(p) : CloseWith(p, value, TRUE)

-------------------------------------------------------------------------------
(* p ends with status s; the file it has open, if any, is cut short.       *)
End(p, s) ==
    /\ Stop(p, s)
    /\ fd' = [fd EXCEPT ![p] = None]
    /\ \/ fd[p] = None /\ UNCHANGED files
       \/ /\ fd[p] # None
          /\ \E value \in Residue(p) : files' = [files EXCEPT ![fd[p].file] = value]
    /\ UNCHANGED <<mem, res>>

(* An optional that is empty is dereferenced: the process dies, or goes on *)
(* with what it finds there.  The latter is followed only for the public   *)
(* inputs, whose garbage ends up in the JSON file.                         *)
Undefined(p) ==
    /\ Running(p)
    /\ Empty(p) # {}
    /\ \/ End(p, "killed")
       \/ /\ Empty(p) = {"public_inputs"}
          /\ \E value \in Outcome(p, [proof |-> mem[p].proof, inputs |-> None]) :
                CloseWith(p, value, TRUE)
    /\ UNCHANGED environment

(* An operation throws, and run_prover catches it.                         *)
Throw(p) ==
    /\ Running(p)
    /\ Fault
    /\ End(p, "exit1")

(* The process dies.                                                       *)
Kill(p) ==
    /\ Running(p)
    /\ Fault
    /\ End(p, "killed")

(* The user compiles another circuit, or runs it on other input.           *)
ReplaceInput ==
    /\ edits < MaxEdits
    /\ edits' = edits + 1
    /\ \E l \in Loc :
          \/ \E c \in Circuit : files' = [files EXCEPT ![<<"circuit", l>>] = c]
          \/ \E t \in Table : files' = [files EXCEPT ![<<"table", l>>] = t]
    /\ UNCHANGED control
    /\ UNCHANGED <<mem, res, fd, runs, faults>>

-------------------------------------------------------------------------------
Read(p) ==
    \/ ReadCircuit(p) \/ ReadAssignmentTable(p) \/ ReadAssignmentDescription(p)
    \/ ReadCommonData(p) \/ ReadPublicData(p) \/ ReadCommitmentScheme(p)
    \/ ReadFails(p)

Compute(p) ==
    \/ PreprocessPublicData(p) \/ PreprocessPrivateData(p) \/ CreateLpcScheme(p)
    \/ CanWriteToFile(p) \/ GenerateProof(p) \/ Verify(p) \/ VerifyFromFile(p)

Write(p) == OpenOutput(p) \/ NoOutputPath(p) \/ FinishWrite(p)

(* What the program does when it is scheduled.                             *)
Work(p) == Read(p) \/ Compute(p) \/ Write(p) \/ Undefined(p)

Failure(p) ==
    \/ CannotWriteToFile(p) \/ OpenFails(p) \/ WriteFails(p) \/ LateFlush(p)
    \/ Throw(p) \/ Kill(p)

Next ==
    \/ \E p \in Proc : Work(p) \/ Failure(p) \/ \E i \in Invocation[p] : Start(p, i)
    \/ ReplaceInput

Spec == Init /\ [][Next]_vars

(* The operating system runs every process that can run; nothing is        *)
(* assumed of users or of failures.                                        *)
FairSpec == Spec /\ \A p \in Proc : WF_vars(Work(p))

-------------------------------------------------------------------------------
ControlOK ==
    /\ inv \in [Proc -> ProverOptions \cup {None}]
    /\ status \in [Proc -> {"idle", "running", "exit0", "exit1", "killed"}]
    /\ pc \in [Proc -> Nat]
    /\ \A p \in Proc : Running(p) => inv[p] # None /\ pc[p] \in 1..Len(Chain(p))

MemoryOK ==
    /\ mem \in [Proc -> Memory]
    /\ res \in [Proc -> BOOLEAN]

FilesOK ==
    /\ files \in [Role \X Loc -> AllFileData \cup {Absent, Torn}]
    /\ \A f \in Role \X Loc : files[f] \in FileData(f[1]) \cup {Absent, Torn}

DescriptorsOK ==
    /\ fd \in [Proc -> Descriptor \cup {None}]
    /\ \A p \in Proc : fd[p] # None =>
          Running(p) /\ Step(p) \in DOMAIN Sink /\ fd[p].file = Target(p)

EnvironmentOK == runs \in 0..MaxRuns /\ faults \in 0..MaxFaults /\ edits \in 0..MaxEdits

(* Every member holds a value of its type or nothing, every file what its  *)
(* role says or the remains of it, and a process has a file open only      *)
(* while it executes the operation that writes it.                         *)
TypeOK == ControlOK /\ MemoryOK /\ FilesOK /\ DescriptorsOK /\ EnvironmentOK

(* The chains of run_prover never dereference an empty optional, whatever  *)
(* other processes do to the files, except for the public inputs when the  *)
(* prove stage writes the JSON file.                                       *)
OptionalsEngaged ==
    \A p \in Proc : Running(p) /\ Empty(p) # {} =>
        inv[p].stage = "prove" /\ Step(p) = "write_json" /\ Empty(p) = {"public_inputs"}

(* The verdict of the "all" stage on its own proof depends on its inputs   *)
(* alone: it accepts exactly when the table it read satisfies the circuit  *)
(* it read.  Nothing shared, and no order of the preprocessing calls, gets *)
(* between the two.                                                        *)
VerdictIsExact ==
    \A p \in Proc : At(p, "verify") =>
        LET m == mem[p]
        IN Accepts(p, m.proof) <=>
               <<m.constraint_system, m.private_preprocessed_data.table>> \in Satisfies

(* Only a process that has generated a proof touches a proof file, be it   *)
(* to truncate it, and only a proof that its verifier accepts, unless it   *)
(* runs the prove stage, which skips the verification: a failing "all" run *)
(* leaves the previous proof as it was.                                    *)
PublishedProofsVerified ==
    [][\A l \in Loc : files'[<<"proof", l>>] # files[<<"proof", l>>] =>
          \E p \in Proc :
             /\ Running(p) /\ Step(p) = "write_proof" /\ Target(p) = <<"proof", l>>
             /\ mem[p].proof # None
             /\ inv[p].stage = "all" => Accepts(p, mem[p].proof)]_vars

(* Every run ends.                                                         *)
EveryRunEnds == \A p \in Proc : Running(p) ~> ~Running(p)

Outputs(s) == {Sink[Program[s][k]] : k \in {n \in 1..Len(Program[s]) : Program[s][n] \in DOMAIN Sink}}

(* No other user's command lines write to p's file of role r.              *)
OwnFile(p, r) ==
    \A q \in Proc \ {p} : \A i \in Invocation[q] : r \in Outputs(i.stage) => i.at[r] # inv[p].at[r]

(* Exit code 0 means that every output of the stage that is p's own is on  *)
(* disk, whole, and holds what the process computed, whatever failed on    *)
(* the way and whatever happens to the files processes share; or that a    *)
(* flush has failed late and the output is torn.  The JSON file is not     *)
(* covered: its failures are not reported.                                 *)
ExitZeroIsDurable ==
    \A p \in Proc : status[p] = "exit0" =>
        \A r \in Outputs(inv[p].stage) \ {"json"} : OwnFile(p, r) =>
            \/ Contents(p, r) = Payload(p, r)
            \/ LateFlushFails /\ Contents(p, r) = Torn

-------------------------------------------------------------------------------
(* What can be said when the producer runs on its own, one process after   *)
(* the other, as tests/make_proof_for_pairs.sh runs it.                    *)

(* There is one slot, where one process runs after the other.              *)
OneByOne == \A p, q \in Proc : p = q

(* All command lines that name the file of role r name the same one.       *)
SamePath(r) == \E l \in Loc : \A p \in Proc : \A i \in Invocation[p] : i.at[r] \in {l, None}

(* They all do, for instance because they leave the option at its default. *)
Given(r) == \A p \in Proc : \A i \in Invocation[p] : i.at[r] # None

Artifacts == {"common", "public", "commitment"}

(* Between runs, and as long as nothing has failed, the three artifacts of *)
(* preprocessing stem from one and the same run: a run that stops early    *)
(* replaces all of them or none.                                           *)
ArtifactsCoherent ==
    /\ OneByOne /\ \A r \in Artifacts : SamePath(r) /\ Given(r)
    /\ faults = 0 /\ \A p \in Proc : ~Running(p)
    => \A q \in Proc : \A i \in Invocation[q] :
            LET artifact(r) == files[<<r, i.at[r]>>]
                c == artifact("common")
            IN IF c = Absent THEN artifact("public") = Absent /\ artifact("commitment") = Absent
               ELSE /\ artifact("public") = [common |-> c]
                    /\ artifact("commitment") =
                          WithFixedBatch(NewLpcScheme(c.shape, c.fri), c.circuit, c.shape)

(* Between runs, and as long as nothing has failed, the JSON file belongs  *)
(* to the proof file beside it: it holds that very proof, and its public   *)
(* inputs unless they were garbage, or else it is torn.                    *)
JsonFollowsProof ==
    /\ OneByOne /\ \A p \in Proc : \A i \in Invocation[p] : i.at["json"] = i.at["proof"]
    /\ faults = 0 /\ \A p \in Proc : ~Running(p)
    => \A l \in Loc :
            LET json == files[<<"json", l>>]
                proof == files[<<"proof", l>>]
            IN /\ json = Absent <=> proof = Absent
               /\ json \notin {Absent, Torn} =>
                     json.proof = proof /\ json.inputs \in {proof.table, None}

(* Preprocess, prove and verify work together: without failures, on inputs *)
(* that satisfy each other and do not change, the verify stage only fails  *)
(* if one of its files has not been produced yet or has been produced      *)
(* under other FRI options.                                                *)
VerifyRejectsForCause ==
    /\ OneByOne /\ (\A r \in Role : SamePath(r)) /\ \A r \in Artifacts : Given(r)
    /\ faults = 0 /\ edits = 0
    /\ \A l, m \in Loc : <<files[<<"circuit", l>>], files[<<"table", m>>]>> \in Satisfies
    => \A p \in Proc : status[p] = "exit1" /\ inv[p].stage = "verify" =>
           \/ \E r \in {"circuit", "common", "description", "proof"} : Contents(p, r) = Absent
           \/ \E r \in {"common", "proof"} : Contents(p, r).fri # inv[p].fri

-------------------------------------------------------------------------------
(* What the sources say, and the code does not do.                         *)

(* prover.hpp, above generate_to_file: it is enough to call the            *)
(* preprocessor or to load the preprocessed data before calling it.  Then  *)
(* everything it dereferences is there.                                    *)
PreprocessedDataSuffices ==
    \A p \in Proc :
        /\ Running(p)
        /\ Step(p) \in {"placeholder_prover", "verify", "write_proof", "write_json"}
        /\ mem[p].public_preprocessed_data # None
        /\ mem[p].private_preprocessed_data # None
        => Empty(p) = {}

(* tests/make_proof_for_pairs.sh takes exit code 0 as success: the proof   *)
(* it asked for is there.                                                  *)
SuccessMeansProof ==
    \A p \in Proc : status[p] = "exit0" /\ "proof" \in Outputs(inv[p].stage) =>
        Contents(p, "proof") = mem[p].proof
===============================================================================
