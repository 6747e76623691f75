---------------------------- MODULE ProverProofs ----------------------------
(***************************************************************************)
(* Proofs about Prover, for any number of processes, files, circuits,      *)
(* tables and command lines: what its members hold, that it implements     *)
(* Publication, and what its files hold.                                   *)
(***************************************************************************)
EXTENDS ProverPublishes, TLAPS

-----------------------------------------------------------------------------
(* Facts about the chains.                                                 *)

(* No stage is empty.                                                      *)
LEMMA StageLength ==
    \A s \in Stage : Len(Program[s]) \in Nat \ {0}
<1>1. Len(All) = 12 BY DEF All
<1>2. Len(Preprocess) = 7 BY DEF Preprocess
<1>3. Len(Prove) = 9 BY DEF Prove
<1>4. Len(VerifyStage) = 5 BY DEF VerifyStage
<1> QED BY <1>1, <1>2, <1>3, <1>4 DEF Stage, Program

LEMMA ChainLength ==
    ASSUME NEW p \in Proc, ControlOK, Running(p)
    PROVE  Len(Chain(p)) \in Nat \ {0}
BY StageLength, ProverAssumption DEF ControlOK, ProverOptions, Chain

(* The path options of a running process.                                  *)
LEMMA Paths ==
    ASSUME NEW p \in Proc, ControlOK, Running(p), NEW r \in Role
    PROVE  /\ inv[p].fri \in Fri
           /\ inv[p].at[r] \in Loc \cup {None}
           /\ inv[p].at[r] # None => File(p, r) \in Role \X Loc
BY DEF ControlOK, ProverOptions, File

-----------------------------------------------------------------------------
(* Steps of one process, one lemma for each way of ending an operation.    *)

(* Moving on, or stopping, keeps the control state well-formed.            *)
LEMMA ProceedControl ==
    ASSUME NEW p \in Proc, ControlOK, Running(p), Proceed(p)
    PROVE  ControlOK'
<1>1. inv'[p] = inv[p] /\ Chain(p)' = Chain(p) BY DEF Proceed, Chain
<1>2. Len(Chain(p)) \in Nat BY ChainLength
<1>3. ASSUME NEW q \in Proc, Running(q)'
      PROVE  inv'[q] # None /\ pc'[q] \in 1..Len(Chain(q)')
  <2>1. CASE q = p
    <3>1. pc[p] # Len(Chain(p)) BY <1>3, <2>1 DEF Proceed, Running, ControlOK
    <3> QED BY <1>1, <1>2, <2>1, <3>1 DEF Proceed, ControlOK
  <2>2. CASE q # p BY <1>3, <2>2 DEF Proceed, Running, ControlOK, Chain
  <2> QED BY <2>1, <2>2
<1> QED BY <1>3 DEF Proceed, ControlOK

LEMMA StopControl ==
    ASSUME NEW p \in Proc, NEW s \in {"exit0", "exit1", "killed"}, ControlOK, Stop(p, s)
    PROVE  ControlOK'
BY DEF Stop, ControlOK, Running, Chain

(* A process that does not write has no file open.                         *)
LEMMA NotOpen ==
    ASSUME NEW p \in Proc, DescriptorsOK, Step(p) \notin DOMAIN Sink
    PROVE  fd[p] = None
BY DEF DescriptorsOK

(* The other processes keep what they have open.                           *)
LEMMA OthersDescriptors ==
    ASSUME NEW p \in Proc, DescriptorsOK, inv' = inv,
           \A q \in Proc \ {p} : pc'[q] = pc[q] /\ status'[q] = status[q] /\ fd'[q] = fd[q],
           fd' \in [Proc -> Descriptor \cup {None}], fd'[p] = None
    PROVE  DescriptorsOK'
<1> SUFFICES ASSUME NEW q \in Proc, fd'[q] # None
             PROVE  Running(q)' /\ Step(q)' \in DOMAIN Sink /\ fd'[q].file = Target(q)'
    BY DEF DescriptorsOK
<1>1. q # p OBVIOUS
<1>2. Running(q)' = Running(q) /\ Step(q)' = Step(q) /\ Target(q)' = Target(q)
    BY <1>1 DEF Running, Step, Chain, Target, File
<1> QED BY <1>1, <1>2 DEF DescriptorsOK

LEMMA LoadStep ==
    ASSUME NEW p \in Proc, TypeOK, Running(p), Step(p) \notin DOMAIN Sink,
           NEW m \in Memory, Load(p, m)
    PROVE  TypeOK'
<1> USE DEF TypeOK, Load
<1>1. ControlOK' BY ProceedControl
<1>2. MemoryOK' BY DEF MemoryOK
<1>3. FilesOK' BY DEF FilesOK
<1>4. DescriptorsOK'
  <2>1. fd[p] = None BY NotOpen
  <2> QED BY <2>1, OthersDescriptors DEF DescriptorsOK, Proceed, ControlOK
<1>5. EnvironmentOK' BY DEF EnvironmentOK, environment
<1> QED BY <1>1, <1>2, <1>3, <1>4, <1>5

LEMMA StopStep ==
    ASSUME NEW p \in Proc, TypeOK, Running(p), Step(p) \notin DOMAIN Sink,
           NEW s \in {"exit0", "exit1", "killed"}, Stop(p, s),
           UNCHANGED <<mem, res, fd, files>>, EnvironmentOK'
    PROVE  TypeOK'
<1> USE DEF TypeOK
<1>1. ControlOK' BY StopControl
<1>2. MemoryOK' BY DEF MemoryOK
<1>3. FilesOK' BY DEF FilesOK
<1>4. DescriptorsOK'
  <2>1. fd[p] = None BY NotOpen
  <2> QED BY <2>1, OthersDescriptors DEF DescriptorsOK, Stop, ControlOK
<1> QED BY <1>1, <1>2, <1>3, <1>4

(* Files keep their types when one of them gets a well-typed value.        *)
LEMMA FileUpdate ==
    ASSUME FilesOK, NEW f \in Role \X Loc, NEW v \in FileData(f[1]) \cup {Absent, Torn},
           files' = [files EXCEPT ![f] = v]
    PROVE  FilesOK'
<1>1. FileData(f[1]) \subseteq AllFileData BY DEF AllFileData
<1> QED BY <1>1 DEF FilesOK

(* How a writing operation continues.                                      *)
LEMMA ReturnControl ==
    ASSUME NEW p \in Proc, NEW ok \in BOOLEAN, ControlOK, res \in [Proc -> BOOLEAN],
           Running(p), Return(p, ok)
    PROVE  /\ ControlOK'
           /\ res' \in [Proc -> BOOLEAN]
           /\ inv' = inv
           /\ \A q \in Proc \ {p} : pc'[q] = pc[q] /\ status'[q] = status[q]
<1>1. CASE Proceed(p)
    BY <1>1, ProceedControl DEF Proceed, Return, ControlOK
<1>2. CASE Stop(p, "exit1")
    BY <1>2, StopControl DEF Stop, Return, ControlOK
<1> QED BY <1>1, <1>2 DEF Return

LEMMA NoFileStep ==
    ASSUME NEW p \in Proc, NEW ok \in BOOLEAN, TypeOK, Running(p), fd[p] = None,
           Return(p, ok), UNCHANGED <<mem, fd, files>>, EnvironmentOK'
    PROVE  TypeOK'
<1> USE DEF TypeOK
<1>1. ControlOK' /\ MemoryOK' BY ReturnControl DEF MemoryOK
<1>2. FilesOK' BY DEF FilesOK
<1>3. DescriptorsOK'
    BY ReturnControl, OthersDescriptors DEF DescriptorsOK, MemoryOK
<1> QED BY <1>1, <1>2, <1>3

LEMMA CloseStep ==
    ASSUME NEW p \in Proc, NEW ok \in BOOLEAN, TypeOK, fd[p] # None,
           NEW v \in FileData(Sink[Step(p)]) \cup {Absent, Torn}, CloseWith(p, v, ok),
           EnvironmentOK'
    PROVE  TypeOK'
<1> USE DEF TypeOK, CloseWith
<1>1. Running(p) /\ fd[p] \in Descriptor /\ fd[p].file = Target(p)
    BY DEF DescriptorsOK
<1>2. ControlOK' /\ MemoryOK' BY <1>1, ReturnControl DEF MemoryOK
<1>3. FilesOK'
    BY <1>1, FileUpdate DEF Descriptor, Target, File
<1>4. DescriptorsOK'
  <2>1. /\ fd' \in [Proc -> Descriptor \cup {None}] /\ fd'[p] = None
        /\ \A q \in Proc \ {p} : fd'[q] = fd[q]
      BY DEF DescriptorsOK
  <2> QED BY <1>1, <2>1, ReturnControl, OthersDescriptors DEF MemoryOK
<1> QED BY <1>2, <1>3, <1>4

(* What is left of a file that was not written to the end.                 *)
LEMMA ResidueType ==
    ASSUME NEW p \in Proc, TypeOK, fd[p] # None, NEW v \in Residue(p)
    PROVE  /\ Running(p) /\ fd[p].file \in Role \X Loc
           /\ fd[p].file[1] = Sink[Step(p)]
           /\ v \in FileData(Sink[Step(p)]) \cup {Absent, Torn}
BY DEF TypeOK, DescriptorsOK, FilesOK, Descriptor, Target, File, Residue

(* A process that ends loses the file it has open.                         *)
LEMMA EndStep ==
    ASSUME NEW p \in Proc, NEW s \in {"exit0", "exit1", "killed"}, TypeOK, Running(p),
           End(p, s), EnvironmentOK'
    PROVE  TypeOK'
<1> USE DEF TypeOK, End
<1>1. ControlOK' BY StopControl
<1>2. MemoryOK' BY DEF MemoryOK
<1>3. FilesOK'
  <2>1. CASE fd[p] = None BY <2>1 DEF FilesOK
  <2>2. CASE fd[p] # None BY <2>2, ResidueType, FileUpdate
  <2> QED BY <2>1, <2>2
<1>4. DescriptorsOK'
  <2>1. /\ fd' \in [Proc -> Descriptor \cup {None}] /\ fd'[p] = None
        /\ \A q \in Proc \ {p} : fd'[q] = fd[q]
      BY DEF DescriptorsOK
  <2> QED BY <2>1, OthersDescriptors DEF Stop, ControlOK
<1> QED BY <1>1, <1>2, <1>3, <1>4

(* A truncating open.                                                      *)
LEMMA OpenStep ==
    ASSUME NEW p \in Proc, TypeOK, OpenOutput(p)
    PROVE  TypeOK'
<1> USE DEF TypeOK, OpenOutput, control, environment
<1>1. Sink[Step(p)] \in Role BY DEF AtWrite, Sink, Role
<1>2. Target(p) \in Role \X Loc BY <1>1, Paths DEF AtWrite, Target
<1>3. ControlOK' BY DEF ControlOK, Running, Chain
<1>4. MemoryOK' BY DEF MemoryOK
<1>5. FilesOK' BY <1>2, FileUpdate
<1>6. DescriptorsOK'
  <2>1. \A q \in Proc : Running(q)' = Running(q) /\ Step(q)' = Step(q) /\ Target(q)' = Target(q)
      BY DEF Running, Step, Chain, Target, File
  <2>2. fd' \in [Proc -> Descriptor \cup {None}]
      BY <1>2 DEF DescriptorsOK, Descriptor, Opens
  <2>3. ASSUME NEW q \in Proc, fd'[q] # None
        PROVE  Running(q)' /\ Step(q)' \in DOMAIN Sink /\ fd'[q].file = Target(q)'
    <3>1. CASE q = p BY <2>1, <3>1 DEF AtWrite
    <3>2. CASE q # p BY <2>1, <2>3, <3>2 DEF DescriptorsOK, Opens
    <3> QED BY <3>1, <3>2
  <2> QED BY <2>2, <2>3 DEF DescriptorsOK
<1>7. EnvironmentOK' BY DEF EnvironmentOK
<1> QED BY <1>3, <1>4, <1>5, <1>6, <1>7

-----------------------------------------------------------------------------
(* Type correctness, action by action.                                     *)

(* The optionals that an operation needs are there when p is at it.        *)
LEMMA OperandThere ==
    ASSUME NEW p \in Proc, Empty(p) = {}, NEW o \in Operands(p)
    PROVE  mem[p][o] # None
BY DEF Empty

(* What a file that decodes holds.                                         *)
LEMMA Decoded ==
    ASSUME NEW p \in Proc, TypeOK, Running(p), NEW r \in Role, Decodes(p, r)
    PROVE  Contents(p, r) \in FileData(r)
<1>1. inv[p].at[r] # None BY DEF Decodes, Contents
<1>2. File(p, r) \in Role \X Loc BY <1>1, Paths DEF TypeOK
<1>3. File(p, r)[1] = r BY DEF File
<1> QED BY <1>1, <1>2, <1>3 DEF Decodes, Contents, TypeOK, FilesOK

LEMMA ReadType ==
    ASSUME NEW p \in Proc, TypeOK, Read(p)
    PROVE  TypeOK'
<1> USE DEF Role, FileData
<1>1. mem[p] \in Memory BY DEF TypeOK, MemoryOK
<1>2. CASE ReadCircuit(p)
  <2>1. Contents(p, "circuit") \in Circuit BY <1>2, Decoded DEF ReadCircuit, At
  <2>2. [mem[p] EXCEPT !.constraint_system = Contents(p, "circuit")] \in Memory
      BY <1>1, <2>1 DEF Memory
  <2> QED BY <1>2, <2>2, LoadStep DEF ReadCircuit, At, Sink
<1>3. CASE ReadAssignmentTable(p)
  <2> DEFINE t == Contents(p, "table")
             m == [mem[p] EXCEPT !.table_description = ShapeOf[t],
                                 !.public_table = t, !.private_table = t]
  <2>1. t \in Table BY <1>3, Decoded DEF ReadAssignmentTable, At
  <2>2. ShapeOf[t] \in Shape BY <2>1, PlaceholderAssumption
  <2>3. m \in Memory BY <1>1, <2>1, <2>2 DEF Memory
  <2>4. Load(p, m) BY <1>3 DEF ReadAssignmentTable
  <2> HIDE DEF t, m
  <2> QED BY <1>3, <2>3, <2>4, LoadStep DEF ReadAssignmentTable, At, Sink
<1>4. CASE ReadAssignmentDescription(p)
  <2>1. Contents(p, "description") \in Shape
      BY <1>4, Decoded DEF ReadAssignmentDescription, At
  <2>2. [mem[p] EXCEPT !.table_description = Contents(p, "description")] \in Memory
      BY <1>1, <2>1 DEF Memory
  <2> QED BY <1>4, <2>2, LoadStep DEF ReadAssignmentDescription, At, Sink
<1>5. CASE ReadCommonData(p)
  <2>1. Contents(p, "common") \in CommonData BY <1>5, Decoded DEF ReadCommonData, At
  <2>2. [mem[p] EXCEPT !.common_data = Contents(p, "common")] \in Memory
      BY <1>1, <2>1 DEF Memory
  <2> QED BY <1>5, <2>2, LoadStep DEF ReadCommonData, At, Sink
<1>6. CASE ReadPublicData(p)
  <2>1. Contents(p, "public") \in PublicPreprocessedData
      BY <1>6, Decoded DEF ReadPublicData, At
  <2>2. [mem[p] EXCEPT !.public_preprocessed_data = Contents(p, "public")] \in Memory
      BY <1>1, <2>1 DEF Memory
  <2> QED BY <1>6, <2>2, LoadStep DEF ReadPublicData, At, Sink
<1>7. CASE ReadCommitmentScheme(p)
  <2>1. Contents(p, "commitment") \in LpcScheme
      BY <1>7, Decoded DEF ReadCommitmentScheme, At
  <2>2. [mem[p] EXCEPT !.lpc_scheme = Contents(p, "commitment")] \in Memory
      BY <1>1, <2>1 DEF Memory
  <2> QED BY <1>7, <2>2, LoadStep DEF ReadCommitmentScheme, At, Sink
<1>8. CASE ReadFails(p)
  <2>1. EnvironmentOK' BY <1>8 DEF ReadFails, environment, TypeOK, EnvironmentOK
  <2>2. Step(p) \notin DOMAIN Sink BY <1>8 DEF ReadFails, Source, Sink
  <2> QED BY <1>8, <2>1, <2>2, StopStep DEF ReadFails
<1> QED BY <1>2, <1>3, <1>4, <1>5, <1>6, <1>7, <1>8 DEF Read

(* Conclude either moves on or stops.                                      *)
LEMMA ConcludeType ==
    ASSUME NEW p \in Proc, TypeOK, Running(p), Step(p) \notin DOMAIN Sink,
           NEW accepted \in BOOLEAN, Conclude(p, accepted)
    PROVE  TypeOK'
<1>1. EnvironmentOK' BY DEF Conclude, environment, TypeOK, EnvironmentOK
<1>2. CASE accepted
  <2>1. mem[p] \in Memory BY DEF TypeOK, MemoryOK
  <2>2. mem' = [mem EXCEPT ![p] = mem[p]] BY DEF Conclude, TypeOK, MemoryOK
  <2>3. Load(p, mem[p]) BY <1>2, <2>2 DEF Load, Conclude
  <2> QED BY <2>1, <2>3, LoadStep
<1>3. CASE ~accepted BY <1>1, <1>3, StopStep DEF Conclude
<1> QED BY <1>2, <1>3

(* What the preprocessors and the prover hand back.                        *)
LEMMA PublicResult ==
    ASSUME NEW p \in Proc, TypeOK, At(p, "preprocess_public_data"),
           NEW scheme, scheme = NewLpcScheme(mem[p].table_description, inv[p].fri)
    PROVE  /\ mem[p].public_table \in Table
           /\ WithFixedBatch(scheme, mem[p].constraint_system, mem[p].table_description)
                 \in LpcScheme
           /\ PublicPreprocess(mem[p].constraint_system, mem[p].public_table, scheme)
                 \in PublicPreprocessedData
<1> USE DEF At
<1> DEFINE m == mem[p]
<1>1. {"public_table", "constraint_system", "table_description"} \subseteq Operands(p)
    BY DEF Operands
<1>2. m.public_table # None /\ m.constraint_system # None /\ m.table_description # None
    BY <1>1, OperandThere
<1>3. m \in Memory BY DEF TypeOK, MemoryOK
<1>4. m.public_table \in Table /\ m.constraint_system \in Circuit /\ m.table_description \in Shape
    BY <1>2, <1>3 DEF Memory
<1>5. inv[p].fri \in Fri BY Paths DEF TypeOK, Role
<1>6. WithFixedBatch(scheme, m.constraint_system, m.table_description) \in LpcScheme
    BY <1>4, <1>5 DEF WithFixedBatch, NewLpcScheme, LpcScheme
<1>7. PublicPreprocess(m.constraint_system, m.public_table, scheme) \in PublicPreprocessedData
    BY <1>4, <1>5, PlaceholderAssumption
    DEF PublicPreprocess, NewLpcScheme, PublicPreprocessedData, CommonData
<1> QED BY <1>4, <1>6, <1>7

LEMMA PrivateResult ==
    ASSUME NEW p \in Proc, TypeOK, At(p, "preprocess_private_data")
    PROVE  PrivatePreprocess(mem[p].constraint_system, mem[p].private_table,
                             mem[p].table_description) \in PrivatePreprocessedData
<1> USE DEF At
<1>1. {"private_table", "constraint_system", "table_description"} \subseteq Operands(p)
    BY DEF Operands
<1>2. /\ mem[p].private_table # None /\ mem[p].constraint_system # None
      /\ mem[p].table_description # None
    BY <1>1, OperandThere
<1>3. mem[p] \in Memory BY DEF TypeOK, MemoryOK
<1> QED BY <1>2, <1>3 DEF Memory, PrivatePreprocess, PrivatePreprocessedData

LEMMA SchemeResult ==
    ASSUME NEW p \in Proc, TypeOK, At(p, "create_lpc_scheme")
    PROVE  NewLpcScheme(mem[p].table_description, inv[p].fri) \in LpcScheme
<1> USE DEF At
<1>1. "table_description" \in Operands(p) BY DEF Operands
<1>2. mem[p].table_description # None BY <1>1, OperandThere
<1>3. mem[p] \in Memory BY DEF TypeOK, MemoryOK
<1>4. inv[p].fri \in Fri BY Paths DEF TypeOK, Role
<1> QED BY <1>2, <1>3, <1>4 DEF Memory, NewLpcScheme, LpcScheme

LEMMA ProofResult ==
    ASSUME NEW p \in Proc, TypeOK, At(p, "placeholder_prover")
    PROVE  PlaceholderProve(mem[p].public_preprocessed_data, mem[p].private_preprocessed_data,
               mem[p].table_description, mem[p].constraint_system, mem[p].lpc_scheme) \in Proof
<1> USE DEF At
<1>1. {"private_preprocessed_data", "table_description", "constraint_system", "lpc_scheme"}
         \subseteq Operands(p)
    BY DEF Operands
<1>2. /\ mem[p].private_preprocessed_data # None /\ mem[p].table_description # None
      /\ mem[p].constraint_system # None /\ mem[p].lpc_scheme # None
    BY <1>1, OperandThere
<1>3. mem[p] \in Memory BY DEF TypeOK, MemoryOK
<1>4. /\ mem[p].private_preprocessed_data \in PrivatePreprocessedData
      /\ mem[p].table_description \in Shape /\ mem[p].constraint_system \in Circuit
      /\ mem[p].lpc_scheme \in LpcScheme
    BY <1>2, <1>3 DEF Memory
<1> QED BY <1>4 DEF PlaceholderProve, Proof, PrivatePreprocessedData, LpcScheme

LEMMA ComputeType ==
    ASSUME NEW p \in Proc, TypeOK, Compute(p)
    PROVE  TypeOK'
<1>1. mem[p] \in Memory BY DEF TypeOK, MemoryOK
<1> DEFINE m == mem[p]
<1>2. CASE PreprocessPublicData(p)
  <2> DEFINE scheme == NewLpcScheme(m.table_description, inv[p].fri)
             lpc == WithFixedBatch(scheme, m.constraint_system, m.table_description)
             public == PublicPreprocess(m.constraint_system, m.public_table, scheme)
             n == [m EXCEPT !.public_inputs = m.public_table, !.lpc_scheme = lpc,
                            !.public_preprocessed_data = public, !.public_table = None]
  <2>1. m.public_table \in Table /\ lpc \in LpcScheme /\ public \in PublicPreprocessedData
      BY <1>2, PublicResult DEF PreprocessPublicData
  <2>2. Load(p, n) BY <1>2 DEF PreprocessPublicData
  <2> HIDE DEF lpc, public
  <2>3. n \in Memory BY <1>1, <2>1 DEF Memory
  <2> HIDE DEF n
  <2> QED BY <1>2, <2>2, <2>3, LoadStep DEF PreprocessPublicData, At, Sink
<1>3. CASE PreprocessPrivateData(p)
  <2> DEFINE private ==
                 PrivatePreprocess(m.constraint_system, m.private_table, m.table_description)
             n == [m EXCEPT !.private_preprocessed_data = private,
                            !.public_table = None, !.private_table = None]
  <2>1. private \in PrivatePreprocessedData
      BY <1>3, PrivateResult DEF PreprocessPrivateData
  <2>2. n \in Memory BY <1>1, <2>1 DEF Memory
  <2>3. Load(p, n) BY <1>3 DEF PreprocessPrivateData
  <2> HIDE DEF n
  <2> QED BY <1>3, <2>2, <2>3, LoadStep DEF PreprocessPrivateData, At, Sink
<1>4. CASE CreateLpcScheme(p)
  <2> DEFINE n == [m EXCEPT !.lpc_scheme = NewLpcScheme(m.table_description, inv[p].fri)]
  <2>1. n \in Memory BY <1>1, <1>4, SchemeResult DEF Memory, CreateLpcScheme
  <2>2. Load(p, n) BY <1>4 DEF CreateLpcScheme
  <2> HIDE DEF n
  <2> QED BY <1>4, <2>1, <2>2, LoadStep DEF CreateLpcScheme, At, Sink
<1>5. CASE CanWriteToFile(p)
    BY <1>1, <1>5, LoadStep DEF CanWriteToFile, At, Sink
<1>6. CASE GenerateProof(p)
  <2> DEFINE proof == PlaceholderProve(m.public_preprocessed_data, m.private_preprocessed_data,
                          m.table_description, m.constraint_system, m.lpc_scheme)
             n == [m EXCEPT !.proof = proof]
  <2>1. proof \in Proof BY <1>6, ProofResult DEF GenerateProof
  <2>2. Load(p, n) BY <1>6 DEF GenerateProof
  <2> HIDE DEF proof
  <2>3. n \in Memory BY <1>1, <2>1 DEF Memory
  <2> HIDE DEF n
  <2> QED BY <1>6, <2>2, <2>3, LoadStep DEF GenerateProof, At, Sink
<1>7. CASE Verify(p)
  <2>1. Accepts(p, mem[p].proof) \in BOOLEAN BY DEF Accepts, PlaceholderVerify
  <2> QED BY <1>7, <2>1, ConcludeType DEF Verify, At, Sink
<1>8. CASE VerifyFromFile(p)
  <2>1. Accepts(p, Contents(p, "proof")) \in BOOLEAN BY DEF Accepts, PlaceholderVerify
  <2> QED BY <1>8, <2>1, ConcludeType DEF VerifyFromFile, At, Sink
<1> QED BY <1>2, <1>3, <1>4, <1>5, <1>6, <1>7, <1>8 DEF Compute

(* A writing operation has something of the right type to write.           *)
LEMMA PayloadType ==
    ASSUME NEW p \in Proc, TypeOK, AtWrite(p), fd[p] # None
    PROVE  Payload(p, Sink[Step(p)]) \in FileData(Sink[Step(p)])
<1> USE DEF AtWrite, Operands, Sink, Payload, FileData
<1>1. mem[p] \in Memory BY DEF TypeOK, MemoryOK
<1>2. CASE Step(p) = "write_proof"
  <2>1. mem[p].proof # None BY <1>2, OperandThere
  <2> QED BY <1>1, <1>2, <2>1 DEF Memory
<1>3. CASE Step(p) = "write_json"
  <2>1. mem[p].proof # None BY <1>3, OperandThere
  <2> QED BY <1>1, <1>3, <2>1 DEF Memory, JsonInput
<1>4. CASE Step(p) = "save_assignment_description"
  <2>1. mem[p].table_description # None BY <1>4, OperandThere
  <2> QED BY <1>1, <1>4, <2>1 DEF Memory
<1>5. CASE Step(p) \in {"save_common_data", "save_public_data"}
  <2>1. mem[p].public_preprocessed_data # None BY <1>5, OperandThere
  <2>2. mem[p].public_preprocessed_data \in PublicPreprocessedData BY <1>1, <2>1 DEF Memory
  <2>3. mem[p].public_preprocessed_data.common \in CommonData
      BY <2>2 DEF PublicPreprocessedData
  <2>4. CASE Step(p) = "save_common_data" BY <2>3, <2>4
  <2>5. CASE Step(p) = "save_public_data" BY <2>2, <2>5
  <2> QED BY <1>5, <2>4, <2>5
<1>6. CASE Step(p) = "save_commitment_state"
  <2>1. mem[p].lpc_scheme # None BY <1>6, OperandThere
  <2> QED BY <1>1, <1>6, <2>1 DEF Memory
<1>7. Step(p) \in {"write_proof", "write_json", "save_assignment_description",
                     "save_common_data", "save_public_data", "save_commitment_state"}
    OBVIOUS
<1> HIDE DEF AtWrite, Operands, Sink, Payload, FileData
<1> QED BY <1>2, <1>3, <1>4, <1>5, <1>6, <1>7

LEMMA WriteType ==
    ASSUME NEW p \in Proc, TypeOK, Write(p)
    PROVE  TypeOK'
<1>1. CASE OpenOutput(p) BY <1>1, OpenStep
<1>2. CASE NoOutputPath(p)
  <2>1. EnvironmentOK' BY <1>2 DEF NoOutputPath, environment, TypeOK, EnvironmentOK
  <2> QED BY <1>2, <2>1, NoFileStep DEF NoOutputPath, AtWrite
<1>3. CASE FinishWrite(p)
  <2>1. EnvironmentOK' BY <1>3 DEF FinishWrite, environment, TypeOK, EnvironmentOK
  <2>2. PICK v \in Outcome(p, Payload(p, Sink[Step(p)])) : CloseWith(p, v, TRUE)
      BY <1>3 DEF FinishWrite
  <2>3. v \in FileData(Sink[Step(p)]) \cup {Absent, Torn}
      BY <1>3, PayloadType DEF FinishWrite, Outcome
  <2> QED BY <1>3, <2>1, <2>2, <2>3, CloseStep DEF FinishWrite
<1> QED BY <1>1, <1>2, <1>3 DEF Write

LEMMA UndefinedType ==
    ASSUME NEW p \in Proc, TypeOK, Undefined(p)
    PROVE  TypeOK'
<1>1. EnvironmentOK' BY DEF Undefined, environment, TypeOK, EnvironmentOK
<1>2. CASE End(p, "killed") BY <1>1, <1>2, EndStep DEF Undefined
<1>3. ASSUME Empty(p) = {"public_inputs"},
             NEW v \in Outcome(p, [proof |-> mem[p].proof, inputs |-> None]),
             CloseWith(p, v, TRUE)
      PROVE  TypeOK'
  <2>1. "public_inputs" \in Operands(p) BY <1>3 DEF Empty
  <2>2. Step(p) = "write_json" /\ fd[p] # None BY <2>1 DEF Operands
  <2>3. "proof" \in Operands(p) BY <2>2 DEF Operands
  <2>4. mem[p].proof # None BY <1>3, <2>3 DEF Empty
  <2>5. mem[p].proof \in Proof BY <2>4 DEF TypeOK, MemoryOK, Memory
  <2>6. v \in FileData(Sink[Step(p)]) \cup {Absent, Torn}
      BY <1>3, <2>2, <2>5 DEF Outcome, FileData, Sink, JsonInput
  <2> QED BY <1>1, <1>3, <2>2, <2>6, CloseStep
<1> QED BY <1>2, <1>3 DEF Undefined

LEMMA FailureType ==
    ASSUME NEW p \in Proc, TypeOK, Failure(p)
    PROVE  TypeOK'
<1>1. Fault => EnvironmentOK'
    BY ProverAssumption DEF Fault, TypeOK, EnvironmentOK
<1>2. CASE CannotWriteToFile(p)
    BY <1>1, <1>2, StopStep DEF CannotWriteToFile, At, Sink
<1>3. CASE OpenFails(p)
    BY <1>1, <1>3, NoFileStep DEF OpenFails, AtWrite
<1>4. CASE WriteFails(p)
    BY <1>1, <1>4, ResidueType, CloseStep DEF WriteFails
<1>5. CASE LateFlush(p)
    BY <1>1, <1>5, ResidueType, CloseStep DEF LateFlush
<1>6. CASE Throw(p) BY <1>1, <1>6, EndStep DEF Throw
<1>7. CASE Kill(p) BY <1>1, <1>7, EndStep DEF Kill
<1> QED BY <1>2, <1>3, <1>4, <1>5, <1>6, <1>7 DEF Failure

LEMMA StartType ==
    ASSUME NEW p \in Proc, NEW i \in Invocation[p], TypeOK, Start(p, i)
    PROVE  TypeOK'
<1> USE DEF TypeOK, Start
<1>1. i \in ProverOptions /\ i # None BY ProverAssumption
<1>2. ControlOK'
  <2>1. ASSUME NEW q \in Proc, Running(q)'
        PROVE  inv'[q] # None /\ pc'[q] \in 1..Len(Chain(q)')
    <3>1. CASE q = p
        BY <1>1, <3>1, StageLength DEF ControlOK, Chain, ProverOptions
    <3>2. CASE q # p BY <2>1, <3>2 DEF ControlOK, Running, Chain
    <3> QED BY <3>1, <3>2
  <2> QED BY <1>1, <2>1 DEF ControlOK
<1>3. MemoryOK'
  <2>1. FreshProver \in Memory BY DEF FreshProver, Memory
  <2> QED BY <2>1 DEF MemoryOK
<1>4. FilesOK' BY DEF FilesOK
<1>5. DescriptorsOK'
  <2>1. fd[p] = None BY DEF DescriptorsOK
  <2> QED BY <2>1 DEF DescriptorsOK, ControlOK, Running, Step, Chain, Target, File
<1>6. EnvironmentOK' BY ProverAssumption DEF EnvironmentOK
<1> QED BY <1>2, <1>3, <1>4, <1>5, <1>6

LEMMA ReplaceInputType ==
    ASSUME TypeOK, ReplaceInput
    PROVE  TypeOK'
<1> USE DEF TypeOK, ReplaceInput, control
<1>1. ControlOK' BY DEF ControlOK, Running, Chain
<1>2. MemoryOK' BY DEF MemoryOK
<1>3. FilesOK'
  <2>1. PICK l \in Loc :
           \/ \E c \in Circuit : files' = [files EXCEPT ![<<"circuit", l>>] = c]
           \/ \E t \in Table : files' = [files EXCEPT ![<<"table", l>>] = t]
      OBVIOUS
  <2>2. /\ <<"circuit", l>> \in Role \X Loc /\ <<"circuit", l>>[1] = "circuit"
        /\ <<"table", l>> \in Role \X Loc /\ <<"table", l>>[1] = "table"
      BY DEF Role
  <2>3. CASE \E c \in Circuit : files' = [files EXCEPT ![<<"circuit", l>>] = c]
      BY <2>2, <2>3, FileUpdate DEF FileData
  <2>4. CASE \E t \in Table : files' = [files EXCEPT ![<<"table", l>>] = t]
      BY <2>2, <2>4, FileUpdate DEF FileData
  <2> QED BY <2>1, <2>3, <2>4
<1>4. DescriptorsOK' BY DEF DescriptorsOK, Running, Step, Chain, Target, File
<1>5. EnvironmentOK' BY ProverAssumption DEF EnvironmentOK
<1> QED BY <1>1, <1>2, <1>3, <1>4, <1>5

LEMMA InitType == Init => TypeOK
<1> SUFFICES ASSUME Init PROVE TypeOK OBVIOUS
<1> USE DEF Init
<1>1. ControlOK BY DEF ControlOK, Running
<1>2. MemoryOK BY DEF MemoryOK, Memory, FreshProver
<1>3. FilesOK
  <2>1. ASSUME NEW f \in Role \X Loc PROVE files[f] \in FileData(f[1]) \cup {Absent, Torn}
      BY DEF FileData
  <2>2. \A r \in Role : FileData(r) \subseteq AllFileData BY DEF AllFileData
  <2>3. files = [f \in Role \X Loc |-> files[f]] OBVIOUS
  <2> QED BY <2>1, <2>2, <2>3 DEF FilesOK
<1>4. DescriptorsOK BY DEF DescriptorsOK
<1>5. EnvironmentOK BY ProverAssumption DEF EnvironmentOK
<1> QED BY <1>1, <1>2, <1>3, <1>4, <1>5 DEF TypeOK

LEMMA NextType == TypeOK /\ [Next]_vars => TypeOK'
<1> SUFFICES ASSUME TypeOK, [Next]_vars PROVE TypeOK' OBVIOUS
<1>1. CASE UNCHANGED vars
    BY <1>1 DEF vars, TypeOK, ControlOK, MemoryOK, FilesOK, DescriptorsOK, EnvironmentOK,
                Running, Step, Chain, Target, File
<1>2. ASSUME NEW p \in Proc, Work(p) PROVE TypeOK'
    BY <1>2, ReadType, ComputeType, WriteType, UndefinedType DEF Work
<1>3. ASSUME NEW p \in Proc, Failure(p) PROVE TypeOK'
    BY <1>3, FailureType
<1>4. ASSUME NEW p \in Proc, NEW i \in Invocation[p], Start(p, i) PROVE TypeOK'
    BY <1>4, StartType
<1>5. CASE ReplaceInput BY <1>5, ReplaceInputType
<1> QED BY <1>1, <1>2, <1>3, <1>4, <1>5 DEF Next

(* The members of the Prover, the files and the open descriptors always    *)
(* have the types their roles give them, whatever fails and whoever else   *)
(* writes to the same files.                                               *)
THEOREM TypeCorrect == Spec => []TypeOK
BY InitType, NextType, PTL DEF Spec

-----------------------------------------------------------------------------
(* The position of a process in its chain says which optionals are filled, *)
(* and, in the "all" stage, with what: everything it holds stems from the  *)
(* one circuit and the one table it has read.  This is inductive, and no   *)
(* file occurs in it.                                                      *)

AllData(p) ==
    LET m == mem[p]
        scheme == NewLpcScheme(m.table_description, inv[p].fri)
        private == m.private_preprocessed_data
    IN /\ pc[p] > 1 => m.constraint_system # None
       /\ pc[p] > 2 => m.table_description # None
       /\ pc[p] = 3 => m.public_table = m.private_table
       /\ pc[p] \in {3, 4} =>
             m.private_table # None /\ ShapeOf[m.private_table] = m.table_description
       /\ pc[p] > 3 =>
             /\ m.public_inputs # None
             /\ m.lpc_scheme # None /\ m.public_preprocessed_data # None
             /\ m.lpc_scheme = WithFixedBatch(scheme, m.constraint_system, m.table_description)
             /\ m.public_preprocessed_data =
                   [common |-> [circuit |-> m.constraint_system,
                                shape |-> m.table_description, fri |-> inv[p].fri]]
       /\ pc[p] > 4 =>
             /\ private # None
             /\ private = PrivatePreprocess(m.constraint_system, private.table,
                                            m.table_description)
             /\ ShapeOf[private.table] = m.table_description
       /\ pc[p] > 6 =>
             /\ m.proof # None
             /\ m.proof = PlaceholderProve(m.public_preprocessed_data, private,
                           m.table_description, m.constraint_system, m.lpc_scheme)
       /\ pc[p] > 7 => Accepts(p, m.proof)

PreprocessData(p) ==
    /\ pc[p] > 1 => mem[p].constraint_system # None
    /\ pc[p] > 2 => mem[p].table_description # None
    /\ pc[p] \in {3, 4} => mem[p].public_table # None
    /\ pc[p] > 4 => mem[p].lpc_scheme # None /\ mem[p].public_preprocessed_data # None

ProveData(p) ==
    /\ pc[p] > 1 => mem[p].constraint_system # None
    /\ pc[p] > 2 => mem[p].table_description # None
    /\ pc[p] \in {3, 4, 5} => mem[p].private_table # None
    /\ pc[p] > 3 => mem[p].public_preprocessed_data # None
    /\ pc[p] > 4 => mem[p].lpc_scheme # None
    /\ pc[p] > 5 => mem[p].private_preprocessed_data # None
    /\ pc[p] > 7 => mem[p].proof # None

VerifyData(p) ==
    /\ pc[p] > 1 => mem[p].constraint_system # None
    /\ pc[p] > 2 => mem[p].common_data # None
    /\ pc[p] > 3 => mem[p].table_description # None
    /\ pc[p] > 4 => mem[p].lpc_scheme # None

StageData(p) ==
    Running(p) =>
        /\ inv[p].stage = "all" => AllData(p)
        /\ inv[p].stage = "preprocess" => PreprocessData(p)
        /\ inv[p].stage = "prove" => ProveData(p)
        /\ inv[p].stage = "verify" => VerifyData(p)

DataInv == \A p \in Proc : StageData(p)

(* Which operation a process executes, by stage and position.              *)
LEMMA AllSteps ==
    ASSUME NEW p \in Proc, ControlOK, Running(p), inv[p].stage = "all"
    PROVE  /\ pc[p] \in 1..12 /\ Step(p) = All[pc[p]]
<1>1. Len(All) = 12 BY DEF All
<1>2. Chain(p) = All BY DEF Chain, Program
<1> QED BY <1>1, <1>2 DEF ControlOK, Step

LEMMA PreprocessSteps ==
    ASSUME NEW p \in Proc, ControlOK, Running(p), inv[p].stage = "preprocess"
    PROVE  /\ pc[p] \in 1..7 /\ Step(p) = Preprocess[pc[p]]
<1>1. Len(Preprocess) = 7 BY DEF Preprocess
<1>2. Chain(p) = Preprocess BY DEF Chain, Program
<1> QED BY <1>1, <1>2 DEF ControlOK, Step

LEMMA ProveSteps ==
    ASSUME NEW p \in Proc, ControlOK, Running(p), inv[p].stage = "prove"
    PROVE  /\ pc[p] \in 1..9 /\ Step(p) = Prove[pc[p]]
<1>1. Len(Prove) = 9 BY DEF Prove
<1>2. Chain(p) = Prove BY DEF Chain, Program
<1> QED BY <1>1, <1>2 DEF ControlOK, Step

LEMMA VerifySteps ==
    ASSUME NEW p \in Proc, ControlOK, Running(p), inv[p].stage = "verify"
    PROVE  /\ pc[p] \in 1..5 /\ Step(p) = VerifyStage[pc[p]]
<1>1. Len(VerifyStage) = 5 BY DEF VerifyStage
<1>2. Chain(p) = VerifyStage BY DEF Chain, Program
<1> QED BY <1>1, <1>2 DEF ControlOK, Step

LEMMA AllPositions ==
    /\ All[1] = "read_circuit" /\ All[2] = "read_assignment_table"
    /\ All[3] = "preprocess_public_data" /\ All[4] = "preprocess_private_data"
    /\ All[5] = "can_write_to_file" /\ All[6] = "placeholder_prover" /\ All[7] = "verify"
    /\ All[8] = "write_proof" /\ All[9] = "write_json" /\ All[10] = "save_common_data"
    /\ All[11] = "save_public_data" /\ All[12] = "save_commitment_state"
BY DEF All

LEMMA PreprocessPositions ==
    /\ Preprocess[1] = "read_circuit" /\ Preprocess[2] = "read_assignment_table"
    /\ Preprocess[3] = "save_assignment_description"
    /\ Preprocess[4] = "preprocess_public_data" /\ Preprocess[5] = "save_common_data"
    /\ Preprocess[6] = "save_public_data" /\ Preprocess[7] = "save_commitment_state"
BY DEF Preprocess

LEMMA ProvePositions ==
    /\ Prove[1] = "read_circuit" /\ Prove[2] = "read_assignment_table"
    /\ Prove[3] = "read_public_data" /\ Prove[4] = "read_commitment_scheme"
    /\ Prove[5] = "preprocess_private_data" /\ Prove[6] = "can_write_to_file"
    /\ Prove[7] = "placeholder_prover" /\ Prove[8] = "write_proof" /\ Prove[9] = "write_json"
BY DEF Prove

LEMMA VerifyPositions ==
    /\ VerifyStage[1] = "read_circuit" /\ VerifyStage[2] = "read_common_data"
    /\ VerifyStage[3] = "read_assignment_description"
    /\ VerifyStage[4] = "create_lpc_scheme" /\ VerifyStage[5] = "verify_from_file"
BY DEF VerifyStage

(* With the optionals filled that far, the next operation finds what it    *)
(* needs, except for the public inputs in the prove stage.                 *)
LEMMA EngagedAll ==
    ASSUME NEW p \in Proc, ControlOK, Running(p), inv[p].stage = "all", AllData(p)
    PROVE  Empty(p) = {}
<1> DEFINE k == pc[p]
<1>1. k \in 1..12 /\ Step(p) = All[k] BY AllSteps
<1>2. CASE k \in {1, 2, 5, 6, 7, 8, 9, 10, 11, 12}
    BY <1>1, <1>2, AllPositions DEF AllData, Empty, Operands
<1>3. CASE k \in {3, 4}
    BY <1>1, <1>3, AllPositions DEF AllData, Empty, Operands
<1> QED BY <1>1, <1>2, <1>3

LEMMA EngagedPreprocess ==
    ASSUME NEW p \in Proc, ControlOK, Running(p), inv[p].stage = "preprocess",
           PreprocessData(p)
    PROVE  Empty(p) = {}
BY PreprocessSteps, PreprocessPositions DEF PreprocessData, Empty, Operands

LEMMA EngagedProve ==
    ASSUME NEW p \in Proc, ControlOK, Running(p), inv[p].stage = "prove",
           ProveData(p), Empty(p) # {}
    PROVE  Step(p) = "write_json" /\ Empty(p) = {"public_inputs"}
BY ProveSteps, ProvePositions DEF ProveData, Empty, Operands

LEMMA EngagedVerify ==
    ASSUME NEW p \in Proc, ControlOK, Running(p), inv[p].stage = "verify", VerifyData(p)
    PROVE  Empty(p) = {}
BY VerifySteps, VerifyPositions DEF VerifyData, Empty, Operands

(* What the members are given is never the empty optional.                 *)
LEMMA NotNone ==
    /\ None \notin Circuit /\ None \notin Table /\ None \notin Shape
    /\ None \notin CommonData /\ None \notin PublicPreprocessedData
    /\ None \notin LpcScheme /\ None \notin Proof /\ None \notin PrivatePreprocessedData
BY ProverAssumption DEF AllFileData, FileData, Role

(* What the invariant says of a process changes only with that process.    *)
LEMMA Frame ==
    ASSUME NEW q \in Proc, StageData(q),
           inv'[q] = inv[q], status'[q] = status[q], pc'[q] = pc[q], mem'[q] = mem[q]
    PROVE  StageData(q)'
BY DEF StageData, AllData, PreprocessData, ProveData, VerifyData, Accepts, Running

LEMMA OthersUntouched ==
    ASSUME NEW p \in Proc, Work(p) \/ Failure(p) \/ \E i \in Invocation[p] : Start(p, i),
           TypeOK, NEW q \in Proc, q # p
    PROVE  inv'[q] = inv[q] /\ status'[q] = status[q] /\ pc'[q] = pc[q] /\ mem'[q] = mem[q]
<1> USE DEF Proceed, Stop, TypeOK, ControlOK, MemoryOK
<1>1. ASSUME NEW m, Load(p, m) PROVE mem'[q] = mem[q] /\ pc'[q] = pc[q] /\ UNCHANGED inv
                                     /\ status'[q] = status[q]
    BY <1>1 DEF Load
<1>2. CASE Read(p)
    BY <1>1, <1>2 DEF Read, ReadCircuit, ReadAssignmentTable, ReadAssignmentDescription,
       ReadCommonData, ReadPublicData, ReadCommitmentScheme, ReadFails
<1>3. CASE Compute(p)
    BY <1>1, <1>3 DEF Compute, PreprocessPublicData, PreprocessPrivateData, CreateLpcScheme,
       CanWriteToFile, GenerateProof, Verify, VerifyFromFile, Conclude
<1>4. CASE Write(p)
    BY <1>4 DEF Write, OpenOutput, NoOutputPath, FinishWrite, CloseWith, Return, control
<1>5. CASE Undefined(p) BY <1>5 DEF Undefined, End, CloseWith, Return
<1>6. CASE Failure(p)
    BY <1>6 DEF Failure, CannotWriteToFile, OpenFails, WriteFails, LateFlush, Throw, Kill,
       CloseWith, Return, End
<1>7. ASSUME NEW i \in Invocation[p], Start(p, i)
      PROVE  inv'[q] = inv[q] /\ status'[q] = status[q] /\ pc'[q] = pc[q] /\ mem'[q] = mem[q]
    BY <1>7 DEF Start
<1> QED BY <1>2, <1>3, <1>4, <1>5, <1>6, <1>7 DEF Work

(* The operations that fill no member.                                     *)
Quiet == {"can_write_to_file", "verify", "verify_from_file"} \cup DOMAIN Sink

LEMMA QuietData ==
    ASSUME NEW p \in Proc, ControlOK, Running(p), StageData(p), Step(p) \in Quiet,
           inv'[p] = inv[p], pc'[p] = pc[p] + 1, mem'[p] = mem[p],
           Step(p) = "verify" => Accepts(p, mem[p].proof)
    PROVE  StageData(p)'
<1> USE DEF StageData, Quiet, Sink
<1>1. CASE inv[p].stage = "all"
  <2>1. pc[p] \in {5} \cup 7..12 BY <1>1, AllSteps, AllPositions
  <2>2. Accepts(p, mem[p].proof)' <=> Accepts(p, mem[p].proof) BY DEF Accepts
  <2>3. AllData(p) BY <1>1
  <2>4. pc[p] = 7 => Accepts(p, mem[p].proof) BY <1>1, AllSteps, AllPositions
  <2> QED BY <1>1, <2>1, <2>2, <2>3, <2>4 DEF AllData
<1>2. CASE inv[p].stage = "preprocess"
    BY <1>2, PreprocessSteps, PreprocessPositions DEF PreprocessData
<1>3. CASE inv[p].stage = "prove"
    BY <1>3, ProveSteps, ProvePositions DEF ProveData
<1>4. CASE inv[p].stage = "verify"
    BY <1>4, VerifySteps, VerifyPositions DEF VerifyData
<1>5. inv[p].stage \in Stage BY DEF ControlOK, ProverOptions
<1> QED BY <1>1, <1>2, <1>3, <1>4, <1>5 DEF Stage

(* What Load does to p.                                                    *)
LEMMA LoadEffect ==
    ASSUME NEW p \in Proc, TypeOK, NEW m, Load(p, m)
    PROVE  inv'[p] = inv[p] /\ pc'[p] = pc[p] + 1 /\ mem'[p] = m
BY DEF Load, Proceed, TypeOK, ControlOK, MemoryOK

LEMMA StagesOfRunning ==
    ASSUME NEW p \in Proc, ControlOK, Running(p)
    PROVE  inv[p].stage \in {"all", "preprocess", "prove", "verify"}
BY DEF ControlOK, ProverOptions, Stage

LEMMA ReadData ==
    ASSUME NEW p \in Proc, TypeOK, StageData(p), Read(p)
    PROVE  StageData(p)'
<1> USE DEF StageData, At
<1>1. mem[p] \in Memory /\ ControlOK BY DEF TypeOK, MemoryOK
<1>2. CASE ReadCircuit(p)
  <2>1. Running(p) /\ Step(p) = "read_circuit" BY <1>2 DEF ReadCircuit
  <2>2. Contents(p, "circuit") # None
      BY <1>2, <2>1, Decoded, NotNone DEF ReadCircuit, FileData, Role
  <2>3. /\ inv'[p] = inv[p] /\ pc'[p] = pc[p] + 1
        /\ mem'[p] = [mem[p] EXCEPT !.constraint_system = Contents(p, "circuit")]
      BY <1>2, LoadEffect DEF ReadCircuit
  <2>4. mem'[p].constraint_system # None BY <1>1, <2>2, <2>3 DEF Memory
  <2>5. pc[p] = 1
    <3>1. CASE inv[p].stage = "all" BY <1>1, <2>1, <3>1, AllSteps, AllPositions
    <3>2. CASE inv[p].stage = "preprocess"
        BY <1>1, <2>1, <3>2, PreprocessSteps, PreprocessPositions
    <3>3. CASE inv[p].stage = "prove" BY <1>1, <2>1, <3>3, ProveSteps, ProvePositions
    <3>4. CASE inv[p].stage = "verify" BY <1>1, <2>1, <3>4, VerifySteps, VerifyPositions
    <3> QED BY <1>1, <2>1, <3>1, <3>2, <3>3, <3>4, StagesOfRunning
  <2> QED BY <2>3, <2>4, <2>5 DEF AllData, PreprocessData, ProveData, VerifyData
<1>3. CASE ReadAssignmentTable(p)
  <2> DEFINE t == Contents(p, "table")
  <2>1. Running(p) /\ Step(p) = "read_assignment_table" BY <1>3 DEF ReadAssignmentTable
  <2>2. t \in Table BY <1>3, <2>1, Decoded DEF ReadAssignmentTable, FileData, Role
  <2>3. ShapeOf[t] \in Shape BY <2>2, PlaceholderAssumption
  <2>4. /\ inv'[p] = inv[p] /\ pc'[p] = pc[p] + 1
        /\ mem'[p] = [mem[p] EXCEPT !.table_description = ShapeOf[t],
                                    !.public_table = t, !.private_table = t]
      BY <1>3, LoadEffect DEF ReadAssignmentTable
  <2> HIDE DEF t
  <2>5. /\ mem'[p].table_description = ShapeOf[t]
        /\ mem'[p].public_table = t /\ mem'[p].private_table = t
        /\ mem'[p].constraint_system = mem[p].constraint_system
      BY <1>1, <2>4 DEF Memory
  <2>6. CASE inv[p].stage = "all"
      BY <1>1, <2>1, <2>2, <2>3, <2>4, <2>5, <2>6, AllSteps, AllPositions, NotNone DEF AllData
  <2>7. CASE inv[p].stage = "preprocess"
      BY <1>1, <2>1, <2>2, <2>3, <2>4, <2>5, <2>7, PreprocessSteps, PreprocessPositions, NotNone
      DEF PreprocessData
  <2>8. CASE inv[p].stage = "prove"
      BY <1>1, <2>1, <2>2, <2>3, <2>4, <2>5, <2>8, ProveSteps, ProvePositions, NotNone
      DEF ProveData
  <2>9. CASE inv[p].stage = "verify" BY <1>1, <2>1, <2>9, VerifySteps, VerifyPositions
  <2> QED BY <1>1, <2>1, <2>4, <2>6, <2>7, <2>8, <2>9, StagesOfRunning
<1>4. CASE ReadAssignmentDescription(p)
  <2>1. Running(p) /\ Step(p) = "read_assignment_description"
      BY <1>4 DEF ReadAssignmentDescription
  <2>2. Contents(p, "description") # None
      BY <1>4, <2>1, Decoded, NotNone DEF ReadAssignmentDescription, FileData, Role
  <2>3. /\ inv'[p] = inv[p] /\ pc'[p] = pc[p] + 1
        /\ mem'[p] = [mem[p] EXCEPT !.table_description = Contents(p, "description")]
      BY <1>4, LoadEffect DEF ReadAssignmentDescription
  <2>4. inv[p].stage = "verify" /\ pc[p] = 3
      BY <1>1, <2>1, AllSteps, AllPositions, PreprocessSteps, PreprocessPositions,
         ProveSteps, ProvePositions, VerifySteps, VerifyPositions, StagesOfRunning
  <2> QED BY <1>1, <2>1, <2>2, <2>3, <2>4 DEF VerifyData, Memory
<1>5. CASE ReadCommonData(p)
  <2>1. Running(p) /\ Step(p) = "read_common_data" BY <1>5 DEF ReadCommonData
  <2>2. Contents(p, "common") # None
      BY <1>5, <2>1, Decoded, NotNone DEF ReadCommonData, FileData, Role
  <2>3. /\ inv'[p] = inv[p] /\ pc'[p] = pc[p] + 1
        /\ mem'[p] = [mem[p] EXCEPT !.common_data = Contents(p, "common")]
      BY <1>5, LoadEffect DEF ReadCommonData
  <2>4. inv[p].stage = "verify" /\ pc[p] = 2
      BY <1>1, <2>1, AllSteps, AllPositions, PreprocessSteps, PreprocessPositions,
         ProveSteps, ProvePositions, VerifySteps, VerifyPositions, StagesOfRunning
  <2> QED BY <1>1, <2>1, <2>2, <2>3, <2>4 DEF VerifyData, Memory
<1>6. CASE ReadPublicData(p)
  <2>1. Running(p) /\ Step(p) = "read_public_data" BY <1>6 DEF ReadPublicData
  <2>2. Contents(p, "public") # None
      BY <1>6, <2>1, Decoded, NotNone DEF ReadPublicData, FileData, Role
  <2>3. /\ inv'[p] = inv[p] /\ pc'[p] = pc[p] + 1
        /\ mem'[p] = [mem[p] EXCEPT !.public_preprocessed_data = Contents(p, "public")]
      BY <1>6, LoadEffect DEF ReadPublicData
  <2>4. inv[p].stage = "prove" /\ pc[p] = 3
      BY <1>1, <2>1, AllSteps, AllPositions, PreprocessSteps, PreprocessPositions,
         ProveSteps, ProvePositions, VerifySteps, VerifyPositions, StagesOfRunning
  <2> QED BY <1>1, <2>1, <2>2, <2>3, <2>4 DEF ProveData, Memory
<1>7. CASE ReadCommitmentScheme(p)
  <2>1. Running(p) /\ Step(p) = "read_commitment_scheme" BY <1>7 DEF ReadCommitmentScheme
  <2>2. Contents(p, "commitment") # None
      BY <1>7, <2>1, Decoded, NotNone DEF ReadCommitmentScheme, FileData, Role
  <2>3. /\ inv'[p] = inv[p] /\ pc'[p] = pc[p] + 1
        /\ mem'[p] = [mem[p] EXCEPT !.lpc_scheme = Contents(p, "commitment")]
      BY <1>7, LoadEffect DEF ReadCommitmentScheme
  <2>4. inv[p].stage = "prove" /\ pc[p] = 4
      BY <1>1, <2>1, AllSteps, AllPositions, PreprocessSteps, PreprocessPositions,
         ProveSteps, ProvePositions, VerifySteps, VerifyPositions, StagesOfRunning
  <2> QED BY <1>1, <2>1, <2>2, <2>3, <2>4 DEF ProveData, Memory
<1>8. CASE ReadFails(p)
    BY <1>1, <1>8 DEF ReadFails, Stop, Running, ControlOK
<1> QED BY <1>2, <1>3, <1>4, <1>5, <1>6, <1>7, <1>8 DEF Read

LEMMA ComputeData ==
    ASSUME NEW p \in Proc, TypeOK, StageData(p), Compute(p)
    PROVE  StageData(p)'
<1> USE DEF At
<1> DEFINE m == mem[p]
<1>1. m \in Memory /\ ControlOK BY DEF TypeOK, MemoryOK
<1>2. CASE PreprocessPublicData(p)
  <2> DEFINE scheme == NewLpcScheme(m.table_description, inv[p].fri)
             lpc == WithFixedBatch(scheme, m.constraint_system, m.table_description)
             public == PublicPreprocess(m.constraint_system, m.public_table, scheme)
  <2>1. Running(p) /\ Step(p) = "preprocess_public_data" BY <1>2 DEF PreprocessPublicData
  <2>2. m.public_table # None /\ lpc # None /\ public # None
      BY <1>2, PublicResult, NotNone DEF PreprocessPublicData
  <2>3. /\ inv'[p] = inv[p] /\ pc'[p] = pc[p] + 1
        /\ mem'[p] = [m EXCEPT !.public_inputs = m.public_table, !.lpc_scheme = lpc,
                               !.public_preprocessed_data = public, !.public_table = None]
      BY <1>2, LoadEffect DEF PreprocessPublicData
  <2>4. public = [common |-> [circuit |-> m.constraint_system,
                              shape |-> ShapeOf[m.public_table], fri |-> inv[p].fri]]
      BY DEF PublicPreprocess, NewLpcScheme
  <2> HIDE DEF lpc, public
  <2>5. /\ mem'[p].public_inputs = m.public_table /\ mem'[p].lpc_scheme = lpc
        /\ mem'[p].public_preprocessed_data = public
        /\ mem'[p].constraint_system = m.constraint_system
        /\ mem'[p].table_description = m.table_description
        /\ mem'[p].private_table = m.private_table
      BY <1>1, <2>3 DEF Memory
  <2>6. CASE inv[p].stage = "all"
    <3>1. pc[p] = 3 BY <1>1, <2>1, <2>6, AllSteps, AllPositions
    <3>2. AllData(p) BY <2>1, <2>6 DEF StageData
    <3>3. /\ m.constraint_system # None /\ m.table_description # None
          /\ m.private_table # None /\ ShapeOf[m.private_table] = m.table_description
          /\ m.public_table = m.private_table
        BY <3>1, <3>2 DEF AllData
    <3>4. AllData(p)'
        BY <2>2, <2>3, <2>4, <2>5, <3>1, <3>3 DEF AllData, lpc
    <3> QED BY <2>3, <2>6, <3>4 DEF StageData
  <2>7. CASE inv[p].stage = "preprocess"
    <3>1. pc[p] = 4 BY <1>1, <2>1, <2>7, PreprocessSteps, PreprocessPositions
    <3> QED BY <2>1, <2>2, <2>3, <2>5, <2>7, <3>1 DEF StageData, PreprocessData
  <2>8. inv[p].stage \in {"all", "preprocess"}
      BY <1>1, <2>1, ProveSteps, ProvePositions, VerifySteps, VerifyPositions, StagesOfRunning
  <2> QED BY <2>6, <2>7, <2>8
<1>3. CASE PreprocessPrivateData(p)
  <2> DEFINE private ==
                 PrivatePreprocess(m.constraint_system, m.private_table, m.table_description)
  <2>1. Running(p) /\ Step(p) = "preprocess_private_data" BY <1>3 DEF PreprocessPrivateData
  <2>2. private # None BY <1>3, PrivateResult, NotNone DEF PreprocessPrivateData
  <2>3. /\ inv'[p] = inv[p] /\ pc'[p] = pc[p] + 1
        /\ mem'[p] = [m EXCEPT !.private_preprocessed_data = private,
                               !.public_table = None, !.private_table = None]
      BY <1>3, LoadEffect DEF PreprocessPrivateData
  <2>4. /\ private = PrivatePreprocess(m.constraint_system, private.table, m.table_description)
        /\ private.table = m.private_table
      BY DEF PrivatePreprocess
  <2> HIDE DEF private
  <2>5. /\ mem'[p].private_preprocessed_data = private
        /\ mem'[p].constraint_system = m.constraint_system
        /\ mem'[p].table_description = m.table_description
        /\ mem'[p].public_inputs = m.public_inputs
        /\ mem'[p].lpc_scheme = m.lpc_scheme
        /\ mem'[p].public_preprocessed_data = m.public_preprocessed_data
      BY <1>1, <2>3 DEF Memory
  <2>6. CASE inv[p].stage = "all"
    <3>1. pc[p] = 4 BY <1>1, <2>1, <2>6, AllSteps, AllPositions
    <3>2. AllData(p) BY <2>1, <2>6 DEF StageData
    <3>3. AllData(p)' BY <2>2, <2>3, <2>4, <2>5, <3>1, <3>2 DEF AllData
    <3> QED BY <2>3, <2>6, <3>3 DEF StageData
  <2>7. CASE inv[p].stage = "prove"
    <3>1. pc[p] = 5 BY <1>1, <2>1, <2>7, ProveSteps, ProvePositions
    <3> QED BY <2>1, <2>2, <2>3, <2>5, <2>7, <3>1 DEF StageData, ProveData
  <2>8. inv[p].stage \in {"all", "prove"}
      BY <1>1, <2>1, PreprocessSteps, PreprocessPositions, VerifySteps, VerifyPositions,
         StagesOfRunning
  <2> QED BY <2>6, <2>7, <2>8
<1>4. CASE CreateLpcScheme(p)
  <2>1. Running(p) /\ Step(p) = "create_lpc_scheme" BY <1>4 DEF CreateLpcScheme
  <2>2. NewLpcScheme(m.table_description, inv[p].fri) # None
      BY <1>4, SchemeResult, NotNone DEF CreateLpcScheme
  <2>3. /\ inv'[p] = inv[p] /\ pc'[p] = pc[p] + 1
        /\ mem'[p] = [m EXCEPT !.lpc_scheme = NewLpcScheme(m.table_description, inv[p].fri)]
      BY <1>4, LoadEffect DEF CreateLpcScheme
  <2>4. inv[p].stage = "verify" /\ pc[p] = 4
      BY <1>1, <2>1, AllSteps, AllPositions, PreprocessSteps, PreprocessPositions,
         ProveSteps, ProvePositions, VerifySteps, VerifyPositions, StagesOfRunning
  <2> QED BY <1>1, <2>1, <2>2, <2>3, <2>4 DEF StageData, VerifyData, Memory
<1>5. CASE CanWriteToFile(p)
    BY <1>1, <1>5, LoadEffect, QuietData DEF CanWriteToFile, Quiet
<1>6. CASE GenerateProof(p)
  <2> DEFINE proof == PlaceholderProve(m.public_preprocessed_data, m.private_preprocessed_data,
                          m.table_description, m.constraint_system, m.lpc_scheme)
  <2>1. Running(p) /\ Step(p) = "placeholder_prover" BY <1>6 DEF GenerateProof
  <2>2. proof # None BY <1>6, ProofResult, NotNone DEF GenerateProof
  <2>3. inv'[p] = inv[p] /\ pc'[p] = pc[p] + 1 /\ mem'[p] = [m EXCEPT !.proof = proof]
      BY <1>6, LoadEffect DEF GenerateProof
  <2> HIDE DEF proof
  <2>4. /\ mem'[p].proof = proof
        /\ mem'[p].private_preprocessed_data = m.private_preprocessed_data
        /\ mem'[p].constraint_system = m.constraint_system
        /\ mem'[p].table_description = m.table_description
        /\ mem'[p].public_inputs = m.public_inputs
        /\ mem'[p].lpc_scheme = m.lpc_scheme
        /\ mem'[p].public_preprocessed_data = m.public_preprocessed_data
      BY <1>1, <2>3 DEF Memory
  <2>5. CASE inv[p].stage = "all"
    <3>1. pc[p] = 6 BY <1>1, <2>1, <2>5, AllSteps, AllPositions
    <3>2. AllData(p) BY <2>1, <2>5 DEF StageData
    <3>3. AllData(p)' BY <2>2, <2>3, <2>4, <3>1, <3>2 DEF AllData, proof
    <3> QED BY <2>3, <2>5, <3>3 DEF StageData
  <2>6. CASE inv[p].stage = "prove"
    <3>1. pc[p] = 7 BY <1>1, <2>1, <2>6, ProveSteps, ProvePositions
    <3> QED BY <2>1, <2>2, <2>3, <2>4, <2>6, <3>1 DEF StageData, ProveData
  <2>7. inv[p].stage \in {"all", "prove"}
      BY <1>1, <2>1, PreprocessSteps, PreprocessPositions, VerifySteps, VerifyPositions,
         StagesOfRunning
  <2> QED BY <2>5, <2>6, <2>7
<1>7. CASE Verify(p)
  <2>1. CASE Accepts(p, m.proof)
      BY <1>1, <1>7, <2>1, QuietData DEF Verify, Conclude, Proceed, Quiet, ControlOK
  <2>2. CASE ~Accepts(p, m.proof)
      BY <1>1, <1>7, <2>2 DEF Verify, Conclude, Stop, StageData, Running, ControlOK
  <2> QED BY <2>1, <2>2
<1>8. CASE VerifyFromFile(p)
  <2>1. CASE Accepts(p, Contents(p, "proof"))
      BY <1>1, <1>8, <2>1, QuietData DEF VerifyFromFile, Conclude, Proceed, Quiet, ControlOK
  <2>2. CASE ~Accepts(p, Contents(p, "proof"))
      BY <1>1, <1>8, <2>2 DEF VerifyFromFile, Conclude, Stop, StageData, Running, ControlOK
  <2> QED BY <2>1, <2>2
<1> QED BY <1>2, <1>3, <1>4, <1>5, <1>6, <1>7, <1>8 DEF Compute

(* An operation that writes either moves on, or p stops.                   *)
LEMMA ReturnData ==
    ASSUME NEW p \in Proc, NEW ok \in BOOLEAN, TypeOK, StageData(p), Running(p),
           Step(p) \in DOMAIN Sink, Return(p, ok), mem' = mem
    PROVE  StageData(p)'
<1>1. ControlOK BY DEF TypeOK
<1>2. CASE Proceed(p)
    BY <1>1, <1>2, QuietData DEF Proceed, Quiet, ControlOK, Sink
<1>3. CASE Stop(p, "exit1") BY <1>1, <1>3 DEF Stop, StageData, Running, ControlOK
<1> QED BY <1>2, <1>3 DEF Return

LEMMA WriteData ==
    ASSUME NEW p \in Proc, TypeOK, StageData(p), Write(p)
    PROVE  StageData(p)'
<1>1. CASE OpenOutput(p) BY <1>1, Frame DEF OpenOutput, control
<1>2. CASE NoOutputPath(p) BY <1>2, ReturnData DEF NoOutputPath, AtWrite
<1>3. CASE FinishWrite(p) BY <1>3, ReturnData DEF FinishWrite, CloseWith, AtWrite
<1> QED BY <1>1, <1>2, <1>3 DEF Write

LEMMA EndData ==
    ASSUME NEW p \in Proc, ControlOK, NEW s \in {"exit0", "exit1", "killed"}, End(p, s)
    PROVE  StageData(p)'
BY DEF End, Stop, StageData, Running, ControlOK

LEMMA UndefinedData ==
    ASSUME NEW p \in Proc, TypeOK, StageData(p), Undefined(p)
    PROVE  StageData(p)'
<1>1. CASE End(p, "killed") BY <1>1, EndData DEF TypeOK
<1>2. ASSUME Empty(p) = {"public_inputs"}, NEW v, CloseWith(p, v, TRUE)
      PROVE  StageData(p)'
  <2>1. "public_inputs" \in Operands(p) BY <1>2 DEF Empty
  <2>2. Step(p) = "write_json" BY <2>1 DEF Operands
  <2> QED BY <1>2, <2>2, ReturnData DEF Undefined, CloseWith, Sink
<1> QED BY <1>1, <1>2 DEF Undefined

LEMMA FailureData ==
    ASSUME NEW p \in Proc, TypeOK, StageData(p), Failure(p)
    PROVE  StageData(p)'
<1>1. CASE CannotWriteToFile(p)
    BY <1>1 DEF CannotWriteToFile, Stop, StageData, Running, TypeOK, ControlOK
<1>2. CASE OpenFails(p) BY <1>2, ReturnData DEF OpenFails, AtWrite
<1>3. CASE WriteFails(p) BY <1>3, ReturnData DEF WriteFails, CloseWith, AtWrite
<1>4. CASE LateFlush(p) BY <1>4, ReturnData DEF LateFlush, CloseWith, AtWrite
<1>5. CASE Throw(p) BY <1>5, EndData DEF Throw, TypeOK
<1>6. CASE Kill(p) BY <1>6, EndData DEF Kill, TypeOK
<1> QED BY <1>1, <1>2, <1>3, <1>4, <1>5, <1>6 DEF Failure

LEMMA StartData ==
    ASSUME NEW p \in Proc, NEW i \in Invocation[p], TypeOK, Start(p, i)
    PROVE  StageData(p)'
<1>1. pc'[p] = 1 BY DEF Start, TypeOK, ControlOK
<1> QED BY <1>1 DEF StageData, AllData, PreprocessData, ProveData, VerifyData

LEMMA NextData == TypeOK /\ DataInv /\ [Next]_vars => DataInv'
<1> SUFFICES ASSUME TypeOK, DataInv, [Next]_vars, NEW q \in Proc
             PROVE  StageData(q)'
    BY DEF DataInv
<1>1. StageData(q) BY DEF DataInv
<1>2. CASE UNCHANGED vars BY <1>1, <1>2, Frame DEF vars
<1>3. CASE ReplaceInput BY <1>1, <1>3, Frame DEF ReplaceInput, control
<1>4. ASSUME NEW p \in Proc, Work(p) \/ Failure(p) \/ \E i \in Invocation[p] : Start(p, i)
      PROVE  StageData(q)'
  <2>1. CASE p # q BY <1>1, <1>4, <2>1, OthersUntouched, Frame
  <2>2. CASE p = q
      BY <1>1, <1>4, <2>2, ReadData, ComputeData, WriteData, UndefinedData, FailureData, StartData
      DEF Work
  <2> QED BY <2>1, <2>2
<1> QED BY <1>2, <1>3, <1>4 DEF Next

LEMMA DataCorrect == Spec => []DataInv
<1>1. Init => DataInv BY DEF Init, DataInv, StageData, Running
<1> QED BY <1>1, NextData, TypeCorrect, PTL DEF Spec

-----------------------------------------------------------------------------
(* What follows from it.                                                   *)

(* run_prover never dereferences an empty optional, except for the public  *)
(* inputs in the prove stage.                                              *)
THEOREM NoEmptyOptional == Spec => []OptionalsEngaged
<1>1. TypeOK /\ DataInv => OptionalsEngaged
  <2> SUFFICES ASSUME TypeOK, DataInv, NEW p \in Proc, Running(p), Empty(p) # {}
               PROVE  /\ inv[p].stage = "prove" /\ Step(p) = "write_json"
                      /\ Empty(p) = {"public_inputs"}
      BY DEF OptionalsEngaged
  <2>1. ControlOK /\ StageData(p) BY DEF TypeOK, DataInv
  <2> QED BY <2>1, StagesOfRunning, EngagedAll, EngagedPreprocess, EngagedProve, EngagedVerify
      DEF StageData
<1> QED BY <1>1, DataCorrect, TypeCorrect, PTL

(* The "all" stage accepts its own proof exactly when the table it has     *)
(* read satisfies the circuit it has read.                                 *)
THEOREM ExactVerdict == Spec => []VerdictIsExact
<1>1. TypeOK /\ DataInv => VerdictIsExact
  <2> SUFFICES ASSUME TypeOK, DataInv, NEW p \in Proc, At(p, "verify")
               PROVE  Accepts(p, mem[p].proof) <=>
                         <<mem[p].constraint_system, mem[p].private_preprocessed_data.table>>
                            \in Satisfies
      BY DEF VerdictIsExact
  <2> DEFINE m == mem[p]
             private == m.private_preprocessed_data
             common == [circuit |-> m.constraint_system,
                        shape |-> m.table_description, fri |-> inv[p].fri]
             good == <<m.constraint_system, private.table>> \in Satisfies
  <2>1. ControlOK /\ Running(p) /\ Step(p) = "verify" /\ StageData(p)
      BY DEF TypeOK, DataInv, At
  <2>2. inv[p].stage = "all" /\ pc[p] = 7
      BY <2>1, AllSteps, AllPositions, PreprocessSteps, PreprocessPositions,
         ProveSteps, ProvePositions, VerifySteps, VerifyPositions, StagesOfRunning
  <2>3. AllData(p) BY <2>1, <2>2 DEF StageData
  <2>4. /\ m.lpc_scheme = [fri |-> inv[p].fri, shape |-> m.table_description,
                           fixed |-> <<m.constraint_system, m.table_description>>]
        /\ m.public_preprocessed_data # None
        /\ m.public_preprocessed_data.common = common
        /\ private = PrivatePreprocess(m.constraint_system, private.table, m.table_description)
        /\ ShapeOf[private.table] = m.table_description
        /\ m.proof = PlaceholderProve(m.public_preprocessed_data, private,
                        m.table_description, m.constraint_system, m.lpc_scheme)
      BY <2>2, <2>3 DEF AllData, WithFixedBatch, NewLpcScheme
  <2>5. /\ m.proof.circuit = m.constraint_system /\ m.proof.shape = m.table_description
        /\ m.proof.fri = inv[p].fri /\ (m.proof.sound <=> good)
      BY <2>4 DEF PlaceholderProve
  <2> QED BY <2>4, <2>5 DEF Accepts, PlaceholderVerify
<1> QED BY <1>1, DataCorrect, TypeCorrect, PTL

(* The only step that changes a proof file is one of a process that is at  *)
(* write_proof and has that file as its target.                            *)
LEMMA ProofWriter ==
    ASSUME TypeOK, [Next]_vars, NEW l \in Loc, files'[<<"proof", l>>] # files[<<"proof", l>>]
    PROVE  \E p \in Proc : Running(p) /\ Step(p) = "write_proof" /\ Target(p) = <<"proof", l>>
<1> DEFINE f == <<"proof", l>>
<1>1. f \in Role \X Loc BY DEF Role
<1>2. ~ UNCHANGED files OBVIOUS
<1>3. ~ UNCHANGED vars /\ ~ReplaceInput
  <2>1. ASSUME ReplaceInput PROVE FALSE
      BY <2>1, <1>1 DEF ReplaceInput, TypeOK, FilesOK
  <2> QED BY <1>2, <2>1 DEF vars
<1>4. PICK p \in Proc : Work(p) \/ Failure(p)
    BY <1>2, <1>3 DEF Next, Start
<1>5. ~Read(p) /\ ~Compute(p)
    BY <1>2 DEF Read, ReadCircuit, ReadAssignmentTable, ReadAssignmentDescription,
       ReadCommonData, ReadPublicData, ReadCommitmentScheme, ReadFails,
       Compute, PreprocessPublicData, PreprocessPrivateData, CreateLpcScheme,
       CanWriteToFile, GenerateProof, Verify, VerifyFromFile, Conclude, Load
<1>6. \/ OpenOutput(p)
      \/ fd[p] # None /\ \E v, ok : CloseWith(p, v, ok)
      \/ fd[p] # None /\ \E v : files' = [files EXCEPT ![fd[p].file] = v]
  <2>1. CASE Write(p) BY <1>2, <2>1 DEF Write, NoOutputPath, FinishWrite
  <2>2. CASE Undefined(p)
    <3>1. CASE End(p, "killed") BY <1>2, <3>1 DEF End
    <3>2. ASSUME Empty(p) = {"public_inputs"}, NEW v, CloseWith(p, v, TRUE)
          PROVE  fd[p] # None
      <4>1. "public_inputs" \in Operands(p) BY <3>2 DEF Empty
      <4> QED BY <4>1 DEF Operands
    <3> QED BY <2>2, <3>1, <3>2 DEF Undefined, End
  <2>3. CASE Failure(p)
      BY <1>2, <2>3 DEF Failure, CannotWriteToFile, OpenFails, WriteFails, LateFlush,
         Throw, Kill, End
  <2> QED BY <1>4, <1>5, <2>1, <2>2, <2>3 DEF Work
<1>7. CASE OpenOutput(p)
  <2>1. Running(p) /\ Step(p) \in DOMAIN Sink /\ files' = [files EXCEPT ![Target(p)] = Torn]
      BY <1>7 DEF OpenOutput, AtWrite
  <2>2. Target(p) = f BY <1>1, <2>1 DEF TypeOK, FilesOK
  <2>3. Step(p) = "write_proof" BY <2>1, <2>2 DEF Target, File, Sink
  <2> QED BY <2>1, <2>2, <2>3
<1>8. ASSUME fd[p] # None, NEW v, files' = [files EXCEPT ![fd[p].file] = v]
      PROVE  Running(p) /\ Step(p) = "write_proof" /\ Target(p) = f
  <2>1. Running(p) /\ Step(p) \in DOMAIN Sink /\ fd[p].file = Target(p)
      BY <1>8 DEF TypeOK, DescriptorsOK
  <2>2. Target(p) = f BY <1>1, <1>8, <2>1 DEF TypeOK, FilesOK
  <2>3. Step(p) = "write_proof" BY <2>1, <2>2 DEF Target, File, Sink
  <2> QED BY <2>1, <2>2, <2>3
<1> QED BY <1>6, <1>7, <1>8 DEF CloseWith

(* A proof file is only touched, be it to truncate it, by a process that   *)
(* has generated a proof, and in the "all" stage one that verifies: no     *)
(* failing run of it damages the proof of an earlier one.                  *)
THEOREM VerifiedBeforePublished == Spec => PublishedProofsVerified
<1>1. TypeOK /\ DataInv /\ [Next]_vars =>
        [\A l \in Loc : files'[<<"proof", l>>] # files[<<"proof", l>>] =>
          \E p \in Proc :
             /\ Running(p) /\ Step(p) = "write_proof" /\ Target(p) = <<"proof", l>>
             /\ mem[p].proof # None
             /\ inv[p].stage = "all" => Accepts(p, mem[p].proof)]_vars
  <2> SUFFICES ASSUME TypeOK, DataInv, [Next]_vars, NEW l \in Loc,
                      files'[<<"proof", l>>] # files[<<"proof", l>>]
               PROVE  \E p \in Proc :
                        /\ Running(p) /\ Step(p) = "write_proof" /\ Target(p) = <<"proof", l>>
                        /\ mem[p].proof # None
                        /\ inv[p].stage = "all" => Accepts(p, mem[p].proof)
      OBVIOUS
  <2>1. PICK p \in Proc : Running(p) /\ Step(p) = "write_proof" /\ Target(p) = <<"proof", l>>
      BY ProofWriter
  <2>2. ASSUME inv[p].stage = "all" PROVE Accepts(p, mem[p].proof)
    <3>1. ControlOK /\ AllData(p) BY <2>1, <2>2 DEF TypeOK, DataInv, StageData
    <3>2. pc[p] = 8 BY <2>1, <2>2, <3>1, AllSteps, AllPositions
    <3> QED BY <3>1, <3>2 DEF AllData
  <2>3. mem[p].proof # None
    <3>1. ControlOK /\ StageData(p) BY DEF TypeOK, DataInv
    <3>2. CASE inv[p].stage = "all"
        BY <2>1, <3>1, <3>2, AllSteps, AllPositions DEF StageData, AllData
    <3>3. CASE inv[p].stage = "prove"
        BY <2>1, <3>1, <3>3, ProveSteps, ProvePositions DEF StageData, ProveData
    <3>4. inv[p].stage \in {"all", "prove"}
        BY <2>1, <3>1, PreprocessSteps, PreprocessPositions, VerifySteps, VerifyPositions,
           StagesOfRunning
    <3> QED BY <3>2, <3>3, <3>4
  <2> QED BY <2>1, <2>2, <2>3
<1> QED BY <1>1, DataCorrect, TypeCorrect, PTL DEF Spec, PublishedProofsVerified

-----------------------------------------------------------------------------
(* Prover implements Publication.                                          *)

(* The mapping's constants are as Publication wants them.                  *)
LEMMA MappedConstants == Published!PublicationAssumption
<1>1. Absent \notin Proof /\ Torn \notin Proof
    BY ProverAssumption DEF AllFileData, FileData, Role
<1>2. ProofDest \in [Proc -> SUBSET (Loc \cup {None})]
    BY ProverAssumption DEF ProofDest, ProverOptions, Role
<1>3. None \notin Loc /\ LateFlushFails \in BOOLEAN BY ProverAssumption
<1> QED BY <1>1, <1>2, <1>3, NoneIsNoRecord
    DEF Published!PublicationAssumption, GenuineProof, VerifiedOnly

LEMMA WriteProofIsEighth == WriteProofAt("all") = 8 /\ WriteProofAt("prove") = 8
<1>1. Len(All) = 12 /\ \A k \in 1..12 : All[k] = "write_proof" <=> k = 8
    BY AllPositions DEF All
<1>2. Len(Prove) = 9 /\ \A k \in 1..9 : Prove[k] = "write_proof" <=> k = 8
    BY ProvePositions DEF Prove
<1> QED BY <1>1, <1>2 DEF WriteProofAt, Program

(* Where the operations of the two stages that make proofs are.            *)
LEMMA MakerSteps ==
    ASSUME NEW p \in Proc, ControlOK, Running(p)
    PROVE  /\ Makes(inv[p].stage) =>
                 /\ WriteProofAt(inv[p].stage) = 8
                 /\ pc[p] \in 1..Len(Chain(p)) /\ Len(Chain(p)) \in 9..12
                 /\ pc[p] < 8 => Step(p) \notin DOMAIN Sink
                 /\ pc[p] = 8 <=> Step(p) = "write_proof"
                 /\ pc[p] > 8 => Step(p) \in DOMAIN Sink
           /\ Step(p) = "write_proof" => Makes(inv[p].stage)
<1>1. CASE inv[p].stage = "all"
  <2>1. Len(Chain(p)) = 12 BY <1>1 DEF Chain, Program, All
  <2> QED BY <1>1, <2>1, AllSteps, AllPositions, WriteProofIsEighth DEF Sink, Makes
<1>2. CASE inv[p].stage = "prove"
  <2>1. Len(Chain(p)) = 9 BY <1>2 DEF Chain, Program, Prove
  <2> QED BY <1>2, <2>1, ProveSteps, ProvePositions, WriteProofIsEighth DEF Sink, Makes
<1>3. CASE inv[p].stage \in {"preprocess", "verify"}
    BY <1>3, PreprocessSteps, PreprocessPositions, VerifySteps, VerifyPositions DEF Makes
<1> QED BY <1>1, <1>2, <1>3, StagesOfRunning

(* What a step does to the process that takes it: it moves on, stops, or   *)
(* only opens its output.  An operation that writes fills no member.       *)
LEMMA ControlEffect ==
    ASSUME NEW p \in Proc, TypeOK, Work(p) \/ Failure(p)
    PROVE  /\ Running(p)
           /\ Proceed(p) \/ Stop(p, "exit1") \/ Stop(p, "killed") \/ UNCHANGED control
           /\ Step(p) \in DOMAIN Sink => mem' = mem
<1> USE DEF Sink
<1>1. CASE Read(p)
    BY <1>1 DEF Read, ReadCircuit, ReadAssignmentTable, ReadAssignmentDescription,
       ReadCommonData, ReadPublicData, ReadCommitmentScheme, ReadFails, Load, At, Source
<1>2. CASE Compute(p)
    BY <1>2 DEF Compute, PreprocessPublicData, PreprocessPrivateData, CreateLpcScheme,
       CanWriteToFile, GenerateProof, Verify, VerifyFromFile, Conclude, Load, At
<1>3. CASE Write(p)
    BY <1>3 DEF Write, OpenOutput, NoOutputPath, FinishWrite, CloseWith, Return, AtWrite
<1>4. CASE Undefined(p) BY <1>4 DEF Undefined, End, CloseWith, Return
<1>5. CASE Failure(p)
    BY <1>5 DEF Failure, CannotWriteToFile, OpenFails, WriteFails, LateFlush, Throw, Kill,
       CloseWith, Return, End, At, AtWrite
<1> QED BY <1>1, <1>2, <1>3, <1>4, <1>5 DEF Work

-----------------------------------------------------------------------------
(* Options are those of a command line of the slot, and who has a job has  *)
(* a proof, also after its end.                                            *)
Told(p) == status[p] # "idle" => inv[p] \in Invocation[p]
Holds(p) == status[p] = "exit0" /\ Makes(inv[p].stage) => mem[p].proof # None

JobInv == \A p \in Proc : Told(p) /\ Holds(p)

LEMMA ProofThere ==
    ASSUME NEW p \in Proc, TypeOK, DataInv, Running(p), Makes(inv[p].stage), pc[p] > 7
    PROVE  mem[p].proof # None
<1>1. StageData(p) BY DEF DataInv
<1>2. CASE inv[p].stage = "all" BY <1>1, <1>2 DEF StageData, AllData, TypeOK, ControlOK
<1>3. CASE inv[p].stage = "prove" BY <1>1, <1>3 DEF StageData, ProveData
<1> QED BY <1>2, <1>3 DEF Makes

LEMMA JobInvStep == TypeOK /\ DataInv /\ JobInv /\ [Next]_vars => JobInv'
<1> SUFFICES ASSUME TypeOK, DataInv, JobInv, [Next]_vars, NEW q \in Proc
             PROVE  Told(q)' /\ Holds(q)'
    BY DEF JobInv
<1>1. Told(q) /\ Holds(q) BY DEF JobInv
<1>2. ASSUME inv'[q] = inv[q], status'[q] = status[q], mem'[q] = mem[q]
      PROVE  Told(q)' /\ Holds(q)'
    BY <1>1, <1>2 DEF Told, Holds, Running
<1>3. ASSUME NEW p \in Proc, Work(p) \/ Failure(p) PROVE Told(q)' /\ Holds(q)'
  <2>1. CASE p # q BY <1>2, <1>3, <2>1, OthersUntouched
  <2>2. CASE p = q
    <3>1. Running(q) /\ inv[q] \in Invocation[q]
        BY <1>1, <1>3, <2>2, ControlEffect DEF Told, Running
    <3>2. inv' = inv \/ UNCHANGED control
        BY <1>3, <2>2, ControlEffect DEF Proceed, Stop
    <3>3. ASSUME status'[q] = "exit0", Makes(inv'[q].stage) PROVE mem'[q].proof # None
      <4>1. Proceed(q) /\ pc[q] = Len(Chain(q))
          BY <1>3, <2>2, <3>1, <3>3, ControlEffect
          DEF Proceed, Stop, control, Running, TypeOK, ControlOK
      <4>2. Makes(inv[q].stage) BY <3>3, <4>1 DEF Proceed
      <4>3. Step(q) \in DOMAIN Sink /\ pc[q] > 7
        <5>1. ControlOK BY DEF TypeOK
        <5>2. Len(Chain(q)) \in 9..12 /\ (pc[q] > 8 => Step(q) \in DOMAIN Sink)
            BY <3>1, <4>2, <5>1, MakerSteps
        <5>3. pc[q] \in 9..12 BY <4>1, <5>2, Zenon
        <5>4. pc[q] > 8 /\ pc[q] > 7 BY <5>3
        <5> QED BY <5>2, <5>4
      <4> QED BY <1>3, <2>2, <3>1, <4>2, <4>3, ControlEffect, ProofThere
    <3> QED BY <3>1, <3>2, <3>3 DEF Told, Holds, control
  <2> QED BY <2>1, <2>2
<1>4. ASSUME NEW p \in Proc, NEW i \in Invocation[p], Start(p, i) PROVE Told(q)' /\ Holds(q)'
  <2>1. CASE p # q BY <1>2, <1>4, <2>1, OthersUntouched
  <2>2. CASE p = q BY <1>4, <2>2 DEF Start, Told, Holds, TypeOK, ControlOK
  <2> QED BY <2>1, <2>2
<1>5. CASE ReplaceInput BY <1>2, <1>5 DEF ReplaceInput, control
<1>6. CASE UNCHANGED vars BY <1>2, <1>6 DEF vars
<1> QED BY <1>3, <1>4, <1>5, <1>6 DEF Next

LEMMA JobInvCorrect == Spec => []JobInv
<1>1. Init => JobInv BY DEF Init, JobInv, Told, Holds, Running
<1> QED BY <1>1, JobInvStep, TypeCorrect, DataCorrect, PTL DEF Spec

-----------------------------------------------------------------------------
(* What Publication sees of a process.                                     *)
IInv == TypeOK /\ DataInv /\ JobInv

LEMMA JobSeen ==
    ASSUME IInv, NEW p \in Proc, HasJob(p)
    PROVE  /\ Jobs[p] = [proof |-> mem[p].proof, to |-> inv[p].at["proof"], state |-> JobState(p)]
           /\ Jobs[p] # None /\ Jobs[p].to = inv[p].at["proof"]
           /\ Jobs[p].proof = mem[p].proof /\ Jobs[p].state = JobState(p)
           /\ Published!State(p) = JobState(p)
           /\ JobState(p) = IF status[p] = "exit0" THEN "reported"
                            ELSE IF pc[p] > 8 THEN "done"
                            ELSE IF fd[p] = None THEN "ready"
                            ELSE IF fd[p].alone THEN "writing" ELSE "sharing"
           /\ pc[p] >= 8 /\ (pc[p] > 8 => res[p])
           /\ mem[p].proof \in Proof
           /\ inv[p].at["proof"] \in Loc \cup {None}
<1>1. WriteProofAt(inv[p].stage) = 8 BY WriteProofIsEighth DEF HasJob, Makes
<1>2. status[p] \in {"running", "exit0"} /\ Makes(inv[p].stage) /\ pc[p] \in Nat
      /\ pc[p] >= 8 /\ (pc[p] > 8 => res[p])
    BY <1>1 DEF HasJob, IInv, TypeOK, ControlOK
<1>3. mem[p].proof # None
    BY <1>2, ProofThere DEF IInv, JobInv, Holds, Running
<1>4. mem[p].proof \in Proof BY <1>3 DEF IInv, TypeOK, MemoryOK, Memory
<1>5. inv[p] \in ProverOptions BY <1>2, ProverAssumption DEF IInv, JobInv, Told
<1>6. inv[p].at["proof"] \in Loc \cup {None} BY <1>5 DEF ProverOptions, Role
<1>7. JobState(p) = IF status[p] = "exit0" THEN "reported"
                    ELSE IF pc[p] > 8 THEN "done"
                    ELSE IF fd[p] = None THEN "ready"
                    ELSE IF fd[p].alone THEN "writing" ELSE "sharing"
    BY <1>1, <1>2 DEF JobState, Running
<1>8. [proof |-> mem[p].proof, to |-> inv[p].at["proof"], state |-> JobState(p)] \in Published!Job
    BY <1>4, <1>6, <1>7 DEF Published!Job
<1>9. Jobs[p] = [proof |-> mem[p].proof, to |-> inv[p].at["proof"], state |-> JobState(p)]
    BY DEF Jobs, JobOf
<1>10. Jobs[p] # None BY <1>8, <1>9, NoneIsNoRecord
<1> QED BY <1>2, <1>4, <1>6, <1>7, <1>9, <1>10 DEF Published!State

LEMMA NoJobSeen ==
    ASSUME NEW p \in Proc, ~HasJob(p)
    PROVE  Jobs[p] = None /\ Published!State(p) = "none"
BY DEF Jobs, JobOf, Published!State

-----------------------------------------------------------------------------
(* Frames: what a step leaves alone.                                       *)
LEMMA JobFrame ==
    ASSUME NEW q \in Proc, inv'[q] = inv[q], status'[q] = status[q], pc'[q] = pc[q],
           mem'[q] = mem[q], res'[q] = res[q], fd'[q] = fd[q]
    PROVE  JobOf(q)' = JobOf(q)
BY DEF JobOf, HasJob, JobState, Running

LEMMA OthersFrame ==
    ASSUME NEW p \in Proc, Work(p) \/ Failure(p) \/ \E i \in Invocation[p] : Start(p, i),
           ~OpenOutput(p), TypeOK
    PROVE  Jobs' = [Jobs EXCEPT ![p] = JobOf(p)']
<1>1. ASSUME NEW q \in Proc, q # p PROVE JobOf(q)' = JobOf(q)
  <2> USE DEF TypeOK, MemoryOK, DescriptorsOK
  <2>1. res'[q] = res[q] /\ fd'[q] = fd[q]
    <3>1. CASE Read(p)
        BY <3>1 DEF Read, ReadCircuit, ReadAssignmentTable, ReadAssignmentDescription,
           ReadCommonData, ReadPublicData, ReadCommitmentScheme, ReadFails, Load
    <3>2. CASE Compute(p)
        BY <3>2 DEF Compute, PreprocessPublicData, PreprocessPrivateData, CreateLpcScheme,
           CanWriteToFile, GenerateProof, Verify, VerifyFromFile, Conclude, Load
    <3>3. CASE Write(p) BY <1>1, <3>3 DEF Write, NoOutputPath, FinishWrite, CloseWith, Return
    <3>4. CASE Undefined(p) BY <1>1, <3>4 DEF Undefined, End, CloseWith, Return
    <3>5. CASE Failure(p)
        BY <1>1, <3>5 DEF Failure, CannotWriteToFile, OpenFails, WriteFails, LateFlush,
           Throw, Kill, CloseWith, Return, End
    <3>6. ASSUME NEW i \in Invocation[p], Start(p, i)
          PROVE  res'[q] = res[q] /\ fd'[q] = fd[q]
        BY <1>1, <3>6 DEF Start
    <3> QED BY <3>1, <3>2, <3>3, <3>4, <3>5, <3>6 DEF Work
  <2> QED BY <1>1, <2>1, OthersUntouched, JobFrame
<1> QED BY <1>1 DEF Jobs

LEMMA ProofFileFrame ==
    ASSUME TypeOK, NEW f \in Role \X Loc, NEW v, files' = [files EXCEPT ![f] = v]
    PROVE  /\ f[1] # "proof" => ProofFile' = ProofFile
           /\ \A l \in Loc : f = <<"proof", l>> => ProofFile' = [ProofFile EXCEPT ![l] = v]
<1>1. \A l \in Loc : <<"proof", l>> \in Role \X Loc BY DEF Role
<1>2. \A g \in Role \X Loc : files'[g] = IF g = f THEN v ELSE files[g] BY DEF TypeOK, FilesOK
<1>3. ASSUME f[1] # "proof" PROVE ProofFile' = ProofFile
  <2>1. \A l \in Loc : <<"proof", l>> # f BY <1>3
  <2> QED BY <1>1, <1>2, <2>1 DEF ProofFile
<1>4. ASSUME NEW l \in Loc, f = <<"proof", l>>
      PROVE  ProofFile' = [ProofFile EXCEPT ![l] = v]
  <2>1. \A m \in Loc : files'[<<"proof", m>>] = IF m = l THEN v ELSE files[<<"proof", m>>]
      BY <1>1, <1>2, <1>4
  <2> QED BY <2>1 DEF ProofFile
<1> QED BY <1>3, <1>4

(* A process that has a file open writes the output of its operation.      *)
LEMMA OpenFile ==
    ASSUME IInv, NEW p \in Proc, fd[p] # None
    PROVE  /\ Running(p) /\ Step(p) \in DOMAIN Sink
           /\ fd[p].file = <<Sink[Step(p)], inv[p].at[Sink[Step(p)]]>>
           /\ fd[p].file \in Role \X Loc
           /\ Sink[Step(p)] = "proof" <=> Step(p) = "write_proof"
BY DEF IInv, TypeOK, DescriptorsOK, Descriptor, Target, File, Sink

-----------------------------------------------------------------------------
(* Steps that leave the proof files alone.  A process drops its job ...    *)
LEMMA Dropped ==
    ASSUME IInv, NEW p \in Proc, Jobs' = [Jobs EXCEPT ![p] = JobOf(p)'], ~HasJob(p)',
           ProofFile' = ProofFile, HasJob(p) => pc[p] # 8 \/ fd[p] = None
    PROVE  [Published!Next]_Published!vars
<1>1. JobOf(p)' = None BY DEF JobOf
<1>2. CASE HasJob(p)
  <2>1. Published!State(p) \in {"ready", "done", "reported"}
    <3>1. pc[p] \in Nat BY DEF IInv, TypeOK, ControlOK
    <3>2. pc[p] >= 8 BY <1>2, JobSeen
    <3>3. pc[p] > 8 \/ fd[p] = None BY <1>2, <3>1, <3>2
    <3> QED BY <1>2, <3>3, JobSeen
  <2>2. Published!Forget(p) BY <1>1, <2>1 DEF Published!Forget, Published!Drop
  <2> QED BY <2>2 DEF Published!Next
<1>3. CASE ~HasJob(p)
  <2>1. Jobs[p] = None BY <1>3, NoJobSeen
  <2>2. Jobs' = Jobs BY <1>1, <2>1 DEF Jobs
  <2> QED BY <2>2 DEF Published!vars
<1> QED BY <1>2, <1>3

(* ... keeps it, or reports success ...                                    *)
LEMMA Kept ==
    ASSUME IInv, NEW p \in Proc, Running(p), Jobs' = [Jobs EXCEPT ![p] = JobOf(p)'],
           HasJob(p), pc[p] > 8, HasJob(p)', ProofFile' = ProofFile, mem' = mem, inv' = inv,
           pc'[p] = pc[p] + 1, status'[p] \in {"running", "exit0"}
    PROVE  [Published!Next]_Published!vars
<1>1. WriteProofAt(inv[p].stage) = 8 BY WriteProofIsEighth DEF HasJob, Makes
<1>2. /\ Jobs[p] = [proof |-> mem[p].proof, to |-> inv[p].at["proof"], state |-> "done"]
      /\ Published!State(p) = "done"
    BY JobSeen DEF Running
<1>3. pc[p] \in Nat BY DEF IInv, TypeOK, ControlOK
<1>4. JobOf(p)' = [proof |-> mem[p].proof, to |-> inv[p].at["proof"], state |-> JobState(p)']
    BY DEF JobOf
<1>5. CASE status'[p] = "exit0"
  <2>1. JobState(p)' = "reported" BY <1>5 DEF JobState, Running
  <2>2. JobOf(p)' = [Jobs[p] EXCEPT !.state = "reported"] BY <1>2, <1>4, <2>1
  <2>3. Published!Report(p) BY <1>2, <2>2 DEF Published!Report, Published!Become, Jobs
  <2> QED BY <2>3 DEF Published!Next
<1>6. CASE status'[p] = "running"
  <2>1. JobState(p)' = "done" BY <1>1, <1>3, <1>6 DEF JobState, Running
  <2>2. Jobs' = Jobs BY <1>2, <1>4, <2>1 DEF Jobs
  <2> QED BY <2>2 DEF Published!vars
<1> QED BY <1>5, <1>6

(* Who has a job: by stage and position.                                   *)
LEMMA WhoHasJob ==
    ASSUME IInv, NEW p \in Proc, Running(p)
    PROVE  /\ HasJob(p) <=> Makes(inv[p].stage) /\ pc[p] >= 8 /\ (pc[p] > 8 => res[p])
           /\ pc[p] \in Nat
           /\ Step(p) = "write_proof" <=> Makes(inv[p].stage) /\ pc[p] = 8
           /\ Makes(inv[p].stage) => (pc[p] >= 8 <=> Step(p) \in DOMAIN Sink)
           /\ HasJob(p) => (pc[p] = 8 <=> Step(p) = "write_proof")
<1>1. ControlOK BY DEF IInv, TypeOK
<1>2. Makes(inv[p].stage) => WriteProofAt(inv[p].stage) = 8 BY <1>1, MakerSteps
<1>3. pc[p] \in Nat BY <1>1 DEF ControlOK
<1>4. HasJob(p) <=> Makes(inv[p].stage) /\ pc[p] >= 8 /\ (pc[p] > 8 => res[p])
    BY <1>2 DEF HasJob, Running
<1>5. Step(p) = "write_proof" <=> Makes(inv[p].stage) /\ pc[p] = 8 BY <1>1, MakerSteps
<1>6. ASSUME Makes(inv[p].stage) PROVE pc[p] >= 8 <=> Step(p) \in DOMAIN Sink
  <2>1. "write_proof" \in DOMAIN Sink BY DEF Sink
  <2>2. /\ pc[p] < 8 => Step(p) \notin DOMAIN Sink
        /\ pc[p] = 8 => Step(p) \in DOMAIN Sink
        /\ pc[p] > 8 => Step(p) \in DOMAIN Sink
      BY <1>1, <1>6, <2>1, MakerSteps
  <2> QED BY <1>3, <2>2
<1> QED BY <1>3, <1>4, <1>5, <1>6

(* An operation that is not a write succeeds: with the one before          *)
(* write_proof, a job comes into being.                                    *)
LEMMA ComputeProceeds ==
    ASSUME IInv, NEW p \in Proc, Running(p), Step(p) \notin DOMAIN Sink, Proceed(p),
           Jobs' = [Jobs EXCEPT ![p] = JobOf(p)'], ProofFile' = ProofFile, fd' = fd,
           StageData(p)', TypeOK'
    PROVE  [Published!Next]_Published!vars
<1>1. ~HasJob(p) /\ Jobs[p] = None /\ Published!State(p) = "none"
  <2>1. ~HasJob(p) BY WhoHasJob
  <2> QED BY <2>1, NoJobSeen
<1>2. CASE HasJob(p)'
  <2>1. WriteProofAt(inv[p].stage) = 8 /\ Makes(inv[p].stage)
      BY <1>2, WriteProofIsEighth DEF HasJob, Makes, Proceed
  <2>2. pc[p] < 8 /\ pc[p] \in Nat BY <2>1, WhoHasJob
  <2>3. pc'[p] = pc[p] + 1 /\ inv' = inv
      BY DEF Proceed, IInv, TypeOK, ControlOK
  <2>4. pc'[p] = 8 /\ pc[p] = 7 BY <1>2, <2>1, <2>2, <2>3 DEF HasJob
  <2>5. status'[p] = "running"
    <3>1. Len(Chain(p)) \in 9..12 BY <2>1, MakerSteps DEF IInv, TypeOK
    <3>2. pc[p] # Len(Chain(p)) BY <2>4, <3>1
    <3> QED BY <3>2 DEF Proceed, IInv, TypeOK, ControlOK, Running
  <2>6. fd[p] = None BY OpenFile
  <2>7. JobOf(p)' = [proof |-> mem'[p].proof, to |-> inv[p].at["proof"], state |-> "ready"]
    <3>1. JobState(p)' = "ready" BY <2>1, <2>3, <2>4, <2>5, <2>6 DEF JobState, Running
    <3> QED BY <1>2, <2>3, <3>1 DEF JobOf
  <2>8. inv[p] \in Invocation[p] BY DEF IInv, JobInv, Told, Running
  <2>9. inv[p].at["proof"] \in ProofDest[p] BY <2>1, <2>8 DEF ProofDest
  <2>10. /\ mem'[p].proof \in Proof
         /\ inv[p].stage = "all" => mem'[p].proof.sound
    <3>1. Running(p)' BY <2>5 DEF Running
    <3>2. CASE inv[p].stage = "all"
      <4>1. AllData(p)' BY <2>3, <3>1, <3>2 DEF StageData
      <4>2. mem'[p].proof # None /\ Accepts(p, mem[p].proof)' BY <2>4, <4>1 DEF AllData
      <4> QED BY <4>2 DEF TypeOK, MemoryOK, Memory, Accepts, PlaceholderVerify
    <3>3. CASE inv[p].stage = "prove"
      <4>1. ProveData(p)' BY <2>3, <3>1, <3>3 DEF StageData
      <4>2. mem'[p].proof # None BY <2>4, <4>1 DEF ProveData
      <4> QED BY <3>3, <4>2 DEF TypeOK, MemoryOK, Memory
    <3> QED BY <2>1, <3>2, <3>3 DEF Makes
  <2>11. mem'[p].proof \in IF inv[p].at["proof"] \in VerifiedOnly THEN GenuineProof ELSE Proof
    <3>1. CASE inv[p].at["proof"] \in VerifiedOnly
      <4>1. inv[p].stage # "prove" BY <2>8, <3>1 DEF VerifiedOnly
      <4> QED BY <2>1, <2>10, <3>1, <4>1 DEF Makes, GenuineProof
    <3> QED BY <2>10, <3>1
  <2>12. Published!Produce(p)
      BY <1>1, <2>7, <2>9, <2>11 DEF Published!Produce
  <2> QED BY <2>12 DEF Published!Next
<1>3. CASE ~HasJob(p)' BY <1>1, <1>3, Dropped
<1> QED BY <1>2, <1>3

(* An operation that writes another file returns.                          *)
LEMMA OtherReturns ==
    ASSUME IInv, NEW p \in Proc, NEW ok \in BOOLEAN, Running(p),
           Step(p) \in DOMAIN Sink, Step(p) # "write_proof", Return(p, ok), mem' = mem,
           Jobs' = [Jobs EXCEPT ![p] = JobOf(p)'], ProofFile' = ProofFile
    PROVE  [Published!Next]_Published!vars
<1>1. inv' = inv BY DEF Return, Proceed, Stop
<1>2. HasJob(p) => pc[p] # 8 BY WhoHasJob
<1>3. CASE ~HasJob(p)' BY <1>2, <1>3, Dropped
<1>4. CASE HasJob(p)'
  <2>1. Proceed(p) /\ res' = res
      BY <1>4 DEF Return, Stop, HasJob, IInv, TypeOK, ControlOK, Running
  <2>2. pc'[p] = pc[p] + 1 /\ status'[p] \in {"running", "exit0"}
      BY <1>4, <2>1 DEF Proceed, HasJob, IInv, TypeOK, ControlOK
  <2>3. Makes(inv[p].stage) /\ pc[p] \in Nat BY <1>1, <1>4, WhoHasJob DEF HasJob
  <2>4. pc[p] > 8
    <3>1. pc[p] >= 8 BY <2>3, WhoHasJob
    <3>2. pc[p] # 8 BY <2>3, WhoHasJob
    <3> QED BY <2>3, <3>1, <3>2
  <2>5. res[p]
    <3>1. pc'[p] > WriteProofAt(inv[p].stage)
        BY <2>2, <2>3, <2>4, WriteProofIsEighth DEF Makes
    <3> QED BY <1>1, <1>4, <2>1, <3>1 DEF HasJob
  <2>6. HasJob(p) BY <2>3, <2>4, <2>5, WhoHasJob
  <2> QED BY <1>1, <1>4, <2>2, <2>4, <2>6, Kept
<1> QED BY <1>3, <1>4

-----------------------------------------------------------------------------
(* Writing the proof.                                                      *)
LEMMA AtWriteProof ==
    ASSUME IInv, NEW p \in Proc, Running(p), Step(p) = "write_proof"
    PROVE  /\ HasJob(p) /\ pc[p] = 8 /\ Makes(inv[p].stage) /\ Len(Chain(p)) \in 9..12
           /\ Published!State(p) = IF fd[p] = None THEN "ready"
                                   ELSE IF fd[p].alone THEN "writing" ELSE "sharing"
           /\ fd[p] # None =>
                 /\ Published!Writes(p)
                 /\ inv[p].at["proof"] \in Loc
                 /\ fd[p].file = <<"proof", inv[p].at["proof"]>>
                 /\ files[fd[p].file] = ProofFile[Jobs[p].to]
<1>1. Makes(inv[p].stage) /\ pc[p] = 8 /\ HasJob(p) BY WhoHasJob
<1>2. Len(Chain(p)) \in 9..12 BY <1>1, MakerSteps DEF IInv, TypeOK
<1>3. Published!State(p) = IF fd[p] = None THEN "ready"
                           ELSE IF fd[p].alone THEN "writing" ELSE "sharing"
  <2>1. ~(pc[p] > 8) BY <1>1
  <2>2. status[p] # "exit0" BY DEF Running
  <2> QED BY <1>1, <2>1, <2>2, JobSeen, Zenon
<1>4. ASSUME fd[p] # None
      PROVE  /\ Published!Writes(p)
             /\ inv[p].at["proof"] \in Loc
             /\ fd[p].file = <<"proof", inv[p].at["proof"]>>
             /\ files[fd[p].file] = ProofFile[Jobs[p].to]
  <2>1. Sink[Step(p)] = "proof" BY DEF Sink
  <2>2. /\ fd[p].file = <<"proof", inv[p].at["proof"]>>
        /\ fd[p].file \in Role \X Loc
      BY <1>4, <2>1, OpenFile
  <2>3. Jobs[p].to = inv[p].at["proof"] BY <1>1, JobSeen
  <2> QED BY <1>3, <1>4, <2>2, <2>3 DEF Published!Writes, ProofFile
<1> QED BY <1>1, <1>2, <1>3, <1>4

LEMMA ProofReturns ==
    ASSUME IInv, NEW p \in Proc, NEW ok \in BOOLEAN, Running(p), Step(p) = "write_proof",
           Return(p, ok), mem' = mem
    PROVE  IF ok THEN JobOf(p)' = [Jobs[p] EXCEPT !.state = "done"] ELSE ~HasJob(p)'
<1>1. /\ pc[p] = 8 /\ Makes(inv[p].stage) /\ Len(Chain(p)) \in 9..12 /\ HasJob(p)
      /\ WriteProofAt(inv[p].stage) = 8
    BY AtWriteProof, WriteProofIsEighth DEF Makes
<1>2. Proceed(p) /\ res' = [res EXCEPT ![p] = ok] BY DEF Return
<1>3. pc'[p] = 9 /\ inv' = inv BY <1>1, <1>2 DEF Proceed, IInv, TypeOK, ControlOK
<1>4. status'[p] = "running"
  <2>1. pc[p] # Len(Chain(p)) BY <1>1
  <2> QED BY <1>2, <2>1 DEF Proceed, IInv, TypeOK, ControlOK, Running
<1>5. res'[p] = ok BY <1>2 DEF IInv, TypeOK, MemoryOK
<1>6. HasJob(p)' <=> ok BY <1>1, <1>3, <1>4, <1>5 DEF HasJob
<1>7. JobState(p)' = "done" BY <1>1, <1>3, <1>4 DEF JobState, Running
<1>8. ASSUME ok PROVE JobOf(p)' = [Jobs[p] EXCEPT !.state = "done"]
  <2>1. JobOf(p)' = [proof |-> mem[p].proof, to |-> inv[p].at["proof"], state |-> "done"]
      BY <1>3, <1>6, <1>7, <1>8 DEF JobOf
  <2>2. Jobs[p] = [proof |-> mem[p].proof, to |-> inv[p].at["proof"], state |-> JobState(p)]
      BY <1>1, JobSeen
  <2> QED BY <2>1, <2>2
<1> QED BY <1>6, <1>8

LEMMA CutShort ==
    ASSUME IInv, NEW p \in Proc, Running(p), Step(p) = "write_proof", fd[p] # None,
           NEW value \in Residue(p), files' = [files EXCEPT ![fd[p].file] = value],
           Jobs' = [Jobs EXCEPT ![p] = JobOf(p)'],
           \/ ~HasJob(p)'
           \/ LateFlushFails /\ JobOf(p)' = [Jobs[p] EXCEPT !.state = "done"]
    PROVE  [Published!Next]_Published!vars
<1> DEFINE l == inv[p].at["proof"]
<1>1. /\ Published!Writes(p) /\ l \in Loc /\ fd[p].file = <<"proof", l>>
      /\ files[fd[p].file] = ProofFile[Jobs[p].to] /\ HasJob(p)
      /\ ~fd[p].alone => Published!State(p) = "sharing"
    BY AtWriteProof
<1>2. Jobs[p].to = l BY <1>1, JobSeen
<1>3. ProofFile' = [ProofFile EXCEPT ![l] = value]
  <2>1. TypeOK /\ fd[p].file \in Role \X Loc BY OpenFile DEF IInv
  <2>2. l \in Loc /\ fd[p].file = <<"proof", l>> BY <1>1
  <2> HIDE DEF l
  <2> QED BY <2>1, <2>2, ProofFileFrame
<1>4. value \in {Torn} \cup (IF Published!State(p) = "sharing" THEN {ProofFile[Jobs[p].to]} ELSE {})
    BY <1>1 DEF Residue
<1>5. Published!Drop(p) \/ (LateFlushFails /\ Published!Become(p, "done"))
    BY DEF Published!Drop, Published!Become, JobOf
<1>6. Published!Cut(p) BY <1>1, <1>2, <1>3, <1>4, <1>5 DEF Published!Cut
<1> QED BY <1>6 DEF Published!Next

LEMMA Finished ==
    ASSUME IInv, NEW p \in Proc, Running(p), Step(p) = "write_proof", fd[p] # None,
           NEW value \in Outcome(p, Payload(p, "proof")),
           files' = [files EXCEPT ![fd[p].file] = value],
           Jobs' = [Jobs EXCEPT ![p] = JobOf(p)'],
           JobOf(p)' = [Jobs[p] EXCEPT !.state = "done"]
    PROVE  [Published!Next]_Published!vars
<1> DEFINE l == inv[p].at["proof"]
<1>1. /\ Published!Writes(p) /\ l \in Loc /\ fd[p].file = <<"proof", l>> /\ HasJob(p)
      /\ ~fd[p].alone => Published!State(p) = "sharing"
    BY AtWriteProof
<1>2. Jobs[p].to = l /\ Jobs[p].proof = mem[p].proof BY <1>1, JobSeen
<1>3. ProofFile' = [ProofFile EXCEPT ![l] = value]
  <2>1. TypeOK /\ fd[p].file \in Role \X Loc BY OpenFile DEF IInv
  <2>2. l \in Loc /\ fd[p].file = <<"proof", l>> BY <1>1
  <2> HIDE DEF l
  <2> QED BY <2>1, <2>2, ProofFileFrame
<1>4. value \in {Jobs[p].proof} \cup (IF Published!State(p) = "sharing" THEN {Torn} ELSE {})
    BY <1>1, <1>2 DEF Outcome, Payload
<1>5. Published!Become(p, "done") BY DEF Published!Become
<1>6. Published!Finish(p) BY <1>1, <1>2, <1>3, <1>4, <1>5 DEF Published!Finish
<1> QED BY <1>6 DEF Published!Next

(* A step that touches at most a file that is not a proof.                 *)
LEMMA OtherFile ==
    ASSUME IInv, NEW p \in Proc, fd[p] # None, Step(p) # "write_proof", NEW value,
           files' = [files EXCEPT ![fd[p].file] = value]
    PROVE  ProofFile' = ProofFile
<1>1. /\ fd[p].file \in Role \X Loc /\ Sink[Step(p)] # "proof"
      /\ fd[p].file = <<Sink[Step(p)], inv[p].at[Sink[Step(p)]]>>
    BY OpenFile
<1>2. fd[p].file[1] # "proof" BY <1>1
<1>3. TypeOK BY DEF IInv
<1> QED BY <1>1, <1>2, <1>3, ProofFileFrame

(* The process ends early.                                                 *)
LEMMA EndJob ==
    ASSUME IInv, NEW p \in Proc, NEW s \in {"exit1", "killed"}, Running(p), End(p, s),
           Jobs' = [Jobs EXCEPT ![p] = JobOf(p)']
    PROVE  [Published!Next]_Published!vars
<1>1. ~HasJob(p)' BY DEF End, Stop, HasJob, IInv, TypeOK, ControlOK
<1>2. HasJob(p) => (pc[p] = 8 <=> Step(p) = "write_proof") BY WhoHasJob
<1>3. CASE fd[p] = None
  <2>1. ProofFile' = ProofFile BY <1>3 DEF End, ProofFile
  <2> QED BY <1>1, <1>3, <2>1, Dropped
<1>4. CASE fd[p] # None
  <2>1. PICK value \in Residue(p) : files' = [files EXCEPT ![fd[p].file] = value]
      BY <1>4 DEF End
  <2>2. CASE Step(p) = "write_proof" BY <1>1, <1>4, <2>1, <2>2, CutShort
  <2>3. CASE Step(p) # "write_proof"
    <3>1. ProofFile' = ProofFile BY <1>4, <2>1, <2>3, OtherFile
    <3> QED BY <1>1, <1>2, <2>3, <3>1, Dropped
  <2> QED BY <2>2, <2>3
<1> QED BY <1>3, <1>4

(* An operation that writes fails to open its file.                        *)
LEMMA NotOpened ==
    ASSUME IInv, NEW p \in Proc, Running(p), Step(p) \in DOMAIN Sink, fd[p] = None,
           Return(p, FALSE), mem' = mem, files' = files,
           Jobs' = [Jobs EXCEPT ![p] = JobOf(p)']
    PROVE  [Published!Next]_Published!vars
<1>1. ProofFile' = ProofFile BY DEF ProofFile
<1>2. CASE Step(p) = "write_proof"
  <2>1. ~HasJob(p)' BY <1>2, ProofReturns
  <2> QED BY <1>1, <2>1, Dropped
<1>3. CASE Step(p) # "write_proof" BY <1>1, <1>3, OtherReturns
<1> QED BY <1>2, <1>3

(* It closes its file: after an error, seen or not, or with everything     *)
(* written.                                                                *)
LEMMA ClosedAfterError ==
    ASSUME IInv, NEW p \in Proc, NEW ok \in BOOLEAN, Running(p), Step(p) \in DOMAIN Sink,
           fd[p] # None, NEW value \in Residue(p), CloseWith(p, value, ok),
           ok => LateFlushFails, Jobs' = [Jobs EXCEPT ![p] = JobOf(p)']
    PROVE  [Published!Next]_Published!vars
<1>1. /\ files' = [files EXCEPT ![fd[p].file] = value]
      /\ Return(p, ok) /\ mem' = mem
    BY DEF CloseWith
<1>2. CASE Step(p) = "write_proof"
  <2>1. IF ok THEN JobOf(p)' = [Jobs[p] EXCEPT !.state = "done"] ELSE ~HasJob(p)'
      BY <1>1, <1>2, ProofReturns
  <2> QED BY <1>1, <1>2, <2>1, CutShort
<1>3. CASE Step(p) # "write_proof"
  <2>1. ProofFile' = ProofFile BY <1>1, <1>3, OtherFile
  <2> QED BY <1>1, <1>3, <2>1, OtherReturns
<1> QED BY <1>2, <1>3

LEMMA ClosedComplete ==
    ASSUME IInv, NEW p \in Proc, Running(p), Step(p) \in DOMAIN Sink, fd[p] # None,
           NEW value, CloseWith(p, value, TRUE),
           Step(p) = "write_proof" => value \in Outcome(p, Payload(p, "proof")),
           Jobs' = [Jobs EXCEPT ![p] = JobOf(p)']
    PROVE  [Published!Next]_Published!vars
<1>1. /\ files' = [files EXCEPT ![fd[p].file] = value]
      /\ Return(p, TRUE) /\ mem' = mem
    BY DEF CloseWith
<1>2. CASE Step(p) = "write_proof"
  <2>1. JobOf(p)' = [Jobs[p] EXCEPT !.state = "done"] BY <1>1, <1>2, ProofReturns
  <2> QED BY <1>1, <1>2, <2>1, Finished
<1>3. CASE Step(p) # "write_proof"
  <2>1. ProofFile' = ProofFile BY <1>1, <1>3, OtherFile
  <2> QED BY <1>1, <1>3, <2>1, OtherReturns
<1> QED BY <1>2, <1>3

(* The verifications, and everything else that is neither read nor written *)
(* and may fail.                                                           *)
LEMMA StopsOrProceeds ==
    ASSUME IInv, NEW p \in Proc, Running(p), Step(p) \notin DOMAIN Sink,
           Proceed(p) \/ Stop(p, "exit1"), fd' = fd, files' = files,
           Jobs' = [Jobs EXCEPT ![p] = JobOf(p)'], StageData(p)', TypeOK'
    PROVE  [Published!Next]_Published!vars
<1>1. ProofFile' = ProofFile BY DEF ProofFile
<1>2. CASE Proceed(p) BY <1>1, <1>2, ComputeProceeds
<1>3. CASE Stop(p, "exit1")
  <2>1. ~HasJob(p)' BY <1>3 DEF Stop, HasJob, IInv, TypeOK, ControlOK
  <2>2. HasJob(p) => fd[p] = None BY OpenFile
  <2> QED BY <1>1, <2>1, <2>2, Dropped
<1> QED BY <1>2, <1>3

-----------------------------------------------------------------------------
(* Opening a file.                                                         *)
LEMMA ProofWriters ==
    ASSUME IInv, NEW q \in Proc, NEW l \in Loc
    PROVE  /\ Published!WritesTo(q, l) <=> Opens(q, <<"proof", l>>)
           /\ Opens(q, <<"proof", l>>) => Running(q) /\ Step(q) = "write_proof"
<1>1. ASSUME Opens(q, <<"proof", l>>)
      PROVE  Published!WritesTo(q, l) /\ Running(q) /\ Step(q) = "write_proof"
  <2>1. fd[q] # None /\ fd[q].file = <<"proof", l>> BY <1>1 DEF Opens
  <2>2. Running(q) /\ fd[q].file[1] = Sink[Step(q)] /\ (Sink[Step(q)] = "proof" <=> Step(q) = "write_proof")
      BY <2>1, OpenFile
  <2>3. Step(q) = "write_proof" BY <2>1, <2>2
  <2>4. Published!Writes(q) /\ fd[q].file = <<"proof", inv[q].at["proof"]>> /\ HasJob(q)
      BY <2>1, <2>2, <2>3, AtWriteProof
  <2>5. inv[q].at["proof"] = l BY <2>1, <2>4
  <2>6. Jobs[q].to = inv[q].at["proof"] BY <2>4, JobSeen
  <2> QED BY <2>5, <2>6, <2>2, <2>3, <2>4, <2>5 DEF Published!WritesTo
<1>2. ASSUME Published!WritesTo(q, l) PROVE Opens(q, <<"proof", l>>)
  <2>1. Published!State(q) \in {"writing", "sharing"} /\ Jobs[q].to = l
      BY <1>2 DEF Published!WritesTo, Published!Writes
  <2>2. HasJob(q) BY <2>1, NoJobSeen
  <2>3. status[q] # "exit0" /\ ~(pc[q] > 8) /\ fd[q] # None /\ inv[q].at["proof"] = l
      BY <2>1, <2>2, JobSeen
  <2>4. Running(q) BY <2>2, <2>3 DEF HasJob, Running
  <2>5. pc[q] = 8
    <3>1. pc[q] \in Nat /\ pc[q] >= 8 BY <2>2, <2>4, WhoHasJob
    <3> QED BY <2>3, <3>1
  <2>6. Step(q) = "write_proof" BY <2>2, <2>4, <2>5, WhoHasJob
  <2>7. fd[q].file = <<"proof", inv[q].at["proof"]>> BY <2>3, <2>4, <2>6, AtWriteProof
  <2> QED BY <2>3, <2>7 DEF Opens
<1> QED BY <1>1, <1>2

(* A descriptor tells on a job only while the proof is written.            *)
LEMMA DescriptorChange ==
    ASSUME IInv, NEW q \in Proc, UNCHANGED <<inv, status, pc, mem, res>>
    PROVE  /\ HasJob(q)' <=> HasJob(q)
           /\ ~(Running(q) /\ Step(q) = "write_proof") => JobOf(q)' = JobOf(q)
           /\ Running(q) /\ Step(q) = "write_proof" /\ fd'[q] # None =>
                 JobOf(q)' = [Jobs[q] EXCEPT !.state =
                                 IF fd'[q].alone THEN "writing" ELSE "sharing"]
<1>1. HasJob(q)' <=> HasJob(q) BY DEF HasJob
<1>2. ASSUME ~(Running(q) /\ Step(q) = "write_proof"), HasJob(q) PROVE JobOf(q)' = JobOf(q)
  <2>1. WriteProofAt(inv[q].stage) = 8 BY <1>2, WriteProofIsEighth DEF HasJob, Makes
  <2>2. Running(q) => pc[q] # 8 BY <1>2, WhoHasJob
  <2>3. JobState(q)' = JobState(q) BY <1>2, <2>1, <2>2 DEF JobState, Running, HasJob
  <2> QED BY <1>1, <1>2, <2>3 DEF JobOf
<1>3. ASSUME ~HasJob(q) PROVE JobOf(q)' = JobOf(q) BY <1>1, <1>3 DEF JobOf
<1>4. ASSUME Running(q), Step(q) = "write_proof", fd'[q] # None
      PROVE  JobOf(q)' = [Jobs[q] EXCEPT !.state =
                             IF fd'[q].alone THEN "writing" ELSE "sharing"]
  <2>1. HasJob(q) /\ pc[q] = 8 /\ WriteProofAt(inv[q].stage) = 8
      BY <1>4, AtWriteProof, WriteProofIsEighth DEF Makes
  <2>2. JobState(q)' = IF fd'[q].alone THEN "writing" ELSE "sharing"
      BY <1>4, <2>1 DEF JobState, Running
  <2>3. JobOf(q)' = [proof |-> mem[q].proof, to |-> inv[q].at["proof"], state |-> JobState(q)']
      BY <1>1, <2>1 DEF JobOf
  <2>4. Jobs[q] = [proof |-> mem[q].proof, to |-> inv[q].at["proof"], state |-> JobState(q)]
      BY <2>1, JobSeen
  <2> QED BY <2>2, <2>3, <2>4
<1> QED BY <1>1, <1>2, <1>3, <1>4

LEMMA Described ==
    ASSUME NEW f \in Role \X Loc, NEW b \in BOOLEAN, NEW d, d = [file |-> f, alone |-> b]
    PROVE  d # None /\ (d.alone <=> b)
<1>1. d \in Descriptor BY DEF Descriptor
<1> QED BY <1>1, NoneIsNoRecord

LEMMA OpensOutput ==
    ASSUME IInv, NEW p \in Proc, OpenOutput(p)
    PROVE  [Published!Next]_Published!vars
<1> DEFINE f == Target(p)
           l == inv[p].at["proof"]
<1>1. /\ Running(p) /\ Step(p) \in DOMAIN Sink /\ fd[p] = None
      /\ UNCHANGED <<inv, status, pc, mem, res>>
      /\ files' = [files EXCEPT ![f] = Torn]
      /\ fd' = [q \in Proc |->
                   IF q = p THEN [file |-> f, alone |-> \A o \in Proc : ~Opens(o, f)]
                   ELSE IF Opens(q, f) THEN [file |-> f, alone |-> FALSE] ELSE fd[q]]
      /\ inv[p].at[Sink[Step(p)]] # None
    BY DEF OpenOutput, AtWrite, control
<1>2. f = <<Sink[Step(p)], inv[p].at[Sink[Step(p)]]>> /\ f \in Role \X Loc
  <2>1. inv[p] \in ProverOptions BY <1>1, ProverAssumption DEF IInv, JobInv, Told, Running
  <2>2. Sink[Step(p)] \in Role BY <1>1 DEF Sink, Role
  <2> QED BY <1>1, <2>1, <2>2 DEF Target, File, ProverOptions
<1>3. TypeOK BY DEF IInv
<1>5. CASE Step(p) = "write_proof"
  <2>1. f = <<"proof", l>> /\ l \in Loc /\ l # None BY <1>1, <1>2, <1>5 DEF Sink
  <2>2. ProofFile' = [ProofFile EXCEPT ![l] = Torn]
    <3> HIDE DEF f, l
    <3> QED BY <1>1, <1>2, <1>3, <2>1, ProofFileFrame
  <2>3. Published!State(p) = "ready" /\ HasJob(p) BY <1>1, <1>5, AtWriteProof
  <2>4. Jobs[p].to = l BY <2>3, JobSeen
  <2>5. \A q \in Proc : Published!WritesTo(q, l) <=> Opens(q, f) BY <2>1, ProofWriters
  <2>6. JobOf(p)' = [Jobs[p] EXCEPT !.state =
                        IF \E o \in Proc : Published!WritesTo(o, l) THEN "sharing" ELSE "writing"]
    <3>1. fd'[p] # None /\ (fd'[p].alone <=> \A o \in Proc : ~Opens(o, f))
      <4>1. fd'[p] = [file |-> f, alone |-> \A o \in Proc : ~Opens(o, f)] BY <1>1
      <4>2. (\A o \in Proc : ~Opens(o, f)) \in BOOLEAN OBVIOUS
      <4> HIDE DEF f
      <4> QED BY <1>2, <4>1, <4>2, Described
    <3>2. JobOf(p)' = [Jobs[p] EXCEPT !.state =
                          IF fd'[p].alone THEN "writing" ELSE "sharing"]
        BY <1>1, <1>5, <3>1, DescriptorChange
    <3> QED BY <2>5, <3>1, <3>2
  <2>7. ASSUME NEW q \in Proc, q # p
        PROVE  JobOf(q)' = IF Published!WritesTo(q, l) THEN [Jobs[q] EXCEPT !.state = "sharing"]
                           ELSE Jobs[q]
    <3>1. CASE Opens(q, f)
      <4>1. Running(q) /\ Step(q) = "write_proof" BY <2>1, <3>1, ProofWriters
      <4>2. fd'[q] = [file |-> f, alone |-> FALSE] BY <1>1, <2>7, <3>1
      <4>3. fd'[q] # None /\ ~fd'[q].alone BY <1>2, <4>2, Described
      <4> QED BY <1>1, <2>5, <3>1, <4>1, <4>3, DescriptorChange
    <3>2. CASE ~Opens(q, f)
      <4>1. fd'[q] = fd[q] BY <1>1, <2>7, <3>2
      <4>2. JobOf(q)' = JobOf(q) BY <1>1, <4>1, JobFrame
      <4> QED BY <2>5, <3>2, <4>2 DEF Jobs
    <3> QED BY <3>1, <3>2
  <2>8. Published!Open(p)
    <3>1. Jobs' = [q \in Proc |->
                      IF q = p
                      THEN [Jobs[p] EXCEPT !.state =
                               IF \E o \in Proc : Published!WritesTo(o, Jobs[p].to)
                               THEN "sharing" ELSE "writing"]
                      ELSE IF Published!WritesTo(q, Jobs[p].to)
                           THEN [Jobs[q] EXCEPT !.state = "sharing"]
                      ELSE Jobs[q]]
      <4>1. Jobs' = [q \in Proc |-> JobOf(q)'] BY DEF Jobs
      <4> HIDE DEF l
      <4> QED BY <2>4, <2>6, <2>7, <4>1, Zenon
    <3> QED BY <2>1, <2>2, <2>3, <2>4, <3>1 DEF Published!Open
  <2> QED BY <2>8 DEF Published!Next
<1>6. CASE Step(p) # "write_proof"
  <2>1. f[1] # "proof" BY <1>1, <1>2, <1>6 DEF Sink
  <2>2. ProofFile' = ProofFile
    <3> HIDE DEF f
    <3> QED BY <1>1, <1>2, <1>3, <2>1, ProofFileFrame
  <2>3. ASSUME NEW q \in Proc PROVE JobOf(q)' = JobOf(q)
    <3>1. CASE q = p BY <1>1, <1>6, <3>1, DescriptorChange
    <3>2. CASE q # p /\ ~Opens(q, f)
      <4>1. fd'[q] = fd[q] BY <1>1, <3>2
      <4> QED BY <1>1, <4>1, JobFrame
    <3>3. CASE q # p /\ Opens(q, f)
      <4>1. fd[q] # None /\ fd[q].file = f BY <3>3 DEF Opens
      <4>2. Sink[Step(q)] # "proof"
        <5>1. fd[q].file = <<Sink[Step(q)], inv[q].at[Sink[Step(q)]]>> BY <4>1, OpenFile
        <5> HIDE DEF f
        <5> QED BY <2>1, <4>1, <5>1
      <4>3. Step(q) # "write_proof" BY <4>2 DEF Sink
      <4> QED BY <1>1, <4>3, DescriptorChange
    <3> QED BY <3>1, <3>2, <3>3
  <2>4. Jobs' = Jobs BY <2>3 DEF Jobs
  <2> QED BY <2>2, <2>4 DEF Published!vars
<1> QED BY <1>5, <1>6

-----------------------------------------------------------------------------
(* Every step of a process is one of Publication's, or none.               *)
LEMMA WorkImplements ==
    ASSUME IInv, NEW p \in Proc, Work(p) \/ Failure(p), StageData(p)', TypeOK'
    PROVE  [Published!Next]_Published!vars
<1>1. CASE OpenOutput(p) BY <1>1, OpensOutput
<1>2. CASE ~OpenOutput(p)
  <2>1. Jobs' = [Jobs EXCEPT ![p] = JobOf(p)'] BY <1>2, OthersFrame DEF IInv
  <2>2. Running(p) BY ControlEffect DEF IInv
  <2>3. CASE Read(p) \/ Compute(p) \/ CannotWriteToFile(p)
    <3>1. Step(p) \notin DOMAIN Sink
        BY <2>3 DEF Read, ReadCircuit, ReadAssignmentTable, ReadAssignmentDescription,
           ReadCommonData, ReadPublicData, ReadCommitmentScheme, ReadFails,
           Compute, PreprocessPublicData, PreprocessPrivateData, CreateLpcScheme,
           CanWriteToFile, GenerateProof, Verify, VerifyFromFile, CannotWriteToFile,
           At, Source, Sink
    <3>2. (Proceed(p) \/ Stop(p, "exit1")) /\ fd' = fd /\ files' = files
        BY <2>3 DEF Read, ReadCircuit, ReadAssignmentTable, ReadAssignmentDescription,
           ReadCommonData, ReadPublicData, ReadCommitmentScheme, ReadFails,
           Compute, PreprocessPublicData, PreprocessPrivateData, CreateLpcScheme,
           CanWriteToFile, GenerateProof, Verify, VerifyFromFile, CannotWriteToFile,
           Load, Conclude
    <3> QED BY <2>1, <2>2, <3>1, <3>2, StopsOrProceeds
  <2>4. CASE NoOutputPath(p) \/ OpenFails(p)
    <3>1. /\ Step(p) \in DOMAIN Sink /\ fd[p] = None
          /\ Return(p, FALSE) /\ mem' = mem /\ files' = files
        BY <2>4 DEF NoOutputPath, OpenFails, AtWrite
    <3> QED BY <2>1, <2>2, <3>1, NotOpened
  <2>5. CASE FinishWrite(p)
    <3>1. Step(p) \in DOMAIN Sink /\ fd[p] # None BY <2>5 DEF FinishWrite, AtWrite
    <3>2. PICK value \in Outcome(p, Payload(p, Sink[Step(p)])) : CloseWith(p, value, TRUE)
        BY <2>5 DEF FinishWrite
    <3>3. Step(p) = "write_proof" => Sink[Step(p)] = "proof" BY DEF Sink
    <3> QED BY <2>1, <2>2, <3>1, <3>2, <3>3, ClosedComplete
  <2>6. CASE WriteFails(p)
    <3>1. Step(p) \in DOMAIN Sink /\ fd[p] # None BY <2>6 DEF WriteFails, AtWrite
    <3>2. PICK value \in Residue(p) : CloseWith(p, value, FALSE) BY <2>6 DEF WriteFails
    <3> QED BY <2>1, <2>2, <3>1, <3>2, ClosedAfterError
  <2>7. CASE LateFlush(p)
    <3>1. Step(p) \in DOMAIN Sink /\ fd[p] # None /\ LateFlushFails
        BY <2>7 DEF LateFlush, AtWrite
    <3>2. PICK value \in Residue(p) : CloseWith(p, value, TRUE) BY <2>7 DEF LateFlush
    <3> QED BY <2>1, <2>2, <3>1, <3>2, ClosedAfterError
  <2>8. ASSUME NEW s \in {"exit1", "killed"}, End(p, s) PROVE [Published!Next]_Published!vars
      BY <2>1, <2>2, <2>8, EndJob
  <2>9. CASE Undefined(p)
    <3>1. CASE End(p, "killed") BY <2>8, <3>1
    <3>2. ASSUME Empty(p) = {"public_inputs"},
                 NEW value \in Outcome(p, [proof |-> mem[p].proof, inputs |-> None]),
                 CloseWith(p, value, TRUE)
          PROVE  [Published!Next]_Published!vars
      <4>1. "public_inputs" \in Operands(p) BY <3>2 DEF Empty
      <4>2. Step(p) = "write_json" /\ fd[p] # None BY <4>1 DEF Operands
      <4>3. Step(p) \in DOMAIN Sink BY <4>2 DEF Sink
      <4> QED BY <2>1, <2>2, <3>2, <4>2, <4>3, ClosedComplete
    <3> QED BY <2>9, <3>1, <3>2 DEF Undefined
  <2>10. CASE Throw(p) \/ Kill(p) BY <2>8, <2>10 DEF Throw, Kill
  <2> QED BY <1>2, <2>3, <2>4, <2>5, <2>6, <2>7, <2>9, <2>10 DEF Work, Write, Failure
<1> QED BY <1>1, <1>2

LEMMA StartImplements ==
    ASSUME IInv, NEW p \in Proc, NEW i \in Invocation[p], Start(p, i)
    PROVE  [Published!Next]_Published!vars
<1>1. ProofFile' = ProofFile BY DEF Start, ProofFile
<1>2. ~OpenOutput(p) BY DEF Start, OpenOutput, AtWrite
<1>3. Jobs' = [Jobs EXCEPT ![p] = JobOf(p)'] BY <1>2, OthersFrame DEF IInv
<1>4. ~HasJob(p)'
  <2>1. inv'[p] = i /\ pc'[p] = 1 BY DEF Start, IInv, TypeOK, ControlOK
  <2>2. Makes(i.stage) => WriteProofAt(i.stage) = 8 BY WriteProofIsEighth DEF Makes
  <2> QED BY <2>1, <2>2 DEF HasJob
<1>5. fd[p] = None BY OpenFile DEF Start
<1> QED BY <1>1, <1>3, <1>4, <1>5, Dropped

LEMMA InputImplements ==
    ASSUME IInv, ReplaceInput \/ UNCHANGED vars
    PROVE  UNCHANGED Published!vars
<1>1. UNCHANGED <<inv, status, pc, mem, res, fd>> BY DEF ReplaceInput, control, vars
<1>2. \A q \in Proc : JobOf(q)' = JobOf(q) BY <1>1, JobFrame
<1>3. Jobs' = Jobs BY <1>2 DEF Jobs
<1>4. ProofFile' = ProofFile
  <2>1. ASSUME NEW f \in Role \X Loc, NEW v, files' = [files EXCEPT ![f] = v], f[1] # "proof"
        PROVE  ProofFile' = ProofFile
      BY <2>1, ProofFileFrame DEF IInv
  <2>2. CASE ReplaceInput
    <3>1. PICK l \in Loc, v \in Circuit \cup Table :
              \/ files' = [files EXCEPT ![<<"circuit", l>>] = v]
              \/ files' = [files EXCEPT ![<<"table", l>>] = v]
        BY <2>2 DEF ReplaceInput
    <3>2. <<"circuit", l>> \in Role \X Loc /\ <<"table", l>> \in Role \X Loc BY DEF Role
    <3> QED BY <2>1, <3>1, <3>2
  <2>3. CASE UNCHANGED vars BY <2>3 DEF vars, ProofFile
  <2> QED BY <2>2, <2>3
<1> QED BY <1>3, <1>4 DEF Published!vars

LEMMA StepImplements ==
    TypeOK /\ DataInv /\ JobInv /\ [Next]_vars => [Published!Next]_Published!vars
<1> SUFFICES ASSUME TypeOK, DataInv, JobInv, [Next]_vars
             PROVE  [Published!Next]_Published!vars
    OBVIOUS
<1>1. IInv BY DEF IInv
<1>2. TypeOK' /\ \A p \in Proc : StageData(p)' BY NextType, NextData DEF DataInv
<1>3. ASSUME NEW p \in Proc, Work(p) \/ Failure(p) PROVE [Published!Next]_Published!vars
    BY <1>1, <1>2, <1>3, WorkImplements
<1>4. ASSUME NEW p \in Proc, NEW i \in Invocation[p], Start(p, i)
      PROVE  [Published!Next]_Published!vars
    BY <1>1, <1>4, StartImplements
<1>5. CASE ReplaceInput \/ UNCHANGED vars BY <1>1, <1>5, InputImplements
<1> QED BY <1>3, <1>4, <1>5 DEF Next

LEMMA InitImplements == Init => Published!Init
<1> SUFFICES ASSUME Init PROVE Published!Init OBVIOUS
<1>1. \A l \in Loc : files[<<"proof", l>>] = Absent BY DEF Init, Role
<1>2. \A p \in Proc : JobOf(p) = None BY DEF Init, JobOf, HasJob
<1> QED BY <1>1, <1>2 DEF Published!Init, ProofFile, Jobs

(* Whatever stage processes run, fail in or die in, and whatever files     *)
(* they share: what they do to proof files and report of them is what      *)
(* Publication allows.                                                     *)
THEOREM RefinesPublication == Spec => ImplementsPublication
<1>1. Init => Published!Init BY InitImplements
<1> QED BY <1>1, StepImplements, TypeCorrect, DataCorrect, JobInvCorrect, PTL
    DEF Spec, Published!Spec, ImplementsPublication

-----------------------------------------------------------------------------
(* What is proved of Publication holds of the program.                     *)
Facts == INSTANCE PublicationProofs WITH
    file <- ProofFile,
    job <- Jobs,
    Genuine <- GenuineProof,
    Dest <- ProofDest,
    Strict <- VerifiedOnly

LEMMA SameSpec == Facts!PublicationAssumption /\ (ImplementsPublication => Facts!Spec)
<1>1. Facts!PublicationAssumption
    BY MappedConstants DEF Published!PublicationAssumption, Facts!PublicationAssumption,
       Published!Job, Facts!Job
<1>2. Published!Init => Facts!Init BY DEF Published!Init, Facts!Init
<1>3. \A p \in Proc : /\ Published!State(p) = Facts!State(p)
                      /\ Published!Writes(p) = Facts!Writes(p)
                      /\ \A l : Published!WritesTo(p, l) = Facts!WritesTo(p, l)
    BY DEF Published!State, Facts!State, Published!Writes, Facts!Writes,
       Published!WritesTo, Facts!WritesTo
<1>4. ASSUME NEW p \in Proc
      PROVE  /\ Published!Produce(p) => Facts!Produce(p)
             /\ Published!Open(p) => Facts!Open(p)
             /\ Published!Finish(p) => Facts!Finish(p)
             /\ Published!Cut(p) => Facts!Cut(p)
             /\ Published!Report(p) => Facts!Report(p)
             /\ Published!Forget(p) => Facts!Forget(p)
  <2>1. Published!Produce(p) => Facts!Produce(p)
      BY <1>3 DEF Published!Produce, Facts!Produce
  <2>2. Published!Open(p) => Facts!Open(p) BY <1>3 DEF Published!Open, Facts!Open
  <2>3. Published!Finish(p) => Facts!Finish(p)
      BY <1>3 DEF Published!Finish, Facts!Finish, Published!Become, Facts!Become
  <2>4. Published!Cut(p) => Facts!Cut(p)
      BY <1>3 DEF Published!Cut, Facts!Cut, Published!Become, Facts!Become,
         Published!Drop, Facts!Drop
  <2>5. Published!Report(p) => Facts!Report(p)
      BY <1>3 DEF Published!Report, Facts!Report, Published!Become, Facts!Become
  <2>6. Published!Forget(p) => Facts!Forget(p)
      BY <1>3 DEF Published!Forget, Facts!Forget, Published!Drop, Facts!Drop
  <2> QED BY <2>1, <2>2, <2>3, <2>4, <2>5, <2>6
<1>5. [Published!Next]_Published!vars => [Facts!Next]_Facts!vars
  <2>1. Published!Next => Facts!Next BY <1>4 DEF Published!Next, Facts!Next
  <2>2. UNCHANGED Published!vars => UNCHANGED Facts!vars BY DEF Published!vars, Facts!vars
  <2> QED BY <2>1, <2>2
<1> QED BY <1>1, <1>2, <1>5, PTL DEF ImplementsPublication, Published!Spec, Facts!Spec

(* Where nobody is told to prove without verification, no readable proof   *)
(* file holds anything but a genuine proof.                                *)
THEOREM ProofFilesAreGenuine == Spec => []ProofFilesGenuine
<1>1. Facts!Spec => []Facts!OnlyGenuine BY SameSpec, Facts!GenuineOnly
<1>2. Facts!OnlyGenuine => ProofFilesGenuine
    BY DEF Facts!OnlyGenuine, ProofFilesGenuine, Published!OnlyGenuine
<1> QED BY <1>1, <1>2, SameSpec, RefinesPublication, PTL

-----------------------------------------------------------------------------
(* What the files hold: that exit code 0 means outputs on disk, for any    *)
(* number of processes, some of which may share files, and any failures;   *)
(* and, where the producer runs on its own and nothing fails, that the     *)
(* files of different roles fit each other.                                *)

OnDisk(p, r) ==
    \/ Contents(p, r) = Payload(p, r)
    \/ LateFlushFails /\ Contents(p, r) = Torn

(* Operation k of p's chain has written the file of role r, and the chain  *)
(* depends on that.                                                        *)
Wrote(p, k, r) ==
    /\ k \in 1..Len(Chain(p)) /\ k < pc[p]
    /\ Chain(p)[k] \in DOMAIN Sink \ {"write_json"}
    /\ r = Sink[Chain(p)[k]]
    /\ Chain(p)[k] = "write_proof" => res[p]

(* What has been written is there, as long as p has not failed.            *)
Durable(p) ==
    status[p] \in {"running", "exit0"} =>
        \A k \in Nat : \A r \in Role : Wrote(p, k, r) /\ OwnFile(p, r) => OnDisk(p, r)

(* Nobody else opens a file of one's own.                                  *)
Unshared(p) == fd[p] # None /\ OwnFile(p, fd[p].file[1]) => fd[p].alone

(* p gets past write_json, and so to exit code 0, only with its proof      *)
(* written.                                                                *)
Complete(p) ==
    /\ Running(p) /\ Makes(inv[p].stage) /\ pc[p] > 9 => res[p]
    /\ status[p] = "exit0" =>
          /\ inv[p].stage \in Stage
          /\ pc[p] = Len(Chain(p)) + 1
          /\ Makes(inv[p].stage) => res[p]

DurableInv == \A p \in Proc : Durable(p) /\ Unshared(p) /\ Complete(p)

-----------------------------------------------------------------------------
(* Each chain writes a role once.                                          *)
LEMMA SinksDiffer ==
    ASSUME NEW p \in Proc, inv[p].stage \in Stage,
           NEW k \in 1..Len(Chain(p)), NEW j \in 1..Len(Chain(p)), k # j,
           Chain(p)[k] \in DOMAIN Sink, Chain(p)[j] \in DOMAIN Sink
    PROVE  Sink[Chain(p)[k]] # Sink[Chain(p)[j]]
<1> USE DEF Sink
<1>1. CASE inv[p].stage = "all"
  <2>1. Chain(p) = All /\ Len(Chain(p)) = 12 BY <1>1 DEF Chain, Program, All
  <2>2. k \in 8..12 /\ j \in 8..12 BY <2>1, AllPositions
  <2> QED BY <2>1, <2>2, AllPositions
<1>2. CASE inv[p].stage = "preprocess"
  <2>1. Chain(p) = Preprocess /\ Len(Chain(p)) = 7 BY <1>2 DEF Chain, Program, Preprocess
  <2>2. k \in {3, 5, 6, 7} /\ j \in {3, 5, 6, 7} BY <2>1, PreprocessPositions
  <2> QED BY <2>1, <2>2, PreprocessPositions
<1>3. CASE inv[p].stage = "prove"
  <2>1. Chain(p) = Prove /\ Len(Chain(p)) = 9 BY <1>3 DEF Chain, Program, Prove
  <2>2. k \in {8, 9} /\ j \in {8, 9} BY <2>1, ProvePositions
  <2> QED BY <2>1, <2>2, ProvePositions
<1>4. CASE inv[p].stage = "verify"
  <2>1. Chain(p) = VerifyStage /\ Len(Chain(p)) = 5 BY <1>4 DEF Chain, Program, VerifyStage
  <2> QED BY <2>1, VerifyPositions
<1> QED BY <1>1, <1>2, <1>3, <1>4 DEF Stage

(* Only preprocess computes anything after it has begun to write.          *)
LEMMA EarlyWrite ==
    ASSUME NEW p \in Proc, ControlOK, Running(p), Step(p) \notin DOMAIN Sink,
           NEW k \in 1..Len(Chain(p)), k < pc[p], Chain(p)[k] \in DOMAIN Sink
    PROVE  Sink[Chain(p)[k]] = "description" /\ Step(p) = "preprocess_public_data"
<1> USE DEF Sink
<1>1. CASE inv[p].stage = "all"
  <2>1. Chain(p) = All /\ Len(Chain(p)) = 12 BY <1>1 DEF Chain, Program, All
  <2>2. k \in 8..12 BY <2>1, AllPositions
  <2> QED BY <1>1, <2>2, AllSteps, AllPositions
<1>2. CASE inv[p].stage = "preprocess"
  <2>1. Chain(p) = Preprocess /\ Len(Chain(p)) = 7 BY <1>2 DEF Chain, Program, Preprocess
  <2>2. k \in {3, 5, 6, 7} BY <2>1, PreprocessPositions
  <2>3. pc[p] \in {1, 2, 4} BY <1>2, PreprocessSteps, PreprocessPositions
  <2> QED BY <1>2, <2>1, <2>2, <2>3, PreprocessSteps, PreprocessPositions
<1>3. CASE inv[p].stage = "prove"
  <2>1. Chain(p) = Prove /\ Len(Chain(p)) = 9 BY <1>3 DEF Chain, Program, Prove
  <2>2. k \in {8, 9} BY <2>1, ProvePositions
  <2> QED BY <1>3, <2>2, ProveSteps, ProvePositions
<1>4. CASE inv[p].stage = "verify"
  <2>1. Chain(p) = VerifyStage /\ Len(Chain(p)) = 5 BY <1>4 DEF Chain, Program, VerifyStage
  <2> QED BY <2>1, VerifyPositions
<1> QED BY <1>1, <1>2, <1>3, <1>4, StagesOfRunning

(* Nobody else's output is a file of one's own.                            *)
LEMMA OwnTarget ==
    ASSUME IInv, NEW p \in Proc, NEW r \in Role, OwnFile(p, r),
           NEW q \in Proc, q # p, Running(q), Step(q) \in DOMAIN Sink
    PROVE  Target(q) # File(p, r)
<1>1. SUFFICES ASSUME Target(q) = File(p, r) PROVE FALSE OBVIOUS
<1>2. Sink[Step(q)] = r /\ inv[q].at[r] = inv[p].at[r] BY <1>1 DEF Target, File
<1>3. inv[q] \in Invocation[q] BY DEF IInv, JobInv, Told, Running
<1>4. r \in Outputs(inv[q].stage)
  <2>1. pc[q] \in 1..Len(Program[inv[q].stage]) /\ Step(q) = Program[inv[q].stage][pc[q]]
      BY DEF IInv, TypeOK, ControlOK, Chain, Step
  <2> QED BY <1>2, <2>1 DEF Outputs
<1> QED BY <1>2, <1>3, <1>4 DEF OwnFile

-----------------------------------------------------------------------------
(* What a step of p does to files and descriptors.                         *)
LEMMA FileEffect ==
    ASSUME IInv, NEW p \in Proc, Work(p) \/ Failure(p)
    PROVE  \/ files' = files
           \/ /\ Step(p) \in DOMAIN Sink
              /\ \E v : files' = [files EXCEPT ![Target(p)] = v]
<1>1. ASSUME fd[p] # None, NEW v, files' = [files EXCEPT ![fd[p].file] = v]
      PROVE  /\ Step(p) \in DOMAIN Sink
             /\ \E x : files' = [files EXCEPT ![Target(p)] = x]
    BY <1>1 DEF IInv, TypeOK, DescriptorsOK
<1>2. CASE Read(p)
    BY <1>2 DEF Read, ReadCircuit, ReadAssignmentTable, ReadAssignmentDescription,
       ReadCommonData, ReadPublicData, ReadCommitmentScheme, ReadFails, Load
<1>3. CASE Compute(p)
    BY <1>3 DEF Compute, PreprocessPublicData, PreprocessPrivateData, CreateLpcScheme,
       CanWriteToFile, GenerateProof, Verify, VerifyFromFile, Conclude, Load
<1>4. CASE OpenOutput(p) BY <1>4 DEF OpenOutput, AtWrite
<1>5. CASE NoOutputPath(p) BY <1>5 DEF NoOutputPath
<1>6. CASE FinishWrite(p) BY <1>1, <1>6 DEF FinishWrite, CloseWith
<1>7. CASE Undefined(p)
  <2>1. CASE fd[p] # None BY <1>1, <1>7, <2>1 DEF Undefined, End, CloseWith
  <2>2. CASE fd[p] = None
    <3>1. Empty(p) # {"public_inputs"}
        BY <2>2 DEF Empty, Operands
    <3> QED BY <1>7, <2>2, <3>1 DEF Undefined, End
  <2> QED BY <2>1, <2>2
<1>8. CASE CannotWriteToFile(p) \/ OpenFails(p) BY <1>8 DEF CannotWriteToFile, OpenFails
<1>9. CASE WriteFails(p) \/ LateFlush(p) BY <1>1, <1>9 DEF WriteFails, LateFlush, CloseWith
<1>10. CASE Throw(p) \/ Kill(p) BY <1>1, <1>10 DEF Throw, Kill, End
<1> QED BY <1>2, <1>3, <1>4, <1>5, <1>6, <1>7, <1>8, <1>9, <1>10 DEF Work, Write, Failure

LEMMA EndEffect ==
    ASSUME IInv, NEW p \in Proc, Work(p) \/ Failure(p), ~OpenOutput(p)
    PROVE  /\ Running(p) /\ fd'[p] = None
           /\ Proceed(p) \/ Stop(p, "exit1") \/ Stop(p, "killed")
<1> USE DEF IInv, TypeOK, DescriptorsOK
<1>1. ASSUME Step(p) \notin DOMAIN Sink, fd' = fd PROVE fd'[p] = None BY <1>1
<1>2. CASE Read(p)
  <2>1. Step(p) \notin DOMAIN Sink
      BY <1>2 DEF Read, ReadCircuit, ReadAssignmentTable, ReadAssignmentDescription,
         ReadCommonData, ReadPublicData, ReadCommitmentScheme, ReadFails, At, Source, Sink
  <2> QED BY <1>1, <1>2, <2>1
      DEF Read, ReadCircuit, ReadAssignmentTable, ReadAssignmentDescription,
       ReadCommonData, ReadPublicData, ReadCommitmentScheme, ReadFails, Load, At
<1>3. CASE Compute(p) \/ CannotWriteToFile(p)
  <2>1. Step(p) \notin DOMAIN Sink
      BY <1>3 DEF Compute, PreprocessPublicData, PreprocessPrivateData, CreateLpcScheme,
         CanWriteToFile, GenerateProof, Verify, VerifyFromFile, CannotWriteToFile, At, Sink
  <2> QED BY <1>1, <1>3, <2>1
      DEF Compute, PreprocessPublicData, PreprocessPrivateData, CreateLpcScheme,
       CanWriteToFile, GenerateProof, Verify, VerifyFromFile, CannotWriteToFile,
       Conclude, Load, At
<1>4. CASE NoOutputPath(p) \/ OpenFails(p)
    BY <1>4 DEF NoOutputPath, OpenFails, AtWrite, Return
<1>5. CASE FinishWrite(p) \/ WriteFails(p) \/ LateFlush(p)
    BY <1>5 DEF FinishWrite, WriteFails, LateFlush, CloseWith, Return, AtWrite
<1>6. CASE Undefined(p) BY <1>6 DEF Undefined, End, CloseWith, Return
<1>7. CASE Throw(p) \/ Kill(p) BY <1>7 DEF Throw, Kill, End
<1> QED BY <1>2, <1>3, <1>4, <1>5, <1>6, <1>7 DEF Work, Write, Failure

(* Others leave one's own files alone.                                     *)
LEMMA ForeignStep ==
    ASSUME IInv, NEW p \in Proc, NEW q \in Proc, q # p, Work(q) \/ Failure(q),
           NEW r \in Role, OwnFile(p, r), inv'[p] = inv[p]
    PROVE  Contents(p, r)' = Contents(p, r)
<1>1. CASE files' = files BY <1>1 DEF Contents, File
<1>2. ASSUME Step(q) \in DOMAIN Sink, NEW v, files' = [files EXCEPT ![Target(q)] = v]
      PROVE  Contents(p, r)' = Contents(p, r)
  <2>1. Running(q) BY ControlEffect DEF IInv
  <2>2. Target(q) # File(p, r) BY <1>2, <2>1, OwnTarget
  <2>3. CASE inv[p].at[r] = None BY <2>3 DEF Contents
  <2>4. CASE inv[p].at[r] # None
    <3>1. files'[File(p, r)] = files[File(p, r)] BY <1>2, <2>2 DEF IInv, TypeOK, FilesOK
    <3> QED BY <2>4, <3>1 DEF Contents, File
  <2> QED BY <2>3, <2>4
<1> QED BY <1>1, <1>2, FileEffect

-----------------------------------------------------------------------------
(* Descriptors of one's own files stay one's own.                          *)
LEMMA OpensAlone ==
    ASSUME IInv, NEW p \in Proc, OpenOutput(p), OwnFile(p, Sink[Step(p)])
    PROVE  fd'[p].alone
<1>1. Running(p) /\ Step(p) \in DOMAIN Sink /\ fd[p] = None BY DEF OpenOutput, AtWrite
<1>2. Sink[Step(p)] \in Role BY <1>1 DEF Sink, Role
<1>3. ASSUME NEW o \in Proc, Opens(o, Target(p)) PROVE FALSE
  <2>1. fd[o] # None /\ fd[o].file = Target(p) /\ o # p BY <1>1, <1>3 DEF Opens
  <2>2. Running(o) /\ Step(o) \in DOMAIN Sink /\ fd[o].file = Target(o)
      BY <2>1 DEF IInv, TypeOK, DescriptorsOK
  <2>3. Target(p) = File(p, Sink[Step(p)]) BY DEF Target
  <2> QED BY <1>2, <2>1, <2>2, <2>3, OwnTarget
<1>4. fd'[p] = [file |-> Target(p), alone |-> \A o \in Proc : ~Opens(o, Target(p))]
    BY DEF OpenOutput
<1>5. \A o \in Proc : ~Opens(o, Target(p)) BY <1>3
<1> QED BY <1>4, <1>5

LEMMA KeepsAlone ==
    ASSUME IInv, NEW p \in Proc, Unshared(p), NEW q \in Proc, q # p, Work(q) \/ Failure(q),
           inv'[p] = inv[p]
    PROVE  Unshared(p)'
<1> SUFFICES ASSUME fd'[p] # None, OwnFile(p, fd'[p].file[1]) PROVE fd'[p].alone
    BY DEF Unshared, OwnFile
<1>1. CASE OpenOutput(q)
  <2>1. Running(q) /\ Step(q) \in DOMAIN Sink BY <1>1 DEF OpenOutput, AtWrite
  <2>2. CASE Opens(p, Target(q))
    <3>1. fd[p] # None /\ fd[p].file = Target(q) BY <2>2 DEF Opens
    <3>2. /\ fd[p].file = File(p, Sink[Step(p)]) /\ Step(p) \in DOMAIN Sink
          /\ fd'[p].file = Target(q)
        BY <1>1, <2>2, <3>1 DEF OpenOutput, IInv, TypeOK, DescriptorsOK, Target
    <3>3. Sink[Step(p)] \in Role BY <3>2 DEF Sink, Role
    <3>4. OwnFile(p, Sink[Step(p)])
      <4>1. fd'[p].file = File(p, Sink[Step(p)]) BY <3>1, <3>2, Zenon
      <4>2. File(p, Sink[Step(p)])[1] = Sink[Step(p)] BY DEF File
      <4> QED BY <4>1, <4>2, Zenon
    <3> QED BY <2>1, <3>1, <3>2, <3>3, <3>4, OwnTarget
  <2>3. CASE ~Opens(p, Target(q))
    <3>1. fd'[p] = fd[p] BY <1>1, <2>3 DEF OpenOutput
    <3> QED BY <3>1 DEF Unshared
  <2> QED BY <2>2, <2>3
<1>2. CASE ~OpenOutput(q)
  <2>1. fd'[p] = fd[p]
    <3> USE DEF IInv, TypeOK, DescriptorsOK
    <3>1. CASE Read(q)
        BY <3>1 DEF Read, ReadCircuit, ReadAssignmentTable, ReadAssignmentDescription,
           ReadCommonData, ReadPublicData, ReadCommitmentScheme, ReadFails, Load
    <3>2. CASE Compute(q)
        BY <3>2 DEF Compute, PreprocessPublicData, PreprocessPrivateData, CreateLpcScheme,
           CanWriteToFile, GenerateProof, Verify, VerifyFromFile, Conclude, Load
    <3>3. CASE Write(q) BY <1>2, <3>3 DEF Write, NoOutputPath, FinishWrite, CloseWith
    <3>4. CASE Undefined(q) BY <3>4 DEF Undefined, End, CloseWith
    <3>5. CASE Failure(q)
        BY <3>5 DEF Failure, CannotWriteToFile, OpenFails, WriteFails, LateFlush,
           Throw, Kill, CloseWith, End
    <3> QED BY <3>1, <3>2, <3>3, <3>4, <3>5 DEF Work
  <2> QED BY <2>1 DEF Unshared
<1> QED BY <1>1, <1>2

-----------------------------------------------------------------------------
(* res survives from the write of the proof to the end of generate_to_file.*)
LEMMA ResEffect ==
    ASSUME IInv, NEW p \in Proc, Work(p) \/ Failure(p)
    PROVE  /\ Step(p) # "write_proof" => res'[p] = res[p]
           /\ Step(p) = "write_json" /\ Proceed(p) => res[p]
<1>1. ASSUME NEW ok, Return(p, ok)
      PROVE  /\ Step(p) # "write_proof" => res'[p] = res[p]
             /\ Step(p) = "write_json" /\ Proceed(p) => res[p]
    BY <1>1 DEF Return, Proceed, Stop, IInv, TypeOK, ControlOK
<1>2. CASE Read(p)
    BY <1>2 DEF Read, ReadCircuit, ReadAssignmentTable, ReadAssignmentDescription,
       ReadCommonData, ReadPublicData, ReadCommitmentScheme, ReadFails, Load, At, Source
<1>3. CASE Compute(p)
    BY <1>3 DEF Compute, PreprocessPublicData, PreprocessPrivateData, CreateLpcScheme,
       CanWriteToFile, GenerateProof, Verify, VerifyFromFile, Conclude, Load, At
<1>4. ASSUME NEW s, End(p, s)
      PROVE  /\ res'[p] = res[p]
             /\ ~Proceed(p)
    BY <1>4 DEF End, Stop, Proceed, IInv, TypeOK, ControlOK
<1>5. CASE Write(p)
  <2>1. CASE OpenOutput(p)
      BY <2>1 DEF OpenOutput, control, Proceed, IInv, TypeOK, ControlOK
  <2> QED BY <1>1, <1>5, <2>1 DEF Write, NoOutputPath, FinishWrite, CloseWith
<1>6. CASE Undefined(p) BY <1>1, <1>4, <1>6 DEF Undefined, CloseWith
<1>7. CASE CannotWriteToFile(p) BY <1>7 DEF CannotWriteToFile, At
<1>8. CASE OpenFails(p) \/ WriteFails(p) \/ LateFlush(p)
    BY <1>1, <1>8 DEF OpenFails, WriteFails, LateFlush, CloseWith
<1>9. CASE Throw(p) \/ Kill(p) BY <1>4, <1>9 DEF Throw, Kill
<1> QED BY <1>2, <1>3, <1>5, <1>6, <1>7, <1>8, <1>9 DEF Work, Failure

LEMMA CompleteStep ==
    ASSUME IInv, NEW p \in Proc, Complete(p), Work(p) \/ Failure(p)
    PROVE  Complete(p)'
<1>1. Running(p) /\ inv[p].stage \in Stage
    BY ControlEffect, StagesOfRunning DEF IInv, TypeOK, Stage
<1>2. CASE Proceed(p)
  <2>1. /\ inv' = inv /\ pc'[p] = pc[p] + 1 /\ pc[p] \in Nat
        /\ status'[p] = "exit0" <=> pc[p] = Len(Chain(p))
      BY <1>1, <1>2 DEF Proceed, IInv, TypeOK, ControlOK, Running
  <2>2. ASSUME Makes(inv[p].stage), pc[p] > 8 PROVE res'[p]
    <3>1. Step(p) # "write_proof" BY <1>1, <2>1, <2>2, WhoHasJob
    <3>2. res'[p] = res[p] BY <3>1, ResEffect
    <3>3. CASE pc[p] > 9 BY <1>1, <2>2, <3>2, <3>3 DEF Complete
    <3>4. CASE pc[p] = 9
      <4>1. Step(p) = "write_json"
        <5>1. CASE inv[p].stage = "all"
            BY <1>1, <3>4, <5>1, AllSteps, AllPositions DEF IInv, TypeOK
        <5>2. CASE inv[p].stage = "prove"
            BY <1>1, <3>4, <5>2, ProveSteps, ProvePositions DEF IInv, TypeOK
        <5> QED BY <2>2, <5>1, <5>2 DEF Makes
      <4> QED BY <1>2, <3>2, <4>1, ResEffect
    <3> QED BY <2>1, <2>2, <3>3, <3>4
  <2>3. ASSUME status'[p] = "exit0"
        PROVE  /\ pc'[p] = Len(Chain(p)) + 1
               /\ Makes(inv[p].stage) => res'[p]
    <3>1. pc[p] = Len(Chain(p)) BY <2>1, <2>3
    <3>2. ASSUME Makes(inv[p].stage) PROVE pc[p] > 8
      <4>1. Len(Chain(p)) \in 9..12 BY <1>1, <3>2, MakerSteps DEF IInv, TypeOK
      <4>2. pc[p] \in 9..12 BY <3>1, <4>1, Zenon
      <4> QED BY <4>2
    <3> QED BY <2>1, <2>2, <3>1, <3>2
  <2>4. ASSUME Makes(inv[p].stage), pc'[p] > 9 PROVE res'[p]
    <3>1. pc[p] > 8 BY <2>1, <2>4
    <3> QED BY <2>2, <2>4, <3>1
  <2>5. Chain(p)' = Chain(p) BY <2>1 DEF Chain
  <2> QED BY <1>1, <2>1, <2>3, <2>4, <2>5 DEF Complete
<1>3. CASE Stop(p, "exit1") \/ Stop(p, "killed")
    BY <1>3 DEF Stop, Complete, Running, IInv, TypeOK, ControlOK
<1>4. CASE OpenOutput(p)
  <2>1. UNCHANGED <<inv, status, pc, res>> BY <1>4 DEF OpenOutput, control
  <2> QED BY <2>1 DEF Complete, Running, Chain
<1> QED BY <1>2, <1>3, <1>4, EndEffect

-----------------------------------------------------------------------------
(* What p writes after file k leaves file k alone ...                      *)
LEMMA OwnStepContents ==
    ASSUME IInv, NEW p \in Proc, Work(p) \/ Failure(p), inv'[p] = inv[p],
           NEW k \in 1..Len(Chain(p)), k < pc[p], Chain(p)[k] \in DOMAIN Sink,
           NEW r, r = Sink[Chain(p)[k]]
    PROVE  Contents(p, r)' = Contents(p, r)
<1>1. CASE files' = files BY <1>1 DEF Contents, File
<1>2. ASSUME Step(p) \in DOMAIN Sink, NEW v, files' = [files EXCEPT ![Target(p)] = v]
      PROVE  Contents(p, r)' = Contents(p, r)
  <2>1. /\ inv[p].stage \in Stage /\ pc[p] \in 1..Len(Chain(p))
        /\ Step(p) = Chain(p)[pc[p]]
      BY ControlEffect, StagesOfRunning DEF IInv, TypeOK, Stage, ControlOK, Step
  <2>2. r # Sink[Step(p)] BY <1>2, <2>1, SinksDiffer
  <2>3. Target(p) # File(p, r) BY <2>2 DEF Target, File
  <2>4. r \in Role BY DEF Sink, Role
  <2>5. Running(p) BY ControlEffect DEF IInv
  <2>6. inv[p].at[r] # None => File(p, r) \in Role \X Loc
      BY <2>4, <2>5, Paths DEF IInv, TypeOK
  <2>7. inv[p].at[r] # None => files'[File(p, r)] = files[File(p, r)]
      BY <1>2, <2>3, <2>6 DEF IInv, TypeOK, FilesOK
  <2> QED BY <2>7 DEF Contents, File
<1> QED BY <1>1, <1>2, FileEffect

(* ... and p computes nothing any more that goes into it.                  *)
LEMMA OwnStepPayload ==
    ASSUME IInv, NEW p \in Proc, Work(p) \/ Failure(p),
           NEW k \in 1..Len(Chain(p)), k < pc[p], Chain(p)[k] \in DOMAIN Sink,
           NEW r, r = Sink[Chain(p)[k]]
    PROVE  Payload(p, r)' = Payload(p, r)
<1>1. CASE mem' = mem BY <1>1 DEF Payload
<1>2. CASE mem' # mem
  <2>1. Running(p) /\ Step(p) \notin DOMAIN Sink BY <1>2, ControlEffect DEF IInv
  <2>2. r = "description" /\ Step(p) = "preprocess_public_data"
      BY <2>1, EarlyWrite DEF IInv, TypeOK
  <2>3. mem'[p].table_description = mem[p].table_description
    <3>1. CASE PreprocessPublicData(p)
      <4>1. mem[p] \in Memory /\ mem \in [Proc -> Memory] BY DEF IInv, TypeOK, MemoryOK
      <4>2. PICK a, b, c :
                mem' = [mem EXCEPT ![p] =
                           [mem[p] EXCEPT !.public_inputs = a, !.lpc_scheme = b,
                                          !.public_preprocessed_data = c,
                                          !.public_table = None]]
          BY <3>1 DEF PreprocessPublicData, Load
      <4> QED BY <4>1, <4>2 DEF Memory
    <3>2. CASE ~PreprocessPublicData(p)
      <4>1. ~Read(p)
          BY <2>2 DEF Read, ReadCircuit, ReadAssignmentTable, ReadAssignmentDescription,
             ReadCommonData, ReadPublicData, ReadCommitmentScheme, ReadFails, At, Source
      <4>2. ~Compute(p)
          BY <2>2, <3>2 DEF Compute, PreprocessPrivateData, CreateLpcScheme,
             CanWriteToFile, GenerateProof, Verify, VerifyFromFile, At
      <4>3. ~Write(p) BY <2>1 DEF Write, OpenOutput, NoOutputPath, FinishWrite, AtWrite
      <4>4. CASE Undefined(p) BY <1>2, <4>4 DEF Undefined, End, CloseWith
      <4>5. CASE Failure(p)
          BY <1>2, <4>5 DEF Failure, CannotWriteToFile, OpenFails, WriteFails, LateFlush,
             Throw, Kill, CloseWith, End
      <4> QED BY <4>1, <4>2, <4>3, <4>4, <4>5 DEF Work
    <3> QED BY <3>1, <3>2
  <2> QED BY <2>2, <2>3 DEF Payload
<1> QED BY <1>1, <1>2

(* An operation that goes on after writing a file of p's own has written   *)
(* it, unless its failure stays in res.                                    *)
LEMMA JustWritten ==
    ASSUME IInv, NEW p \in Proc, Work(p) \/ Failure(p), ~OpenOutput(p), Proceed(p), Unshared(p),
           Step(p) \in DOMAIN Sink \ {"write_json"}, Step(p) = "write_proof" => res'[p],
           NEW r, r = Sink[Step(p)], OwnFile(p, r)
    PROVE  OnDisk(p, r)'
<1>1. Running(p) /\ inv' = inv /\ mem' = mem /\ r \in Role
    BY ControlEffect DEF IInv, Proceed, Sink, Role
<1>2. Payload(p, r)' = Payload(p, r) BY <1>1 DEF Payload
<1>3. ASSUME Return(p, FALSE) PROVE FALSE
    BY <1>3 DEF Return, Proceed, Stop, IInv, TypeOK, ControlOK, MemoryOK
<1>4. ASSUME NEW v, fd[p] # None, files' = [files EXCEPT ![fd[p].file] = v]
      PROVE  Contents(p, r)' = v /\ fd[p].alone
  <2>1. fd[p].file = File(p, r) /\ fd[p].file \in Role \X Loc
      BY <1>4 DEF IInv, TypeOK, DescriptorsOK, Descriptor, Target
  <2>2. fd[p].file[1] = r
    <3>1. File(p, r)[1] = r BY DEF File
    <3> QED BY <2>1, <3>1, Zenon
  <2>3. fd[p].alone BY <1>4, <2>2 DEF Unshared
  <2>4. inv[p].at[r] # None
    <3>1. inv[p].at[r] \in Loc BY <2>1 DEF File
    <3> QED BY <3>1, ProverAssumption
  <2>5. files'[File(p, r)] = v BY <1>4, <2>1 DEF IInv, TypeOK, FilesOK
  <2> QED BY <1>1, <2>3, <2>4, <2>5 DEF Contents, File
<1>5. CASE FinishWrite(p)
  <2>1. PICK v \in Outcome(p, Payload(p, r)) : files' = [files EXCEPT ![fd[p].file] = v]
      BY <1>5 DEF FinishWrite, CloseWith
  <2>2. fd[p] # None BY <1>5 DEF FinishWrite
  <2>3. Contents(p, r)' = v /\ fd[p].alone BY <1>4, <2>1, <2>2
  <2> QED BY <1>2, <2>1, <2>3 DEF Outcome, OnDisk
<1>6. CASE LateFlush(p)
  <2>1. PICK v \in Residue(p) : files' = [files EXCEPT ![fd[p].file] = v]
      BY <1>6 DEF LateFlush, CloseWith
  <2>2. fd[p] # None /\ LateFlushFails BY <1>6 DEF LateFlush
  <2>3. Contents(p, r)' = v /\ fd[p].alone BY <1>4, <2>1, <2>2
  <2> QED BY <2>1, <2>2, <2>3 DEF Residue, OnDisk
<1>7. CASE NoOutputPath(p) \/ OpenFails(p) \/ WriteFails(p)
    BY <1>3, <1>7 DEF NoOutputPath, OpenFails, WriteFails, CloseWith
<1>8. ~Read(p) /\ ~Compute(p) /\ ~CannotWriteToFile(p)
    BY DEF Read, ReadCircuit, ReadAssignmentTable, ReadAssignmentDescription,
       ReadCommonData, ReadPublicData, ReadCommitmentScheme, ReadFails,
       Compute, PreprocessPublicData, PreprocessPrivateData, CreateLpcScheme,
       CanWriteToFile, GenerateProof, Verify, VerifyFromFile, CannotWriteToFile,
       At, Source, Sink
<1>9. ASSUME NEW s, End(p, s) PROVE FALSE
    BY <1>9 DEF End, Stop, Proceed, IInv, TypeOK, ControlOK
<1>10. ~Undefined(p)
  <2>1. Step(p) # "write_json" => Empty(p) # {"public_inputs"}
      BY DEF Empty, Operands
  <2> QED BY <1>9, <2>1 DEF Undefined
<1>11. ~Throw(p) /\ ~Kill(p) BY <1>9 DEF Throw, Kill
<1> QED BY <1>5, <1>6, <1>7, <1>8, <1>10, <1>11 DEF Work, Write, Failure

-----------------------------------------------------------------------------
(* The invariant is kept by the steps of p itself ...                      *)
LEMMA DurableOwnStep ==
    ASSUME IInv, NEW p \in Proc, Durable(p), Unshared(p), Work(p) \/ Failure(p)
    PROVE  Durable(p)' /\ Unshared(p)'
<1>1. Running(p) /\ inv[p].stage \in Stage /\ pc[p] \in 1..Len(Chain(p))
    BY ControlEffect, StagesOfRunning DEF IInv, TypeOK, ControlOK, Stage
<1>2. CASE OpenOutput(p)
  <2>1. UNCHANGED <<inv, status, pc, mem, res>> BY <1>2 DEF OpenOutput, control
  <2>2. Unshared(p)'
    <3>1. fd'[p].file = Target(p) BY <1>2 DEF OpenOutput
    <3>2. Target(p)[1] = Sink[Step(p)] BY DEF Target, File
    <3>3. fd'[p].file[1] = Sink[Step(p)] BY <3>1, <3>2, Zenon
    <3>4. OwnFile(p, fd'[p].file[1]) => fd'[p].alone
      <4>1. OwnFile(p, Sink[Step(p)]) => fd'[p].alone BY <1>2, OpensAlone
      <4> QED BY <3>3, <4>1, Zenon
    <3> QED BY <2>1, <3>4 DEF Unshared, OwnFile
  <2>3. ASSUME NEW k \in Nat, NEW r \in Role, Wrote(p, k, r)', OwnFile(p, r)'
        PROVE  OnDisk(p, r)'
    <3>1. Wrote(p, k, r) /\ OwnFile(p, r) BY <2>1, <2>3 DEF Wrote, OwnFile, Chain
    <3>2. OnDisk(p, r) BY <1>1, <3>1 DEF Durable, Running
    <3>3. Contents(p, r)' = Contents(p, r) /\ Payload(p, r)' = Payload(p, r)
        BY <2>1, <3>1, OwnStepContents, OwnStepPayload DEF Wrote
    <3> QED BY <3>2, <3>3 DEF OnDisk
  <2> QED BY <2>2, <2>3 DEF Durable
<1>3. CASE ~OpenOutput(p)
  <2>1. fd'[p] = None BY <1>3, EndEffect
  <2>2. Unshared(p)' BY <2>1 DEF Unshared
  <2>3. CASE Stop(p, "exit1") \/ Stop(p, "killed")
    <3>1. status'[p] \notin {"running", "exit0"}
        BY <2>3 DEF Stop, IInv, TypeOK, ControlOK
    <3> QED BY <2>2, <3>1 DEF Durable
  <2>4. CASE Proceed(p)
    <3>1. inv' = inv /\ pc'[p] = pc[p] + 1 /\ pc[p] \in Nat
        BY <2>4 DEF Proceed, IInv, TypeOK, ControlOK
    <3>2. ASSUME NEW k \in Nat, NEW r \in Role, Wrote(p, k, r)', OwnFile(p, r)'
          PROVE  OnDisk(p, r)'
      <4>1. /\ k \in 1..Len(Chain(p)) /\ k < pc[p] + 1 /\ r = Sink[Chain(p)[k]]
            /\ Chain(p)[k] \in DOMAIN Sink \ {"write_json"}
            /\ Chain(p)[k] = "write_proof" => res'[p]
            /\ OwnFile(p, r)
          BY <3>1, <3>2 DEF Wrote, OwnFile, Chain
      <4>2. CASE k < pc[p]
        <5>1. Chain(p)[k] = "write_proof" => res[p]
          <6>1. Step(p) \in DOMAIN Sink => Sink[Step(p)] # Sink[Chain(p)[k]]
              BY <1>1, <4>1, <4>2, SinksDiffer DEF Step
          <6>2. "write_proof" \in DOMAIN Sink BY DEF Sink
          <6>3. Chain(p)[k] = "write_proof" => Step(p) # "write_proof" BY <6>1, <6>2
          <6> QED BY <4>1, <6>3, ResEffect
        <5>2. Wrote(p, k, r) BY <4>1, <4>2, <5>1 DEF Wrote
        <5>3. OnDisk(p, r) BY <1>1, <4>1, <5>2 DEF Durable, Running
        <5>4. Contents(p, r)' = Contents(p, r) /\ Payload(p, r)' = Payload(p, r)
            BY <3>1, <4>1, <4>2, OwnStepContents, OwnStepPayload
        <5> QED BY <5>3, <5>4 DEF OnDisk
      <4>3. CASE k = pc[p]
        <5>1. Step(p) = Chain(p)[k] BY <4>3 DEF Step
        <5> QED BY <1>3, <2>4, <4>1, <5>1, JustWritten
      <4>4. k < pc[p] \/ k = pc[p] BY <3>1, <4>1
      <4> QED BY <4>2, <4>3, <4>4
    <3> QED BY <2>2, <3>2 DEF Durable
  <2> QED BY <1>3, <2>3, <2>4, EndEffect
<1> QED BY <1>2, <1>3

(* ... and of others.                                                      *)
LEMMA DurableForeignStep ==
    ASSUME IInv, NEW p \in Proc, Durable(p), Unshared(p), Complete(p),
           NEW q \in Proc, q # p, Work(q) \/ Failure(q)
    PROVE  Durable(p)' /\ Unshared(p)' /\ Complete(p)'
<1>1. /\ inv'[p] = inv[p] /\ status'[p] = status[p] /\ pc'[p] = pc[p] /\ mem'[p] = mem[p]
    BY OthersUntouched DEF IInv
<1>2. res'[p] = res[p]
  <2> USE DEF IInv, TypeOK, MemoryOK
  <2>1. CASE Read(q)
      BY <2>1 DEF Read, ReadCircuit, ReadAssignmentTable, ReadAssignmentDescription,
         ReadCommonData, ReadPublicData, ReadCommitmentScheme, ReadFails, Load
  <2>2. CASE Compute(q)
      BY <2>2 DEF Compute, PreprocessPublicData, PreprocessPrivateData, CreateLpcScheme,
         CanWriteToFile, GenerateProof, Verify, VerifyFromFile, Conclude, Load
  <2>3. CASE Write(q) BY <2>3 DEF Write, OpenOutput, NoOutputPath, FinishWrite, CloseWith, Return
  <2>4. CASE Undefined(q) BY <2>4 DEF Undefined, End, CloseWith, Return
  <2>5. CASE Failure(q)
      BY <2>5 DEF Failure, CannotWriteToFile, OpenFails, WriteFails, LateFlush,
         Throw, Kill, CloseWith, Return, End
  <2> QED BY <2>1, <2>2, <2>3, <2>4, <2>5 DEF Work
<1>3. ASSUME NEW k \in Nat, NEW r \in Role, Wrote(p, k, r)', OwnFile(p, r)',
             status[p] \in {"running", "exit0"}
      PROVE  OnDisk(p, r)'
  <2>1. Wrote(p, k, r) /\ OwnFile(p, r) BY <1>1, <1>2, <1>3 DEF Wrote, OwnFile, Chain
  <2>2. OnDisk(p, r) BY <1>3, <2>1 DEF Durable
  <2>3. Contents(p, r)' = Contents(p, r) BY <1>1, <2>1, ForeignStep
  <2>4. Payload(p, r)' = Payload(p, r) BY <1>1 DEF Payload
  <2> QED BY <2>2, <2>3, <2>4 DEF OnDisk
<1>4. Durable(p)' BY <1>1, <1>3 DEF Durable
<1>5. Unshared(p)' BY <1>1, KeepsAlone
<1>6. Complete(p)' BY <1>1, <1>2 DEF Complete, Running, Chain
<1> QED BY <1>4, <1>5, <1>6

LEMMA DurableStart ==
    ASSUME IInv, NEW p \in Proc, Durable(p), Unshared(p), Complete(p),
           NEW q \in Proc, NEW i \in Invocation[q], Start(q, i)
    PROVE  Durable(p)' /\ Unshared(p)' /\ Complete(p)'
<1> USE DEF IInv, TypeOK, ControlOK, MemoryOK
<1>1. CASE p = q
  <2>1. status'[p] = "running" /\ pc'[p] = 1 /\ fd'[p] = None
      BY <1>1, OpenFile DEF Start
  <2>2. Durable(p)' BY <2>1 DEF Durable, Wrote
  <2>3. Unshared(p)' BY <2>1 DEF Unshared
  <2>4. Complete(p)' BY <2>1 DEF Complete
  <2> QED BY <2>2, <2>3, <2>4
<1>2. CASE p # q
  <2>1. /\ inv'[p] = inv[p] /\ status'[p] = status[p] /\ pc'[p] = pc[p]
        /\ mem'[p] = mem[p] /\ res'[p] = res[p] /\ fd' = fd /\ files' = files
      BY <1>2 DEF Start
  <2>2. ASSUME NEW k \in Nat, NEW r \in Role
        PROVE  /\ Wrote(p, k, r)' <=> Wrote(p, k, r)
               /\ OwnFile(p, r)' <=> OwnFile(p, r)
               /\ OnDisk(p, r)' <=> OnDisk(p, r)
    <3>1. Wrote(p, k, r)' <=> Wrote(p, k, r) BY <2>1 DEF Wrote, Chain
    <3>2. OwnFile(p, r)' <=> OwnFile(p, r) BY <2>1 DEF OwnFile
    <3>3. Contents(p, r)' = Contents(p, r) /\ Payload(p, r)' = Payload(p, r)
        BY <2>1 DEF Contents, File, Payload
    <3> QED BY <3>1, <3>2, <3>3 DEF OnDisk
  <2>3. Unshared(p)' BY <2>1 DEF Unshared, OwnFile
  <2>4. Complete(p)' BY <2>1 DEF Complete, Running, Chain
  <2>5. Durable(p)' BY <2>1, <2>2 DEF Durable
  <2> QED BY <2>3, <2>4, <2>5
<1> QED BY <1>1, <1>2

(* Users replace inputs, which are nobody's output.                        *)
LEMMA DurableInput ==
    ASSUME IInv, NEW p \in Proc, Durable(p), Unshared(p), Complete(p),
           ReplaceInput \/ UNCHANGED vars
    PROVE  Durable(p)' /\ Unshared(p)' /\ Complete(p)'
<1>1. UNCHANGED <<inv, status, pc, mem, res, fd>> BY DEF ReplaceInput, control, vars
<1>2. ASSUME NEW k \in Nat, NEW r \in Role, Wrote(p, k, r), status[p] \in {"running", "exit0"}
      PROVE  Contents(p, r)' = Contents(p, r)
  <2>1. r \notin {"circuit", "table"} BY <1>2 DEF Wrote, Sink
  <2>2. inv[p].at[r] # None => files'[File(p, r)] = files[File(p, r)]
    <3>1. CASE UNCHANGED vars BY <3>1 DEF vars
    <3>2. CASE ReplaceInput
      <4>1. PICK l \in Loc, x \in {"circuit", "table"}, v \in Circuit \cup Table :
                files' = [files EXCEPT ![<<x, l>>] = v]
          BY <3>2 DEF ReplaceInput
      <4>2. <<x, l>> # File(p, r) BY <2>1 DEF File
      <4>3. inv[p] \in ProverOptions BY <1>2, ProverAssumption DEF IInv, JobInv, Told
      <4>4. inv[p].at[r] # None => File(p, r) \in Role \X Loc
          BY <4>3 DEF ProverOptions, File
      <4> QED BY <4>1, <4>2, <4>4 DEF IInv, TypeOK, FilesOK
    <3> QED BY <3>1, <3>2
  <2> QED BY <1>1, <2>2 DEF Contents, File
<1>3. Durable(p)'
  <2>1. ASSUME NEW k \in Nat, NEW r \in Role
        PROVE  /\ Wrote(p, k, r)' <=> Wrote(p, k, r)
               /\ OwnFile(p, r)' <=> OwnFile(p, r)
               /\ Payload(p, r)' = Payload(p, r)
    <3>1. Wrote(p, k, r)' <=> Wrote(p, k, r) BY <1>1 DEF Wrote, Chain
    <3>2. OwnFile(p, r)' <=> OwnFile(p, r) BY <1>1 DEF OwnFile
    <3> QED BY <1>1, <3>1, <3>2 DEF Payload
  <2> QED BY <1>1, <1>2, <2>1 DEF Durable, OnDisk
<1>4. Unshared(p)' /\ Complete(p)' BY <1>1 DEF Unshared, OwnFile, Complete, Running, Chain
<1> QED BY <1>3, <1>4

-----------------------------------------------------------------------------
LEMMA DurableStep ==
    TypeOK /\ DataInv /\ JobInv /\ DurableInv /\ [Next]_vars => DurableInv'
<1> SUFFICES ASSUME TypeOK, DataInv, JobInv, DurableInv, [Next]_vars, NEW p \in Proc
             PROVE  Durable(p)' /\ Unshared(p)' /\ Complete(p)'
    BY DEF DurableInv
<1>1. IInv BY DEF IInv
<1>2. Durable(p) /\ Unshared(p) /\ Complete(p) BY DEF DurableInv
<1>3. ASSUME NEW q \in Proc, Work(q) \/ Failure(q)
      PROVE  Durable(p)' /\ Unshared(p)' /\ Complete(p)'
  <2>1. CASE q = p BY <1>1, <1>2, <1>3, <2>1, DurableOwnStep, CompleteStep
  <2>2. CASE q # p BY <1>1, <1>2, <1>3, <2>2, DurableForeignStep
  <2> QED BY <2>1, <2>2
<1>4. ASSUME NEW q \in Proc, NEW i \in Invocation[q], Start(q, i)
      PROVE  Durable(p)' /\ Unshared(p)' /\ Complete(p)'
    BY <1>1, <1>2, <1>4, DurableStart
<1>5. CASE ReplaceInput \/ UNCHANGED vars BY <1>1, <1>2, <1>5, DurableInput
<1> QED BY <1>3, <1>4, <1>5 DEF Next

LEMMA DurableMeansDurable == TypeOK /\ DurableInv => ExitZeroIsDurable
<1> SUFFICES ASSUME TypeOK, DurableInv, NEW p \in Proc, status[p] = "exit0",
                    NEW r \in Outputs(inv[p].stage) \ {"json"}, OwnFile(p, r)
             PROVE  OnDisk(p, r)
    BY DEF ExitZeroIsDurable, OnDisk
<1>1. Durable(p) /\ Complete(p) BY DEF DurableInv
<1>2. PICK k \in 1..Len(Chain(p)) : Chain(p)[k] \in DOMAIN Sink /\ r = Sink[Chain(p)[k]]
    BY DEF Outputs, Chain
<1>3. inv[p].stage \in Stage /\ pc[p] = Len(Chain(p)) + 1 BY <1>1 DEF Complete
<1>4. Len(Chain(p)) \in Nat BY <1>3, StageLength DEF Chain
<1>5. k < pc[p] /\ k \in Nat BY <1>2, <1>3, <1>4
<1>6. r \in Role /\ Chain(p)[k] # "write_json" BY <1>2 DEF Sink, Role
<1>7. ASSUME Chain(p)[k] = "write_proof" PROVE res[p]
  <2>1. CASE Makes(inv[p].stage) BY <1>1, <2>1 DEF Complete
  <2>2. CASE ~Makes(inv[p].stage)
    <3>1. CASE inv[p].stage = "preprocess"
      <4>1. Chain(p) = Preprocess /\ Len(Chain(p)) = 7
          BY <3>1 DEF Chain, Program, Preprocess
      <4> QED BY <1>2, <1>7, <4>1, PreprocessPositions
    <3>2. CASE inv[p].stage = "verify"
      <4>1. Chain(p) = VerifyStage /\ Len(Chain(p)) = 5
          BY <3>2 DEF Chain, Program, VerifyStage
      <4> QED BY <1>2, <1>7, <4>1, VerifyPositions
    <3> QED BY <1>3, <2>2, <3>1, <3>2 DEF Makes, Stage
  <2> QED BY <2>1, <2>2
<1>8. Wrote(p, k, r) BY <1>2, <1>5, <1>6, <1>7 DEF Wrote
<1> QED BY <1>1, <1>5, <1>6, <1>8 DEF Durable

(* Exit code 0 means that every output of p's own, the JSON file aside, is *)
(* on disk and holds what p computed, or, where flushes can fail late, is  *)
(* torn; no failure on the way is lost and no other process interferes.    *)
THEOREM ExitZeroMeansOutputs == Spec => []ExitZeroIsDurable
<1>1. Init => DurableInv
    BY DEF Init, DurableInv, Durable, Unshared, Complete, Running
<1>2. TypeOK /\ DurableInv => ExitZeroIsDurable BY DurableMeansDurable
<1> QED BY <1>1, <1>2, DurableStep, TypeCorrect, DataCorrect, JobInvCorrect, PTL DEF Spec

-----------------------------------------------------------------------------
(* One process after the other.                                            *)

(* A lone process never shares a file.                                     *)
AloneInv == \A p \in Proc : fd[p] # None => fd[p].alone

(* A step that leaves the count of failures at zero is none.               *)
LEMMA FaultFree ==
    ASSUME TypeOK, [Next]_vars, faults' = 0
    PROVE  /\ faults = 0
           /\ \/ UNCHANGED vars \/ ReplaceInput
              \/ \E p \in Proc : Work(p) \/ \E i \in Invocation[p] : Start(p, i)
<1>1. faults \in Nat BY DEF TypeOK, EnvironmentOK
<1>2. ASSUME NEW p \in Proc, Failure(p) PROVE FALSE
  <2>1. Fault
      BY <1>2 DEF Failure, CannotWriteToFile, OpenFails, WriteFails, LateFlush, Throw, Kill
  <2> QED BY <1>1, <2>1 DEF Fault
<1>3. ASSUME NEW p \in Proc, Work(p) PROVE faults' = faults
  <2>1. CASE Read(p)
      BY <2>1 DEF Read, ReadCircuit, ReadAssignmentTable, ReadAssignmentDescription,
         ReadCommonData, ReadPublicData, ReadCommitmentScheme, ReadFails, Load, environment
  <2>2. CASE Compute(p)
      BY <2>2 DEF Compute, PreprocessPublicData, PreprocessPrivateData, CreateLpcScheme,
         CanWriteToFile, GenerateProof, Verify, VerifyFromFile, Conclude, Load, environment
  <2>3. CASE Write(p) \/ Undefined(p)
      BY <2>3 DEF Write, OpenOutput, NoOutputPath, FinishWrite, Undefined, environment
  <2> QED BY <1>3, <2>1, <2>2, <2>3 DEF Work
<1>4. faults = 0
  <2>1. CASE UNCHANGED vars BY <2>1 DEF vars
  <2>2. CASE ReplaceInput BY <2>2 DEF ReplaceInput
  <2>3. ASSUME NEW p \in Proc, NEW i \in Invocation[p], Start(p, i) PROVE faults' = faults
      BY <2>3 DEF Start
  <2> QED BY <1>2, <1>3, <2>1, <2>2, <2>3 DEF Next
<1> QED BY <1>2, <1>4 DEF Next

(* An operation that does not write.                                       *)
Thinks(p) ==
    /\ Step(p) \notin DOMAIN Sink
    /\ Read(p) \/ Compute(p)
    /\ files' = files /\ fd'[p] = None
    /\ Proceed(p) \/ Stop(p, "exit1")

(* One that completes its file.                                            *)
Completes(p) ==
    /\ Step(p) \in DOMAIN Sink /\ Empty(p) = {}
    /\ fd[p] # None /\ fd'[p] = None
    /\ files' = [files EXCEPT ![Target(p)] = Payload(p, Sink[Step(p)])]
    /\ mem' = mem
    /\ Return(p, TRUE)

(* One that has no path to write to.                                       *)
Skips(p) ==
    /\ Step(p) \in DOMAIN Sink
    /\ inv[p].at[Sink[Step(p)]] = None
    /\ fd'[p] = None /\ files' = files /\ mem' = mem
    /\ Return(p, FALSE)

(* The JSON file of the prove stage, whose public inputs are garbage.      *)
Garbage(p) ==
    /\ inv[p].stage = "prove" /\ Step(p) = "write_json"
    /\ fd[p] # None /\ fd'[p] = None /\ mem' = mem
    /\ \/ Stop(p, "killed") /\ files' = [files EXCEPT ![Target(p)] = Torn]
       \/ /\ Return(p, TRUE)
          /\ files' = [files EXCEPT ![Target(p)] = [proof |-> mem[p].proof, inputs |-> None]]

LEMMA LoneWork ==
    ASSUME IInv, AloneInv, NEW p \in Proc, Work(p)
    PROVE  /\ Running(p)
           /\ Thinks(p) \/ OpenOutput(p) \/ Completes(p) \/ Skips(p) \/ Garbage(p)
<1>1. Running(p) BY ControlEffect DEF IInv
<1>2. ASSUME fd[p] # None PROVE fd[p].alone /\ fd[p].file = Target(p) /\ Step(p) \in DOMAIN Sink
    BY <1>2 DEF AloneInv, IInv, TypeOK, DescriptorsOK
<1>3. CASE Read(p)
  <2>1. Step(p) \notin DOMAIN Sink
      BY <1>3 DEF Read, ReadCircuit, ReadAssignmentTable, ReadAssignmentDescription,
         ReadCommonData, ReadPublicData, ReadCommitmentScheme, ReadFails, At, Source, Sink
  <2>2. fd[p] = None BY <1>2, <2>1
  <2> QED BY <1>1, <1>3, <2>1, <2>2
      DEF Thinks, Read, ReadCircuit, ReadAssignmentTable, ReadAssignmentDescription,
          ReadCommonData, ReadPublicData, ReadCommitmentScheme, ReadFails, Load
<1>4. CASE Compute(p)
  <2>1. Step(p) \notin DOMAIN Sink
      BY <1>4 DEF Compute, PreprocessPublicData, PreprocessPrivateData, CreateLpcScheme,
         CanWriteToFile, GenerateProof, Verify, VerifyFromFile, At, Sink
  <2>2. fd[p] = None BY <1>2, <2>1
  <2> QED BY <1>1, <1>4, <2>1, <2>2
      DEF Thinks, Compute, PreprocessPublicData, PreprocessPrivateData, CreateLpcScheme,
          CanWriteToFile, GenerateProof, Verify, VerifyFromFile, Conclude, Load
<1>5. CASE FinishWrite(p)
  <2>1. fd[p] # None /\ fd[p].alone /\ fd[p].file = Target(p) /\ Step(p) \in DOMAIN Sink
      BY <1>2, <1>5 DEF FinishWrite
  <2>2. CloseWith(p, Payload(p, Sink[Step(p)]), TRUE)
      BY <1>5, <2>1 DEF FinishWrite, Outcome
  <2>3. fd'[p] = None BY <2>2 DEF CloseWith, IInv, TypeOK, DescriptorsOK
  <2>4. Empty(p) = {} BY <1>5 DEF FinishWrite, AtWrite
  <2> QED BY <1>1, <2>1, <2>2, <2>3, <2>4 DEF Completes, CloseWith
<1>6. CASE NoOutputPath(p) BY <1>1, <1>6 DEF NoOutputPath, AtWrite, Skips
<1>7. CASE Undefined(p)
  <2>1. Empty(p) # {} /\ ControlOK /\ StageData(p)
      BY <1>7 DEF Undefined, IInv, TypeOK, DataInv
  <2>2. inv[p].stage = "prove" /\ Step(p) = "write_json" /\ Empty(p) = {"public_inputs"}
      BY <1>1, <2>1, StagesOfRunning, EngagedAll, EngagedPreprocess, EngagedProve, EngagedVerify
      DEF StageData
  <2>3. fd[p] # None BY <2>2 DEF Empty, Operands
  <2>4. fd[p].alone /\ fd[p].file = Target(p) BY <1>2, <2>3
  <2>5. fd'[p] = None /\ mem' = mem
      BY <1>7 DEF Undefined, End, CloseWith, IInv, TypeOK, DescriptorsOK
  <2>6. CASE End(p, "killed")
    <3>1. Stop(p, "killed") /\ files' = [files EXCEPT ![Target(p)] = Torn]
        BY <2>3, <2>4, <2>6 DEF End, Residue
    <3> QED BY <1>1, <2>2, <2>3, <2>5, <3>1 DEF Garbage
  <2>7. ASSUME NEW v \in Outcome(p, [proof |-> mem[p].proof, inputs |-> None]),
               CloseWith(p, v, TRUE)
        PROVE  Garbage(p)
      BY <2>2, <2>3, <2>4, <2>5, <2>7 DEF CloseWith, Outcome, Garbage
  <2> QED BY <1>1, <1>7, <2>6, <2>7 DEF Undefined
<1> QED BY <1>1, <1>3, <1>4, <1>5, <1>6, <1>7 DEF Work, Write

(* Sharing takes two.                                                      *)
LEMMA AloneStep ==
    ASSUME IInv, OneByOne, AloneInv, [Next]_vars
    PROVE  AloneInv'
<1> SUFFICES ASSUME NEW p \in Proc, fd'[p] # None PROVE fd'[p].alone
    BY DEF AloneInv
<1>1. \A q \in Proc : q = p BY DEF OneByOne
<1>2. CASE fd' = fd BY <1>2 DEF AloneInv
<1>3. ASSUME NEW q \in Proc, Work(q) \/ Failure(q) PROVE fd'[p].alone
  <2>1. q = p BY <1>1
  <2>2. CASE OpenOutput(p)
    <3>1. \A o \in Proc : ~Opens(o, Target(p)) BY <1>1, <2>2 DEF OpenOutput, Opens
    <3> QED BY <2>2, <3>1 DEF OpenOutput
  <2> QED BY <1>3, <2>1, <2>2, EndEffect
<1>4. ASSUME NEW q \in Proc, NEW i \in Invocation[q], Start(q, i) PROVE fd'[p].alone
    BY <1>2, <1>4 DEF Start
<1> QED BY <1>2, <1>3, <1>4 DEF Next, ReplaceInput, vars

-----------------------------------------------------------------------------
(* The three artifacts.                                                    *)

(* The scheme that goes with common data.                                  *)
Scheme(c) == WithFixedBatch(NewLpcScheme(c.shape, c.fri), c.circuit, c.shape)

Artifact(i, r) == files[<<r, i.at[r]>>]

(* They stem from one run, or there are none.                              *)
Matching(i) ==
    LET c == Artifact(i, "common")
    IN IF c = Absent THEN Artifact(i, "public") = Absent /\ Artifact(i, "commitment") = Absent
       ELSE Artifact(i, "public") = [common |-> c] /\ Artifact(i, "commitment") = Scheme(c)

(* What p has in memory stems from one run.                                *)
Fits(p) ==
    LET public == mem[p].public_preprocessed_data
    IN /\ public = [common |-> public.common]
       /\ mem[p].lpc_scheme = Scheme(public.common)

Saves(s) == s \in {"all", "preprocess"}

(* The position of save_common_data; the two other saves follow it.        *)
SavesAt(s) == IF s = "all" THEN 10 ELSE 5

(* p has replaced the first artifact, and not yet the last.                *)
Saving(p) ==
    /\ Running(p) /\ Saves(inv[p].stage)
    /\ \/ pc[p] > SavesAt(inv[p].stage)
       \/ pc[p] = SavesAt(inv[p].stage) /\ fd[p] # None

HasSaved(p) ==
    /\ pc[p] > SavesAt(inv[p].stage) => Contents(p, "common") = Payload(p, "common")
    /\ pc[p] > SavesAt(inv[p].stage) + 1 => Contents(p, "public") = Payload(p, "public")

Coherent(p) ==
    IF Saving(p) THEN HasSaved(p) ELSE \A i \in Invocation[p] : Matching(i)

(* What goes into the artifacts, and what the prove stage has of them.     *)
InputsFit(p) ==
    Running(p) =>
        /\ inv[p].stage = "preprocess" =>
              /\ pc[p] \in {3, 4} => mem[p].table_description = ShapeOf[mem[p].public_table]
              /\ pc[p] > 4 => Fits(p)
        /\ inv[p].stage = "prove" =>
              /\ pc[p] = 4 => mem[p].public_preprocessed_data = Contents(p, "public")
              /\ pc[p] > 4 => Fits(p)

CoherentInv == faults = 0 => \A p \in Proc : Coherent(p) /\ InputsFit(p)

SameArtifacts == \A r \in Artifacts : SamePath(r) /\ Given(r)

(* All command lines of the slot mean the same artifacts.                  *)
LEMMA OnePath ==
    ASSUME OneByOne, SameArtifacts, NEW p \in Proc, NEW i \in Invocation[p], NEW r \in Artifacts
    PROVE  i.at[r] \in Loc /\ \A j \in Invocation[p] : j.at[r] = i.at[r]
<1>1. PICK l \in Loc : \A q \in Proc : \A j \in Invocation[q] : j.at[r] \in {l, None}
    BY DEF SameArtifacts, SamePath
<1>2. \A q \in Proc : \A j \in Invocation[q] : j.at[r] # None BY DEF SameArtifacts, Given
<1> QED BY <1>1, <1>2

(* Where the saves are.                                                    *)
LEMMA SavePositions ==
    ASSUME NEW p \in Proc, ControlOK, Running(p)
    PROVE  /\ Saves(inv[p].stage) =>
                 /\ Len(Chain(p)) = SavesAt(inv[p].stage) + 2
                 /\ pc[p] \in 1..SavesAt(inv[p].stage) + 2
                 /\ pc[p] = SavesAt(inv[p].stage) <=> Step(p) = "save_common_data"
                 /\ pc[p] = SavesAt(inv[p].stage) + 1 <=> Step(p) = "save_public_data"
                 /\ pc[p] = SavesAt(inv[p].stage) + 2 <=> Step(p) = "save_commitment_state"
           /\ ~Saves(inv[p].stage) => (Step(p) \in DOMAIN Sink => Sink[Step(p)] \notin Artifacts)
<1>1. CASE inv[p].stage = "all"
  <2>1. Len(Chain(p)) = 12 BY <1>1 DEF Chain, Program, All
  <2> QED BY <1>1, <2>1, AllSteps, AllPositions DEF Saves, SavesAt
<1>2. CASE inv[p].stage = "preprocess"
  <2>1. Len(Chain(p)) = 7 BY <1>2 DEF Chain, Program, Preprocess
  <2> QED BY <1>2, <2>1, PreprocessSteps, PreprocessPositions DEF Saves, SavesAt
<1>3. CASE inv[p].stage = "prove"
    BY <1>3, ProveSteps, ProvePositions DEF Saves, Sink, Artifacts
<1>4. CASE inv[p].stage = "verify"
    BY <1>4, VerifySteps, VerifyPositions DEF Saves, Sink
<1> QED BY <1>1, <1>2, <1>3, <1>4, StagesOfRunning

(* A step that leaves the files of the artifacts alone leaves them         *)
(* matching.                                                               *)
LEMMA MatchingFrame ==
    ASSUME NEW i, Matching(i), \A r \in Artifacts : files'[<<r, i.at[r]>>] = files[<<r, i.at[r]>>]
    PROVE  Matching(i)'
BY DEF Matching, Artifact, Artifacts

(* Writing another role does.                                              *)
LEMMA OtherRole ==
    ASSUME TypeOK, NEW p \in Proc, Running(p), Step(p) \in DOMAIN Sink, NEW v,
           files' = [files EXCEPT ![Target(p)] = v],
           NEW r \in Role, r # Sink[Step(p)], NEW l \in Loc
    PROVE  files'[<<r, l>>] = files[<<r, l>>]
<1>1. Target(p) # <<r, l>> BY DEF Target, File
<1> QED BY <1>1 DEF TypeOK, FilesOK

(* What a run that saves has computed is of one piece.                     *)
LEMMA SaverFits ==
    ASSUME IInv, NEW p \in Proc, Running(p), Saves(inv[p].stage), InputsFit(p),
           pc[p] >= SavesAt(inv[p].stage)
    PROVE  /\ Fits(p) /\ mem[p].public_preprocessed_data \in PublicPreprocessedData
<1>1. mem[p] \in Memory /\ StageData(p) /\ pc[p] \in Nat
    BY DEF IInv, TypeOK, MemoryOK, DataInv, ControlOK
<1>2. CASE inv[p].stage = "all"
  <2>1. AllData(p) /\ pc[p] > 3 BY <1>1, <1>2 DEF StageData, SavesAt
  <2>2. /\ mem[p].public_preprocessed_data # None
        /\ mem[p].public_preprocessed_data =
              [common |-> [circuit |-> mem[p].constraint_system,
                           shape |-> mem[p].table_description, fri |-> inv[p].fri]]
        /\ mem[p].lpc_scheme = WithFixedBatch(
              NewLpcScheme(mem[p].table_description, inv[p].fri),
              mem[p].constraint_system, mem[p].table_description)
      BY <2>1 DEF AllData
  <2>3. Fits(p) BY <2>2 DEF Fits, Scheme
  <2>4. mem[p].public_preprocessed_data \in PublicPreprocessedData BY <1>1, <2>2 DEF Memory
  <2> QED BY <2>3, <2>4
<1>3. CASE inv[p].stage = "preprocess"
  <2>1. PreprocessData(p) /\ pc[p] > 4 BY <1>1, <1>3 DEF StageData, SavesAt
  <2>2. mem[p].public_preprocessed_data # None BY <2>1 DEF PreprocessData
  <2>3. Fits(p) BY <1>3, <2>1 DEF InputsFit
  <2> QED BY <1>1, <2>2, <2>3 DEF Memory
<1> QED BY <1>2, <1>3 DEF Saves

(* Operations that do not write come before the saves.                     *)
LEMMA CoherentThinks ==
    ASSUME IInv, NEW p \in Proc, Coherent(p), Running(p), Thinks(p)
    PROVE  Coherent(p)'
<1>1. ControlOK /\ pc[p] \in Nat BY DEF IInv, TypeOK, ControlOK
<1>2. Saves(inv[p].stage) => pc[p] < SavesAt(inv[p].stage)
  <2>1. Step(p) \notin {"save_common_data", "save_public_data", "save_commitment_state"}
      BY DEF Thinks, Sink
  <2>2. SavesAt(inv[p].stage) \in {5, 10} BY DEF SavesAt
  <2> QED BY <1>1, <2>1, <2>2, SavePositions
<1>3. inv' = inv /\ pc'[p] \in {pc[p], pc[p] + 1} /\ fd'[p] = None
    BY DEF Thinks, Proceed, Stop, IInv, TypeOK, ControlOK
<1>4. SavesAt(inv[p].stage) \in {5, 10} BY DEF SavesAt
<1>5. ~Saving(p) BY <1>1, <1>2, <1>4 DEF Saving
<1>6. ~Saving(p)' BY <1>1, <1>2, <1>3, <1>4 DEF Saving
<1>7. \A i \in Invocation[p] : Matching(i) BY <1>5 DEF Coherent
<1>8. \A i \in Invocation[p] : Matching(i)' BY <1>7 DEF Thinks, Matching, Artifact
<1> QED BY <1>6, <1>8 DEF Coherent

(* What a truncating open does.                                            *)
LEMMA Opened ==
    ASSUME IInv, NEW p \in Proc, OpenOutput(p)
    PROVE  /\ Running(p) /\ Step(p) \in DOMAIN Sink /\ fd[p] = None
           /\ Target(p) \in Role \X Loc /\ inv[p].at[Sink[Step(p)]] # None
           /\ files' = [files EXCEPT ![Target(p)] = Torn]
           /\ fd'[p] # None /\ fd'[p].file = Target(p)
           /\ UNCHANGED <<inv, status, pc, mem>>
<1>1. /\ Running(p) /\ Step(p) \in DOMAIN Sink /\ fd[p] = None
      /\ inv[p].at[Sink[Step(p)]] # None
      /\ files' = [files EXCEPT ![Target(p)] = Torn]
      /\ UNCHANGED <<inv, status, pc, mem>>
    BY DEF OpenOutput, AtWrite, control
<1>2. Sink[Step(p)] \in Role BY <1>1 DEF Sink, Role
<1>3. Target(p) \in Role \X Loc BY <1>1, <1>2, Paths DEF Target, IInv, TypeOK
<1>4. fd'[p] = [file |-> Target(p), alone |-> \A o \in Proc : ~Opens(o, Target(p))]
    BY DEF OpenOutput
<1>5. fd'[p] # None BY <1>3, <1>4, Described
<1> QED BY <1>1, <1>3, <1>4, <1>5

(* Opening the first artifact begins a phase in which they do not match,   *)
(* and opening another one leaves those alone that have been saved.        *)
LEMMA CoherentOpens ==
    ASSUME IInv, OneByOne, SameArtifacts, NEW p \in Proc, Coherent(p), OpenOutput(p)
    PROVE  Coherent(p)'
<1> DEFINE k == SavesAt(inv[p].stage)
<1>1. /\ Running(p) /\ Step(p) \in DOMAIN Sink /\ fd[p] = None
      /\ files' = [files EXCEPT ![Target(p)] = Torn] /\ ControlOK /\ pc[p] \in Nat
      /\ UNCHANGED <<inv, status, pc, mem>>
    BY Opened DEF IInv, TypeOK, ControlOK
<1>2. fd'[p] # None BY Opened
<1>3. k \in {5, 10} BY DEF SavesAt
<1>4. ASSUME NEW r \in Artifacts, r # Sink[Step(p)]
      PROVE  /\ \A l \in Loc : files'[<<r, l>>] = files[<<r, l>>]
             /\ Contents(p, r)' = Contents(p, r)
  <2>1. r \in Role BY DEF Artifacts, Role
  <2>2. \A l \in Loc : files'[<<r, l>>] = files[<<r, l>>]
      BY <1>1, <1>4, <2>1, OtherRole DEF IInv
  <2>3. inv[p].at[r] \in Loc \cup {None} BY <1>1, <2>1, Paths
  <2> QED BY <1>1, <2>2, <2>3 DEF Contents, File
<1>5. CASE Saves(inv[p].stage) /\ pc[p] >= k
  <2>1. Saving(p)' BY <1>1, <1>2, <1>3, <1>5 DEF Saving, Running
  <2>2. HasSaved(p)'
    <3>1. ASSUME pc[p] > k
          PROVE  Contents(p, "common")' = Payload(p, "common")'
      <4>1. Sink[Step(p)] # "common"
          BY <1>1, <1>3, <1>5, <3>1, SavePositions DEF Sink
      <4>2. Contents(p, "common") = Payload(p, "common")
          BY <1>1, <1>5, <3>1 DEF Coherent, Saving, HasSaved
      <4> QED BY <1>1, <1>4, <4>1, <4>2 DEF Artifacts, Payload
    <3>2. ASSUME pc[p] > k + 1
          PROVE  Contents(p, "public")' = Payload(p, "public")'
      <4>1. Sink[Step(p)] # "public"
          BY <1>1, <1>3, <1>5, <3>2, SavePositions DEF Sink
      <4>2. Contents(p, "public") = Payload(p, "public")
          BY <1>1, <1>3, <1>5, <3>2 DEF Coherent, Saving, HasSaved
      <4> QED BY <1>1, <1>4, <4>1, <4>2 DEF Artifacts, Payload
    <3> QED BY <1>1, <3>1, <3>2 DEF HasSaved
  <2> QED BY <2>1, <2>2 DEF Coherent
<1>6. CASE ~(Saves(inv[p].stage) /\ pc[p] >= k)
  <2>1. ~Saving(p) /\ ~Saving(p)' BY <1>1, <1>3, <1>6 DEF Saving
  <2>2. Sink[Step(p)] \notin Artifacts
    <3>1. CASE ~Saves(inv[p].stage) BY <1>1, <3>1, SavePositions
    <3>2. CASE Saves(inv[p].stage)
      <4>1. Step(p) \notin {"save_common_data", "save_public_data", "save_commitment_state"}
          BY <1>1, <1>3, <1>6, <3>2, SavePositions
      <4> QED BY <1>1, <4>1 DEF Sink, Artifacts
    <3> QED BY <3>1, <3>2
  <2>3. ASSUME NEW i \in Invocation[p] PROVE Matching(i)'
    <3>1. Matching(i) BY <2>1 DEF Coherent
    <3>2. \A r \in Artifacts : files'[<<r, i.at[r]>>] = files[<<r, i.at[r]>>]
        BY <1>4, <2>2, OnePath
    <3> QED BY <3>1, <3>2, MatchingFrame
  <2> QED BY <2>1, <2>3 DEF Coherent
<1> QED BY <1>5, <1>6

(* Writing something else than an artifact changes none.                   *)
LEMMA OtherWrite ==
    ASSUME IInv, OneByOne, SameArtifacts, NEW p \in Proc, Running(p),
           Step(p) \in DOMAIN Sink, Sink[Step(p)] \notin Artifacts, NEW v,
           files' = [files EXCEPT ![Target(p)] = v] \/ files' = files,
           NEW i \in Invocation[p], Matching(i)
    PROVE  Matching(i)'
<1>1. ASSUME NEW r \in Artifacts PROVE files'[<<r, i.at[r]>>] = files[<<r, i.at[r]>>]
  <2>1. r \in Role /\ i.at[r] \in Loc /\ r # Sink[Step(p)] BY OnePath DEF Artifacts, Role
  <2> QED BY <2>1, OtherRole DEF IInv
<1> QED BY <1>1, MatchingFrame

(* An operation on another file than an artifact ends.                     *)
LEMMA CoherentOther ==
    ASSUME IInv, OneByOne, SameArtifacts, NEW p \in Proc, Coherent(p), Running(p),
           Step(p) \in DOMAIN Sink, Sink[Step(p)] \notin Artifacts, NEW v,
           files' = [files EXCEPT ![Target(p)] = v] \/ files' = files, fd'[p] = None,
           Proceed(p) \/ Stop(p, "exit1") \/ Stop(p, "killed")
    PROVE  Coherent(p)'
<1>1. ControlOK /\ pc[p] \in Nat BY DEF IInv, TypeOK, ControlOK
<1>2. SavesAt(inv[p].stage) \in {5, 10} BY DEF SavesAt
<1>3. Saves(inv[p].stage) => pc[p] < SavesAt(inv[p].stage)
  <2>1. Step(p) \notin {"save_common_data", "save_public_data", "save_commitment_state"}
      BY DEF Sink, Artifacts
  <2> QED BY <1>1, <1>2, <2>1, SavePositions
<1>4. inv' = inv /\ pc'[p] \in {pc[p], pc[p] + 1}
    BY DEF Proceed, Stop, IInv, TypeOK, ControlOK
<1>5. ~Saving(p) BY <1>1, <1>2, <1>3 DEF Saving
<1>6. ~Saving(p)' BY <1>1, <1>2, <1>3, <1>4 DEF Saving
<1>7. \A i \in Invocation[p] : Matching(i)' BY <1>5, OtherWrite DEF Coherent
<1> QED BY <1>6, <1>7 DEF Coherent

(* What an artifact is written from.                                       *)
LEMMA Saved ==
    ASSUME IInv, NEW p \in Proc, Running(p), Completes(p), NEW r \in Artifacts,
           r = Sink[Step(p)], inv[p].at[r] \in Loc
    PROVE  /\ Contents(p, r)' = Payload(p, r)
           /\ Payload(p, r)' = Payload(p, r)
           /\ Proceed(p)
<1>1. Proceed(p) /\ inv' = inv /\ mem' = mem
    BY DEF Completes, Return, Proceed, Artifacts, Sink
<1>2. r \in Role BY DEF Artifacts, Role
<1>3. Target(p) = File(p, r) /\ Target(p) \in Role \X Loc BY <1>2 DEF Target, File
<1>4. files'[File(p, r)] = Payload(p, r)
    BY <1>3 DEF Completes, IInv, TypeOK, FilesOK
<1>5. inv[p].at[r] # None BY ProverAssumption
<1>6. Contents(p, r)' = Payload(p, r) BY <1>1, <1>4, <1>5 DEF Contents, File
<1>7. Payload(p, r)' = Payload(p, r) BY <1>1 DEF Payload
<1> QED BY <1>1, <1>6, <1>7

LEMMA CoherentCompletes ==
    ASSUME IInv, OneByOne, SameArtifacts, NEW p \in Proc, Coherent(p), InputsFit(p),
           Running(p), Completes(p), NEW r \in Artifacts, r = Sink[Step(p)],
           NEW k, k = SavesAt(inv[p].stage),
           NEW public, public = mem[p].public_preprocessed_data
    PROVE  Coherent(p)'
<1>1. ControlOK /\ pc[p] \in Nat /\ k \in {5, 10} /\ inv[p] \in Invocation[p]
    BY DEF IInv, TypeOK, ControlOK, SavesAt, JobInv, Told, Running
<1>2. r \in Role /\ Step(p) \in DOMAIN Sink /\ fd[p] # None /\ fd'[p] = None
    BY DEF Completes, Artifacts, Role
<1>3. Saves(inv[p].stage) BY <1>1, <1>2, SavePositions
<1>4. \A a \in Artifacts : inv[p].at[a] \in Loc BY <1>1, OnePath
<1>5. /\ Contents(p, r)' = Payload(p, r) /\ Payload(p, r)' = Payload(p, r)
      /\ Proceed(p)
    BY <1>4, Saved
<1>6. inv' = inv /\ pc'[p] = pc[p] + 1 /\ mem' = mem
    BY <1>5 DEF Proceed, Completes, IInv, TypeOK, ControlOK
<1>7. ASSUME NEW a \in Artifacts, a # r PROVE Contents(p, a)' = Contents(p, a)
  <2>1. a \in Role /\ inv[p].at[a] \in Loc BY <1>4 DEF Artifacts, Role
  <2>2. files'[<<a, inv[p].at[a]>>] = files[<<a, inv[p].at[a]>>]
      BY <1>2, <1>7, <2>1, OtherRole DEF IInv, Completes
  <2> QED BY <1>6, <2>2 DEF Contents, File
<1>8. Saving(p) /\ HasSaved(p)
  <2>1. Step(p) \in {"save_common_data", "save_public_data", "save_commitment_state"}
      BY <1>2 DEF Sink, Artifacts
  <2>2. pc[p] \in k..(k + 2) BY <1>1, <1>3, <2>1, SavePositions
  <2>3. Saving(p) BY <1>1, <1>2, <1>3, <2>2 DEF Saving
  <2> QED BY <2>3 DEF Coherent
<1>9. CASE Step(p) = "save_common_data"
  <2>1. pc[p] = k /\ r = "common" BY <1>1, <1>3, <1>9, SavePositions DEF Sink
  <2>2. HasSaved(p)'
    <3>1. Contents(p, "common")' = Payload(p, "common")' BY <1>5, <2>1
    <3> QED BY <1>1, <1>6, <2>1, <3>1 DEF HasSaved
  <2>3. Saving(p)'
    <3>1. Len(Chain(p)) = k + 2 BY <1>1, <1>3, SavePositions
    <3>2. status'[p] = status[p] BY <1>1, <1>5, <2>1, <3>1 DEF Proceed, IInv, TypeOK, ControlOK
    <3> QED BY <1>1, <1>3, <1>6, <2>1, <3>2 DEF Saving, Running
  <2> QED BY <2>2, <2>3 DEF Coherent
<1>10. CASE Step(p) = "save_public_data"
  <2>1. pc[p] = k + 1 /\ r = "public" BY <1>1, <1>3, <1>10, SavePositions DEF Sink
  <2>2. Contents(p, "common")' = Payload(p, "common")'
    <3>1. Contents(p, "common") = Payload(p, "common") BY <1>1, <1>8, <2>1 DEF HasSaved
    <3> QED BY <1>6, <1>7, <2>1, <3>1 DEF Artifacts, Payload
  <2>3. HasSaved(p)'
    <3>1. Contents(p, "public")' = Payload(p, "public")' BY <1>5, <2>1
    <3> QED BY <1>1, <1>6, <2>1, <2>2, <3>1 DEF HasSaved
  <2>4. Saving(p)'
    <3>1. Len(Chain(p)) = k + 2 BY <1>1, <1>3, SavePositions
    <3>2. status'[p] = status[p] BY <1>1, <1>5, <2>1, <3>1 DEF Proceed, IInv, TypeOK, ControlOK
    <3> QED BY <1>1, <1>3, <1>6, <2>1, <3>2 DEF Saving, Running
  <2> QED BY <2>3, <2>4 DEF Coherent
<1>11. CASE Step(p) = "save_commitment_state"
  <2>1. pc[p] = k + 2 /\ r = "commitment" BY <1>1, <1>3, <1>11, SavePositions DEF Sink
  <2>2. status'[p] = "exit0"
    <3>1. Len(Chain(p)) = k + 2 BY <1>1, <1>3, SavePositions
    <3> QED BY <1>5, <2>1, <3>1 DEF Proceed, IInv, TypeOK, ControlOK
  <2>3. Fits(p) /\ public \in PublicPreprocessedData BY <1>1, <1>3, <2>1, SaverFits
  <2>4. /\ Contents(p, "common")' = public.common
        /\ Contents(p, "public")' = public
        /\ Contents(p, "commitment")' = mem[p].lpc_scheme
    <3>1. Contents(p, "common") = Payload(p, "common")
          /\ Contents(p, "public") = Payload(p, "public")
        BY <1>1, <1>8, <2>1 DEF HasSaved
    <3>2. Contents(p, "common")' = Contents(p, "common")
          /\ Contents(p, "public")' = Contents(p, "public")
        BY <1>7, <2>1 DEF Artifacts
    <3>3. Contents(p, "commitment")' = Payload(p, "commitment") BY <1>5, <2>1
    <3>4. /\ Payload(p, "common") = public.common /\ Payload(p, "public") = public
          /\ Payload(p, "commitment") = mem[p].lpc_scheme
        BY DEF Payload
    <3> QED BY <3>1, <3>2, <3>3, <3>4
  <2>5. public.common # Absent
    <3>1. public.common \in CommonData BY <2>3 DEF PublicPreprocessedData
    <3> QED BY <3>1, ProverAssumption DEF AllFileData, FileData, Role
  <2>6. ASSUME NEW i \in Invocation[p] PROVE Matching(i)'
    <3>1. \A a \in Artifacts : Artifact(i, a)' = Contents(p, a)'
      <4>1. \A a \in Artifacts : i.at[a] = inv[p].at[a] /\ inv[p].at[a] # None
          BY <1>1, OnePath, ProverAssumption
      <4> QED BY <1>6, <4>1 DEF Artifact, Contents, File
    <3> QED BY <2>3, <2>4, <2>5, <3>1 DEF Matching, Fits, Artifacts
  <2>7. ~Saving(p)' BY <2>2 DEF Saving, Running
  <2> QED BY <1>6, <2>6, <2>7 DEF Coherent
<1> QED BY <1>2, <1>9, <1>10, <1>11 DEF Sink, Artifacts

(* Public data and commitment scheme, read one after the other, belong     *)
(* together.                                                               *)
LEMMA ReadTogether ==
    ASSUME IInv, OneByOne, SameArtifacts, NEW p \in Proc, Coherent(p),
           Running(p), inv[p].stage = "prove", Decodes(p, "commitment")
    PROVE  \E c : /\ Contents(p, "public") = [common |-> c]
                  /\ Contents(p, "commitment") = Scheme(c)
<1>1. ~Saving(p) /\ inv[p] \in Invocation[p]
    BY DEF Saving, Saves, IInv, JobInv, Told, Running
<1>2. Matching(inv[p]) BY <1>1 DEF Coherent
<1>3. \A r \in Artifacts : Artifact(inv[p], r) = Contents(p, r)
  <2>1. \A r \in Artifacts : inv[p].at[r] # None BY <1>1, OnePath, ProverAssumption
  <2> QED BY <2>1 DEF Artifact, Contents, File
<1>4. Contents(p, "commitment") # Absent BY DEF Decodes
<1> QED BY <1>2, <1>3, <1>4 DEF Matching, Artifacts

LEMMA InputsFitFrame ==
    ASSUME NEW p \in Proc, InputsFit(p), UNCHANGED <<inv, status, pc, mem>>,
           Contents(p, "public")' = Contents(p, "public")
    PROVE  InputsFit(p)'
BY DEF InputsFit, Fits, Running

(* The two stages that need it keep public data and scheme together.       *)
LEMMA PreprocessInputs ==
    ASSUME IInv, NEW p \in Proc, InputsFit(p), Running(p), inv[p].stage = "preprocess",
           Thinks(p), Proceed(p)
    PROVE  /\ pc'[p] \in {3, 4} => mem'[p].table_description = ShapeOf[mem'[p].public_table]
           /\ pc'[p] > 4 => Fits(p)'
<1> DEFINE m == mem[p]
<1>1. /\ m \in Memory /\ mem \in [Proc -> Memory] /\ ControlOK
      /\ pc[p] \in 1..7 /\ Step(p) = Preprocess[pc[p]] /\ pc'[p] = pc[p] + 1
    BY PreprocessSteps DEF IInv, TypeOK, MemoryOK, Proceed, ControlOK
<1>2. pc[p] \in {1, 2, 4} BY <1>1, PreprocessPositions DEF Thinks, Sink
<1>3. CASE pc[p] = 1 BY <1>1, <1>3
<1>4. CASE pc[p] = 2
  <2>1. Step(p) = "read_assignment_table" BY <1>1, <1>4, PreprocessPositions
  <2>2. ReadAssignmentTable(p)
    <3>1. ~ReadFails(p) BY DEF ReadFails, Stop, Proceed, Running, IInv, TypeOK, ControlOK
    <3>2. ~Compute(p)
        BY <2>1 DEF Compute, PreprocessPublicData, PreprocessPrivateData, CreateLpcScheme,
           CanWriteToFile, GenerateProof, Verify, VerifyFromFile, At
    <3> QED BY <2>1, <3>1, <3>2 DEF Thinks, Read, ReadCircuit, ReadAssignmentDescription,
           ReadCommonData, ReadPublicData, ReadCommitmentScheme, At
  <2>3. PICK t : mem'[p] = [m EXCEPT !.table_description = ShapeOf[t],
                                      !.public_table = t, !.private_table = t]
      BY <2>2, LoadEffect DEF ReadAssignmentTable, IInv
  <2> QED BY <1>1, <1>4, <2>3 DEF Memory
<1>5. CASE pc[p] = 4
  <2>1. Step(p) = "preprocess_public_data" BY <1>1, <1>5, PreprocessPositions
  <2>2. PreprocessPublicData(p)
    <3>1. ~Read(p)
        BY <2>1 DEF Read, ReadCircuit, ReadAssignmentTable, ReadAssignmentDescription,
           ReadCommonData, ReadPublicData, ReadCommitmentScheme, ReadFails, At, Source
    <3> QED BY <2>1, <3>1 DEF Thinks, Compute, PreprocessPrivateData, CreateLpcScheme,
           CanWriteToFile, GenerateProof, Verify, VerifyFromFile, At
  <2> DEFINE scheme == NewLpcScheme(m.table_description, inv[p].fri)
             lpc == WithFixedBatch(scheme, m.constraint_system, m.table_description)
             public == PublicPreprocess(m.constraint_system, m.public_table, scheme)
  <2>3. mem'[p] = [m EXCEPT !.public_inputs = m.public_table, !.lpc_scheme = lpc,
                            !.public_preprocessed_data = public, !.public_table = None]
      BY <2>2, LoadEffect DEF PreprocessPublicData, IInv
  <2>4. m.table_description = ShapeOf[m.public_table] BY <1>5 DEF InputsFit
  <2>5. public = [common |-> [circuit |-> m.constraint_system,
                              shape |-> m.table_description, fri |-> inv[p].fri]]
      BY <2>4 DEF PublicPreprocess, NewLpcScheme
  <2>6. lpc = Scheme(public.common) BY <2>5 DEF Scheme
  <2> HIDE DEF lpc, public
  <2>7. mem'[p].public_preprocessed_data = public /\ mem'[p].lpc_scheme = lpc
      BY <1>1, <2>3 DEF Memory
  <2>8. Fits(p)' BY <2>5, <2>6, <2>7 DEF Fits
  <2> QED BY <1>1, <1>5, <2>8
<1> QED BY <1>2, <1>3, <1>4, <1>5

LEMMA ProveInputs ==
    ASSUME IInv, OneByOne, SameArtifacts, NEW p \in Proc, Coherent(p), InputsFit(p),
           Running(p), inv[p].stage = "prove", Thinks(p), Proceed(p)
    PROVE  /\ pc'[p] = 4 => mem'[p].public_preprocessed_data = Contents(p, "public")
           /\ pc'[p] > 4 => Fits(p)'
<1> DEFINE m == mem[p]
<1>1. /\ m \in Memory /\ mem \in [Proc -> Memory] /\ ControlOK
      /\ pc[p] \in 1..9 /\ Step(p) = Prove[pc[p]] /\ pc'[p] = pc[p] + 1
    BY ProveSteps DEF IInv, TypeOK, MemoryOK, Proceed, ControlOK
<1>2. pc[p] \in 1..7 BY <1>1, ProvePositions DEF Thinks, Sink
<1>3. ~ReadFails(p) BY DEF ReadFails, Stop, Proceed, Running, IInv, TypeOK, ControlOK
<1>4. CASE pc[p] \in {1, 2} BY <1>1, <1>4
<1>5. CASE pc[p] = 3
  <2>1. Step(p) = "read_public_data" BY <1>1, <1>5, ProvePositions
  <2>2. ReadPublicData(p)
    <3>1. ~Compute(p)
        BY <2>1 DEF Compute, PreprocessPublicData, PreprocessPrivateData, CreateLpcScheme,
           CanWriteToFile, GenerateProof, Verify, VerifyFromFile, At
    <3> QED BY <1>3, <2>1, <3>1 DEF Thinks, Read, ReadCircuit, ReadAssignmentTable,
           ReadAssignmentDescription, ReadCommonData, ReadCommitmentScheme, At
  <2>3. mem'[p] = [m EXCEPT !.public_preprocessed_data = Contents(p, "public")]
      BY <2>2, LoadEffect DEF ReadPublicData, IInv
  <2> QED BY <1>1, <1>5, <2>3 DEF Memory
<1>6. CASE pc[p] = 4
  <2>1. Step(p) = "read_commitment_scheme" BY <1>1, <1>6, ProvePositions
  <2>2. ReadCommitmentScheme(p)
    <3>1. ~Compute(p)
        BY <2>1 DEF Compute, PreprocessPublicData, PreprocessPrivateData, CreateLpcScheme,
           CanWriteToFile, GenerateProof, Verify, VerifyFromFile, At
    <3> QED BY <1>3, <2>1, <3>1 DEF Thinks, Read, ReadCircuit, ReadAssignmentTable,
           ReadAssignmentDescription, ReadCommonData, ReadPublicData, At
  <2>3. mem'[p] = [m EXCEPT !.lpc_scheme = Contents(p, "commitment")]
      BY <2>2, LoadEffect DEF ReadCommitmentScheme, IInv
  <2>4. PICK c : /\ Contents(p, "public") = [common |-> c]
                 /\ Contents(p, "commitment") = Scheme(c)
      BY <2>2, ReadTogether DEF ReadCommitmentScheme
  <2>5. m.public_preprocessed_data = Contents(p, "public") BY <1>6 DEF InputsFit
  <2>6. /\ mem'[p].public_preprocessed_data = [common |-> c]
        /\ mem'[p].lpc_scheme = Scheme(c)
      BY <1>1, <2>3, <2>4, <2>5 DEF Memory
  <2>7. Fits(p)' BY <2>6 DEF Fits
  <2> QED BY <1>1, <1>6, <2>7
<1>7. CASE pc[p] \in {5, 6, 7}
  <2>1. Step(p) \in {"preprocess_private_data", "can_write_to_file", "placeholder_prover"}
      BY <1>1, <1>7, ProvePositions
  <2>2. ~Read(p)
      BY <2>1 DEF Read, ReadCircuit, ReadAssignmentTable, ReadAssignmentDescription,
         ReadCommonData, ReadPublicData, ReadCommitmentScheme, ReadFails, At, Source
  <2>3. PreprocessPrivateData(p) \/ CanWriteToFile(p) \/ GenerateProof(p)
      BY <2>1, <2>2 DEF Thinks, Compute, PreprocessPublicData, CreateLpcScheme,
         Verify, VerifyFromFile, At
  <2>4. /\ mem'[p].public_preprocessed_data = m.public_preprocessed_data
        /\ mem'[p].lpc_scheme = m.lpc_scheme
    <3>1. CASE PreprocessPrivateData(p)
      <4>1. PICK x : mem'[p] = [m EXCEPT !.private_preprocessed_data = x,
                                         !.public_table = None, !.private_table = None]
          BY <3>1, LoadEffect DEF PreprocessPrivateData, IInv
      <4> QED BY <1>1, <4>1 DEF Memory
    <3>2. CASE CanWriteToFile(p) BY <3>2, LoadEffect DEF CanWriteToFile, IInv
    <3>3. CASE GenerateProof(p)
      <4>1. PICK x : mem'[p] = [m EXCEPT !.proof = x]
          BY <3>3, LoadEffect DEF GenerateProof, IInv
      <4> QED BY <1>1, <4>1 DEF Memory
    <3> QED BY <2>3, <3>1, <3>2, <3>3
  <2>5. Fits(p) BY <1>7 DEF InputsFit
  <2>6. Fits(p)' BY <2>4, <2>5 DEF Fits
  <2> QED BY <1>1, <1>7, <2>6
<1> QED BY <1>2, <1>4, <1>5, <1>6, <1>7

(* Once the scheme is there, a stage that writes keeps the two as they are.*)
LEMMA WriterInputs ==
    ASSUME IInv, NEW p \in Proc, InputsFit(p), Running(p), Step(p) \in DOMAIN Sink,
           inv' = inv, mem' = mem, Proceed(p) \/ Stop(p, "exit1") \/ Stop(p, "killed")
    PROVE  InputsFit(p)'
<1> SUFFICES ASSUME Running(p)' PROVE InputsFit(p)'
    BY DEF InputsFit
<1>1. ControlOK /\ pc[p] \in Nat BY DEF IInv, TypeOK, ControlOK
<1>2. Proceed(p) /\ pc'[p] = pc[p] + 1
    BY DEF Proceed, Stop, Running, IInv, TypeOK, ControlOK
<1>3. CASE inv[p].stage = "preprocess"
  <2>1. pc[p] \in {3, 5, 6, 7} BY <1>1, <1>3, PreprocessSteps, PreprocessPositions DEF Sink
  <2>2. pc[p] = 3 => mem[p].table_description = ShapeOf[mem[p].public_table]
      BY <1>3 DEF InputsFit
  <2>3. pc[p] > 4 => Fits(p)' BY <1>3 DEF InputsFit, Fits
  <2> QED BY <1>2, <1>3, <2>1, <2>2, <2>3 DEF InputsFit
<1>4. CASE inv[p].stage = "prove"
  <2>1. pc[p] \in {8, 9} BY <1>1, <1>4, ProveSteps, ProvePositions DEF Sink
  <2>2. Fits(p)' BY <1>4, <2>1 DEF InputsFit, Fits
  <2> QED BY <1>2, <1>4, <2>1, <2>2 DEF InputsFit
<1>5. CASE inv[p].stage \notin {"preprocess", "prove"} BY <1>5 DEF InputsFit
<1> QED BY <1>3, <1>4, <1>5

LEMMA InputsFitWork ==
    ASSUME IInv, AloneInv, OneByOne, SameArtifacts, NEW p \in Proc, Coherent(p), InputsFit(p),
           Work(p)
    PROVE  InputsFit(p)'
<1>1. Running(p) /\ (Thinks(p) \/ OpenOutput(p) \/ Completes(p) \/ Skips(p) \/ Garbage(p))
    BY LoneWork
<1>2. ControlOK /\ pc[p] \in Nat BY DEF IInv, TypeOK, ControlOK
<1>3. CASE Thinks(p) /\ Proceed(p)
  <2>1. inv' = inv /\ Contents(p, "public")' = Contents(p, "public")
      BY <1>3 DEF Thinks, Proceed, Contents, File
  <2> QED BY <1>1, <1>3, <2>1, PreprocessInputs, ProveInputs DEF InputsFit
<1>4. CASE Stop(p, "exit1") \/ Stop(p, "killed")
    BY <1>4 DEF Stop, InputsFit, Running, IInv, TypeOK, ControlOK
<1>5. CASE OpenOutput(p)
  <2>1. /\ Step(p) \in DOMAIN Sink /\ files' = [files EXCEPT ![Target(p)] = Torn]
        /\ UNCHANGED <<inv, status, pc, mem>>
      BY <1>5, Opened
  <2>2. CASE inv[p].stage = "prove"
    <3>1. Sink[Step(p)] # "public"
        BY <1>1, <1>2, <2>1, <2>2, ProveSteps, ProvePositions DEF Sink
    <3>2. inv[p].at["public"] \in Loc \cup {None} BY <1>1, <1>2, Paths DEF Role
    <3>3. \A l \in Loc : files'[<<"public", l>>] = files[<<"public", l>>]
        BY <1>1, <2>1, <3>1, OtherRole DEF IInv, Role
    <3>4. Contents(p, "public")' = Contents(p, "public")
        BY <2>1, <3>2, <3>3 DEF Contents, File
    <3> QED BY <2>1, <3>4, InputsFitFrame
  <2>3. CASE inv[p].stage # "prove" BY <2>1, <2>3 DEF InputsFit, Fits, Running
  <2> QED BY <2>2, <2>3
<1>6. CASE (Completes(p) \/ Skips(p) \/ Garbage(p)) /\ ~Stop(p, "exit1") /\ ~Stop(p, "killed")
  <2>1. Step(p) \in DOMAIN Sink /\ mem' = mem BY <1>6 DEF Completes, Skips, Garbage, Sink
  <2>2. Proceed(p) BY <1>6 DEF Completes, Skips, Garbage, Return
  <2> QED BY <1>1, <2>1, <2>2, WriterInputs DEF Proceed
<1> QED BY <1>1, <1>3, <1>4, <1>5, <1>6 DEF Thinks

(* No operation of a lone process but a save touches an artifact.          *)
LEMMA CoherentWork ==
    ASSUME IInv, AloneInv, OneByOne, SameArtifacts, NEW p \in Proc, Coherent(p), InputsFit(p),
           Work(p)
    PROVE  Coherent(p)'
<1>1. Running(p) /\ (Thinks(p) \/ OpenOutput(p) \/ Completes(p) \/ Skips(p) \/ Garbage(p))
    BY LoneWork
<1>2. ASSUME Step(p) \in DOMAIN Sink, Sink[Step(p)] \notin Artifacts,
             Completes(p) \/ Skips(p) \/ Garbage(p)
      PROVE  Coherent(p)'
  <2>1. fd'[p] = None /\ (Proceed(p) \/ Stop(p, "exit1") \/ Stop(p, "killed"))
      BY <1>2 DEF Completes, Skips, Garbage, Return
  <2>2. PICK v : files' = [files EXCEPT ![Target(p)] = v] \/ files' = files
      BY <1>2 DEF Completes, Skips, Garbage
  <2> QED BY <1>1, <1>2, <2>1, <2>2, CoherentOther
<1>3. CASE Completes(p) /\ Sink[Step(p)] \in Artifacts BY <1>1, <1>3, CoherentCompletes
<1>4. ASSUME Skips(p) PROVE Sink[Step(p)] \notin Artifacts
  <2>1. inv[p] \in Invocation[p] BY <1>1 DEF IInv, JobInv, Told, Running
  <2>2. ASSUME NEW r \in Artifacts PROVE inv[p].at[r] # None
      BY <2>1, OnePath, ProverAssumption
  <2> QED BY <1>4, <2>2 DEF Skips
<1>5. ASSUME Garbage(p) PROVE Step(p) \in DOMAIN Sink /\ Sink[Step(p)] \notin Artifacts
    BY <1>5 DEF Garbage, Sink, Artifacts
<1>6. CASE Skips(p) \/ Garbage(p) BY <1>2, <1>4, <1>5, <1>6 DEF Skips
<1>7. CASE Completes(p) /\ Sink[Step(p)] \notin Artifacts BY <1>2, <1>7 DEF Completes
<1> QED BY <1>1, <1>3, <1>6, <1>7, CoherentThinks, CoherentOpens

(* A user who replaces an input replaces nothing else.                     *)
LEMMA InputsOnly ==
    ASSUME TypeOK, ReplaceInput, NEW r \in Role \ {"circuit", "table"}, NEW l \in Loc
    PROVE  /\ files'[<<r, l>>] = files[<<r, l>>]
           /\ UNCHANGED <<inv, status, pc, mem, res, fd, faults>>
<1>1. <<r, l>> \in Role \X Loc BY DEF Role
<1>2. PICK m \in Loc : \/ \E c \in Circuit : files' = [files EXCEPT ![<<"circuit", m>>] = c]
                       \/ \E t \in Table : files' = [files EXCEPT ![<<"table", m>>] = t]
    BY DEF ReplaceInput
<1>3. <<r, l>> # <<"circuit", m>> /\ <<r, l>> # <<"table", m>> OBVIOUS
<1>4. files'[<<r, l>>] = files[<<r, l>>] BY <1>1, <1>2, <1>3 DEF TypeOK, FilesOK
<1> QED BY <1>4 DEF ReplaceInput, control

(* What a step leaves of it that touches no artifact, and no process.      *)
LEMMA CoherentFrame ==
    ASSUME TypeOK, OneByOne, SameArtifacts, NEW p \in Proc, Coherent(p), InputsFit(p),
           UNCHANGED <<inv, status, pc, mem, fd>>,
           \A r \in Artifacts : \A l \in Loc : files'[<<r, l>>] = files[<<r, l>>]
    PROVE  Coherent(p)' /\ InputsFit(p)'
<1>1. ASSUME NEW r \in Artifacts, Running(p) PROVE Contents(p, r)' = Contents(p, r)
  <2>1. inv[p].at[r] \in Loc \cup {None} BY <1>1, Paths DEF Artifacts, Role, TypeOK
  <2> QED BY <2>1 DEF Contents, File
<1>2. Saving(p)' <=> Saving(p) BY DEF Saving, Running
<1>3. ASSUME Saving(p), HasSaved(p) PROVE HasSaved(p)'
  <2>1. Running(p) BY <1>3 DEF Saving
  <2>2. \A r \in Artifacts : Payload(p, r)' = Payload(p, r) BY DEF Payload
  <2> QED BY <1>1, <1>3, <2>1, <2>2 DEF HasSaved, Artifacts
<1>4. ASSUME NEW i \in Invocation[p], Matching(i) PROVE Matching(i)'
  <2>1. \A r \in Artifacts : i.at[r] \in Loc BY OnePath
  <2>2. \A r \in Artifacts : files'[<<r, i.at[r]>>] = files[<<r, i.at[r]>>] BY <2>1
  <2> QED BY <1>4, <2>2, MatchingFrame
<1>5. Coherent(p)' BY <1>2, <1>3, <1>4 DEF Coherent
<1>6. InputsFit(p)'
  <2>1. CASE Running(p)
    <3>1. Contents(p, "public")' = Contents(p, "public") BY <1>1, <2>1 DEF Artifacts
    <3> QED BY <3>1, InputsFitFrame
  <2>2. CASE ~Running(p) BY <2>2 DEF InputsFit, Running
  <2> QED BY <2>1, <2>2
<1> QED BY <1>5, <1>6

LEMMA CoherentStart ==
    ASSUME IInv, NEW p \in Proc, Coherent(p), NEW i \in Invocation[p], Start(p, i)
    PROVE  Coherent(p)' /\ InputsFit(p)'
<1>1. pc'[p] = 1 /\ files' = files /\ ~Running(p)
    BY DEF Start, IInv, TypeOK, ControlOK
<1>2. ~Saving(p) BY <1>1 DEF Saving
<1>3. \A s : SavesAt(s) \in {5, 10} BY DEF SavesAt
<1>4. ~Saving(p)' BY <1>1, <1>3 DEF Saving
<1>5. \A j \in Invocation[p] : Matching(j)' BY <1>1, <1>2 DEF Coherent, Matching, Artifact
<1>6. Coherent(p)' BY <1>4, <1>5 DEF Coherent
<1>7. InputsFit(p)' BY <1>1 DEF InputsFit
<1> QED BY <1>6, <1>7

LEMMA CoherentStep ==
    ASSUME IInv, AloneInv, OneByOne, SameArtifacts, CoherentInv, [Next]_vars
    PROVE  CoherentInv'
<1> SUFFICES ASSUME faults' = 0, NEW p \in Proc PROVE (Coherent(p) /\ InputsFit(p))'
    BY DEF CoherentInv
<1>1. /\ faults = 0
      /\ \/ UNCHANGED vars \/ ReplaceInput
         \/ \E q \in Proc : Work(q) \/ \E i \in Invocation[q] : Start(q, i)
    BY FaultFree DEF IInv
<1>2. Coherent(p) /\ InputsFit(p) BY <1>1 DEF CoherentInv
<1>3. \A q \in Proc : q = p BY DEF OneByOne
<1>4. CASE Work(p) BY <1>2, <1>4, CoherentWork, InputsFitWork
<1>5. ASSUME NEW i \in Invocation[p], Start(p, i) PROVE (Coherent(p) /\ InputsFit(p))'
    BY <1>2, <1>5, CoherentStart
<1>6. CASE ReplaceInput
  <2>1. UNCHANGED <<inv, status, pc, mem, fd>> BY <1>6 DEF ReplaceInput, control
  <2>2. \A r \in Artifacts : \A l \in Loc : files'[<<r, l>>] = files[<<r, l>>]
      BY <1>6, InputsOnly DEF IInv, Artifacts, Role
  <2> QED BY <1>2, <2>1, <2>2, CoherentFrame DEF IInv
<1>7. CASE UNCHANGED vars BY <1>2, <1>7, CoherentFrame DEF vars, IInv
<1> QED BY <1>1, <1>3, <1>4, <1>5, <1>6, <1>7

LEMMA CoherentInit == Init /\ OneByOne /\ SameArtifacts => CoherentInv
<1> SUFFICES ASSUME Init, OneByOne, SameArtifacts, NEW p \in Proc
             PROVE  Coherent(p) /\ InputsFit(p)
    BY DEF CoherentInv
<1>1. ~Running(p) BY DEF Init, Running
<1>2. ASSUME NEW i \in Invocation[p], NEW r \in Artifacts PROVE Artifact(i, r) = Absent
  <2>1. i.at[r] \in Loc BY OnePath
  <2>2. <<r, i.at[r]>> \in Role \X Loc BY <2>1 DEF Artifacts, Role
  <2>3. r # "circuit" /\ r # "table" BY DEF Artifacts
  <2> QED BY <2>2, <2>3 DEF Init, Artifact
<1>3. \A i \in Invocation[p] : Matching(i) BY <1>2 DEF Matching, Artifacts
<1> QED BY <1>1, <1>3 DEF Coherent, Saving, InputsFit

(* What the three artifacts hold between runs.                             *)
LEMMA CoherentMeansCoherent == IInv /\ CoherentInv => ArtifactsCoherent
<1> SUFFICES ASSUME CoherentInv, SameArtifacts, faults = 0, \A p \in Proc : ~Running(p),
                    NEW q \in Proc, NEW i \in Invocation[q]
             PROVE  LET artifact(r) == files[<<r, i.at[r]>>]
                        c == artifact("common")
                    IN IF c = Absent
                       THEN artifact("public") = Absent /\ artifact("commitment") = Absent
                       ELSE /\ artifact("public") = [common |-> c]
                            /\ artifact("commitment") =
                                  WithFixedBatch(NewLpcScheme(c.shape, c.fri), c.circuit, c.shape)
    BY DEF ArtifactsCoherent, SameArtifacts
<1>1. Coherent(q) /\ ~Saving(q) BY DEF CoherentInv, Saving
<1>2. Matching(i) BY <1>1 DEF Coherent
<1> QED BY <1>2 DEF Matching, Artifact, Scheme

LEMMA AloneCorrect ==
    ASSUME OneByOne
    PROVE  Spec => [](IInv /\ AloneInv)
<1>1. Init => AloneInv BY DEF Init, AloneInv
<1>2. IInv /\ AloneInv /\ [Next]_vars => AloneInv' BY AloneStep
<1>3. Spec => []IInv BY TypeCorrect, DataCorrect, JobInvCorrect, PTL DEF IInv
<1> QED BY <1>1, <1>2, <1>3, PTL DEF Spec

(* Without failures the three artifacts of preprocessing always stem from  *)
(* one run, as long as all runs name the same files and none runs beside   *)
(* another one: the saves of a run that comes so far all succeed.          *)
THEOREM ArtifactsStayTogether == Spec => []ArtifactsCoherent
<1>1. CASE OneByOne /\ SameArtifacts
  <2>1. Init => CoherentInv BY <1>1, CoherentInit
  <2>2. IInv /\ AloneInv /\ CoherentInv /\ [Next]_vars => CoherentInv' BY <1>1, CoherentStep
  <2>3. Spec => [](IInv /\ AloneInv) BY <1>1, AloneCorrect
  <2> QED BY <2>1, <2>2, <2>3, CoherentMeansCoherent, PTL DEF Spec
<1>2. CASE ~(OneByOne /\ SameArtifacts)
  <2>1. ArtifactsCoherent BY <1>2 DEF ArtifactsCoherent, SameArtifacts
  <2> QED BY <2>1, PTL
<1> QED BY <1>1, <1>2

-----------------------------------------------------------------------------
(* The JSON file.                                                          *)

(* The action behind an operation that does not write and succeeds.        *)
LEMMA Dispatch ==
    ASSUME IInv, NEW p \in Proc, Running(p), Thinks(p), Proceed(p)
    PROVE  /\ Step(p) = "read_circuit" => ReadCircuit(p)
           /\ Step(p) = "read_assignment_table" => ReadAssignmentTable(p)
           /\ Step(p) = "read_assignment_description" => ReadAssignmentDescription(p)
           /\ Step(p) = "read_common_data" => ReadCommonData(p)
           /\ Step(p) = "read_public_data" => ReadPublicData(p)
           /\ Step(p) = "read_commitment_scheme" => ReadCommitmentScheme(p)
           /\ Step(p) = "preprocess_public_data" => PreprocessPublicData(p)
           /\ Step(p) = "preprocess_private_data" => PreprocessPrivateData(p)
           /\ Step(p) = "create_lpc_scheme" => CreateLpcScheme(p)
           /\ Step(p) = "can_write_to_file" => CanWriteToFile(p)
           /\ Step(p) = "placeholder_prover" => GenerateProof(p)
           /\ Step(p) = "verify" => Verify(p)
           /\ Step(p) = "verify_from_file" => VerifyFromFile(p)
<1>1. ~ReadFails(p) BY DEF ReadFails, Stop, Proceed, Running, IInv, TypeOK, ControlOK
<1>2. CASE Read(p)
    BY <1>1, <1>2 DEF Read, ReadCircuit, ReadAssignmentTable, ReadAssignmentDescription,
       ReadCommonData, ReadPublicData, ReadCommitmentScheme, At
<1>3. CASE Compute(p)
    BY <1>3 DEF Compute, PreprocessPublicData, PreprocessPrivateData, CreateLpcScheme,
       CanWriteToFile, GenerateProof, Verify, VerifyFromFile, At
<1> QED BY <1>2, <1>3 DEF Thinks

(* The public inputs p has set aside are those of the table it proves.     *)
InputsOf(p) ==
    Running(p) =>
        /\ inv[p].stage = "all" =>
              /\ pc[p] = 4 => mem[p].public_inputs = mem[p].private_table
              /\ pc[p] > 4 => mem[p].public_inputs = mem[p].private_preprocessed_data.table
        /\ inv[p].stage = "prove" => mem[p].public_inputs = None

(* p has begun to replace its proof file and has not yet replaced the JSON *)
(* file.                                                                   *)
Publishing(p) ==
    /\ Running(p) /\ Makes(inv[p].stage)
    /\ \/ pc[p] = 9
       \/ pc[p] = 8 /\ fd[p] # None

(* The JSON file at l belongs to the proof file.                           *)
Pair(l) ==
    LET json == files[<<"json", l>>]
        proof == files[<<"proof", l>>]
    IN /\ json = Absent <=> proof = Absent
       /\ json \notin {Absent, Torn} =>
             json.proof = proof /\ json.inputs \in {proof.table, None}

Paired(p) ==
    \A l \in Loc :
        IF Publishing(p) /\ inv[p].at["proof"] = l
        THEN pc[p] = 9 => files[<<"proof", l>>] = mem[p].proof
        ELSE Pair(l)

PairedInv == faults = 0 => \A p \in Proc : InputsOf(p) /\ Paired(p)

SamePlace == \A p \in Proc : \A i \in Invocation[p] : i.at["json"] = i.at["proof"]

LEMMA AllInputs ==
    ASSUME IInv, NEW p \in Proc, InputsOf(p), Running(p), inv[p].stage = "all",
           Thinks(p), Proceed(p)
    PROVE  /\ pc'[p] = 4 => mem'[p].public_inputs = mem'[p].private_table
           /\ pc'[p] > 4 => mem'[p].public_inputs = mem'[p].private_preprocessed_data.table
<1> DEFINE m == mem[p]
<1>1. /\ m \in Memory /\ mem \in [Proc -> Memory] /\ TypeOK
      /\ pc[p] \in 1..12 /\ Step(p) = All[pc[p]] /\ pc'[p] = pc[p] + 1
    BY AllSteps DEF IInv, TypeOK, MemoryOK, Proceed, ControlOK
<1>2. pc[p] \in 1..7 BY <1>1, AllPositions DEF Thinks, Sink
<1>3. CASE pc[p] \in {1, 2} BY <1>1, <1>3
<1>4. CASE pc[p] = 3
  <2>1. PreprocessPublicData(p) BY <1>1, <1>4, AllPositions, Dispatch
  <2> DEFINE scheme == NewLpcScheme(m.table_description, inv[p].fri)
             lpc == WithFixedBatch(scheme, m.constraint_system, m.table_description)
             public == PublicPreprocess(m.constraint_system, m.public_table, scheme)
  <2>2. mem'[p] = [m EXCEPT !.public_inputs = m.public_table, !.lpc_scheme = lpc,
                            !.public_preprocessed_data = public, !.public_table = None]
      BY <2>1, LoadEffect DEF PreprocessPublicData, IInv
  <2> HIDE DEF lpc, public
  <2>3. m.public_table = m.private_table BY <1>4 DEF IInv, DataInv, StageData, AllData
  <2> QED BY <1>1, <1>4, <2>2, <2>3 DEF Memory
<1>5. CASE pc[p] = 4
  <2>1. PreprocessPrivateData(p) BY <1>1, <1>5, AllPositions, Dispatch
  <2>2. PICK x : /\ x.table = m.private_table
                 /\ mem'[p] = [m EXCEPT !.private_preprocessed_data = x,
                                        !.public_table = None, !.private_table = None]
      BY <2>1, LoadEffect DEF PreprocessPrivateData, PrivatePreprocess, IInv
  <2>3. m.public_inputs = m.private_table BY <1>5 DEF InputsOf
  <2> QED BY <1>1, <1>5, <2>2, <2>3 DEF Memory
<1>6. CASE pc[p] \in {5, 6, 7}
  <2>1. CanWriteToFile(p) \/ GenerateProof(p) \/ Verify(p)
      BY <1>1, <1>6, AllPositions, Dispatch
  <2>2. \/ mem'[p] = m
        \/ \E x : mem'[p] = [m EXCEPT !.proof = x]
      BY <1>1, <2>1, LoadEffect DEF CanWriteToFile, GenerateProof, Verify, Conclude
  <2>3. /\ mem'[p].public_inputs = m.public_inputs
        /\ mem'[p].private_preprocessed_data = m.private_preprocessed_data
      BY <1>1, <2>2 DEF Memory
  <2>4. m.public_inputs = m.private_preprocessed_data.table BY <1>6 DEF InputsOf
  <2> QED BY <1>1, <1>6, <2>3, <2>4
<1> QED BY <1>2, <1>3, <1>4, <1>5, <1>6

LEMMA ProveHasNoInputs ==
    ASSUME IInv, NEW p \in Proc, InputsOf(p), Running(p), inv[p].stage = "prove",
           Thinks(p), Proceed(p)
    PROVE  mem'[p].public_inputs = None
<1> DEFINE m == mem[p]
<1>1. /\ m \in Memory /\ mem \in [Proc -> Memory] /\ TypeOK
      /\ pc[p] \in 1..9 /\ Step(p) = Prove[pc[p]]
    BY ProveSteps DEF IInv, TypeOK, MemoryOK, Proceed, ControlOK
<1>2. pc[p] \in 1..7 BY <1>1, ProvePositions DEF Thinks, Sink
<1>3. \/ ReadCircuit(p) \/ ReadAssignmentTable(p) \/ ReadPublicData(p)
      \/ ReadCommitmentScheme(p) \/ PreprocessPrivateData(p) \/ CanWriteToFile(p)
      \/ GenerateProof(p)
    BY <1>1, <1>2, ProvePositions, Dispatch
<1>4. m.public_inputs = None BY DEF InputsOf
<1>5. CASE ReadCircuit(p) \/ ReadPublicData(p) \/ ReadCommitmentScheme(p)
  <2>1. PICK x : \/ mem'[p] = [m EXCEPT !.constraint_system = x]
                 \/ mem'[p] = [m EXCEPT !.public_preprocessed_data = x]
                 \/ mem'[p] = [m EXCEPT !.lpc_scheme = x]
      BY <1>1, <1>5, LoadEffect DEF ReadCircuit, ReadPublicData, ReadCommitmentScheme
  <2> QED BY <1>1, <1>4, <2>1 DEF Memory
<1>6. CASE ReadAssignmentTable(p)
  <2>1. PICK t : mem'[p] = [m EXCEPT !.table_description = ShapeOf[t],
                                      !.public_table = t, !.private_table = t]
      BY <1>6, LoadEffect DEF ReadAssignmentTable, IInv
  <2> QED BY <1>1, <1>4, <2>1 DEF Memory
<1>7. CASE PreprocessPrivateData(p)
  <2>1. PICK x : mem'[p] = [m EXCEPT !.private_preprocessed_data = x,
                                     !.public_table = None, !.private_table = None]
      BY <1>7, LoadEffect DEF PreprocessPrivateData, IInv
  <2> QED BY <1>1, <1>4, <2>1 DEF Memory
<1>8. CASE CanWriteToFile(p) \/ GenerateProof(p)
  <2>1. mem'[p] = m \/ \E x : mem'[p] = [m EXCEPT !.proof = x]
      BY <1>8, LoadEffect DEF CanWriteToFile, GenerateProof, IInv
  <2> QED BY <1>1, <1>4, <2>1 DEF Memory
<1> QED BY <1>3, <1>5, <1>6, <1>7, <1>8

LEMMA InputsOfWork ==
    ASSUME IInv, AloneInv, NEW p \in Proc, InputsOf(p), Work(p)
    PROVE  InputsOf(p)'
<1>1. Running(p) /\ (Thinks(p) \/ OpenOutput(p) \/ Completes(p) \/ Skips(p) \/ Garbage(p))
    BY LoneWork
<1>2. ControlOK /\ pc[p] \in Nat BY DEF IInv, TypeOK, ControlOK
<1>3. CASE Thinks(p) /\ Proceed(p)
    BY <1>1, <1>3, AllInputs, ProveHasNoInputs DEF InputsOf, Proceed
<1>4. CASE Stop(p, "exit1") \/ Stop(p, "killed")
    BY <1>4 DEF Stop, InputsOf, Running, IInv, TypeOK, ControlOK
<1>5. CASE OpenOutput(p)
  <2>1. UNCHANGED <<inv, status, pc, mem>> BY <1>5, Opened
  <2> QED BY <2>1 DEF InputsOf, Running
<1>6. CASE (Completes(p) \/ Skips(p) \/ Garbage(p)) /\ ~Stop(p, "exit1") /\ ~Stop(p, "killed")
  <2>1. Step(p) \in DOMAIN Sink /\ mem' = mem BY <1>6 DEF Completes, Skips, Garbage, Sink
  <2>2. inv' = inv /\ pc'[p] = pc[p] + 1
      BY <1>6 DEF Completes, Skips, Garbage, Return, Proceed, IInv, TypeOK, ControlOK
  <2>3. inv[p].stage = "all" => pc[p] > 7
      BY <1>1, <1>2, <2>1, AllSteps, AllPositions DEF Sink
  <2> QED BY <1>1, <1>2, <2>1, <2>2, <2>3 DEF InputsOf
<1> QED BY <1>1, <1>3, <1>4, <1>5, <1>6 DEF Thinks

LEMMA JsonSteps ==
    ASSUME NEW p \in Proc, ControlOK, Running(p)
    PROVE  /\ Step(p) = "write_json" <=> Makes(inv[p].stage) /\ pc[p] = 9
           /\ Step(p) = "write_proof" <=> Makes(inv[p].stage) /\ pc[p] = 8
           /\ Makes(inv[p].stage) => Len(Chain(p)) \in 9..12
           /\ Makes(inv[p].stage) /\ pc[p] < 8 => Step(p) \notin DOMAIN Sink
           /\ pc[p] \in Nat
<1>1. Step(p) = "write_json" <=> Makes(inv[p].stage) /\ pc[p] = 9
  <2>1. CASE inv[p].stage = "all" BY <2>1, AllSteps, AllPositions DEF Makes
  <2>2. CASE inv[p].stage = "prove" BY <2>2, ProveSteps, ProvePositions DEF Makes
  <2>3. CASE inv[p].stage = "preprocess"
      BY <2>3, PreprocessSteps, PreprocessPositions DEF Makes
  <2>4. CASE inv[p].stage = "verify" BY <2>4, VerifySteps, VerifyPositions DEF Makes
  <2> QED BY <2>1, <2>2, <2>3, <2>4, StagesOfRunning
<1> QED BY <1>1, MakerSteps DEF ControlOK

(* The proof in memory is one, and its inputs are those set aside.         *)
LEMMA ProofInMemory ==
    ASSUME IInv, NEW p \in Proc, InputsOf(p), Running(p), Makes(inv[p].stage), pc[p] > 7
    PROVE  /\ mem[p].proof \in Proof /\ mem[p].proof \notin {Absent, Torn}
           /\ mem[p].public_inputs \in {mem[p].proof.table, None}
           /\ mem[p].public_inputs \in Table \cup {None}
<1>1. mem[p] \in Memory BY DEF IInv, TypeOK, MemoryOK
<1>2. mem[p].proof # None BY ProofThere DEF IInv
<1>3. mem[p].proof \in Proof /\ mem[p].public_inputs \in Table \cup {None}
    BY <1>1, <1>2 DEF Memory
<1>4. mem[p].proof \notin {Absent, Torn}
    BY <1>3, ProverAssumption DEF AllFileData, FileData, Role
<1>5. mem[p].public_inputs \in {mem[p].proof.table, None}
  <2>1. CASE inv[p].stage = "all"
    <3>1. pc[p] \in Nat /\ AllData(p)
        BY <2>1 DEF IInv, TypeOK, ControlOK, DataInv, StageData
    <3>2. mem[p].proof = PlaceholderProve(mem[p].public_preprocessed_data,
              mem[p].private_preprocessed_data, mem[p].table_description,
              mem[p].constraint_system, mem[p].lpc_scheme)
        BY <3>1 DEF AllData
    <3>3. mem[p].proof.table = mem[p].private_preprocessed_data.table
        BY <3>2 DEF PlaceholderProve
    <3> QED BY <2>1, <3>1, <3>3 DEF InputsOf
  <2>2. CASE inv[p].stage = "prove" BY <2>2 DEF InputsOf
  <2> QED BY <2>1, <2>2 DEF Makes
<1> QED BY <1>3, <1>4, <1>5

LEMMA PairFrame ==
    ASSUME NEW l \in Loc, Pair(l), files'[<<"json", l>>] = files[<<"json", l>>],
           files'[<<"proof", l>>] = files[<<"proof", l>>]
    PROVE  Pair(l)'
BY DEF Pair

(* What becomes of the pairs when a file is replaced.                      *)
LEMMA PairsElsewhere ==
    ASSUME IInv, SamePlace, NEW p \in Proc, Running(p), Step(p) \in DOMAIN Sink, NEW v,
           files' = [files EXCEPT ![Target(p)] = v] \/ files' = files,
           NEW l \in Loc, Pair(l),
           Step(p) \in {"write_proof", "write_json"} => inv[p].at["proof"] # l
    PROVE  Pair(l)'
<1>1. inv[p].at["json"] = inv[p].at["proof"]
    BY DEF IInv, JobInv, Told, Running, SamePlace
<1>2. Target(p) # <<"json", l>> /\ Target(p) # <<"proof", l>>
    BY <1>1 DEF Target, File, Sink
<1>3. <<"json", l>> \in Role \X Loc /\ <<"proof", l>> \in Role \X Loc BY DEF Role
<1>4. /\ files'[<<"json", l>>] = files[<<"json", l>>]
      /\ files'[<<"proof", l>>] = files[<<"proof", l>>]
    BY <1>2, <1>3 DEF IInv, TypeOK, FilesOK
<1> QED BY <1>4, PairFrame

LEMMA PairedOpens ==
    ASSUME IInv, SamePlace, NEW p \in Proc, Paired(p), OpenOutput(p)
    PROVE  Paired(p)'
<1>1. /\ Running(p) /\ Step(p) \in DOMAIN Sink /\ fd[p] = None /\ fd'[p] # None
      /\ files' = [files EXCEPT ![Target(p)] = Torn] /\ ControlOK
      /\ UNCHANGED <<inv, status, pc, mem>>
    BY Opened DEF IInv, TypeOK
<1>2. Publishing(p) <=> Makes(inv[p].stage) /\ pc[p] = 9 BY <1>1 DEF Publishing
<1>3. Publishing(p)' <=> Makes(inv[p].stage) /\ pc[p] \in {8, 9}
    BY <1>1 DEF Publishing, Running
<1> SUFFICES ASSUME NEW l \in Loc
             PROVE  IF Publishing(p)' /\ inv[p].at["proof"] = l
                    THEN pc[p] = 9 => files'[<<"proof", l>>] = mem[p].proof
                    ELSE Pair(l)'
    BY <1>1 DEF Paired
<1>4. CASE Publishing(p)' /\ inv[p].at["proof"] = l
  <2>1. ASSUME pc[p] = 9 PROVE files'[<<"proof", l>>] = mem[p].proof
    <3>1. Publishing(p) /\ Step(p) = "write_json" BY <1>1, <1>2, <1>3, <1>4, <2>1, JsonSteps
    <3>2. files[<<"proof", l>>] = mem[p].proof BY <1>4, <2>1, <3>1 DEF Paired
    <3>3. Sink[Step(p)] # "proof" BY <3>1 DEF Sink
    <3>4. files'[<<"proof", l>>] = files[<<"proof", l>>]
        BY <1>1, <3>3, OtherRole DEF IInv, Role
    <3> QED BY <3>2, <3>4
  <2> QED BY <1>4, <2>1
<1>5. CASE ~(Publishing(p)' /\ inv[p].at["proof"] = l)
  <2>1. Pair(l) BY <1>2, <1>3, <1>5 DEF Paired
  <2>2. Step(p) \in {"write_proof", "write_json"} => inv[p].at["proof"] # l
      BY <1>1, <1>3, <1>5, JsonSteps
  <2> QED BY <1>1, <1>5, <2>1, <2>2, PairsElsewhere
<1> QED BY <1>4, <1>5

(* An operation ends that writes neither of the two files.                 *)
LEMMA PairedOther ==
    ASSUME IInv, SamePlace, NEW p \in Proc, Paired(p), Running(p), fd'[p] = None,
           Proceed(p) \/ Stop(p, "exit1") \/ Stop(p, "killed"),
           NEW v, files' = [files EXCEPT ![Target(p)] = v] \/ files' = files,
           Step(p) \in DOMAIN Sink \/ files' = files,
           Step(p) \in {"write_proof", "write_json"} =>
               files' = files /\ inv[p].at["proof"] = None
    PROVE  Paired(p)'
<1>1. ControlOK /\ pc[p] \in Nat /\ inv' = inv /\ pc'[p] \in {pc[p], pc[p] + 1}
    BY DEF Proceed, Stop, IInv, TypeOK, ControlOK
<1>2. Step(p) \in {"write_proof", "write_json"} \/ ~Publishing(p)
    BY <1>1, JsonSteps DEF Publishing
<1>3. ASSUME NEW l \in Loc, Publishing(p)' PROVE inv[p].at["proof"] # l
  <2>1. Makes(inv[p].stage) /\ pc'[p] = 9 BY <1>1, <1>3 DEF Publishing
  <2>2. pc[p] = 8 \/ pc[p] = 9 BY <1>1, <2>1
  <2>3. inv[p].at["proof"] = None BY <1>1, <2>1, <2>2, JsonSteps
  <2> QED BY <2>3, ProverAssumption
<1>4. ASSUME NEW l \in Loc PROVE Pair(l)'
  <2>1. Publishing(p) => inv[p].at["proof"] # l BY <1>2, ProverAssumption
  <2>2. Pair(l) BY <2>1 DEF Paired
  <2>3. CASE files' = files BY <2>2, <2>3, PairFrame
  <2>4. CASE files' # files BY <2>2, <2>4, PairsElsewhere
  <2> QED BY <2>3, <2>4
<1> QED BY <1>1, <1>3, <1>4 DEF Paired

(* The proof file is complete; the JSON file is next.                      *)
LEMMA PairedProof ==
    ASSUME IInv, SamePlace, NEW p \in Proc, Paired(p), Running(p), Completes(p),
           Step(p) = "write_proof"
    PROVE  Paired(p)'
<1>1. /\ ControlOK /\ pc[p] = 8 /\ Makes(inv[p].stage) /\ Len(Chain(p)) \in 9..12
      /\ Step(p) \in DOMAIN Sink /\ Sink[Step(p)] = "proof"
      /\ fd[p] # None /\ fd'[p] = None /\ mem' = mem
      /\ files' = [files EXCEPT ![Target(p)] = mem[p].proof]
    BY JsonSteps DEF IInv, TypeOK, Completes, Sink, Payload
<1>2. Proceed(p) BY DEF Completes, Return
<1>3. inv' = inv /\ pc'[p] = 9 /\ status'[p] = "running"
  <2>1. pc[p] # Len(Chain(p)) BY <1>1
  <2> QED BY <1>1, <1>2, <2>1 DEF Proceed, Running, IInv, TypeOK, ControlOK
<1>4. Publishing(p) /\ Publishing(p)' BY <1>1, <1>3 DEF Publishing, Running
<1>5. Target(p) = <<"proof", inv[p].at["proof"]>> BY <1>1 DEF Target, File
<1> SUFFICES ASSUME NEW l \in Loc
             PROVE  IF inv[p].at["proof"] = l THEN files'[<<"proof", l>>] = mem[p].proof
                    ELSE Pair(l)'
    BY <1>1, <1>3, <1>4 DEF Paired
<1>6. CASE inv[p].at["proof"] = l
  <2>1. <<"proof", l>> \in Role \X Loc BY DEF Role
  <2> QED BY <1>1, <1>5, <1>6, <2>1 DEF IInv, TypeOK, FilesOK
<1>7. CASE inv[p].at["proof"] # l
  <2>1. Pair(l) BY <1>7 DEF Paired
  <2> QED BY <1>1, <1>7, <2>1, PairsElsewhere
<1> QED BY <1>6, <1>7

(* The JSON file, complete or not.                                         *)
LEMMA PairedJson ==
    ASSUME IInv, SamePlace, NEW p \in Proc, Paired(p), InputsOf(p), Running(p),
           Step(p) = "write_json", fd'[p] = None,
           Proceed(p) \/ Stop(p, "exit1") \/ Stop(p, "killed"),
           NEW v, files' = [files EXCEPT ![Target(p)] = v],
           \/ v = Torn
           \/ \E x \in {mem[p].public_inputs, None} : v = [proof |-> mem[p].proof, inputs |-> x]
    PROVE  Paired(p)'
<1>1. /\ ControlOK /\ pc[p] = 9 /\ Makes(inv[p].stage) /\ TypeOK
      /\ Step(p) \in DOMAIN Sink /\ Sink[Step(p)] = "json"
    BY JsonSteps DEF IInv, TypeOK, Sink
<1>2. inv' = inv /\ (Running(p)' => pc'[p] = 10)
    BY <1>1 DEF Proceed, Stop, Running, TypeOK, ControlOK
<1>3. Publishing(p) /\ ~Publishing(p)' BY <1>1, <1>2 DEF Publishing
<1> SUFFICES ASSUME NEW l \in Loc PROVE Pair(l)'
    BY <1>3 DEF Paired
<1>4. CASE inv[p].at["proof"] # l
  <2>1. Pair(l) BY <1>4 DEF Paired
  <2> QED BY <1>1, <1>4, <2>1, PairsElsewhere
<1>5. CASE inv[p].at["proof"] = l
  <2>1. Target(p) = <<"json", l>>
    <3>1. inv[p].at["json"] = l BY <1>5 DEF SamePlace, IInv, JobInv, Told, Running
    <3> QED BY <1>1, <3>1 DEF Target, File
  <2>2. files'[<<"json", l>>] = v BY <1>1, <2>1 DEF TypeOK, FilesOK, Role
  <2>3. files'[<<"proof", l>>] = mem[p].proof
    <3>1. files[<<"proof", l>>] = mem[p].proof BY <1>1, <1>3, <1>5 DEF Paired
    <3>2. files'[<<"proof", l>>] = files[<<"proof", l>>]
        BY <1>1, OtherRole DEF Role
    <3> QED BY <3>1, <3>2
  <2>4. /\ mem[p].proof \in Proof /\ mem[p].proof \notin {Absent, Torn}
        /\ mem[p].public_inputs \in {mem[p].proof.table, None}
        /\ mem[p].public_inputs \in Table \cup {None}
      BY <1>1, ProofInMemory
  <2>5. v # Absent
    <3>1. CASE v = Torn BY <3>1, ProverAssumption
    <3>2. ASSUME NEW x \in {mem[p].public_inputs, None},
                 v = [proof |-> mem[p].proof, inputs |-> x]
          PROVE  v # Absent
      <4>1. v \in JsonInput BY <2>4, <3>2 DEF JsonInput
      <4> QED BY <4>1, ProverAssumption DEF AllFileData, FileData, Role
    <3> QED BY <3>1, <3>2
  <2>6. v \notin {Absent, Torn} =>
            v.proof = mem[p].proof /\ v.inputs \in {mem[p].proof.table, None}
      BY <2>4
  <2> QED BY <2>2, <2>3, <2>4, <2>5, <2>6 DEF Pair
<1> QED BY <1>4, <1>5

LEMMA PairedWork ==
    ASSUME IInv, AloneInv, OneByOne, SamePlace, NEW p \in Proc, Paired(p), InputsOf(p), Work(p)
    PROVE  Paired(p)'
<1>1. Running(p) /\ (Thinks(p) \/ OpenOutput(p) \/ Completes(p) \/ Skips(p) \/ Garbage(p))
    BY LoneWork
<1>2. CASE Thinks(p)
  <2>1. Step(p) \notin {"write_proof", "write_json"} BY <1>2 DEF Thinks, Sink
  <2> QED BY <1>1, <1>2, <2>1, PairedOther DEF Thinks
<1>3. ASSUME Completes(p) \/ Skips(p)
      PROVE  /\ Step(p) \in DOMAIN Sink /\ fd'[p] = None
             /\ Proceed(p) \/ Stop(p, "exit1") \/ Stop(p, "killed")
    BY <1>3 DEF Completes, Skips, Return
<1>4. CASE Completes(p) /\ Step(p) \notin {"write_proof", "write_json"}
    BY <1>1, <1>3, <1>4, PairedOther DEF Completes
<1>5. CASE Completes(p) /\ Step(p) = "write_proof" BY <1>1, <1>5, PairedProof
<1>6. CASE Completes(p) /\ Step(p) = "write_json"
  <2>1. Payload(p, Sink[Step(p)]) = [proof |-> mem[p].proof, inputs |-> mem[p].public_inputs]
      BY <1>6 DEF Payload, Sink
  <2>2. files' = [files EXCEPT ![Target(p)] =
                     [proof |-> mem[p].proof, inputs |-> mem[p].public_inputs]]
      BY <1>6, <2>1 DEF Completes
  <2> QED BY <1>1, <1>3, <1>6, <2>2, PairedJson
<1>7. CASE Skips(p)
  <2>1. Step(p) \in {"write_proof", "write_json"} => inv[p].at["proof"] = None
    <3>1. inv[p].at["json"] = inv[p].at["proof"]
        BY <1>1 DEF SamePlace, IInv, JobInv, Told, Running
    <3> QED BY <1>7, <3>1 DEF Skips, Sink
  <2> QED BY <1>1, <1>3, <1>7, <2>1, PairedOther DEF Skips
<1>8. CASE Garbage(p)
  <2>1. Step(p) = "write_json" /\ fd'[p] = None BY <1>8 DEF Garbage
  <2>2. CASE Stop(p, "killed") /\ files' = [files EXCEPT ![Target(p)] = Torn]
      BY <1>1, <2>1, <2>2, PairedJson
  <2>3. CASE /\ Return(p, TRUE)
             /\ files' = [files EXCEPT ![Target(p)] = [proof |-> mem[p].proof, inputs |-> None]]
    <3>1. Proceed(p) \/ Stop(p, "exit1") BY <2>3 DEF Return
    <3> QED BY <1>1, <2>1, <2>3, <3>1, PairedJson
  <2> QED BY <1>8, <2>2, <2>3 DEF Garbage
<1> QED BY <1>1, <1>2, <1>4, <1>5, <1>6, <1>7, <1>8, PairedOpens

LEMMA PairedStep ==
    ASSUME IInv, AloneInv, OneByOne, SamePlace, PairedInv, [Next]_vars
    PROVE  PairedInv'
<1> SUFFICES ASSUME faults' = 0, NEW p \in Proc PROVE (InputsOf(p) /\ Paired(p))'
    BY DEF PairedInv
<1>1. /\ faults = 0
      /\ \/ UNCHANGED vars \/ ReplaceInput
         \/ \E q \in Proc : Work(q) \/ \E i \in Invocation[q] : Start(q, i)
    BY FaultFree DEF IInv
<1>2. Paired(p) /\ InputsOf(p) BY <1>1 DEF PairedInv
<1>3. \A q \in Proc : q = p BY DEF OneByOne
<1>4. CASE Work(p) BY <1>2, <1>4, PairedWork, InputsOfWork
<1>5. ASSUME NEW i \in Invocation[p], Start(p, i) PROVE (InputsOf(p) /\ Paired(p))'
  <2>1. /\ ~Running(p) /\ files' = files /\ pc'[p] = 1 /\ mem'[p] = FreshProver
      BY <1>5 DEF Start, IInv, TypeOK, ControlOK, MemoryOK
  <2>2. ~Publishing(p) /\ ~Publishing(p)' BY <2>1 DEF Publishing
  <2>3. \A l \in Loc : Pair(l)' BY <1>2, <2>1, <2>2 DEF Paired, Pair
  <2>4. Paired(p)' BY <2>2, <2>3 DEF Paired
  <2>5. InputsOf(p)' BY <2>1 DEF InputsOf, FreshProver
  <2> QED BY <2>4, <2>5
<1>6. CASE ReplaceInput \/ UNCHANGED vars
  <2>1. UNCHANGED <<inv, status, pc, mem, fd>> BY <1>6 DEF ReplaceInput, control, vars
  <2>2. \A l \in Loc : /\ files'[<<"json", l>>] = files[<<"json", l>>]
                       /\ files'[<<"proof", l>>] = files[<<"proof", l>>]
      BY <1>6, InputsOnly DEF IInv, Role, vars
  <2>3. Publishing(p)' <=> Publishing(p) BY <2>1 DEF Publishing, Running
  <2>4. \A l \in Loc : Pair(l) => Pair(l)' BY <2>2, PairFrame
  <2>5. Paired(p)' BY <1>2, <2>1, <2>2, <2>3, <2>4 DEF Paired
  <2>6. InputsOf(p)' BY <1>2, <2>1 DEF InputsOf, Running
  <2> QED BY <2>5, <2>6
<1> QED BY <1>1, <1>3, <1>4, <1>5, <1>6

LEMMA PairedInit == Init => PairedInv
<1> SUFFICES ASSUME Init, NEW p \in Proc PROVE InputsOf(p) /\ Paired(p)
    BY DEF PairedInv
<1>1. ~Running(p) BY DEF Init, Running
<1>2. ASSUME NEW l \in Loc PROVE Pair(l)
  <2>1. files[<<"json", l>>] = Absent /\ files[<<"proof", l>>] = Absent
      BY DEF Init, Role
  <2> QED BY <2>1 DEF Pair
<1> QED BY <1>1, <1>2 DEF InputsOf, Paired, Publishing

LEMMA PairedMeansFollows == PairedInv => JsonFollowsProof
<1> SUFFICES ASSUME PairedInv, faults = 0, \A p \in Proc : ~Running(p), NEW l \in Loc
             PROVE  Pair(l)
    BY DEF JsonFollowsProof, Pair
<1>1. PICK p \in Proc : TRUE BY ProverAssumption
<1>2. Paired(p) /\ ~Publishing(p) BY DEF PairedInv, Publishing
<1> QED BY <1>2 DEF Paired

(* Between runs that fail in nothing the JSON file belongs to the proof    *)
(* file beside it, as long as no run works beside another one and every    *)
(* run puts the two side by side.                                          *)
THEOREM JsonBelongsToProof == Spec => []JsonFollowsProof
<1>1. CASE OneByOne /\ SamePlace
  <2>1. IInv /\ AloneInv /\ PairedInv /\ [Next]_vars => PairedInv' BY <1>1, PairedStep
  <2>2. Spec => [](IInv /\ AloneInv) BY <1>1, AloneCorrect
  <2> QED BY <2>1, <2>2, PairedInit, PairedMeansFollows, PTL DEF Spec
<1>2. CASE ~(OneByOne /\ SamePlace)
  <2>1. JsonFollowsProof BY <1>2 DEF JsonFollowsProof, SamePlace
  <2> QED BY <2>1, PTL
<1> QED BY <1>1, <1>2

-----------------------------------------------------------------------------
(* The verify stage.                                                       *)

OnePlace == \A r \in Role : SamePath(r)

(* The one file of role r, and what is in it.                              *)
Place(r) == CHOOSE l \in Loc : \A p \in Proc : \A i \in Invocation[p] : i.at[r] \in {l, None}
Disk(r) == files[<<r, Place(r)>>]

(* All is well: nothing has failed, and the inputs are what they were.     *)
Well == faults = 0 /\ edits = 0 /\ <<Disk("circuit"), Disk("table")>> \in Satisfies

(* Common data, or a proof, of these inputs.                               *)
Of(x) == x.circuit = Disk("circuit") /\ x.shape = ShapeOf[Disk("table")]

(* What the verify stage reads, and what it should find there.             *)
Checked == {"common", "description", "proof"}

Belongs(r, x) ==
    /\ r = "common" => Of(x)
    /\ r = "description" => x = ShapeOf[Disk("table")]
    /\ r = "proof" => Of(x) /\ x.sound

Rewriting(p, r) == fd[p] # None /\ fd[p].file = <<r, Place(r)>>

FilesGood(p) ==
    \A r \in Checked :
        \/ Rewriting(p, r)
        \/ Disk(r) = Absent
        \/ Disk(r) # Torn /\ Belongs(r, Disk(r))

(* Everything in memory comes from the inputs.                             *)
MemGood(p) ==
    LET m == mem[p]
        s == ShapeOf[Disk("table")]
    IN /\ m.constraint_system \in {None, Disk("circuit")}
       /\ m.table_description \in {None, s}
       /\ m.private_table \in {None, Disk("table")}
       /\ m.public_table \in {None, Disk("table")}
       /\ m.private_preprocessed_data \in
             {None, PrivatePreprocess(Disk("circuit"), Disk("table"), s)}
       /\ m.public_preprocessed_data # None => Of(m.public_preprocessed_data.common)
       /\ m.proof # None => Of(m.proof) /\ m.proof.sound

(* What else the verify stage has in memory.                               *)
VerifierFits(p) ==
    inv[p].stage = "verify" =>
        /\ mem[p].public_preprocessed_data = None
        /\ mem[p].common_data \in {None, Disk("common")}
        /\ pc[p] > 4 => mem[p].lpc_scheme = NewLpcScheme(mem[p].table_description, inv[p].fri)

(* Why the verify stage may fail.                                          *)
Cause(p) ==
    \/ \E r \in {"circuit", "common", "description", "proof"} : Contents(p, r) = Absent
    \/ \E r \in {"common", "proof"} : Contents(p, r).fri # inv[p].fri

Explained(p) == status[p] = "exit1" /\ inv[p].stage = "verify" => Cause(p)

GoodInv ==
    Well => \A p \in Proc : /\ FilesGood(p) /\ Explained(p)
                            /\ Running(p) => MemGood(p) /\ VerifierFits(p)

LEMMA PlaceIs ==
    ASSUME OnePlace, NEW r \in Role
    PROVE  /\ Place(r) \in Loc
           /\ \A p \in Proc : \A i \in Invocation[p] : i.at[r] \in {Place(r), None}
<1>1. \E l \in Loc : \A p \in Proc : \A i \in Invocation[p] : i.at[r] \in {l, None}
    BY DEF OnePlace, SamePath
<1> QED BY <1>1 DEF Place

(* A process sees the one file or, without the option, none.               *)
LEMMA SeesDisk ==
    ASSUME IInv, OnePlace, NEW p \in Proc, status[p] # "idle", NEW r \in Role
    PROVE  /\ Contents(p, r) = Absent \/ Contents(p, r) = Disk(r)
           /\ inv[p].at[r] # None => File(p, r) = <<r, Place(r)>>
           /\ <<r, Place(r)>> \in Role \X Loc
<1>1. inv[p].at[r] \in {Place(r), None} BY PlaceIs DEF IInv, JobInv, Told
<1>2. Place(r) \in Loc BY PlaceIs
<1> QED BY <1>1, <1>2 DEF Contents, File, Disk

(* What is well was well before, and the inputs are the same.              *)
LEMMA WellBefore ==
    ASSUME IInv, OnePlace, [Next]_vars, Well'
    PROVE  /\ Well
           /\ \/ UNCHANGED vars
              \/ \E p \in Proc : Work(p) \/ \E i \in Invocation[p] : Start(p, i)
           /\ Disk("circuit")' = Disk("circuit") /\ Disk("table")' = Disk("table")
<1>1. faults = 0 /\ \/ UNCHANGED vars \/ ReplaceInput
                    \/ \E p \in Proc : Work(p) \/ \E i \in Invocation[p] : Start(p, i)
    BY FaultFree DEF Well, IInv
<1>2. ~ReplaceInput BY DEF ReplaceInput, Well, IInv, TypeOK, EnvironmentOK
<1>3. edits = 0
  <2>1. ASSUME NEW p \in Proc, Work(p) PROVE edits' = edits
    <3>1. CASE Read(p)
        BY <3>1 DEF Read, ReadCircuit, ReadAssignmentTable, ReadAssignmentDescription,
           ReadCommonData, ReadPublicData, ReadCommitmentScheme, ReadFails, Load, environment
    <3>2. CASE Compute(p)
        BY <3>2 DEF Compute, PreprocessPublicData, PreprocessPrivateData, CreateLpcScheme,
           CanWriteToFile, GenerateProof, Verify, VerifyFromFile, Conclude, Load, environment
    <3>3. CASE Write(p) \/ Undefined(p)
        BY <3>3 DEF Write, OpenOutput, NoOutputPath, FinishWrite, Undefined, environment
    <3> QED BY <2>1, <3>1, <3>2, <3>3 DEF Work
  <2>2. ASSUME NEW p \in Proc, NEW i \in Invocation[p], Start(p, i) PROVE edits' = edits
      BY <2>2 DEF Start
  <2> QED BY <1>1, <1>2, <2>1, <2>2 DEF Well, vars
<1>4. ASSUME NEW r \in {"circuit", "table"} PROVE Disk(r)' = Disk(r)
  <2>1. CASE files' = files BY <2>1 DEF Disk
  <2>2. ASSUME NEW p \in Proc, Work(p), files' # files PROVE Disk(r)' = Disk(r)
    <3>1. PICK v : Step(p) \in DOMAIN Sink /\ files' = [files EXCEPT ![Target(p)] = v]
        BY <2>2, FileEffect
    <3>2. Running(p) /\ r \in Role /\ r # Sink[Step(p)] /\ Place(r) \in Loc
        BY <2>2, <3>1, ControlEffect, PlaceIs DEF IInv, Role, Sink
    <3> QED BY <3>1, <3>2, OtherRole DEF IInv, Disk
  <2> QED BY <1>1, <1>2, <2>1, <2>2 DEF Start, vars
<1> QED BY <1>1, <1>2, <1>3, <1>4 DEF Well

(* What is written belongs to the inputs, like everything in memory.       *)
LEMMA PayloadBelongs ==
    ASSUME IInv, NEW p \in Proc, Running(p), MemGood(p), Step(p) \in DOMAIN Sink,
           Empty(p) = {}, NEW r \in Checked, r = Sink[Step(p)]
    PROVE  Payload(p, r) # Torn /\ Belongs(r, Payload(p, r))
<1>1. mem[p] \in Memory BY DEF IInv, TypeOK, MemoryOK
<1>5. \A s \in DOMAIN Sink : /\ Sink[s] = "common" => s = "save_common_data"
                             /\ Sink[s] = "description" => s = "save_assignment_description"
                             /\ Sink[s] = "proof" => s = "write_proof"
    BY DEF Sink
<1>2. CASE r = "common"
  <2>1. Step(p) = "save_common_data" BY <1>5, <1>2
  <2>2. mem[p].public_preprocessed_data # None BY <2>1, OperandThere DEF Operands
  <2>3. mem[p].public_preprocessed_data.common \in CommonData
      BY <1>1, <2>2 DEF Memory, PublicPreprocessedData
  <2>4. mem[p].public_preprocessed_data.common # Torn
      BY <2>3, ProverAssumption DEF AllFileData, FileData, Role
  <2>5. Of(mem[p].public_preprocessed_data.common) BY <2>2 DEF MemGood
  <2> QED BY <1>2, <2>4, <2>5 DEF Payload, Belongs
<1>3. CASE r = "description"
  <2>1. Step(p) = "save_assignment_description" BY <1>5, <1>3
  <2>2. mem[p].table_description # None BY <2>1, OperandThere DEF Operands
  <2>3. mem[p].table_description \in Shape BY <1>1, <2>2 DEF Memory
  <2>4. mem[p].table_description # Torn
      BY <2>3, ProverAssumption DEF AllFileData, FileData, Role
  <2>5. mem[p].table_description = ShapeOf[Disk("table")] BY <2>2 DEF MemGood
  <2> QED BY <1>3, <2>4, <2>5 DEF Payload, Belongs
<1>4. CASE r = "proof"
  <2>1. Step(p) = "write_proof" BY <1>5, <1>4
  <2>2. mem[p].proof # None BY <2>1, OperandThere DEF Operands
  <2>3. mem[p].proof \in Proof BY <1>1, <2>2 DEF Memory
  <2>4. mem[p].proof # Torn BY <2>3, ProverAssumption DEF AllFileData, FileData, Role
  <2>5. Of(mem[p].proof) /\ mem[p].proof.sound BY <2>2 DEF MemGood
  <2> QED BY <1>4, <2>4, <2>5 DEF Payload, Belongs
<1> QED BY <1>2, <1>3, <1>4 DEF Checked

LEMMA FilesGoodWork ==
    ASSUME IInv, AloneInv, OnePlace, NEW p \in Proc, FilesGood(p), MemGood(p), Work(p),
           Disk("circuit")' = Disk("circuit"), Disk("table")' = Disk("table")
    PROVE  FilesGood(p)'
<1>1. Running(p) /\ (Thinks(p) \/ OpenOutput(p) \/ Completes(p) \/ Skips(p) \/ Garbage(p))
    BY LoneWork
<1> SUFFICES ASSUME NEW r \in Checked,
                    ~Rewriting(p, r)', Disk(r)' # Absent
             PROVE  Disk(r)' # Torn /\ Belongs(r, Disk(r))'
    BY DEF FilesGood
<1>2. r \in Role /\ Place(r) \in Loc /\ status[p] # "idle"
    BY <1>1, PlaceIs DEF Checked, Role, Running
<1>3. ASSUME Disk(r)' = Disk(r), ~Rewriting(p, r)
      PROVE  Disk(r)' # Torn /\ Belongs(r, Disk(r))'
  <2>1. Disk(r) # Torn /\ Belongs(r, Disk(r)) BY <1>3 DEF FilesGood
  <2> QED BY <1>3, <2>1 DEF Belongs, Of
<1>4. ASSUME Step(p) \in DOMAIN Sink, r # Sink[Step(p)],
             NEW v, files' = [files EXCEPT ![Target(p)] = v]
      PROVE  Disk(r)' # Torn /\ Belongs(r, Disk(r))'
  <2>1. Disk(r)' = Disk(r) BY <1>1, <1>2, <1>4, OtherRole DEF IInv, Disk
  <2>2. ~Rewriting(p, r) BY <1>4 DEF Rewriting, IInv, TypeOK, DescriptorsOK, Target, File
  <2> QED BY <1>3, <2>1, <2>2
<1>5. CASE Thinks(p)
  <2>1. Disk(r)' = Disk(r) BY <1>5 DEF Thinks, Disk
  <2>2. ~Rewriting(p, r) BY <1>5 DEF Thinks, Rewriting, IInv, TypeOK, DescriptorsOK
  <2> QED BY <1>3, <2>1, <2>2
<1>6. CASE OpenOutput(p)
  <2>1. /\ Step(p) \in DOMAIN Sink /\ files' = [files EXCEPT ![Target(p)] = Torn]
        /\ fd'[p] # None /\ fd'[p].file = Target(p) /\ inv[p].at[Sink[Step(p)]] # None
      BY <1>6, Opened
  <2>2. CASE r = Sink[Step(p)]
    <3>1. Target(p) = <<r, Place(r)>> BY <1>2, <2>1, <2>2, SeesDisk DEF Target
    <3> QED BY <2>1, <3>1 DEF Rewriting
  <2>3. CASE r # Sink[Step(p)] BY <1>4, <2>1, <2>3
  <2> QED BY <2>2, <2>3
<1>7. CASE Completes(p)
  <2>1. /\ Step(p) \in DOMAIN Sink /\ Empty(p) = {} /\ fd[p] # None
        /\ files' = [files EXCEPT ![Target(p)] = Payload(p, Sink[Step(p)])]
      BY <1>7 DEF Completes
  <2>2. CASE r = Sink[Step(p)]
    <3>1. fd[p].file = Target(p) /\ fd[p].file \in Role \X Loc
        BY <2>1, OpenFile DEF IInv, TypeOK, DescriptorsOK
    <3>2. inv[p].at[r] # None BY <2>2, <3>1, ProverAssumption DEF Target, File
    <3>3. Target(p) = <<r, Place(r)>> BY <1>2, <2>2, <3>2, SeesDisk DEF Target
    <3>4. Disk(r)' = Payload(p, r)
        BY <2>1, <2>2, <3>1, <3>3 DEF Disk, IInv, TypeOK, FilesOK
    <3>5. Payload(p, r) # Torn /\ Belongs(r, Payload(p, r))
        BY <1>1, <2>1, <2>2, PayloadBelongs
    <3> QED BY <3>4, <3>5 DEF Belongs, Of
  <2>3. CASE r # Sink[Step(p)] BY <1>4, <2>1, <2>3
  <2> QED BY <2>2, <2>3
<1>8. CASE Skips(p)
  <2>1. Disk(r)' = Disk(r) BY <1>8 DEF Skips, Disk
  <2>2. ~Rewriting(p, r)
    <3>1. fd[p] = None
        BY <1>8, OpenFile, ProverAssumption DEF Skips
    <3> QED BY <3>1 DEF Rewriting
  <2> QED BY <1>3, <2>1, <2>2
<1>9. CASE Garbage(p)
  <2>1. Step(p) \in DOMAIN Sink /\ r # Sink[Step(p)] BY <1>9 DEF Garbage, Sink, Checked
  <2> QED BY <1>4, <1>9, <2>1 DEF Garbage
<1> QED BY <1>1, <1>5, <1>6, <1>7, <1>8, <1>9

(* What p can read of the files it is checked against.                     *)
LEMMA ReadsGood ==
    ASSUME IInv, OnePlace, NEW p \in Proc, Running(p), FilesGood(p), fd[p] = None,
           NEW r \in Checked
    PROVE  /\ Contents(p, r) = Absent \/ Contents(p, r) = Disk(r)
           /\ Contents(p, r) # Absent => Decodes(p, r) /\ Belongs(r, Contents(p, r))
<1>1. r \in Role /\ status[p] # "idle" BY DEF Checked, Role, Running
<1>2. Contents(p, r) = Absent \/ Contents(p, r) = Disk(r) BY <1>1, SeesDisk
<1>3. ~Rewriting(p, r) BY DEF Rewriting
<1> QED BY <1>2, <1>3 DEF FilesGood, Decodes

(* The proof of a run all of whose parts belong to satisfying inputs is    *)
(* sound.                                                                  *)
LEMMA SoundProof ==
    ASSUME IInv, Well, NEW p \in Proc, Running(p), MemGood(p), InputsFit(p),
           At(p, "placeholder_prover"), NEW m, m = mem[p],
           NEW x, x = PlaceholderProve(m.public_preprocessed_data, m.private_preprocessed_data,
                          m.table_description, m.constraint_system, m.lpc_scheme)
    PROVE  Of(x) /\ x.sound
<1> PICK c, t : c = Disk("circuit") /\ t = Disk("table") OBVIOUS
<1> DEFINE s == ShapeOf[t]
<1>1. /\ m.public_preprocessed_data # None /\ m.private_preprocessed_data # None
      /\ m.table_description # None /\ m.constraint_system # None /\ m.lpc_scheme # None
  <2>1. Empty(p) = {} /\ Step(p) = "placeholder_prover" BY DEF At
  <2> QED BY <2>1, OperandThere DEF Operands
<1>2. /\ m.constraint_system = c /\ m.table_description = s
      /\ m.private_preprocessed_data = PrivatePreprocess(c, t, s)
      /\ m.public_preprocessed_data.common.circuit = c
      /\ m.public_preprocessed_data.common.shape = s
    BY <1>1 DEF MemGood, Of
<1>3. <<c, t>> \in Satisfies BY DEF Well
<1>4. Fits(p)
  <2>1. ControlOK /\ Step(p) = "placeholder_prover" /\ pc[p] \in Nat
      BY DEF At, IInv, TypeOK, ControlOK
  <2>2. CASE inv[p].stage = "all"
    <3>1. pc[p] = 6 /\ AllData(p)
        BY <2>1, <2>2, AllSteps, AllPositions DEF IInv, DataInv, StageData
    <3>2. /\ m.public_preprocessed_data =
                [common |-> [circuit |-> m.constraint_system,
                             shape |-> m.table_description, fri |-> inv[p].fri]]
          /\ m.lpc_scheme = WithFixedBatch(NewLpcScheme(m.table_description, inv[p].fri),
                                           m.constraint_system, m.table_description)
        BY <3>1 DEF AllData
    <3> QED BY <3>2 DEF Fits, Scheme
  <2>3. CASE inv[p].stage = "prove"
    <3>1. pc[p] = 7 BY <2>1, <2>3, ProveSteps, ProvePositions
    <3> QED BY <2>3, <3>1 DEF InputsFit
  <2>4. CASE inv[p].stage = "preprocess" BY <2>1, <2>4, PreprocessSteps, PreprocessPositions
  <2>5. CASE inv[p].stage = "verify" BY <2>1, <2>5, VerifySteps, VerifyPositions
  <2> QED BY <2>1, <2>2, <2>3, <2>4, <2>5, StagesOfRunning
<1>5. PICK d : /\ m.public_preprocessed_data = [common |-> d] /\ m.lpc_scheme = Scheme(d)
               /\ d.circuit = c /\ d.shape = s
    BY <1>2, <1>4 DEF Fits
<1>6. d \in CommonData
    BY <1>1, <1>5 DEF IInv, TypeOK, MemoryOK, Memory, PublicPreprocessedData
<1>7. /\ m.lpc_scheme.fri = d.fri /\ m.lpc_scheme.shape = s /\ m.lpc_scheme.fixed = <<c, s>>
    BY <1>5 DEF Scheme, WithFixedBatch, NewLpcScheme
<1>8. d = [circuit |-> c, shape |-> s, fri |-> m.lpc_scheme.fri]
    BY <1>5, <1>6, <1>7 DEF CommonData
<1>9. x.circuit = c /\ x.shape = s BY <1>2 DEF PlaceholderProve
<1>10. x.sound
  <2>1. m.private_preprocessed_data.table = t BY <1>2 DEF PrivatePreprocess
  <2> QED BY <1>2, <1>3, <1>5, <1>7, <1>8, <2>1 DEF PlaceholderProve
<1> QED BY <1>9, <1>10 DEF Of

LEMMA MemGoodReads ==
    ASSUME IInv, OneByOne, SameArtifacts, OnePlace, Well, NEW p \in Proc, Running(p),
           Coherent(p), FilesGood(p), MemGood(p), fd[p] = None, files' = files,
           \/ ReadCircuit(p) \/ ReadAssignmentTable(p) \/ ReadAssignmentDescription(p)
           \/ ReadCommonData(p) \/ ReadPublicData(p) \/ ReadCommitmentScheme(p)
    PROVE  MemGood(p)'
<1> DEFINE m == mem[p]
<1> USE DEF IInv
<1>1. /\ m \in Memory /\ mem \in [Proc -> Memory] /\ TypeOK /\ status[p] # "idle"
    BY DEF TypeOK, MemoryOK, Running
<1>2. Disk("circuit")' = Disk("circuit") /\ Disk("table")' = Disk("table") BY DEF Disk
<1>3. CASE ReadCircuit(p)
  <2>1. mem'[p] = [m EXCEPT !.constraint_system = Contents(p, "circuit")]
      BY <1>3, LoadEffect DEF ReadCircuit
  <2>2. Contents(p, "circuit") = Disk("circuit")
      BY <1>1, <1>3, SeesDisk DEF ReadCircuit, Decodes, Role
  <2> QED BY <1>1, <1>2, <2>1, <2>2 DEF MemGood, Of, Memory
<1>4. CASE ReadAssignmentTable(p)
  <2>1. PICK t : /\ t = Contents(p, "table")
                 /\ mem'[p] = [m EXCEPT !.table_description = ShapeOf[t],
                                        !.public_table = t, !.private_table = t]
      BY <1>4, LoadEffect DEF ReadAssignmentTable
  <2>2. t = Disk("table") BY <1>1, <1>4, <2>1, SeesDisk DEF ReadAssignmentTable, Decodes, Role
  <2> QED BY <1>1, <1>2, <2>1, <2>2 DEF MemGood, Of, Memory
<1>5. CASE ReadAssignmentDescription(p)
  <2>1. mem'[p] = [m EXCEPT !.table_description = Contents(p, "description")]
      BY <1>5, LoadEffect DEF ReadAssignmentDescription
  <2>2. Contents(p, "description") = ShapeOf[Disk("table")]
      BY <1>5, ReadsGood DEF ReadAssignmentDescription, Decodes, Checked, Belongs
  <2> QED BY <1>1, <1>2, <2>1, <2>2 DEF MemGood, Of, Memory
<1>6. CASE ReadCommonData(p) \/ ReadCommitmentScheme(p)
  <2>1. PICK x : \/ mem'[p] = [m EXCEPT !.common_data = x]
                 \/ mem'[p] = [m EXCEPT !.lpc_scheme = x]
      BY <1>6, LoadEffect DEF ReadCommonData, ReadCommitmentScheme
  <2> QED BY <1>1, <1>2, <2>1 DEF MemGood, Of, Memory
<1>7. CASE ReadPublicData(p)
  <2>1. mem'[p] = [m EXCEPT !.public_preprocessed_data = Contents(p, "public")]
      BY <1>7, LoadEffect DEF ReadPublicData
  <2>2. Of(Contents(p, "public").common)
    <3>1. ~Saving(p)
      <4>1. ControlOK /\ Step(p) = "read_public_data" /\ pc[p] \in Nat
          BY <1>7 DEF TypeOK, ReadPublicData, At, ControlOK
      <4>2. ~Saves(inv[p].stage)
          BY <4>1, AllSteps, AllPositions, PreprocessSteps, PreprocessPositions DEF Saves
      <4> QED BY <4>2 DEF Saving
    <3>2. inv[p] \in Invocation[p] BY DEF JobInv, Told, Running
    <3>3. Matching(inv[p]) BY <3>1, <3>2 DEF Coherent
    <3>4. \A r \in Artifacts : Artifact(inv[p], r) = Contents(p, r)
      <4>1. \A r \in Artifacts : inv[p].at[r] # None BY <3>2, OnePath, ProverAssumption
      <4> QED BY <4>1 DEF Artifact, Contents, File
    <3>5. Contents(p, "public") # Absent BY <1>7 DEF ReadPublicData, Decodes
    <3>6. PICK c : /\ c = Contents(p, "common") /\ c # Absent
                   /\ Contents(p, "public") = [common |-> c]
        BY <3>3, <3>4, <3>5 DEF Matching, Artifacts
    <3>7. Of(c) BY <3>6, ReadsGood DEF Checked, Belongs
    <3> QED BY <3>6, <3>7
  <2> QED BY <1>1, <1>2, <2>1, <2>2 DEF MemGood, Of, Memory
<1> QED BY <1>3, <1>4, <1>5, <1>6, <1>7

LEMMA MemGoodComputes ==
    ASSUME IInv, OnePlace, Well, NEW p \in Proc, Running(p), MemGood(p), InputsFit(p),
           files' = files,
           \/ PreprocessPublicData(p) \/ PreprocessPrivateData(p) \/ CreateLpcScheme(p)
           \/ CanWriteToFile(p) \/ GenerateProof(p) \/ Verify(p) \/ VerifyFromFile(p)
    PROVE  MemGood(p)'
<1> DEFINE m == mem[p]
<1> USE DEF IInv
<1>1. m \in Memory /\ mem \in [Proc -> Memory] /\ TypeOK BY DEF TypeOK, MemoryOK
<1>2. Disk("circuit")' = Disk("circuit") /\ Disk("table")' = Disk("table") BY DEF Disk
<1>3. CASE PreprocessPublicData(p)
  <2> DEFINE scheme == NewLpcScheme(m.table_description, inv[p].fri)
             lpc == WithFixedBatch(scheme, m.constraint_system, m.table_description)
             public == PublicPreprocess(m.constraint_system, m.public_table, scheme)
  <2>1. mem'[p] = [m EXCEPT !.public_inputs = m.public_table, !.lpc_scheme = lpc,
                            !.public_preprocessed_data = public, !.public_table = None]
      BY <1>3, LoadEffect DEF PreprocessPublicData
  <2>2. m.constraint_system # None /\ m.public_table # None
    <3>1. Empty(p) = {} /\ Step(p) = "preprocess_public_data"
        BY <1>3 DEF PreprocessPublicData, At
    <3> QED BY <3>1, OperandThere DEF Operands
  <2>3. Of(public.common) BY <2>2 DEF PublicPreprocess, Of, MemGood
  <2> HIDE DEF lpc, public
  <2> QED BY <1>1, <1>2, <2>1, <2>3 DEF MemGood, Of, Memory
<1>4. CASE PreprocessPrivateData(p)
  <2>1. PICK x : /\ x = PrivatePreprocess(m.constraint_system, m.private_table,
                                          m.table_description)
                 /\ mem'[p] = [m EXCEPT !.private_preprocessed_data = x,
                                        !.public_table = None, !.private_table = None]
      BY <1>4, LoadEffect DEF PreprocessPrivateData
  <2>2. m.constraint_system # None /\ m.private_table # None /\ m.table_description # None
    <3>1. Empty(p) = {} /\ Step(p) = "preprocess_private_data"
        BY <1>4 DEF PreprocessPrivateData, At
    <3> QED BY <3>1, OperandThere DEF Operands
  <2>3. x = PrivatePreprocess(Disk("circuit"), Disk("table"), ShapeOf[Disk("table")])
      BY <2>1, <2>2 DEF MemGood
  <2> QED BY <1>1, <1>2, <2>1, <2>3 DEF MemGood, Of, Memory
<1>5. CASE CreateLpcScheme(p)
  <2>1. PICK x : mem'[p] = [m EXCEPT !.lpc_scheme = x]
      BY <1>5, LoadEffect DEF CreateLpcScheme
  <2> QED BY <1>1, <1>2, <2>1 DEF MemGood, Of, Memory
<1>6. CASE CanWriteToFile(p) \/ Verify(p) \/ VerifyFromFile(p)
  <2>1. mem'[p] = m
      BY <1>6, LoadEffect DEF CanWriteToFile, Verify, VerifyFromFile, Conclude
  <2> QED BY <1>2, <2>1 DEF MemGood, Of
<1>7. CASE GenerateProof(p)
  <2>1. PICK x : /\ x = PlaceholderProve(m.public_preprocessed_data,
                            m.private_preprocessed_data, m.table_description,
                            m.constraint_system, m.lpc_scheme)
                 /\ mem'[p] = [m EXCEPT !.proof = x]
      BY <1>7, LoadEffect DEF GenerateProof
  <2>2. Of(x) /\ x.sound BY <1>7, <2>1, SoundProof DEF GenerateProof
  <2> QED BY <1>1, <1>2, <2>1, <2>2 DEF MemGood, Of, Memory
<1> QED BY <1>3, <1>4, <1>5, <1>6, <1>7

LEMMA MemGoodWork ==
    ASSUME IInv, AloneInv, OneByOne, SameArtifacts, OnePlace, Well, NEW p \in Proc,
           Coherent(p), InputsFit(p), FilesGood(p), MemGood(p), Work(p),
           Disk("circuit")' = Disk("circuit"), Disk("table")' = Disk("table"), Running(p)'
    PROVE  MemGood(p)'
<1>1. Running(p) /\ (Thinks(p) \/ OpenOutput(p) \/ Completes(p) \/ Skips(p) \/ Garbage(p))
    BY LoneWork
<1>2. CASE Thinks(p)
  <2>1. files' = files /\ fd[p] = None /\ ~ReadFails(p)
      BY <1>2 DEF Thinks, IInv, TypeOK, DescriptorsOK, ControlOK, ReadFails, Stop, Running
  <2>2. Read(p) \/ Compute(p) BY <1>2 DEF Thinks
  <2> QED BY <1>1, <2>1, <2>2, MemGoodReads, MemGoodComputes DEF Read, Compute
<1>3. CASE ~Thinks(p)
  <2>1. mem' = mem BY <1>1, <1>3, Opened DEF Completes, Skips, Garbage
  <2> QED BY <2>1 DEF MemGood, Of
<1> QED BY <1>2, <1>3

(* What the verify stage has read is what is on disk.                      *)
LEMMA VerifierWork ==
    ASSUME IInv, AloneInv, OnePlace, NEW p \in Proc, VerifierFits(p), Work(p), Running(p)'
    PROVE  VerifierFits(p)'
<1> DEFINE m == mem[p]
<1>1. Running(p) /\ (Thinks(p) \/ OpenOutput(p) \/ Completes(p) \/ Skips(p) \/ Garbage(p))
    BY LoneWork
<1>2. m \in Memory /\ mem \in [Proc -> Memory] /\ TypeOK /\ ControlOK /\ inv' = inv
  <2>1. inv' = inv
      BY <1>1, Opened DEF Thinks, Completes, Skips, Garbage, Return, Proceed, Stop
  <2> QED BY <2>1 DEF IInv, TypeOK, MemoryOK
<1> SUFFICES ASSUME inv[p].stage = "verify" PROVE VerifierFits(p)'
    BY <1>2 DEF VerifierFits
<1>3. pc[p] \in 1..5 /\ Step(p) = VerifyStage[pc[p]] BY <1>1, <1>2, VerifySteps
<1>4. Step(p) \notin DOMAIN Sink BY <1>3, VerifyPositions DEF Sink
<1>5. Thinks(p) /\ files' = files
    BY <1>1, <1>4, Opened DEF Completes, Skips, Garbage, Sink, Thinks
<1>6. Proceed(p) /\ pc'[p] = pc[p] + 1
    BY <1>5 DEF Thinks, Stop, Running, Proceed, IInv, TypeOK, ControlOK
<1>7. /\ m.public_preprocessed_data = None /\ m.common_data \in {None, Disk("common")}
    BY DEF VerifierFits
<1>8. Disk("common")' = Disk("common") BY <1>5 DEF Disk
<1>9. CASE pc[p] \in {1, 3}
  <2>1. ReadCircuit(p) \/ ReadAssignmentDescription(p)
      BY <1>1, <1>3, <1>5, <1>6, <1>9, VerifyPositions, Dispatch
  <2>2. PICK x : \/ mem'[p] = [m EXCEPT !.constraint_system = x]
                 \/ mem'[p] = [m EXCEPT !.table_description = x]
      BY <1>2, <2>1, LoadEffect DEF ReadCircuit, ReadAssignmentDescription
  <2> QED BY <1>2, <1>6, <1>7, <1>8, <1>9, <2>2 DEF VerifierFits, Memory
<1>10. CASE pc[p] = 2
  <2>1. ReadCommonData(p) BY <1>1, <1>3, <1>5, <1>6, <1>10, VerifyPositions, Dispatch
  <2>2. mem'[p] = [m EXCEPT !.common_data = Contents(p, "common")]
      BY <1>2, <2>1, LoadEffect DEF ReadCommonData
  <2>3. Contents(p, "common") = Disk("common")
      BY <1>1, <2>1, SeesDisk DEF ReadCommonData, Decodes, Role, Running
  <2> QED BY <1>2, <1>6, <1>7, <1>8, <1>10, <2>2, <2>3 DEF VerifierFits, Memory
<1>11. CASE pc[p] = 4
  <2>1. CreateLpcScheme(p) BY <1>1, <1>3, <1>5, <1>6, <1>11, VerifyPositions, Dispatch
  <2>2. PICK x : /\ x = NewLpcScheme(m.table_description, inv[p].fri)
                 /\ mem'[p] = [m EXCEPT !.lpc_scheme = x]
      BY <1>2, <2>1, LoadEffect DEF CreateLpcScheme
  <2> QED BY <1>2, <1>6, <1>7, <1>8, <1>11, <2>2 DEF VerifierFits, Memory
<1>12. CASE pc[p] = 5
  <2>1. Len(Chain(p)) = 5 BY DEF Chain, Program, VerifyStage
  <2>2. ~Running(p)'
      BY <1>2, <1>6, <1>12, <2>1 DEF Proceed, Running, ControlOK
  <2> QED BY <2>2
<1> QED BY <1>3, <1>9, <1>10, <1>11, <1>12

(* A proof of the inputs, and common data of theirs, do not verify only    *)
(* under other FRI options.                                                *)
LEMMA RejectsOtherFri ==
    ASSUME IInv, OnePlace, Well, NEW p \in Proc, Running(p), inv[p].stage = "verify",
           fd[p] = None, FilesGood(p), MemGood(p), VerifierFits(p),
           At(p, "verify_from_file"), Decodes(p, "proof"), ~Accepts(p, Contents(p, "proof"))
    PROVE  Cause(p)
<1> SUFFICES ASSUME Contents(p, "common") # Absent PROVE Cause(p)
    BY DEF Cause
<1> PICK c, s, fri : c = Disk("circuit") /\ s = ShapeOf[Disk("table")] /\ fri = inv[p].fri
    OBVIOUS
<1> DEFINE m == mem[p]
           proof == Contents(p, "proof")
           common == Contents(p, "common")
<1>1. proof \in Proof /\ Of(proof) /\ proof.sound
  <2>1. proof \in FileData("proof") BY Decoded DEF IInv, Role
  <2>2. Belongs("proof", proof) BY ReadsGood DEF Checked, Decodes
  <2> QED BY <2>1, <2>2 DEF FileData, Belongs
<1>2. common \in CommonData /\ Of(common) /\ common = Disk("common")
  <2>1. Decodes(p, "common") /\ Belongs("common", common) /\ common = Disk("common")
      BY ReadsGood DEF Checked
  <2>2. common \in FileData("common") BY <2>1, Decoded DEF IInv, Role
  <2> QED BY <2>1, <2>2 DEF FileData, Belongs
<1>3. pc[p] = 5
    BY VerifySteps, VerifyPositions DEF At, IInv, TypeOK
<1>4. m.public_preprocessed_data = None BY DEF VerifierFits
<1>5. /\ m.common_data # None /\ m.table_description # None /\ m.constraint_system # None
  <2>1. Empty(p) = {} /\ Step(p) = "verify_from_file" BY DEF At
  <2> QED BY <1>4, <2>1, OperandThere DEF Operands
<1>6. /\ m.common_data = common /\ m.table_description = s /\ m.constraint_system = c
      /\ m.lpc_scheme = NewLpcScheme(s, fri)
    BY <1>2, <1>3, <1>5 DEF VerifierFits, MemGood
<1>7. ~PlaceholderVerify(common, proof, s, c, NewLpcScheme(s, fri))
    BY <1>4, <1>6 DEF Accepts
<1>8. common # [circuit |-> c, shape |-> s, fri |-> fri] \/ proof.fri # fri
    BY <1>1, <1>7 DEF PlaceholderVerify, NewLpcScheme, Of
<1>9. common.fri # fri \/ proof.fri # fri BY <1>2, <1>8 DEF CommonData, Of
<1> QED BY <1>9 DEF Cause

LEMMA ExplainedWork ==
    ASSUME IInv, AloneInv, OnePlace, Well, NEW p \in Proc, FilesGood(p), MemGood(p),
           VerifierFits(p), Work(p)
    PROVE  Explained(p)'
<1>1. Running(p) /\ (Thinks(p) \/ OpenOutput(p) \/ Completes(p) \/ Skips(p) \/ Garbage(p))
    BY LoneWork
<1>2. TypeOK /\ ControlOK /\ inv' = inv
  <2>1. inv' = inv
      BY <1>1, Opened DEF Thinks, Completes, Skips, Garbage, Return, Proceed, Stop
  <2> QED BY <2>1 DEF IInv, TypeOK
<1> SUFFICES ASSUME inv[p].stage = "verify", status'[p] = "exit1" PROVE Cause(p)'
    BY <1>2 DEF Explained
<1>3. pc[p] \in 1..5 /\ Step(p) = VerifyStage[pc[p]] BY <1>1, <1>2, VerifySteps
<1>4. Step(p) \notin DOMAIN Sink BY <1>3, VerifyPositions DEF Sink
<1>5. Thinks(p) /\ files' = files
    BY <1>1, <1>4, Opened DEF Completes, Skips, Garbage, Sink, Thinks
<1>6. ~Proceed(p) BY <1>1, <1>2 DEF Proceed, Running, ControlOK
<1>7. fd[p] = None BY <1>2, <1>4 DEF TypeOK, DescriptorsOK
<1>8. CASE ReadFails(p)
  <2>1. Step(p) \in DOMAIN Source /\ ~Decodes(p, Source[Step(p)]) BY <1>8 DEF ReadFails
  <2>2. Step(p) \in {"read_circuit", "read_common_data", "read_assignment_description",
                     "verify_from_file"}
      BY <1>3, <2>1, VerifyPositions DEF Source
  <2>3. ASSUME Step(p) = "read_circuit" PROVE Cause(p)
    <3>1. ~Decodes(p, "circuit") BY <2>1, <2>3 DEF Source
    <3>2. Disk("circuit") \in Circuit BY PlaceholderAssumption DEF Well
    <3>3. Disk("circuit") \notin {Absent, Torn}
        BY <3>2, ProverAssumption DEF AllFileData, FileData, Role
    <3>4. Contents(p, "circuit") = Absent
        BY <1>1, <3>1, <3>3, SeesDisk DEF Decodes, Role, Running
    <3> QED BY <3>4 DEF Cause
  <2>4. ASSUME NEW r \in Checked, r = Source[Step(p)] PROVE Cause(p)
    <3>1. Contents(p, r) = Absent BY <1>1, <1>7, <2>1, <2>4, ReadsGood
    <3> QED BY <3>1 DEF Cause, Checked
  <2>5. Step(p) # "read_circuit" => Source[Step(p)] \in Checked
      BY <2>2 DEF Source, Checked
  <2>6. Cause(p) BY <2>3, <2>4, <2>5
  <2> QED BY <1>2, <1>5, <2>6 DEF Cause, Contents, File
<1>9. CASE ~ReadFails(p)
  <2>1. VerifyFromFile(p)
    <3>1. ~Read(p)
        BY <1>6, <1>9 DEF Read, ReadCircuit, ReadAssignmentTable, ReadAssignmentDescription,
           ReadCommonData, ReadPublicData, ReadCommitmentScheme, Load
    <3>2. ~Verify(p) BY <1>3, VerifyPositions DEF Verify, At
    <3> QED BY <1>5, <1>6, <3>1, <3>2 DEF Thinks, Compute, PreprocessPublicData,
           PreprocessPrivateData, CreateLpcScheme, CanWriteToFile, GenerateProof, Load
  <2>2. ~Accepts(p, Contents(p, "proof")) BY <1>6, <2>1 DEF VerifyFromFile, Conclude
  <2>3. Cause(p) BY <1>1, <1>7, <2>1, <2>2, RejectsOtherFri DEF VerifyFromFile
  <2> QED BY <1>2, <1>5, <2>3 DEF Cause, Contents, File
<1> QED BY <1>8, <1>9

LEMMA GoodStep ==
    ASSUME IInv, AloneInv, OneByOne, SameArtifacts, OnePlace, CoherentInv, GoodInv, [Next]_vars
    PROVE  GoodInv'
<1> SUFFICES ASSUME Well', NEW p \in Proc
             PROVE  (/\ FilesGood(p) /\ Explained(p)
                     /\ Running(p) => MemGood(p) /\ VerifierFits(p))'
    BY DEF GoodInv
<1>1. /\ Well
      /\ \/ UNCHANGED vars
         \/ \E q \in Proc : Work(q) \/ \E i \in Invocation[q] : Start(q, i)
      /\ Disk("circuit")' = Disk("circuit") /\ Disk("table")' = Disk("table")
    BY WellBefore
<1>2. /\ FilesGood(p) /\ Explained(p) /\ Coherent(p) /\ InputsFit(p)
      /\ Running(p) => MemGood(p) /\ VerifierFits(p)
    BY <1>1 DEF GoodInv, CoherentInv, Well
<1>3. \A q \in Proc : q = p BY DEF OneByOne
<1>4. CASE Work(p)
  <2>1. Running(p) BY <1>4, ControlEffect DEF IInv
  <2>2. FilesGood(p)' BY <1>1, <1>2, <1>4, <2>1, FilesGoodWork
  <2>3. Explained(p)' BY <1>1, <1>2, <1>4, <2>1, ExplainedWork
  <2>4. Running(p)' => MemGood(p)' /\ VerifierFits(p)'
      BY <1>1, <1>2, <1>4, <2>1, MemGoodWork, VerifierWork
  <2> QED BY <2>2, <2>3, <2>4
<1>5. ASSUME NEW i \in Invocation[p], Start(p, i)
      PROVE  (/\ FilesGood(p) /\ Explained(p)
              /\ Running(p) => MemGood(p) /\ VerifierFits(p))'
  <2>1. /\ files' = files /\ fd' = fd /\ pc'[p] = 1 /\ mem'[p] = FreshProver
        /\ status'[p] = "running"
      BY <1>5 DEF Start, IInv, TypeOK, ControlOK, MemoryOK
  <2>2. FilesGood(p)' BY <1>2, <2>1 DEF FilesGood, Rewriting, Disk, Belongs, Of
  <2>3. Explained(p)' BY <2>1 DEF Explained
  <2>4. MemGood(p)' BY <2>1 DEF MemGood, FreshProver
  <2>5. VerifierFits(p)' BY <2>1 DEF VerifierFits, FreshProver
  <2> QED BY <2>2, <2>3, <2>4, <2>5
<1>6. CASE UNCHANGED vars
  <2>1. FilesGood(p)' BY <1>2, <1>6 DEF FilesGood, Rewriting, Disk, Belongs, Of, vars
  <2>2. Explained(p)' BY <1>2, <1>6 DEF Explained, Cause, Contents, File, vars
  <2>3. Running(p)' => MemGood(p)' /\ VerifierFits(p)'
      BY <1>2, <1>6 DEF Running, MemGood, Of, Disk, VerifierFits, vars
  <2> QED BY <2>1, <2>2, <2>3
<1> QED BY <1>1, <1>3, <1>4, <1>5, <1>6

LEMMA GoodInit == Init /\ OnePlace => GoodInv
<1> SUFFICES ASSUME Init, OnePlace, NEW p \in Proc
             PROVE  FilesGood(p) /\ Explained(p) /\ ~Running(p)
    BY DEF GoodInv
<1>1. ASSUME NEW r \in Checked PROVE Disk(r) = Absent
  <2>1. <<r, Place(r)>> \in Role \X Loc /\ r # "circuit" /\ r # "table"
      BY PlaceIs DEF Checked, Role
  <2> QED BY <2>1 DEF Init, Disk
<1>2. status[p] = "idle" BY DEF Init
<1> QED BY <1>1, <1>2 DEF FilesGood, Explained, Running

LEMMA GoodMeansForCause ==
    ASSUME IInv, OnePlace, GoodInv
    PROVE  VerifyRejectsForCause
<1> SUFFICES ASSUME faults = 0, edits = 0,
                    \A l, m \in Loc :
                       <<files[<<"circuit", l>>], files[<<"table", m>>]>> \in Satisfies,
                    NEW p \in Proc, status[p] = "exit1", inv[p].stage = "verify"
             PROVE  Cause(p)
    BY DEF VerifyRejectsForCause, Cause
<1>1. Place("circuit") \in Loc /\ Place("table") \in Loc BY PlaceIs DEF Role
<1>2. Well BY <1>1 DEF Well, Disk
<1> QED BY <1>2 DEF GoodInv, Explained

(* Where nothing fails and the inputs stay and fit, no run of preprocess,  *)
(* prove, verify or all, in whatever order, leaves files behind that the   *)
(* verify stage rejects without a cause.                                   *)
THEOREM RejectedForCause == Spec => []VerifyRejectsForCause
<1>1. CASE OneByOne /\ SameArtifacts /\ OnePlace
  <2>1. Init => CoherentInv /\ GoodInv BY <1>1, CoherentInit, GoodInit
  <2>2. IInv /\ AloneInv /\ CoherentInv /\ GoodInv /\ [Next]_vars => CoherentInv' /\ GoodInv'
      BY <1>1, CoherentStep, GoodStep
  <2>3. Spec => [](IInv /\ AloneInv) BY <1>1, AloneCorrect
  <2>4. IInv /\ GoodInv => VerifyRejectsForCause BY <1>1, GoodMeansForCause
  <2> QED BY <2>1, <2>2, <2>3, <2>4, PTL DEF Spec
<1>2. CASE ~(OneByOne /\ SameArtifacts /\ OnePlace)
  <2>1. Artifacts \subseteq Role BY DEF Artifacts, Role
  <2>2. VerifyRejectsForCause
      BY <1>2, <2>1 DEF VerifyRejectsForCause, SameArtifacts, OnePlace
  <2> QED BY <2>2, PTL
<1> QED BY <1>1, <1>2
=============================================================================
