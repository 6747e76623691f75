# A verification of the proof producer

TLA+ models of `proof-producer`, the command line tool in `src/bin/proof-producer`
that makes and verifies zero-knowledge proofs for a circuit and an assignment
table, and of the script that tests it, with TLC configurations and proofs checked
by TLAPS. Paths below are
relative to `src/bin/proof-producer` unless they start with another directory.

## 1. Inventory

| Component | State it keeps | Operations | Interacts with |
|---|---|---|---|
| `run_prover` (`src/main.cpp`) | `prover_result` | one `&&` chain per stage: `all`, `preprocess`, `prove`, `verify`, `generate-aggregated-challenge`; catches `std::exception`; exit code 0 or 1 | calls `Prover`, gets `ProverOptions` |
| `Prover` (`prover.hpp`) | eight `std::optional` members, filled step by step | `read_*`, `preprocess_*`, `create_lpc_scheme`, `generate_to_file`, `verify`, `verify_from_file`, `save_*` | crypto3, files, and other runs through the files |
| file operations (`file_operations.hpp`) | streams | `open_file`, `can_read_from_file`, `can_write_to_file`, readers and writers of binary and hex files | operating system |
| aggregated challenge (`prover.hpp:491-532`) | a transcript | `generate_aggregated_challenge_to_file` | input challenge files, one output file |
| command line (`arg_parser.cpp`) | `variables_map` | `parse_args`: command line, then configuration file, then defaults; `check_exclusive_options` | boost::program_options |
| type lists (`meta_utils.hpp`, `*arithmetization_params.hpp`) | none | compile-time selection of curve and hash | templates of `main.cpp` |
| `src/tests/make_proof_for_pairs.sh` | `exit_code` | parses its arguments, runs the producer for every circuit and table it finds, passing `--proof` only | the producer, the directory it is started in |
| CI and release (`.github/workflows`) | tags, packages, releases | build, make proofs, tag, upload | GitHub |
| crypto3 (git submodule, not in the repository) | - | preprocessors, prover, verifier, marshalling | called by `Prover` |

What is hard here. A `Prover` is filled in an order that each stage chooses for
itself, and `generate_to_file` is entered from two of them. The stages are
separate processes that communicate through six files with default names in
the working directory, truncated and rewritten in place, without locks, each
file read by another stage at another time. A process can die or fail between
any two steps, and between the truncation of a file and the end of its write.
Failures are reported by one boolean passed along a chain, and one of them is
held in a local variable while the function goes on. The hazards are listed,
each at its line, in `PROJECT.json`.

What makes each component correct:

* `Prover` and `run_prover`: no chain dereferences an empty optional; the
  verdict of the `all` stage is about the circuit and the table it read; a
  proof is published only after it was generated, and in `all` verified; exit
  code 0 means that the outputs are there; what `preprocess` saves and `prove`
  reads fits what `verify` reads; every run ends.
* file operations: what is written is what is read back, or reading fails; a
  probe for permission leaves no trace; a failed write is reported.
* aggregated challenge: a function of the inputs and their order; no output on
  any failure.
* command line: command line before configuration file before default, per
  option; exactly wrong arguments are refused; the sample calls of the
  documentation parse.
* `make_proof_for_pairs.sh`: exit code 0 exactly when every pair succeeded, and
  then the proofs are there; every argument reaches whom it is for.

## 2. Modules

| Module | Models | Instances | Proofs |
|---|---|---|---|
| `Placeholder` | crypto3, as `prover.hpp` uses it (external) | - | - |
| `Prover` | the stages `all`, `preprocess`, `prove`, `verify`: processes over shared files | `ProverMC` | `ProverProofs` |
| `Publication` | abstract: what the producer promises about proof files | - | `PublicationProofs` |
| `ProverPublishes` | the refinement mapping from `Prover` to `Publication` | `ProverMC` | `ProverProofs` |
| `AggregatedChallenge` | the stage `generate-aggregated-challenge` | `AggregatedChallengeMC` | `AggregatedChallengeProofs` |
| `WriteProbe` | `can_write_to_file`, processes of several users in a directory | `WriteProbeMC` | `WriteProbeProofs` |
| `FileFormat` | the binary and hex readers and writers | `FileFormatMC` | `FileFormatProofs` |
| `ArgParser` | `parse_args`, `main`, the dispatch over curve and hash | `ArgParserMC` | `ArgParserProofs` |
| `PairsScript` | the loop of the test script, over `Publication` | `PairsScriptMC` | `PairsScriptProofs` |
| `ScriptArgs` | the arguments of the test script | `ScriptArgsMC` | `ScriptArgsProofs` |

They compose as follows. `PairsScript` uses the actions of `Publication` as the
runs of the producer, and `Prover` is shown to implement `Publication`: what the
script's properties need of the producer is what the producer does.
`FileFormat` justifies two things that `Prover` and `Publication` take for granted,
that an output cut short is a file of its own kind (`Torn`) and that one that is
whole is read back as it was written; `WriteProbe` looks into one operation of
`Prover`, `can_write_to_file`, which there is a single step without effect.
Mistaken variants of definitions, such as `AllUnverified`, stand in front of the
definition they distort; no specification uses them.

### Placeholder

Of every value it keeps only where it comes from: a constraint system is an
element of `Circuit`, a table one of `Table`; `ShapeOf` gives a table's description
together with its constant columns, `Satisfies` the pairs whose witness is valid,
`Fri` the values of `--lambda-param` and `--expand-factor`. Cryptography is
idealised: a proof verifies exactly when everything it was made from belongs
together, the witness is valid, and the verifier holds the same circuit, shape
and FRI parameters. `--max-quotient-chunks` only reaches the public preprocessor
and is taken to be part of what that returns.

### Prover

| In the module | In the code |
|---|---|
| `All`, `Preprocess`, `Prove`, `VerifyStage` | the chains in `src/main.cpp:43-94`, with `generate_to_file` and `verify_from_file` unrolled |
| `inv[p]`, `status[p]`, `pc[p]` | the options and exit code of process `p`, the operation of its chain it executes |
| `mem[p]` | the optional members of its `Prover`; `assignment_table_` is kept as the two halves that are moved out of it; `proof` is the local of `generate_to_file` |
| `res[p]` | `bool res` of `generate_to_file` |
| `fd[p]` | the output stream it has open, and whether another process had the same file open meanwhile |
| `files` | a file per role (circuit, table, ..., proof, JSON) and location |
| `ReadCircuit` ... `ReadCommitmentScheme`, `ReadFails` | `read_*`, `decode_marshalling_from_file` |
| `PreprocessPublicData`, `PreprocessPrivateData`, `CreateLpcScheme` | the functions of these names |
| `CanWriteToFile` ... `Verify`, `VerifyFromFile` | `generate_to_file` up to the writing, `verify_from_file` |
| `OpenOutput`, then `FinishWrite`, `WriteFails` or `LateFlush` | `encode_marshalling_to_file`: truncating open, then write and close |
| `NoOutputPath`, `OpenFails` | `open_file` fails on an empty path, or for another reason |
| `Return` | how the writing operations report: by the chain, but `write_proof` in `res`, and `write_json` not at all |
| `Undefined` | an empty optional is dereferenced: the process dies, or goes on with what is there |
| `Throw`, `Kill`, `ReplaceInput` | an exception that `run_prover` catches; death of the process; the user changes the circuit or the table |

Operations on memory and reads are one step each; a write is two. Two
overlapping writers of one file leave either one's data or a mixture (`Torn`).
`Invocation[p]` is the set of command lines that may be given in slot `p`: a slot is
a user who starts one process after the other.

### Publication and ProverPublishes

In `Publication` a process has a job: a proof and where it goes, and how far it is
(`ready`, `writing`, `sharing`, `done`, `reported`). The mapping in `ProverPublishes`
shows a job from the moment the operation before `write_proof` has succeeded until
the process fails, or is succeeded by another in its slot. `Strict` locations are
those no command line of the stage `prove`, which does not verify, is given.

### AggregatedChallenge

| In the module | In the code (`prover.hpp:491-532`) |
|---|---|
| `NoInputs` | the early return for an empty list of inputs |
| `Probe`, `ProbeFails` | the first loop: `can_read_from_file` for each input |
| `Absorb`, `ReadFails` | the second loop: read, decode, `transcript(...)` |
| `OpenOutput`, `OpenFails`, `Close`, `CloseFails` | `write_vector_to_hex_file`: truncating open, and the flush in the destructor |
| `Die`, `Edit` | exceptions and death; other provers and users who deliver or remove challenges |

A file may be input and output of one process, or of two. `ChallengeOf` is any
function from sequences of challenges to challenges. `orig` and `quiet` are history
variables: what the files were when a process was started, and whether somebody
else has changed one of its files since.

### WriteProbe

Each call into the file system in `can_write_to_file` (`file_operations.hpp:58-93`) is
a step: `Exists`, then either `OpenForAppending` or `ParentExists`, `CreateTemp`,
`RemoveTemp`; after the probe comes the write of the proof. Users own their files
(mode 0644) and may or may not write to the directory; files and the directory
come and go (`Edit`).

### FileFormat

A file is a sequence of bytes, or of digits and the `x` of `0x`. `Flush` writes any
further part of the data, `ReadChunk` reads any further part of the file, so that
every division into buffers, every death of a writer and every overlap with the
next writer, who truncates, is covered. `Hex` and `FromHex` are
`write_vector_to_hex_file` and `read_hex_file_to_vector` with `Base` for 16.

### ArgParser

`ParseCommandLine`, `StoreOccurrence` and `StoreDefaults`, `Inform` (help and
version), `ParseConfigFile`, `Notify`, `RunProver` are the parts of `parse_args`
and `main` in their order; `vm` is the `variables_map`, `final` the set of options it
will not store again. Options carry their names, short names, defaults and types
from the declarations. `boost::program_options` is external: prefix matching, storing
and conversion are modelled from how it is called. A value is a word, and the
constants `Number`, `Severity`, `Blank` say which words convert to which type.

### PairsScript and ScriptArgs

`NextDirectory`, `RunProducer`, `CircuitMissing`, `Success`, `Failure` are the loop of
`make_proof_for_pairs.sh:100-120` and its `make_proof_for_pair`, `Produce` and
`Write` steps of `Publication` by the producer it runs. `ScriptArgs` is the `while`
and `case` over the positional parameters, with an action for each branch.

## 3. Runs

In `ProverMC` there are the tables `t1` and `t2`, which satisfy `c1` and `c2` and differ
in shape, and `bad`, which has the shape of `t1` and satisfies nothing, and two values
of the FRI options.

| Run | Instance | Shows |
|---|---|---|
| `sequential` | one process at a time, 3 runs, any of the README's sample calls, a `preprocess` call without a description file, a `verify` call with other FRI options; both circuits; 1 failure, 1 change of the inputs | the properties of a producer that runs on its own: artifacts and JSON file fit, `verify` rejects for cause only, exit code 0 is kept |
| `concurrent` | two users at a time, 3 runs, 1 failure or late flush: one splits preprocessing, proving and verifying, one runs `all` with the same defaults, or a proof file of his own | the properties that need no exclusive files, and that `Prover` implements `Publication` |
| `termination` | two processes, 2 runs, 1 failure, weak fairness | every run ends |
| `prove_after_preprocess` | 2 runs, no failure | finding 1 |
| `full_disk` | 1 failure | finding 2 |
| `aggregate` | two processes, 2 runs, 3 files; calls with one input twice, with the output among the inputs, with another call's output as input, without inputs; 1 failure, 1 edit; weak fairness | order and completeness of what is aggregated, no output on failure, every run ends |
| `arguments` | command lines of up to two options, or three with a configuration file of up to two: abbreviations, short names, lists, repetitions, wrong values, missing files | precedence; exactly wrong arguments are refused |
| `readme_calls` | the calls `src/README.md` gives | finding 3 |
| `probe` | two processes, two writers and a guest, two proofs, 3 runs, 1 death, 2 edits | probes disturb nothing and leave nothing, yes and no can be relied on |
| `formats` | digits to base 3, all vectors of up to two bytes from three values, 2 writers, 1 reader | what is read is what was written, a prefix of it, or an error |
| `script` | two scripts, three tables, one without circuit, targets that overlap, proof files that are shared | exit code and proofs agree; every script ends |
| `script_arguments` | all command lines of up to four words | every word in its place; parsing ends |

Bounds. For `Prover` three runs are a preprocess, a prove and a verify, the longest
dependency there is; a fourth could only repeat one. One failure separates what
survives a failure from what does not; properties that exclude failures say so
(`faults = 0`). One change of the inputs between or during runs makes every
artifact stale in every way; in `concurrent` it is left out to keep the instance
small, and the theorems of section 4, which state all of its properties, cover it. Two processes
are enough for every interference between a writer and a reader or two writers.
In `aggregate`, two inputs are what order and duplicates need, and two runs what
an output that is another run's input needs. In `probe`, the third run is one that
starts in the middle of two, and two edits are a file that goes and comes back.
In `formats`, the bytes are one of two different digits, one of one digit and zero;
the base only sets how many there are; two bytes have a last one and one before
it. In `script_arguments`, four words hold an option with its value, a separator and
an argument behind it. The symmetry of `probe` permutes slots, writers and proofs,
which no definition tells apart. Deadlock is not checked where the system stops
for good: all runs used up and all processes ended.

Fairness. `FairSpec` of `Prover` and `AggregatedChallenge` and `Spec` of the two
script modules assume weak fairness of each process's own steps. The operating
system runs what can run, and a process is one thread of control that never
waits for another; nothing is assumed of users, failures and edits. In
`PairsScript` the producer's end is a step of its script, which is what
`EveryRunEnds` shows of it.

### Properties

`Prover`:

* `OptionalsEngaged`: no empty optional is dereferenced, but for finding 1.
* `VerdictIsExact`: `all` accepts its own proof exactly for a satisfying table.
* `PublishedProofsVerified`: who may touch a proof file, and with what proof.
* `ExitZeroIsDurable`: exit code 0 means whole outputs, for files no other
  user's commands write to, or torn ones after a late flush (see finding 2). The
  JSON file is not covered, since its failures are not reported.
* `ArtifactsCoherent`, `JsonFollowsProof`: without failures the three artifacts stem
  from one run, and the JSON file belongs to the proof file.
* `VerifyRejectsForCause`: the stages fit together.
* `ImplementsPublication`, `ProofFilesGenuine`: the refinement, and with it that
  whatever can be read as a proof at a location of verified runs is genuine.
* `EveryRunEnds`.

`AggregatedChallenge`: `AggregatesItsInputs`, `OutputOnlyWhenComplete`,
`EveryAggregationEnds`. `WriteProbe`: `ProofsSurviveProbes`, `NoLitter`, `YesHolds`,
`NoHolds`. `FileFormat`: `ReadBack`, `TornIsPrefix`, `NothingInvented`. `ArgParser`:
`Precedence`, `TerminatesForCause`. `PairsScript`: `ExitCodeExact`, `ZeroMeansProofs`,
`EveryScriptEnds`. `ScriptArgs`: `EveryWordInPlace`, `ParsingEnds`. Each is stated in
words where it is defined.

### Findings

1. `prove` writes the JSON file from `public_inputs_`, which only
   `preprocess_public_data` fills and which this stage never calls
   (`prover.hpp:224`, `main.cpp:68-80`). The comment at `prover.hpp:163` says that
   loading the preprocessed data is enough.
2. `write_vector_to_hex_file` and `write_vector_to_file` consult `stream.fail()`
   before the destructor flushes the last buffer. If that flush fails the
   process exits 0, which `src/tests/make_proof_for_pairs.sh:32-33` takes as success.
3. `src/README.md:38` calls the producer with `--assignment`, a prefix of
   `--assignment-table` and of `--assignment-description-file` (`arg_parser.cpp:83-84`).
   The parser throws `ambiguous_option`, which `main` does not catch.

The properties also record limits that no document contradicts:

* Probes of several users in one directory share the name of their temporary
  file, and one's file makes the other's probe say no: `NoHolds` asks for one writer.
* The empty vector is written as `0x`, which the reader refuses (`ReadBack`); a hex
  file without its last digit decodes to as many bytes as the whole one, the last
  of them wrong (`TornIsPrefix`). `Prover` treats such a file as torn; which way
  `verify` rejects it makes no difference to its properties.
* With `--base-dir` or `--output-dir` as the last word, `shift 2` shifts nothing and the
  script loops for ever: `ParsingEnds` excepts `ValueMissing`.
* After a failure in the middle, artifacts of two runs may stand side by side, and
  nothing in the code detects it: `ArtifactsCoherent` asks for `faults = 0`.
* The script looks for the producer at `build/bin/proof-generator/`, while
  `src/README.md` builds it in `build/bin/proof-producer/`; no model has this path.

## 4. Proofs

Every invariant and every action property that a run checks is a theorem here, and
so is the refinement; only liveness is left to TLC. All theorems hold for any sets of
processes, locations or files and command lines and any bounds. They rest on the
assumptions that the modules name (`PlaceholderAssumption`, `ProverAssumption`,
`NoneIsNoRecord`, `PublicationAssumption`, `AggregationAssumption`,
`WriteProbeAssumption`, `PairsAssumption`, `FileFormatAssumption`,
`ArgParserAssumption`, `ScriptArgsAssumption`): the types of the constants, and that
the markers `None`, `Absent`, `NoFile` and `Torn` are not data. What else they ask:
`ProverAssumption` that there is a slot; `FileFormatAssumption` that a digit has two
values or more; `ArgParserAssumption` that abbreviations are not names themselves and
that the defaults have the type of their options.

`ProverProofs`:

* `TypeCorrect`: `Spec => []TypeOK`. `TypeOK` is inductive as it stands. The proof
  has one lemma for each way in which an operation can end (`LoadStep`,
  `StopStep`, `NoFileStep`, `CloseStep`, `EndStep`, `OpenStep`), and the actions
  cite them. That a writing operation has something well-typed to write comes
  from `Empty(p) = {}`, the definedness of the step.
* `NoEmptyOptional`: `Spec => []OptionalsEngaged`. Which optionals are filled
  cannot be seen from the next operation alone, so the invariant is strengthened
  to `DataInv`: for each stage, what is filled at each position of the chain.
* `ExactVerdict`: `Spec => []VerdictIsExact`. For the `all` stage `DataInv` also says
  with what: scheme, public and private data and proof all derive from the one
  circuit and the one table in memory. No file occurs in `DataInv`, which is why
  other processes and failures cannot disturb it (`OthersUntouched`, `Frame`).
* `VerifiedBeforePublished`: `Spec => PublishedProofsVerified`, from `DataInv` and
  `ProofWriter`: a step that changes a proof file belongs to a process at
  `write_proof` with that file as its target.

`PublicationProofs`: `JobsCorrect` (its `TypeOK`), `GenuineOnly` (`Spec => []OnlyGenuine`)
and `SuccessLasts` (`Spec => []ReportedIsThere`). The last one is not inductive: it
needs that nobody shares a file of one's own (`NotSharedStep`).

About the refinement, also in `ProverProofs`:

* `RefinesPublication`: `Spec => ImplementsPublication`. The mapping depends on where
  `write_proof` is in a chain (`WriteProofIsEighth`, `MakerSteps`), and on `JobInv`: a
  process past the operation that makes the proof has one, and it is sound where
  the stage verifies. Then each step of `Prover` is put to a step of `Publication`: the
  operation before `write_proof` to `Produce`, the opening of the proof file to `Open`,
  its end to `Finish` or `Cut`, the end of the chain to `Report`, failures and new runs
  to `Forget`; everything else stutters (`StepImplements`).
* `ProofFilesAreGenuine`: `Spec => []ProofFilesGenuine` is `GenuineOnly`, carried over
  by the refinement.

About the files, also in `ProverProofs`:

* `ExitZeroMeansOutputs`: `Spec => []ExitZeroIsDurable`. The invariant `DurableInv`
  says of a running process what the property says of a finished one: every file
  it has written so far and shares with nobody still holds what its members say
  (`Durable`), although later operations change members; nobody else has its files
  open (`Unshared`); and the chain goes on after `write_proof` failed only up to
  `write_json` (`Complete`). It needs that a chain writes every role once
  (`SinksDiffer`), and that what a chain computes after its first write is not what
  it has written (`EarlyWrite`).
* `ArtifactsStayTogether`, `JsonBelongsToProof` and `RejectedForCause`: `Spec =>
  []ArtifactsCoherent`, `[]JsonFollowsProof` and `[]VerifyRejectsForCause`, the three
  properties of a producer that runs on its own, as the script runs it. Their
  scope is stated in them: one slot (`OneByOne`), command lines that name one file
  for a role (`SamePath`), all of them (`Given`), and no failures. A file changes hands
  between stages here, so the invariants describe files at each position of the
  chains. `Coherent`: from its first save to its last a process has written
  some of the artifacts and holds the others, and outside of that they match. Its
  part `InputsFit` carries what `prove` has loaded from one artifact to the writing of
  another. `GoodInv`: on inputs that satisfy each other, every file is absent, being
  rewritten or derived from them, memory derives from them too, and a verification
  that has failed has a cause in sight. `FaultFree` reduces `Next` to the steps
  that these runs take, and `AloneInv` says that a lone process shares no file.

`AggregatedChallengeProofs`:

* `TypeCorrect`: with `Absorbed`, which relates the length of the transcript to
  the loop's index; that the result is a challenge depends on it.
* `CompleteBeforeOutput`: `Spec => OutputOnlyWhenComplete`, from `Absorbed`.
* `OutputIsAggregate`: `Spec => []AggregatesItsInputs`. The invariant `OwnInputs` says
  that as long as nobody else changes a process's files they are as they were
  when it was started until it opens its output, and its transcript lists the
  first inputs as they were then; the output is truncated only after that, so it
  may be among the inputs (`QInvLook`, `QInvWrite`). What others write costs their
  victims `quiet` (`OthersQuiet`).

`WriteProbeProofs`: `TypeCorrect`, `NothingLeft` (`NoLitter`), `YesIsReliable`
(`YesHolds`), `NoIsReliable` (`NoHolds`) and `ProofsSurvive` (`ProofsSurviveProbes`), from one
invariant. It says what each phase of a probe knows: who has found no file finds
none later, and who may write may write later, unless somebody else has changed
that (`StillAbsent`, `StillWritable`); that the history variables are kept (`CouldKept`);
and whose the temporary file is (`TempOwned`), without which neither its removal nor
a refusal could be justified.

`PairsScriptProofs`: `ExitCodeRemembers` and `ZeroIsEnough`, `Spec => []ExitCodeExact` and
`Spec => []ZeroMeansProofs`. The scripts are shown to use the producer only as
`Publication` allows (`UsesPublication`), so that `SuccessLasts` holds of each run; from
there the invariant `SInv` accounts for every table the script has reached: it is
waiting, being worked on, has failed, or its proof is there and stays there, since no
later run of the script writes to the same place (`Accounted`, `ScriptFrame`).

`WriteProbeProofs` and `PairsScriptProofs` also prove their `TypeOK` (`TypeCorrect`).

`FileFormatProofs`: `TypeCorrect`, `WholeFilesReadBack` (`ReadBack`), `TornFilesArePrefixes`
(`TornIsPrefix`) and `NothingIsInvented` (`NothingInvented`), for any base, vectors and
numbers of writers and readers. The invariant `FInv` says that the file is a prefix of
what its last writer writes (`FileFits`), that every symbol a reader has was
written at its place by somebody (`GotWritten`), and that a reader nobody disturbs has
a prefix of the file, all of it at the end (`CalmReader`). What hexadecimal does to
these prefixes are facts about its functions: two digits make the byte they came
from, one digit makes what is left of it (`HexText`, `HexRead`, `WholeText`, `TornText`).

`ArgParserProofs`: `TypeCorrect`, `SourcePrecedence` (`Precedence`) and
`TerminatesOnlyForCause` (`TerminatesForCause`), for any command lines, configuration
files and abbreviations. `Values`, which collects what a source says of an option, is
recursive, but nobody has to prove by induction what it computes: `parse_args` goes
through the same occurrences one by one, and the invariant says of those behind it
what `Values` says of all. `Gathered` relates the variables_map to a walk along them
(`Walk`, `Leads`), each stored occurrence extends the walk (`WalkStep`), and when `store`
has come to the end the walk is `Values` (`WalkEnd`). The same holds of what has been
refused (`ConsistentUpTo`). The rest of `AInv` says for each position of `parse_args` where
the value of an option comes from: `StoringLine`, `LineStored`, `StoringFile`, `FileStored`,
`Notified`; after a refusal or an early return, whether it was due (`Ended`).

`ScriptArgsProofs`: `WordsInPlace`, `Spec => []EveryWordInPlace`, for any command lines. Which
words are values of options is recursive too: `"--base-dir --base-dir --base-dir"` has one
value and asks for another. `Values` proves that the recursive function exists, by
induction over the words. That is possible here because the library's theorem that
a well-founded relation has minimal elements (`WFMin`) speaks of sets, not of
operators (`LeastMember`, `SetInduction`). The invariant `SInv` then says that the words
behind the script are sorted: `Sorted` as long as the separator has not been met,
`Forwarding` after it, unless the script is stuck with an option as the last word (`Stuck`).

Only model-checked: liveness (`EveryRunEnds`, `EveryAggregationEnds`, `EveryScriptEnds`,
`ParsingEnds`), since fairness and ENABLED are beyond the prover; and the three runs
that find a violation.

## 5. Plan

Done: all of the modules in section 2, in the order `Placeholder`, `Prover`,
`AggregatedChallenge`, `ArgParser`, `Publication`, `ProverPublishes`, `WriteProbe`,
`FileFormat`, `PairsScript`, `ScriptArgs`, and the proofs in section 4.

Left, in the order of what it would add:

1. The three properties of a lone producer for several slots that take turns:
   `OneByOne` asks for one slot, where the code only needs that no two processes
   run at the same time.
2. `WriteProbe` as an implementation of the single step that `Prover` makes of
   `can_write_to_file`, and the readers and writers of `FileFormat` as implementations of
   `Prover`'s reads and writes, which section 2 only argues.

## 6. Not modelled

* Cryptography, the marshalling formats, log output, and the threads of the
  multi-threaded binary, all of which are inside crypto3.
* The CI workflows and the release: calls of services whose behaviour the
  repository does not determine. The script they run is modelled.
* The build, and the compile-time machinery: `variant_to_tuple`,
  `generate_templates_from_array_for_runtime_check` and the parameters of
  `non_type_arithmetization_params.hpp`, which nothing uses at run time. The variants
  of the curve and hash types and the visit that selects an instance are in
  `ArgParser`.
* `--grind-param` and `--log-level` after they have been parsed: nothing reads them,
  or only the log does.
* `is_valid_path`, which compares the length of a path with limits; directories
  with the sticky bit, in which the temporary file of another user cannot be
  removed.
* In the script: `clean_up`, which is not reached (`clean` is `false` and nothing sets
  it), and `find` on a target that does not exist, whose status is lost in the
  process substitution, so that the script may exit 0 without a proof for it.
