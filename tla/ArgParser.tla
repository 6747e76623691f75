----------------------------- MODULE ArgParser -----------------------------
(***************************************************************************)
(* parse_args: the options of a run from the command line, a configuration *)
(* file and defaults.  What boost::program_options does is modelled from   *)
(* these calls: parse_command_line recognises the options, store fills the *)
(* variables_map one occurrence at a time, notify copies it to the options.*)
(* The options then select the instance of run_prover that main calls.     *)
(*                                                                         *)
(* An occurrence is an option's name and the values that follow it.        *)
(* KeepingDefault, NothingFinal and OverridingFinal are mistaken versions  *)
(* of the definitions they precede.                                        *)
(***************************************************************************)
EXTENDS Integers, FiniteSets, Sequences

CONSTANTS
    CommandLine,  \* the command lines users type: sequences of occurrences
    ConfigFile,   \* the contents of configuration files, likewise
    PrefixOf,     \* the <<name, option>> pairs where name abbreviates option
    Number, Severity, Blank, \* texts: numbers, log levels, texts with a blank
    NoFile, None  \* a file that cannot be opened; no value

Generic == {"help", "version", "config"}
Paths == {"proof", "json", "common-data", "preprocessed-data", "commitment-state-file",
          "circuit", "assignment-table", "assignment-description-file",
          "input-challenge-files", "aggregated-challenge-file"}
Sizes == {"lambda-param", "grind-param", "expand-factor", "max-quotient-chunks"}
Config == {"stage", "log-level", "elliptic-curve-type", "hash-type"} \cup Paths \cup Sizes
Option == Generic \cup Config

ShortNames ==
    {<<"h", "help">>, <<"v", "version">>, <<"c", "config">>, <<"p", "proof">>, <<"j", "json">>,
     <<"t", "assignment-table">>, <<"l", "log-level">>, <<"e", "elliptic-curve-type">>,
     <<"x", "expand-factor">>, <<"q", "max-quotient-chunks">>, <<"u", "input-challenge-files">>}

(* Several values, in one occurrence or in many.                           *)
Multitoken == {"input-challenge-files"}
Flag == {"help", "version"}

(* The types the producer is instantiated with, in the order of the        *)
(* variants' alternatives, and the types that the options' texts name.     *)
CurveTypes == <<"pallas">>
HashTypes == <<"keccak_1600<256>", "sha2<256>", "poseidon<mina_poseidon_policy>">>
CURVE_TYPES == [pallas |-> "pallas"]
HASH_TYPES ==
    [keccak |-> "keccak_1600<256>", poseidon |-> "poseidon<mina_poseidon_policy>",
     sha256 |-> "sha2<256>"]

(* The texts that convert to the type of option o.                         *)
Converts(o, v) ==
    CASE o = "elliptic-curve-type" -> v \in DOMAIN CURVE_TYPES
      [] o = "hash-type"           -> v \in DOMAIN HASH_TYPES
      [] o = "log-level"           -> v \in Severity
      [] o \in Sizes               -> v \in Number
      [] o \in Paths               -> v \notin Blank
      [] OTHER                     -> TRUE

(* ProverOptions as it is constructed; an empty sequence is an empty path. *)
Constructed ==
    [o \in Config |->
        CASE o = "stage" -> <<"all">>
          [] o = "proof" -> <<"proof.bin">>
          [] o = "json" -> <<"proof.json">>
          [] o = "common-data" -> <<"preprocessed_common_data.dat">>
          [] o = "preprocessed-data" -> <<"preprocessed_data.dat">>
          [] o = "commitment-state-file" -> <<"commitment_scheme_state.dat">>
          [] o = "aggregated-challenge-file" -> <<"aggregated_challenge.dat">>
          [] o = "log-level" -> <<"info">>
          [] o = "elliptic-curve-type" -> <<"pallas">>
          [] o = "hash-type" -> <<"keccak">>
          [] o = "lambda-param" -> <<"9">>
          [] o = "grind-param" -> <<"69">>
          [] o = "expand-factor" -> <<"2">>
          [] o = "max-quotient-chunks" -> <<"0">>
          [] OTHER -> <<>>]

Defaulted == Config \ {"circuit", "assignment-table", "assignment-description-file",
                       "input-challenge-files", "aggregated-challenge-file"}

Occurrence == [name : STRING, values : Seq(STRING)]

(* A line of a configuration file has one value, and the default of an     *)
(* option is of the option's type.                                         *)
ASSUME ArgParserAssumption ==
    /\ CommandLine \subseteq Seq(Occurrence)
    /\ ConfigFile \subseteq Seq({e \in Occurrence : Len(e.values) = 1})
    /\ \A t \in PrefixOf : t[1] \notin Option /\ t[2] \in Option
    /\ \A o \in Defaulted : Constructed[o][1] \in STRING /\ Converts(o, Constructed[o][1])
    /\ NoFile \notin ConfigFile
    /\ None \notin [value : Seq(STRING), defaulted : BOOLEAN]

VARIABLES
    argv,    \* the command line
    file,    \* what --config names
    status,  \* where parse_args is, or how the process continues
    given,   \* the occurrences being stored
    k,       \* the next of them
    vm,      \* the variables_map
    final,   \* options that later calls of store leave alone
    options, \* ProverOptions
    instance \* curve and hash of the instance of run_prover that is called

vars == <<argv, file, status, given, k, vm, final, options, instance>>
result == <<options, instance>>

----------------------------------------------------------------------------
(* Names are completed; a full match beats any abbreviation.               *)
Candidates(n) ==
    IF n \in Option THEN {n} ELSE {o \in Option : <<n, o>> \in ShortNames \cup PrefixOf}

(* Exactly one option is meant, and it has the value it needs.             *)
Recognised(e) ==
    \E o \in Option : Candidates(e.name) = {o} /\ (o \in Flag \/ e.values # <<>>)

(* Of the values that follow it an option takes as many as it can hold;    *)
(* the others are positional, and ignored.                                 *)
Completed(e) ==
    LET o == CHOOSE c \in Option : c \in Candidates(e.name)
    IN [name |-> o, values |-> CASE o \in Flag -> <<>>
                                 [] o \in Multitoken -> e.values
                                 [] OTHER -> <<e.values[1]>>]

Goto(s) == status' = s

Terminate == Goto("terminated") /\ UNCHANGED <<argv, file, given, k, vm, final, result>>

Init ==
    /\ argv \in CommandLine
    /\ file \in ConfigFile \cup {NoFile}
    /\ status = "parse"
    /\ given = <<>> /\ k = 1
    /\ vm = [o \in Option |-> None]
    /\ final = {}
    /\ options = Constructed
    /\ instance = None

(* parse_command_line; its errors, as all errors of parse_args, leave main.*)
ParseCommandLine ==
    /\ status = "parse"
    /\ \/ /\ \A n \in 1..Len(argv) : Recognised(argv[n])
          /\ given' = [n \in 1..Len(argv) |-> Completed(argv[n])]
          /\ Goto("store command line")
          /\ UNCHANGED <<argv, file, k, vm, final, result>>
       \/ /\ \E n \in 1..Len(argv) : ~Recognised(argv[n])
          /\ Terminate

Storing == status \in {"store command line", "store config"}
Explicit(o) == vm[o] # None /\ ~vm[o].defaulted

AllConvert(e) == \A n \in 1..Len(e.values) : Converts(e.name, e.values[n])

(* A scalar option is given once, a value converts to the option's type.   *)
Storable(e) == (e.name \in Multitoken \/ ~Explicit(e.name)) /\ AllConvert(e)

KeepingDefault(e) ==
    [value |-> IF vm[e.name] # None THEN vm[e.name].value \o e.values ELSE e.values,
     defaulted |-> FALSE]

(* The value after an occurrence: it replaces a default, and adds to what  *)
(* earlier occurrences of an option with several values have left.         *)
Updated(e) ==
    [value |-> IF Explicit(e.name) THEN vm[e.name].value \o e.values ELSE e.values,
     defaulted |-> FALSE]

OverridingFinal ==
    /\ Storing
    /\ k <= Len(given)
    /\ LET e == given[k]
       IN \/ /\ AllConvert(e)
             /\ vm' = [vm EXCEPT ![e.name] = [value |-> e.values, defaulted |-> FALSE]]
             /\ k' = k + 1
             /\ UNCHANGED <<argv, file, status, given, final, result>>
          \/ ~AllConvert(e) /\ Terminate

(* store, one occurrence.                                                  *)
StoreOccurrence ==
    /\ Storing
    /\ k <= Len(given)
    /\ LET e == given[k]
       IN \/ /\ e.name \in final
             /\ k' = k + 1
             /\ UNCHANGED <<argv, file, status, given, vm, final, result>>
          \/ /\ e.name \notin final /\ Storable(e)
             /\ vm' = [vm EXCEPT ![e.name] = Updated(e)]
             /\ k' = k + 1
             /\ UNCHANGED <<argv, file, status, given, final, result>>
          \/ /\ e.name \notin final /\ ~Storable(e)
             /\ Terminate

NothingFinal == final' = final

MarkFinal == final' = final \cup {given[n].name : n \in 1..Len(given)}

(* store, its end: options that were given become final, the others get    *)
(* their defaults.                                                         *)
StoreDefaults ==
    /\ Storing
    /\ k > Len(given)
    /\ MarkFinal
    /\ vm' = [o \in Option |->
                 IF vm[o] = None /\ o \in Defaulted
                 THEN [value |-> Constructed[o], defaulted |-> TRUE] ELSE vm[o]]
    /\ Goto(IF status = "store config" THEN "notify" ELSE "config")
    /\ UNCHANGED <<argv, file, given, k, result>>

(* --help and --version: parse_args returns nullopt, main returns 0.       *)
Inform ==
    /\ status = "config"
    /\ \E o \in Flag : vm[o] # None
    /\ Goto("informed")
    /\ UNCHANGED <<argv, file, given, k, vm, final, result>>

NoConfig ==
    /\ status = "config"
    /\ \A o \in Generic : vm[o] = None
    /\ Goto("notify")
    /\ UNCHANGED <<argv, file, given, k, vm, final, result>>

(* parse_config_file knows no abbreviations, and not the generic options.  *)
Parses(f) == f # NoFile /\ \A n \in 1..Len(f) : f[n].name \in Config

ParseConfigFile ==
    /\ status = "config"
    /\ vm["config"] # None /\ \A o \in Flag : vm[o] = None
    /\ \/ /\ Parses(file)
          /\ given' = file
          /\ k' = 1
          /\ Goto("store config")
          /\ UNCHANGED <<argv, file, vm, final, result>>
       \/ ~Parses(file) /\ Terminate

(* None of the options that exclude each other has been declared.          *)
ExclusiveOptionsOK ==
    Cardinality({o \in {"verification-only", "skip-verification"} \cap Option : Explicit(o)}) <= 1

Notify ==
    /\ status = "notify"
    /\ options' = [o \in Config |-> IF vm[o] # None THEN vm[o].value ELSE options[o]]
    /\ Goto(IF ExclusiveOptionsOK THEN "run" ELSE "terminated")
    /\ UNCHANGED <<argv, file, given, k, vm, final, instance>>

(* A variant holds the position of its type among the alternatives;        *)
(* visiting it picks the template argument at that position.               *)
Alternative(types, t) == CHOOSE n \in 1..Len(types) : types[n] = t
Visit(types, named, o) == types[Alternative(types, named[options[o][1]])]

(* main, through one wrapper for the curve and one for the hash.           *)
RunProver ==
    /\ status = "run"
    /\ instance' = [curve |-> Visit(CurveTypes, CURVE_TYPES, "elliptic-curve-type"),
                    hash |-> Visit(HashTypes, HASH_TYPES, "hash-type")]
    /\ Goto("run_prover")
    /\ UNCHANGED <<argv, file, given, k, vm, final, options>>

Next ==
    \/ ParseCommandLine \/ StoreOccurrence \/ StoreDefaults
    \/ Inform \/ NoConfig \/ ParseConfigFile \/ Notify \/ RunProver

Spec == Init /\ [][Next]_vars

----------------------------------------------------------------------------
(* The variables_map holds only values that convert to their option's      *)
(* type, and one value of a scalar option.                                 *)
TypeOK ==
    /\ status \in {"parse", "store command line", "config", "store config", "notify",
                   "run", "run_prover", "informed", "terminated"}
    /\ k \in 1..Len(given) + 1
    /\ final \subseteq Option
    /\ \A o \in Option : vm[o] # None =>
          /\ \A n \in 1..Len(vm[o].value) : Converts(o, vm[o].value[n])
          /\ o \in Multitoken \/ (Len(vm[o].value) = IF o \in Flag THEN 0 ELSE 1)

(* What a source says of option o: all values, in order.                   *)
Says(source, o) == \E n \in 1..Len(source) : source[n].name = o
Values(source, o) ==
    LET upto[n \in 0..Len(source)] ==
            IF n = 0 THEN <<>>
            ELSE IF source[n].name = o THEN upto[n - 1] \o source[n].values ELSE upto[n - 1]
    IN upto[Len(source)]

TypedIn == [n \in 1..Len(argv) |-> Completed(argv[n])]

(* The highest source that says something of option o.                     *)
Chosen(o) ==
    IF Says(TypedIn, o) THEN Values(TypedIn, o)
    ELSE IF Says(TypedIn, "config") /\ Says(file, o) THEN Values(file, o)
    ELSE Constructed[o]

(* Each option that reaches the prover comes from the command line if it   *)
(* is there, else from the configuration file, else it is the default; the *)
(* challenge files come from one of the two sources, all of them, in the   *)
(* order they were given.  The instance that runs is that of the hash so   *)
(* chosen.                                                                 *)
Precedence ==
    status = "run_prover" =>
        /\ \A o \in Config : options[o] = Chosen(o)
        /\ instance.hash = HASH_TYPES[Chosen("hash-type")[1]]

(* A source is consistent: no scalar option twice, every value of the      *)
(* right type; options that are already decided do not count.              *)
Consistent(source, decided) ==
    \A n \in 1..Len(source) : source[n].name \notin decided =>
        /\ \A m \in 1..n - 1 :
              source[m].name = source[n].name => source[n].name \in Multitoken
        /\ \A j \in 1..Len(source[n].values) : Converts(source[n].name, source[n].values[j])

AcceptedArguments ==
    /\ \A n \in 1..Len(argv) : Recognised(argv[n])
    /\ Consistent(TypedIn, {})
    /\ \/ \E o \in Flag : Says(TypedIn, o)
       \/ ~Says(TypedIn, "config")
       \/ /\ Parses(file)
          /\ Consistent(file, {o \in Option : Says(TypedIn, o)})

(* Exactly the wrong arguments end the process.  The configuration file    *)
(* is not looked at when help or the version is asked for, and what it     *)
(* says of an option that the command line gives may be wrong.             *)
TerminatesForCause ==
    status \in {"run", "run_prover", "informed", "terminated"} =>
        (status = "terminated" <=> ~AcceptedArguments)

(* What README.md says, and the code does not do: the call under "Usage"   *)
(* and the sample calls, CommandLine in the run that checks this, are      *)
(* command lines of the program.                                           *)
SampleCallsAccepted == status # "terminated"
============================================================================
