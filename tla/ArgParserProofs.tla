--------------------------- MODULE ArgParserProofs ---------------------------
(***************************************************************************)
(* Proofs about ArgParser, for any command lines, configuration files and  *)
(* abbreviations.  parse_args goes through the occurrences one by one, so  *)
(* the proofs go with it: an invariant relates what it has stored to the   *)
(* occurrences behind it, and no induction over sequences is needed.       *)
(***************************************************************************)
EXTENDS ArgParser, FiniteSetTheorems, TLAPS

-----------------------------------------------------------------------------
(* f walks along a source and gathers the values of o, for m occurrences.  *)
Walk(f, source, o, m) ==
    /\ f[0] = <<>>
    /\ \A n \in 1..m :
          f[n] = IF source[n].name = o THEN f[n - 1] \o source[n].values ELSE f[n - 1]

Held(o) == IF Explicit(o) THEN vm[o].value ELSE <<>>

(* A walk of m occurrences is possible and leads to h, whoever walks.      *)
Leads(source, o, m, h) ==
    /\ \E f : Walk(f, source, o, m)
    /\ \A f : Walk(f, source, o, m) => f[m] = h

(* The variables_map has of o what the occurrences before k say.           *)
Gathered(o) ==
    /\ Leads(given, o, k - 1, Held(o))
    /\ Explicit(o) <=> \E n \in 1..k - 1 : given[n].name = o

ConsistentUpTo(m, source, decided) ==
    \A n \in 1..m : source[n].name \notin decided =>
        /\ \A i \in 1..n - 1 :
              source[i].name = source[n].name => source[n].name \in Multitoken
        /\ \A j \in 1..Len(source[n].values) : Converts(source[n].name, source[n].values[j])

AllRecognised == \A n \in 1..Len(argv) : Recognised(argv[n])
Decided == {o \in Option : Says(TypedIn, o)}

(* What the variables_map holds of an option.                              *)
Default(o) == IF o \in Defaulted THEN [value |-> Constructed[o], defaulted |-> TRUE] ELSE None
Said(source, o) == [value |-> Values(source, o), defaulted |-> FALSE]
Typed(o) == IF Says(TypedIn, o) THEN Said(TypedIn, o) ELSE Default(o)
Merged(o) ==
    IF Says(TypedIn, o) THEN Said(TypedIn, o)
    ELSE IF Says(TypedIn, "config") /\ Says(file, o) THEN Said(file, o) ELSE Default(o)

Heard(o) == Says(TypedIn, o) \/ (Says(TypedIn, "config") /\ Says(file, o))

Entry == [name : Option, values : Seq(STRING)]

(* An occurrence has as many values as its option takes.                   *)
Fits(o, values) ==
    /\ values \in Seq(STRING)
    /\ o \in Multitoken \/ (Len(values) = IF o \in Flag THEN 0 ELSE 1)

Variable(o) ==
    vm[o] # None =>
        /\ vm[o] \in [value : Seq(STRING), defaulted : BOOLEAN]
        /\ Fits(o, vm[o].value)
        /\ \A n \in 1..Len(vm[o].value) : Converts(o, vm[o].value[n])

Shape ==
    /\ argv \in CommandLine /\ file \in ConfigFile \cup {NoFile}
    /\ status \in {"parse", "store command line", "config", "store config", "notify",
                   "run", "run_prover", "informed", "terminated"}
    /\ given \in Seq(Entry)
    /\ \A n \in 1..Len(given) : Fits(given[n].name, given[n].values)
    /\ k \in 1..Len(given) + 1
    /\ final \subseteq Option
    /\ DOMAIN vm = Option /\ \A o \in Option : Variable(o)

(* How far parse_args has come, and what it knows by then.                 *)
Start ==
    status = "parse" =>
        given = <<>> /\ final = {} /\ options = Constructed /\ \A o \in Option : vm[o] = None

StoringLine ==
    status = "store command line" =>
        /\ AllRecognised /\ given = TypedIn /\ final = {} /\ options = Constructed
        /\ ConsistentUpTo(k - 1, given, {})
        /\ \A o \in Option : Gathered(o) /\ (~Explicit(o) => vm[o] = None)

LineStored ==
    status = "config" =>
        /\ AllRecognised /\ final = Decided /\ options = Constructed
        /\ Consistent(TypedIn, {})
        /\ \A o \in Option : vm[o] = Typed(o)
        /\ \A o \in Decided : Typed(o) # None

StoringFile ==
    status = "store config" =>
        /\ AllRecognised /\ final = Decided /\ options = Constructed
        /\ given = file /\ Parses(file)
        /\ Says(TypedIn, "config") /\ ~\E o \in Flag : Says(TypedIn, o)
        /\ Consistent(TypedIn, {}) /\ ConsistentUpTo(k - 1, file, Decided)
        /\ \A o \in Option : IF o \in Decided THEN vm[o] = Typed(o)
                             ELSE Gathered(o) /\ (~Explicit(o) => vm[o] = Default(o))
        /\ \A o \in Decided : Typed(o) # None

FileStored ==
    status = "notify" =>
        /\ options = Constructed /\ AcceptedArguments
        /\ \A o \in Config : vm[o] = Merged(o) /\ (Heard(o) => Merged(o) # None)

Notified ==
    status \in {"run", "run_prover"} =>
        /\ AcceptedArguments
        /\ options["hash-type"][1] \in DOMAIN HASH_TYPES
        /\ \A o \in Config : options[o] = Chosen(o)
        /\ status = "run_prover" => instance.hash = HASH_TYPES[options["hash-type"][1]]

Ended ==
    /\ status = "informed" => AcceptedArguments
    /\ status = "terminated" => ~AcceptedArguments

AInv ==
    /\ Shape
    /\ Start /\ StoringLine /\ LineStored /\ StoringFile /\ FileStored /\ Notified /\ Ended

-----------------------------------------------------------------------------
(* The options.                                                            *)
LEMMA OptionFacts ==
    /\ Config \subseteq Option /\ Flag \subseteq Option /\ Multitoken \subseteq Config
    /\ Config \cap Generic = {} /\ Defaulted \subseteq Config
    /\ \A o \in Flag : o \notin Multitoken /\ o \notin Config
    /\ \A o \in Defaulted : o \notin Multitoken
    /\ "config" \in Option /\ "config" \notin Config /\ "hash-type" \in Defaulted
BY DEF Option, Config, Generic, Flag, Multitoken, Paths, Sizes, Defaulted

LEMMA DefaultValues ==
    ASSUME NEW o \in Defaulted
    PROVE  /\ Constructed[o] \in Seq(STRING) /\ Len(Constructed[o]) = 1
           /\ Converts(o, Constructed[o][1])
<1>1. o \in Config /\ o \notin {"circuit", "assignment-table", "assignment-description-file",
                                "input-challenge-files", "aggregated-challenge-file"}
    BY DEF Defaulted
<1>2. \A S : \A s \in S : <<s>> \in Seq(S) /\ Len(<<s>>) = 1 OBVIOUS
<1>3. \E s \in STRING : Constructed[o] = <<s>>
  <2>1. o \in {"stage", "log-level", "elliptic-curve-type", "hash-type", "proof", "json",
              "common-data", "preprocessed-data", "commitment-state-file", "lambda-param",
              "grind-param", "expand-factor", "max-quotient-chunks"}
      BY <1>1 DEF Config, Paths, Sizes
  <2>2. /\ Constructed["stage"] = <<"all">> /\ Constructed["proof"] = <<"proof.bin">>
        /\ Constructed["json"] = <<"proof.json">>
        /\ Constructed["common-data"] = <<"preprocessed_common_data.dat">>
        /\ Constructed["preprocessed-data"] = <<"preprocessed_data.dat">>
        /\ Constructed["commitment-state-file"] = <<"commitment_scheme_state.dat">>
        /\ Constructed["log-level"] = <<"info">>
        /\ Constructed["elliptic-curve-type"] = <<"pallas">>
        /\ Constructed["hash-type"] = <<"keccak">>
        /\ Constructed["lambda-param"] = <<"9">> /\ Constructed["grind-param"] = <<"69">>
        /\ Constructed["expand-factor"] = <<"2">> /\ Constructed["max-quotient-chunks"] = <<"0">>
      BY SMT DEF Constructed, Config, Paths, Sizes
  <2>3. \E s : Constructed[o] = <<s>> BY <2>1, <2>2
  <2>4. PICK s : Constructed[o] = <<s>> BY <2>3
  <2>5. Constructed[o][1] = s BY <2>4
  <2>6. Constructed[o][1] \in STRING BY ArgParserAssumption DEF ArgParserAssumption
  <2> QED BY <2>4, <2>5, <2>6, Zenon
<1>4. Converts(o, Constructed[o][1]) BY ArgParserAssumption DEF ArgParserAssumption
<1> QED BY <1>2, <1>3, <1>4

(* What the command line gives to its options, they can hold.              *)
LEMMA CompletedFits ==
    ASSUME NEW e \in Occurrence, Recognised(e)
    PROVE  /\ Completed(e) \in Entry
           /\ Fits(Completed(e).name, Completed(e).values)
<1>1. PICK o \in Option : Candidates(e.name) = {o} /\ (o \in Flag \/ e.values # <<>>)
    BY DEF Recognised
<1>2. (CHOOSE c \in Option : c \in Candidates(e.name)) = o BY <1>1
<1> DEFINE vs == CASE o \in Flag -> <<>>
                   [] o \in Multitoken -> e.values
                   [] OTHER -> <<e.values[1]>>
<1>3. Completed(e) = [name |-> o, values |-> vs] BY <1>2 DEF Completed
<1>4. e.values \in Seq(STRING) BY DEF Occurrence
<1>5. vs \in Seq(STRING) /\ (o \in Multitoken \/ (Len(vs) = IF o \in Flag THEN 0 ELSE 1))
  <2>1. CASE o \in Flag
    <3>1. o \notin Multitoken BY <2>1, OptionFacts
    <3>2. vs = <<>> BY <2>1, <3>1, Zenon
    <3>3. <<>> \in Seq(STRING) /\ Len(<<>>) = 0 OBVIOUS
    <3> HIDE DEF vs
    <3> QED BY <2>1, <3>2, <3>3
  <2>2. CASE o \notin Flag /\ o \in Multitoken
    <3>1. vs = e.values BY <2>2, Zenon
    <3> QED BY <1>4, <2>2, <3>1
  <2>3. CASE o \notin Flag /\ o \notin Multitoken
    <3>1. vs = <<e.values[1]>> BY <2>3, Zenon
    <3>2. e.values[1] \in STRING
      <4>1. e.values # <<>> BY <1>1, <2>3
      <4> QED BY <1>4, <4>1
    <3> QED BY <2>3, <3>1, <3>2
  <2> QED BY <2>1, <2>2, <2>3
<1> QED BY <1>3, <1>5 DEF Fits, Entry

LEMMA TypedOccurrences ==
    ASSUME argv \in CommandLine, AllRecognised
    PROVE  /\ TypedIn \in Seq(Entry)
           /\ \A n \in 1..Len(TypedIn) : Fits(TypedIn[n].name, TypedIn[n].values)
<1>1. argv \in Seq(Occurrence) /\ Len(argv) \in Nat
    BY ArgParserAssumption DEF ArgParserAssumption
<1>2. \A n \in 1..Len(argv) : /\ Completed(argv[n]) \in Entry
                              /\ Fits(Completed(argv[n]).name, Completed(argv[n]).values)
    BY <1>1, CompletedFits DEF AllRecognised
<1> QED BY <1>1, <1>2 DEF TypedIn

LEMMA FileOccurrences ==
    ASSUME file \in ConfigFile \cup {NoFile}, Parses(file)
    PROVE  /\ file \in Seq(Entry)
           /\ \A n \in 1..Len(file) : Fits(file[n].name, file[n].values)
<1>1. file \in Seq({e \in Occurrence : Len(e.values) = 1})
    BY ArgParserAssumption DEF ArgParserAssumption, Parses
<1>2. /\ Len(file) \in Nat /\ file = [n \in 1..Len(file) |-> file[n]]
      /\ \A n \in 1..Len(file) : file[n] \in Occurrence /\ Len(file[n].values) = 1
    BY <1>1
<1>3. \A n \in 1..Len(file) : file[n].name \in Option /\ file[n].name \notin Flag
    BY OptionFacts DEF Parses
<1>4. \A n \in 1..Len(file) : file[n] \in Entry
    BY <1>2, <1>3 DEF Occurrence, Entry
<1>5. file \in Seq(Entry)
  <2>1. [n \in 1..Len(file) |-> file[n]] \in Seq(Entry) BY <1>2, <1>4
  <2> QED BY <1>2, <2>1, Zenon
<1>6. \A n \in 1..Len(file) : file[n].values \in Seq(STRING) BY <1>4 DEF Entry
<1> QED BY <1>2, <1>3, <1>5, <1>6 DEF Fits

-----------------------------------------------------------------------------
(* Walking.                                                                *)
LEMMA WalkStep ==
    ASSUME NEW source, NEW o, NEW m \in Nat, NEW h, Leads(source, o, m, h),
           NEW new, new = IF source[m + 1].name = o THEN h \o source[m + 1].values ELSE h
    PROVE  Leads(source, o, m + 1, new)
<1>1. \E f : Walk(f, source, o, m + 1)
  <2>1. PICK f : Walk(f, source, o, m) BY DEF Leads
  <2>2. f[m] = h BY <2>1 DEF Leads
  <2> DEFINE g == [n \in 0..m + 1 |-> IF n = m + 1 THEN new ELSE f[n]]
  <2>3. g[m + 1] = new /\ \A n \in 0..m : g[n] = f[n] OBVIOUS
  <2> HIDE DEF g
  <2>4. g[0] = <<>> BY <2>1, <2>3 DEF Walk
  <2>5. ASSUME NEW n \in 1..m
        PROVE  g[n] = IF source[n].name = o THEN g[n - 1] \o source[n].values ELSE g[n - 1]
    <3>1. g[n] = f[n] /\ g[n - 1] = f[n - 1] BY <2>3
    <3> QED BY <2>1, <3>1 DEF Walk
  <2>6. g[m + 1] = IF source[m + 1].name = o THEN g[m] \o source[m + 1].values ELSE g[m]
      BY <2>2, <2>3
  <2>7. \A n \in 1..m + 1 : n \in 1..m \/ n = m + 1 OBVIOUS
  <2>8. m + 1 - 1 = m OBVIOUS
  <2>9. ASSUME NEW n \in 1..m + 1
        PROVE  g[n] = IF source[n].name = o THEN g[n - 1] \o source[n].values ELSE g[n - 1]
      BY <2>5, <2>6, <2>7, <2>8
  <2>10. Walk(g, source, o, m + 1) BY <2>4, <2>9 DEF Walk
  <2> QED BY <2>10
<1>2. ASSUME NEW f, Walk(f, source, o, m + 1) PROVE f[m + 1] = new
  <2>1. Walk(f, source, o, m) BY <1>2 DEF Walk
  <2>2. f[m] = h BY <2>1 DEF Leads
  <2>3. m + 1 \in 1..m + 1 /\ m + 1 - 1 = m OBVIOUS
  <2> QED BY <1>2, <2>2, <2>3 DEF Walk
<1> QED BY <1>1, <1>2 DEF Leads

(* At the end of a walk are all values of the source.                      *)
LEMMA WalkEnd ==
    ASSUME NEW source, Len(source) \in Nat, NEW o, NEW h, Leads(source, o, Len(source), h)
    PROVE  Values(source, o) = h
<1> DEFINE N == Len(source)
           Is(g) == g = [n \in 0..N |->
                            IF n = 0 THEN <<>>
                            ELSE IF source[n].name = o THEN g[n - 1] \o source[n].values
                            ELSE g[n - 1]]
           upto == CHOOSE g : Is(g)
<1>1. \E g : Is(g)
  <2>1. PICK f : Walk(f, source, o, N) BY DEF Leads
  <2> DEFINE g == [n \in 0..N |-> f[n]]
  <2>2. \A n \in 0..N : g[n] = IF n = 0 THEN <<>>
                               ELSE IF source[n].name = o THEN g[n - 1] \o source[n].values
                               ELSE g[n - 1]
    <3>1. ASSUME NEW n \in 1..N
          PROVE  g[n] = IF source[n].name = o THEN g[n - 1] \o source[n].values ELSE g[n - 1]
      <4>1. g[n] = f[n] /\ g[n - 1] = f[n - 1] OBVIOUS
      <4> QED BY <2>1, <4>1 DEF Walk
    <3>2. g[0] = <<>> BY <2>1 DEF Walk
    <3>3. \A n \in 0..N : n = 0 \/ (n # 0 /\ n \in 1..N) OBVIOUS
    <3> HIDE DEF g
    <3> QED BY <3>1, <3>2, <3>3
  <2>3. Is(g) BY <2>2
  <2> QED BY <2>3
<1>2. Is(upto) BY <1>1
<1>3. Values(source, o) = upto[N] BY DEF Values
<1> HIDE DEF upto
<1>4. \A n \in 0..N : upto[n] = IF n = 0 THEN <<>>
                                ELSE IF source[n].name = o THEN upto[n - 1] \o source[n].values
                                ELSE upto[n - 1]
    BY <1>2
<1>5. \A n \in 1..N : n \in 0..N /\ n # 0 OBVIOUS
<1>6. Walk(upto, source, o, N) BY <1>4, <1>5 DEF Walk
<1> QED BY <1>3, <1>6 DEF Leads

LEMMA UpToStep ==
    ASSUME NEW m \in Nat, NEW source, NEW decided, ConsistentUpTo(m, source, decided),
           source[m + 1].name \notin decided =>
               /\ \A i \in 1..m :
                     source[i].name = source[m + 1].name => source[m + 1].name \in Multitoken
               /\ \A j \in 1..Len(source[m + 1].values) :
                     Converts(source[m + 1].name, source[m + 1].values[j])
    PROVE  ConsistentUpTo(m + 1, source, decided)
<1>1. \A n \in 1..m + 1 : n \in 1..m \/ n = m + 1 OBVIOUS
<1>2. m + 1 - 1 = m OBVIOUS
<1> QED BY <1>1, <1>2 DEF ConsistentUpTo

-----------------------------------------------------------------------------
(* The steps.  The command line and the file stay as they are.             *)
LEMMA Fixed ==
    ASSUME argv' = argv, file' = file
    PROVE  /\ TypedIn' = TypedIn /\ Decided' = Decided
           /\ AllRecognised' <=> AllRecognised
           /\ AcceptedArguments' <=> AcceptedArguments
           /\ \A o : Typed(o)' = Typed(o) /\ Merged(o)' = Merged(o) /\ Chosen(o)' = Chosen(o)
           /\ \A o : Heard(o)' <=> Heard(o)
<1>1. TypedIn' = TypedIn BY DEF TypedIn
<1>2. Decided' = Decided BY <1>1 DEF Decided
<1>3. AllRecognised' <=> AllRecognised BY DEF AllRecognised
<1>4. AcceptedArguments' <=> AcceptedArguments BY <1>1, <1>3 DEF AcceptedArguments, AllRecognised
<1>5. \A o : Typed(o)' = Typed(o) BY <1>1 DEF Typed
<1>6. \A o : Merged(o)' = Merged(o) BY <1>1 DEF Merged
<1>7. \A o : Chosen(o)' = Chosen(o) BY <1>1 DEF Chosen
<1>8. \A o : Heard(o)' <=> Heard(o) BY <1>1 DEF Heard
<1> QED BY <1>1, <1>2, <1>3, <1>4, <1>5, <1>6, <1>7, <1>8

LEMMA Positions ==
    ASSUME Shape
    PROVE  Len(given) \in Nat /\ k \in Nat /\ k >= 1 /\ k <= Len(given) + 1
<1>1. given \in Seq(Entry) /\ k \in 1..Len(given) + 1 BY Zenon DEF Shape
<1>2. Len(given) \in Nat BY <1>1
<1> QED BY <1>1, <1>2

LEMMA TerminateInv ==
    ASSUME AInv, Terminate, ~AcceptedArguments
    PROVE  AInv'
<1>1. status' = "terminated" /\ UNCHANGED <<argv, file, given, k, vm, final, result>>
    BY DEF Terminate, Goto
<1>2. Shape' BY <1>1 DEF AInv, Shape, Variable
<1>3. Ended' BY <1>1, Fixed DEF Ended
<1> QED BY <1>1, <1>2, <1>3 DEF AInv, Start, StoringLine, LineStored, StoringFile, FileStored,
           Notified

LEMMA ParseCommandLineInv ==
    ASSUME AInv, ParseCommandLine
    PROVE  AInv'
<1>1. CASE AllRecognised
  <2>1. /\ given' = TypedIn /\ status' = "store command line"
        /\ argv' = argv /\ file' = file /\ k' = k /\ vm' = vm /\ final' = final
        /\ options' = options /\ instance' = instance /\ status = "parse"
    <3>1. ~\E n \in 1..Len(argv) : ~Recognised(argv[n]) BY <1>1 DEF AllRecognised
    <3> QED BY <3>1 DEF ParseCommandLine, Goto, TypedIn, result
  <2>2. /\ given = <<>> /\ final = {} /\ options = Constructed
        /\ \A o \in Option : vm[o] = None
      BY <2>1 DEF AInv, Start
  <2>3. k = 1 /\ k' = 1
    <3>1. k' = k /\ given = <<>> /\ Shape BY <2>1, <2>2, Zenon DEF AInv
    <3>2. Len(given) = 0 BY <3>1
    <3>3. k \in Nat /\ k >= 1 /\ k <= Len(given) + 1 BY <3>1, Positions
    <3> QED BY <3>1, <3>2, <3>3
  <2>4. /\ given' \in Seq(Entry)
        /\ \A n \in 1..Len(given') : Fits(given'[n].name, given'[n].values)
      BY <1>1, <2>1, TypedOccurrences DEF AInv, Shape
  <2>5. k' \in 1..Len(given') + 1
    <3>1. Len(given') \in Nat BY <2>4
    <3> QED BY <2>3, <3>1
  <2>6. \A o \in Option : Variable(o)' BY <2>1, <2>2 DEF Variable
  <2>7. Shape' BY <2>1, <2>4, <2>5, <2>6 DEF AInv, Shape
  <2>8. \A o \in Option : ~Explicit(o)' BY <2>1, <2>2 DEF Explicit
  <2>9. ASSUME NEW o \in Option PROVE Gathered(o)'
    <3>1. Walk([n \in {0} |-> <<>>], given', o, k' - 1) BY <2>3 DEF Walk
    <3>2. \A f : Walk(f, given', o, k' - 1) => f[k' - 1] = Held(o)'
        BY <2>3, <2>8 DEF Walk, Held
    <3>3. ~\E n \in 1..k' - 1 : given'[n].name = o BY <2>3
    <3>4. Leads(given', o, k' - 1, Held(o)') BY <3>1, <3>2 DEF Leads
    <3> QED BY <2>8, <3>3, <3>4 DEF Gathered
  <2>10. ConsistentUpTo(k' - 1, given', {}) BY <2>3 DEF ConsistentUpTo
  <2>11. StoringLine'
      BY <1>1, <2>1, <2>2, <2>8, <2>9, <2>10, Fixed DEF StoringLine, result
  <2> QED BY <2>1, <2>7, <2>11 DEF AInv, Start, LineStored, StoringFile, FileStored, Notified,
             Ended
<1>2. CASE ~AllRecognised
  <2>1. Terminate BY <1>2 DEF ParseCommandLine, AllRecognised
  <2>2. ~AcceptedArguments BY <1>2 DEF AcceptedArguments, AllRecognised
  <2> QED BY <2>1, <2>2, TerminateInv
<1> QED BY <1>1, <1>2

(* An occurrence that is stored adds its values to those of its option,    *)
(* and one that is skipped nothing to any.                                 *)
LEMMA GatheredStep ==
    ASSUME Shape, k <= Len(given), given' = given, k' = k + 1, NEW o \in Option, Gathered(o),
           Held(o)' = IF given[k].name = o THEN Held(o) \o given[k].values ELSE Held(o),
           Explicit(o)' <=> (Explicit(o) \/ given[k].name = o)
    PROVE  Gathered(o)'
<1>1. k - 1 \in Nat /\ k - 1 + 1 = k /\ k' - 1 = k BY Positions
<1>2. PICK m \in Nat : m = k - 1 BY <1>1
<1>3. PICK h, new : h = Held(o) /\ new = IF given[m + 1].name = o
                                        THEN h \o given[m + 1].values ELSE h
    OBVIOUS
<1>4. Leads(given, o, m, h) BY <1>2, <1>3 DEF Gathered
<1>5. Leads(given, o, m + 1, new) BY <1>3, <1>4, WalkStep
<1>6. Leads(given', o, k' - 1, Held(o)') BY <1>1, <1>2, <1>3, <1>5
<1>7. Explicit(o)' <=> \E n \in 1..k' - 1 : given'[n].name = o
  <2>1. \A n \in 1..k : n \in 1..k - 1 \/ n = k BY <1>1
  <2>2. k \in 1..k /\ \A n \in 1..k - 1 : n \in 1..k BY <1>1
  <2> QED BY <1>1, <2>1, <2>2 DEF Gathered
<1> QED BY <1>6, <1>7 DEF Gathered

LEMMA Stored ==
    ASSUME Shape, Storing, k <= Len(given), NEW e, e = given[k], NEW p, p = e.name,
           Storable(e), vm' = [vm EXCEPT ![p] = Updated(e)]
    PROVE  /\ DOMAIN vm' = Option /\ \A o \in Option : Variable(o)'
           /\ \A o \in Option : o # p => vm'[o] = vm[o]
           /\ Explicit(p)'
           /\ Held(p)' = Held(p) \o e.values
<1>1. e.values \in Seq(STRING) /\ Fits(p, e.values) /\ p \in Option
  <2>1. k \in 1..Len(given) BY Positions
  <2>2. given \in Seq(Entry) /\ \A n \in 1..Len(given) : Fits(given[n].name, given[n].values)
      BY Zenon DEF Shape
  <2>3. given[k] \in Entry /\ Fits(given[k].name, given[k].values) BY <2>1, <2>2
  <2> QED BY <2>3 DEF Entry
<1>2. DOMAIN vm' = Option /\ \A o \in Option : o # p => vm'[o] = vm[o] BY <1>1 DEF Shape
<1>3. vm'[p] = Updated(e) BY <1>1 DEF Shape
<1>4. Updated(e) \in [value : Seq(STRING), defaulted : BOOLEAN] /\ ~Updated(e).defaulted
      /\ Updated(e).value = Held(p) \o e.values
      /\ Held(p) \in Seq(STRING) /\ (Explicit(p) => Held(p) = vm[p].value)
  <2>1. CASE Explicit(p)
    <3>1. vm[p] # None /\ vm[p].value \in Seq(STRING) BY <1>1, <2>1 DEF Explicit, Shape, Variable
    <3>2. vm[p].value \o e.values \in Seq(STRING) BY <1>1, <3>1
    <3> QED BY <2>1, <3>1, <3>2 DEF Updated, Held
  <2>2. CASE ~Explicit(p)
    <3>1. Held(p) = <<>> /\ <<>> \in Seq(STRING) BY <2>2 DEF Held
    <3>2. e.values \in Seq(STRING) BY <1>1
    <3>3. \A S : \A s \in Seq(S) : <<>> \o s = s OBVIOUS
    <3>4. <<>> \o e.values = e.values BY <3>2, <3>3
    <3> QED BY <2>2, <3>1, <3>2, <3>4 DEF Updated
  <2> QED BY <2>1, <2>2
<1>5. Updated(e) # None BY <1>4, ArgParserAssumption DEF ArgParserAssumption
<1>6. Explicit(p)' /\ Held(p)' = Held(p) \o e.values
  <2>1. Explicit(p)' BY <1>3, <1>4, <1>5, Zenon DEF Explicit
  <2> QED BY <1>3, <1>4, <2>1, Zenon DEF Held
<1>7. Variable(p)'
  <2>1. Fits(p, Updated(e).value)
    <3>1. CASE p \in Multitoken BY <1>4, <3>1 DEF Fits
    <3>2. CASE p \notin Multitoken
      <4>1. ~Explicit(p) BY <3>2 DEF Storable
      <4>2. Updated(e).value = e.values BY <4>1 DEF Updated
      <4> QED BY <1>1, <4>2
    <3> QED BY <3>1, <3>2
  <2>2. ASSUME NEW n \in 1..Len(Updated(e).value) PROVE Converts(p, Updated(e).value[n])
    <3>1. e.values \in Seq(STRING) /\ \A j \in 1..Len(e.values) : Converts(p, e.values[j])
        BY <1>1 DEF Storable, AllConvert
    <3>2. CASE ~Explicit(p) BY <2>2, <3>1, <3>2 DEF Updated
    <3>3. CASE Explicit(p)
      <4>1. /\ Held(p) \in Seq(STRING)
            /\ \A j \in 1..Len(Held(p)) : Converts(p, Held(p)[j])
          BY <1>1, <1>4, <3>3 DEF Explicit, Shape, Variable
      <4>2. Updated(e).value = Held(p) \o e.values BY <1>4
      <4>3. \/ n \in 1..Len(Held(p)) /\ Updated(e).value[n] = Held(p)[n]
            \/ /\ n - Len(Held(p)) \in 1..Len(e.values)
               /\ Updated(e).value[n] = e.values[n - Len(Held(p))]
        <5>1. \A S : \A a, b \in Seq(S) : \A i \in 1..Len(a \o b) :
                 \/ i \in 1..Len(a) /\ (a \o b)[i] = a[i]
                 \/ i - Len(a) \in 1..Len(b) /\ (a \o b)[i] = b[i - Len(a)]
            OBVIOUS
        <5>2. n \in 1..Len(Held(p) \o e.values) BY <2>2, <4>2, Zenon
        <5>3. \/ n \in 1..Len(Held(p)) /\ (Held(p) \o e.values)[n] = Held(p)[n]
              \/ /\ n - Len(Held(p)) \in 1..Len(e.values)
                 /\ (Held(p) \o e.values)[n] = e.values[n - Len(Held(p))]
            BY <3>1, <4>1, <5>1, <5>2, Zenon
        <5> QED BY <4>2, <5>3, Zenon
      <4> QED BY <3>1, <4>1, <4>3
    <3> QED BY <3>2, <3>3
  <2> QED BY <1>3, <1>4, <2>1, <2>2, Zenon DEF Variable
<1>8. ASSUME NEW o \in Option PROVE Variable(o)'
  <2>1. Variable(o) BY Zenon DEF Shape
  <2>2. o # p => Variable(o)' BY <1>2, <2>1 DEF Variable
  <2> QED BY <1>7, <2>2
<1> QED BY <1>2, <1>6, <1>8

(* What store accepts is consistent with what it has, and what it does not *)
(* accept is not.                                                          *)
LEMMA CurrentOccurrence ==
    ASSUME Shape, k <= Len(given)
    PROVE  /\ k \in 1..Len(given) /\ given[k].name \in Option
           /\ given[k].values \in Seq(STRING) /\ Len(given) \in Nat
<1>1. k \in 1..Len(given) /\ Len(given) \in Nat BY Positions
<1>2. given \in Seq(Entry) BY Zenon DEF Shape
<1>3. given[k] \in Entry BY <1>1, <1>2
<1> QED BY <1>1, <1>3 DEF Entry

LEMMA StillConsistent ==
    ASSUME Shape, k <= Len(given), NEW decided, ConsistentUpTo(k - 1, given, decided),
           \/ given[k].name \in decided
           \/ Storable(given[k]) /\ Gathered(given[k].name)
    PROVE  ConsistentUpTo(k, given, decided)
<1>1. k - 1 \in Nat /\ k - 1 + 1 = k BY Positions
<1>2. given[k].name \notin decided =>
          /\ \A i \in 1..k - 1 :
                given[i].name = given[k].name => given[k].name \in Multitoken
          /\ \A j \in 1..Len(given[k].values) : Converts(given[k].name, given[k].values[j])
  <2> SUFFICES ASSUME Storable(given[k]), Gathered(given[k].name)
               PROVE  /\ \A i \in 1..k - 1 :
                            given[i].name = given[k].name => given[k].name \in Multitoken
                      /\ \A j \in 1..Len(given[k].values) :
                            Converts(given[k].name, given[k].values[j])
      BY Zenon
  <2>1. \A j \in 1..Len(given[k].values) : Converts(given[k].name, given[k].values[j])
      BY Zenon DEF Storable, AllConvert
  <2>2. \A i \in 1..k - 1 : given[i].name = given[k].name => given[k].name \in Multitoken
      BY Zenon DEF Storable, Gathered
  <2> QED BY <2>1, <2>2
<1>3. PICK m \in Nat : m = k - 1 /\ m + 1 = k BY <1>1
<1>4. ConsistentUpTo(m + 1, given, decided) BY <1>2, <1>3, UpToStep
<1> QED BY <1>3, <1>4

LEMMA NotConsistent ==
    ASSUME Shape, k <= Len(given), ~Storable(given[k]), Gathered(given[k].name),
           NEW decided, given[k].name \notin decided
    PROVE  ~Consistent(given, decided)
<1>1. k \in 1..Len(given) BY CurrentOccurrence
<1>2. CASE given[k].name \notin Multitoken /\ Explicit(given[k].name)
  <2>1. \E i \in 1..k - 1 : given[i].name = given[k].name BY <1>2 DEF Gathered
  <2> QED BY <1>1, <1>2, <2>1, Zenon DEF Consistent
<1>3. CASE ~AllConvert(given[k])
  <2>1. \E j \in 1..Len(given[k].values) : ~Converts(given[k].name, given[k].values[j])
      BY <1>3 DEF AllConvert
  <2> QED BY <1>1, <2>1, Zenon DEF Consistent
<1> QED BY <1>2, <1>3 DEF Storable

(* store, one occurrence, for the options that are not final.              *)
LEMMA OneMore ==
    ASSUME Shape, Storing, k <= Len(given), k' = k + 1, given' = given,
           NEW decided, ConsistentUpTo(k - 1, given, decided),
           \A o \in Option \ decided : Gathered(o),
           \/ given[k].name \in decided /\ vm' = vm
           \/ /\ given[k].name \notin decided /\ Storable(given[k])
              /\ vm' = [vm EXCEPT ![given[k].name] = Updated(given[k])]
    PROVE  /\ DOMAIN vm' = Option /\ \A o \in Option : Variable(o)'
           /\ \A o \in Option \cap decided : vm'[o] = vm[o]
           /\ \A o \in Option \ decided :
                 Gathered(o)' /\ (~Explicit(o)' => ~Explicit(o) /\ vm'[o] = vm[o])
           /\ ConsistentUpTo(k' - 1, given', decided)
<1>1. PICK e, p : e = given[k] /\ p = e.name OBVIOUS
<1>2. p \in Option BY <1>1, CurrentOccurrence
<1>3. ConsistentUpTo(k' - 1, given', decided)
  <2>1. p \in decided \/ (Storable(e) /\ Gathered(p)) BY <1>1, <1>2
  <2>2. ConsistentUpTo(k, given, decided) BY <1>1, <2>1, StillConsistent
  <2>3. k' - 1 = k BY Positions
  <2> QED BY <2>2, <2>3
<1>4. CASE p \in decided
  <2>1. vm' = vm BY <1>1, <1>4
  <2>2. DOMAIN vm' = Option /\ \A o \in Option : Variable(o)' BY <2>1 DEF Shape, Variable
  <2>3. ASSUME NEW o \in Option \ decided
        PROVE  Gathered(o)' /\ (~Explicit(o)' => ~Explicit(o) /\ vm'[o] = vm[o])
    <3>1. given[k].name # o /\ Gathered(o) BY <1>1, <1>4
    <3>2. Held(o)' = Held(o) /\ (Explicit(o)' <=> Explicit(o)) BY <2>1 DEF Held, Explicit
    <3> QED BY <2>1, <3>1, <3>2, GatheredStep
  <2> QED BY <1>3, <2>1, <2>2, <2>3
<1>5. CASE p \notin decided
  <2>1. Storable(e) /\ vm' = [vm EXCEPT ![p] = Updated(e)] BY <1>1, <1>5
  <2>2. /\ DOMAIN vm' = Option /\ \A o \in Option : Variable(o)'
        /\ \A o \in Option : o # p => vm'[o] = vm[o]
        /\ Explicit(p)' /\ Held(p)' = Held(p) \o e.values
      BY <1>1, <2>1, Stored
  <2>3. ASSUME NEW o \in Option \ decided
        PROVE  Gathered(o)' /\ (~Explicit(o)' => ~Explicit(o) /\ vm'[o] = vm[o])
    <3>1. Gathered(o) OBVIOUS
    <3>2. CASE o = p
      <4>1. Held(o)' = Held(o) \o given[k].values /\ Explicit(o)' BY <1>1, <2>2, <3>2
      <4> QED BY <1>1, <3>1, <3>2, <4>1, GatheredStep
    <3>3. CASE o # p
      <4>1. vm'[o] = vm[o] BY <2>2, <3>3
      <4>2. Held(o)' = Held(o) /\ (Explicit(o)' <=> Explicit(o)) BY <4>1 DEF Held, Explicit
      <4> QED BY <1>1, <3>1, <3>3, <4>1, <4>2, GatheredStep
    <3> QED BY <3>2, <3>3
  <2>4. \A o \in Option \cap decided : vm'[o] = vm[o] BY <1>5, <2>2
  <2> QED BY <1>3, <2>2, <2>3, <2>4
<1> QED BY <1>4, <1>5

LEMMA StoreOccurrenceInv ==
    ASSUME AInv, StoreOccurrence
    PROVE  AInv'
<1>1. Shape /\ Storing /\ k <= Len(given) BY DEF AInv, StoreOccurrence
<1> DEFINE decided == IF status = "store config" THEN Decided ELSE {}
<1>2. PICK d : d = decided OBVIOUS
<1>3. /\ final = d /\ ConsistentUpTo(k - 1, given, d)
      /\ \A o \in Option \ d : Gathered(o)
  <2>1. CASE status = "store command line" BY <1>2, <2>1 DEF AInv, StoringLine
  <2>2. CASE status = "store config" BY <1>2, <2>2 DEF AInv, StoringFile
  <2> QED BY <1>1, <2>1, <2>2 DEF Storing
<1>4. given[k].name \in Option BY <1>1, CurrentOccurrence
<1>5. CASE Terminate /\ given[k].name \notin final /\ ~Storable(given[k])
  <2>1. ~Consistent(given, d) BY <1>1, <1>3, <1>4, <1>5, NotConsistent
  <2>2. ~AcceptedArguments
    <3>1. CASE status = "store command line"
      <4>1. given = TypedIn /\ d = {} BY <1>2, <3>1 DEF AInv, StoringLine
      <4> QED BY <2>1, <4>1 DEF AcceptedArguments
    <3>2. CASE status = "store config"
      <4>1. /\ given = file /\ d = Decided /\ Says(TypedIn, "config")
            /\ ~\E o \in Flag : Says(TypedIn, o)
          BY <1>2, <3>2 DEF AInv, StoringFile
      <4> QED BY <2>1, <4>1 DEF AcceptedArguments, Decided
    <3> QED BY <1>1, <3>1, <3>2 DEF Storing
  <2> QED BY <1>5, <2>2, TerminateInv
<1>6. CASE /\ k' = k + 1 /\ UNCHANGED <<argv, file, status, given, final, result>>
           /\ \/ given[k].name \in final /\ vm' = vm
              \/ /\ given[k].name \notin final /\ Storable(given[k])
                 /\ vm' = [vm EXCEPT ![given[k].name] = Updated(given[k])]
  <2>1. /\ argv' = argv /\ file' = file /\ status' = status /\ given' = given /\ final' = final
        /\ options' = options /\ instance' = instance /\ k' = k + 1
      BY <1>6 DEF result
  <2>2. /\ DOMAIN vm' = Option /\ \A o \in Option : Variable(o)'
        /\ \A o \in Option \cap d : vm'[o] = vm[o]
        /\ \A o \in Option \ d :
              Gathered(o)' /\ (~Explicit(o)' => ~Explicit(o) /\ vm'[o] = vm[o])
        /\ ConsistentUpTo(k' - 1, given', d)
      BY <1>1, <1>3, <1>6, <2>1, OneMore
  <2>3. k' \in 1..Len(given') + 1 BY <1>1, <2>1, Positions
  <2>4. Shape' BY <1>1, <2>1, <2>2, <2>3 DEF Shape
  <2>5. CASE status = "store command line"
    <3>1. d = {} /\ StoringLine BY <1>2, <2>5 DEF AInv
    <3>2. \A o \in Option : Gathered(o)' /\ (~Explicit(o)' => vm'[o] = None)
        BY <2>2, <2>5, <3>1 DEF StoringLine
    <3>3. StoringLine' BY <2>1, <2>2, <2>5, <3>1, <3>2, Fixed DEF StoringLine
    <3> QED BY <2>1, <2>4, <2>5, <3>3 DEF AInv, Start, LineStored, StoringFile, FileStored,
               Notified, Ended
  <2>6. CASE status = "store config"
    <3>1. d = Decided /\ StoringFile BY <1>2, <2>6 DEF AInv
    <3>2. ASSUME NEW o \in Option
          PROVE  IF o \in Decided THEN vm'[o] = Typed(o)
                 ELSE Gathered(o)' /\ (~Explicit(o)' => vm'[o] = Default(o))
        BY <2>2, <2>6, <3>1 DEF StoringFile
    <3>3. ConsistentUpTo(k' - 1, file, Decided) BY <2>1, <2>2, <2>6, <3>1 DEF StoringFile
    <3>4. StoringFile' BY <2>1, <2>6, <3>1, <3>2, <3>3, Fixed DEF StoringFile
    <3> QED BY <2>1, <2>4, <2>6, <3>4 DEF AInv, Start, LineStored, StoringLine, FileStored,
               Notified, Ended
  <2> QED BY <1>1, <2>5, <2>6 DEF Storing
<1> QED BY <1>5, <1>6, Zenon DEF StoreOccurrence

-----------------------------------------------------------------------------
(* At the end of store, all occurrences are behind k.                      *)
LEMMA AllGathered ==
    ASSUME Shape, k > Len(given), NEW o, Gathered(o)
    PROVE  /\ Values(given, o) = Held(o)
           /\ Explicit(o) <=> Says(given, o)
<1>1. k - 1 = Len(given) /\ Len(given) \in Nat BY Positions
<1>2. Leads(given, o, Len(given), Held(o)) BY <1>1 DEF Gathered
<1>3. Values(given, o) = Held(o) BY <1>1, <1>2, WalkEnd
<1>4. Explicit(o) <=> Says(given, o) BY <1>1 DEF Gathered, Says
<1> QED BY <1>3, <1>4

LEMMA Entered ==
    ASSUME NEW o \in Option, Variable(o), Explicit(o)
    PROVE  vm[o] = [value |-> Held(o), defaulted |-> FALSE]
<1>1. vm[o] \in [value : Seq(STRING), defaulted : BOOLEAN] /\ ~vm[o].defaulted /\ Held(o) = vm[o].value
    BY DEF Variable, Explicit, Held
<1> QED BY <1>1

LEMMA DefaultFits ==
    ASSUME NEW o \in Option, Default(o) # None
    PROVE  /\ Default(o) \in [value : Seq(STRING), defaulted : BOOLEAN]
           /\ Fits(o, Default(o).value)
           /\ \A n \in 1..Len(Default(o).value) : Converts(o, Default(o).value[n])
<1>1. o \in Defaulted /\ Default(o) = [value |-> Constructed[o], defaulted |-> TRUE] BY DEF Default
<1>2. /\ Constructed[o] \in Seq(STRING) /\ Len(Constructed[o]) = 1
      /\ Converts(o, Constructed[o][1]) /\ o \notin Flag
    BY <1>1, DefaultValues, OptionFacts
<1>3. \A n \in 1..Len(Constructed[o]) : n = 1 BY <1>2
<1> QED BY <1>1, <1>2, <1>3 DEF Fits

LEMMA StoreDefaultsInv ==
    ASSUME AInv, StoreDefaults
    PROVE  AInv'
<1>1. /\ Shape /\ Storing /\ k > Len(given)
      /\ argv' = argv /\ file' = file /\ given' = given /\ k' = k
      /\ options' = options /\ instance' = instance
      /\ final' = final \cup {given[n].name : n \in 1..Len(given)}
      /\ status' = IF status = "store config" THEN "notify" ELSE "config"
    BY DEF AInv, StoreDefaults, MarkFinal, Goto, result
<1>2. DOMAIN vm' = Option /\ \A o \in Option : vm'[o] = IF vm[o] = None THEN Default(o) ELSE vm[o]
    BY DEF StoreDefaults, Default
<1>3. ASSUME NEW o \in Option PROVE Variable(o)'
  <2>1. Variable(o) BY <1>1 DEF Shape
  <2>2. CASE vm[o] # None BY <1>2, <2>1, <2>2 DEF Variable
  <2>3. CASE vm[o] = None BY <1>2, <2>3, DefaultFits DEF Variable
  <2> QED BY <2>2, <2>3
<1>4. \A n \in 1..Len(given) : given[n].name \in Option
  <2>1. given \in Seq(Entry) BY <1>1, Zenon DEF Shape
  <2>2. \A n \in 1..Len(given) : given[n] \in Entry BY <2>1
  <2> QED BY <2>2, Zenon DEF Entry
<1>5. Shape'
  <2>1. final' \subseteq Option BY <1>1, <1>4 DEF Shape
  <2>2. status' \in {"config", "notify"} BY <1>1
  <2> QED BY <1>1, <1>2, <1>3, <2>1, <2>2 DEF Shape
<1>6. \A o \in Option : Gathered(o) =>
          /\ Values(given, o) = Held(o) /\ (Explicit(o) <=> Says(given, o))
    BY <1>1, AllGathered
<1>7. \A o \in Option : Explicit(o) =>
          vm[o] # None /\ vm[o] = [value |-> Held(o), defaulted |-> FALSE]
  <2>1. \A o \in Option : Variable(o) BY <1>1 DEF Shape
  <2> QED BY <2>1, Entered DEF Explicit
<1>8. k - 1 = Len(given)
  <2>1. Shape /\ k > Len(given) BY <1>1, Zenon
  <2> QED BY <2>1, Positions
<1>9. CASE status = "store command line"
  <2>1. /\ AllRecognised /\ given = TypedIn /\ final = {} /\ options = Constructed
        /\ ConsistentUpTo(k - 1, given, {})
        /\ \A o \in Option : Gathered(o) /\ (~Explicit(o) => vm[o] = None)
      BY <1>9 DEF AInv, StoringLine
  <2>2. Consistent(TypedIn, {}) BY <1>8, <2>1 DEF ConsistentUpTo, Consistent
  <2>3. ASSUME NEW o \in Option PROVE vm'[o] = Typed(o)
    <3>1. Values(TypedIn, o) = Held(o) /\ (Explicit(o) <=> Says(TypedIn, o)) BY <1>6, <2>1
    <3>2. CASE Explicit(o) BY <1>2, <1>7, <3>1, <3>2 DEF Typed, Said
    <3>3. CASE ~Explicit(o) BY <1>2, <2>1, <3>1, <3>3 DEF Typed
    <3> QED BY <3>2, <3>3
  <2>4. final' = Decided BY <1>1, <1>4, <2>1 DEF Decided, Says
  <2>5. status' = "config" BY <1>1, <1>9
  <2>6. \A o \in Decided : Typed(o) # None
    <3>1. ASSUME NEW o \in Decided PROVE vm[o] # None /\ o \in Option /\ vm'[o] = Typed(o)
      <4>1. o \in Option /\ Says(given, o) BY <2>1 DEF Decided
      <4>2. Explicit(o) BY <1>6, <2>1, <4>1
      <4> QED BY <2>3, <4>1, <4>2 DEF Explicit
    <3> QED BY <1>2, <3>1
  <2>7. LineStored' BY <1>1, <2>1, <2>2, <2>3, <2>4, <2>6, Fixed DEF LineStored
  <2> QED BY <1>5, <2>5, <2>7 DEF AInv, Start, StoringLine, StoringFile, FileStored, Notified,
             Ended
<1>10. CASE status = "store config"
  <2>1. /\ AllRecognised /\ final = Decided /\ options = Constructed
        /\ given = file /\ Parses(file)
        /\ Says(TypedIn, "config") /\ ~\E o \in Flag : Says(TypedIn, o)
        /\ Consistent(TypedIn, {}) /\ ConsistentUpTo(k - 1, file, Decided)
        /\ \A o \in Option : IF o \in Decided THEN vm[o] = Typed(o)
                             ELSE Gathered(o) /\ (~Explicit(o) => vm[o] = Default(o))
        /\ \A o \in Decided : Typed(o) # None
      BY <1>10 DEF AInv, StoringFile
  <2>2. Consistent(file, Decided) BY <1>8, <2>1 DEF ConsistentUpTo, Consistent
  <2>3. AcceptedArguments BY <2>1, <2>2 DEF AcceptedArguments, AllRecognised, Decided
  <2>4. ASSUME NEW o \in Config PROVE vm'[o] = Merged(o) /\ (Heard(o) => Merged(o) # None)
    <3>1. o \in Option BY OptionFacts
    <3>2. CASE Says(TypedIn, o)
      <4>1. vm[o] = Said(TypedIn, o) BY <2>1, <3>1, <3>2 DEF Decided, Typed
      <4>2. vm[o] # None BY <2>1, <3>1, <3>2 DEF Decided
      <4> QED BY <1>2, <3>1, <3>2, <4>1, <4>2 DEF Merged
    <3>3. CASE ~Says(TypedIn, o)
      <4>1. Gathered(o) /\ (~Explicit(o) => vm[o] = Default(o))
          BY <2>1, <3>1, <3>3 DEF Decided
      <4>2. Values(file, o) = Held(o) /\ (Explicit(o) <=> Says(file, o)) BY <1>6, <2>1, <3>1, <4>1
      <4>3. CASE Explicit(o)
        <5>1. vm[o] # None /\ vm[o] = Said(file, o) BY <1>7, <3>1, <4>2, <4>3 DEF Said
        <5>2. Merged(o) = Said(file, o) BY <2>1, <3>3, <4>2, <4>3 DEF Merged
        <5> QED BY <1>2, <3>1, <5>1, <5>2
      <4>4. CASE ~Explicit(o)
        <5>1. ~Says(file, o) /\ vm[o] = Default(o) BY <4>1, <4>2, <4>4
        <5>2. Merged(o) = Default(o) /\ ~Heard(o) BY <3>3, <5>1 DEF Merged, Heard
        <5> QED BY <1>2, <3>1, <5>1, <5>2
      <4> QED BY <4>3, <4>4
    <3> QED BY <3>2, <3>3
  <2>5. status' = "notify" BY <1>1, <1>10
  <2>6. FileStored' BY <1>1, <2>1, <2>3, <2>4, Fixed DEF FileStored
  <2> QED BY <1>5, <2>5, <2>6 DEF AInv, Start, StoringLine, LineStored, StoringFile, Notified,
             Ended
<1> QED BY <1>1, <1>9, <1>10 DEF Storing

-----------------------------------------------------------------------------
(* The variables_map after the command line tells what was typed.          *)
LEMMA SaidGeneric ==
    ASSUME AInv, status = "config", NEW o \in Generic
    PROVE  vm[o] # None <=> Says(TypedIn, o)
<1>1. o \in Option /\ o \notin Defaulted BY OptionFacts DEF Option
<1>2. vm[o] = Typed(o) /\ (o \in Decided => Typed(o) # None) BY <1>1 DEF AInv, LineStored
<1>3. Default(o) = None BY <1>1 DEF Default
<1> QED BY <1>1, <1>2, <1>3 DEF Typed, Decided

LEMMA InformInv ==
    ASSUME AInv, Inform
    PROVE  AInv'
<1>1. /\ status = "config" /\ status' = "informed" /\ argv' = argv /\ file' = file
      /\ given' = given /\ k' = k /\ vm' = vm /\ final' = final
    BY DEF Inform, Goto
<1>2. \E o \in Flag : Says(TypedIn, o)
  <2>1. PICK o \in Flag : vm[o] # None BY DEF Inform
  <2>2. o \in Generic BY DEF Flag, Generic
  <2> QED BY <1>1, <2>1, <2>2, SaidGeneric
<1>3. AcceptedArguments
    BY <1>1, <1>2 DEF AInv, LineStored, AllRecognised, AcceptedArguments
<1>4. Shape' BY <1>1 DEF AInv, Shape, Variable
<1>5. Ended' BY <1>1, <1>3, Fixed DEF Ended
<1> QED BY <1>1, <1>4, <1>5 DEF AInv, Start, StoringLine, LineStored, StoringFile, FileStored,
           Notified

LEMMA NoConfigInv ==
    ASSUME AInv, NoConfig
    PROVE  AInv'
<1>1. /\ status = "config" /\ status' = "notify" /\ argv' = argv /\ file' = file
      /\ given' = given /\ k' = k /\ vm' = vm /\ final' = final /\ options' = options
      /\ \A o \in Generic : vm[o] = None
    BY DEF NoConfig, Goto, result
<1>2. \A o \in Generic : ~Says(TypedIn, o) BY <1>1, SaidGeneric
<1>3. ~Says(TypedIn, "config") BY <1>2 DEF Generic
<1>4. AcceptedArguments
    BY <1>1, <1>3 DEF AInv, LineStored, AllRecognised, AcceptedArguments
<1>5. options = Constructed /\ \A o \in Option : vm[o] = Typed(o)
    BY <1>1 DEF AInv, LineStored
<1>6. \A o \in Decided : Typed(o) # None BY <1>1 DEF AInv, LineStored
<1>7. ASSUME NEW o \in Config PROVE vm'[o] = Merged(o) /\ (Heard(o) => Merged(o) # None)
  <2>1. o \in Option BY OptionFacts
  <2>2. Merged(o) = Typed(o) BY <1>3 DEF Merged, Typed
  <2>3. Heard(o) => o \in Decided BY <1>3, <2>1 DEF Heard, Decided
  <2> QED BY <1>1, <1>5, <1>6, <2>1, <2>2, <2>3
<1>8. FileStored' BY <1>1, <1>4, <1>5, <1>7, Fixed DEF FileStored
<1>9. Shape' BY <1>1 DEF AInv, Shape, Variable
<1> QED BY <1>1, <1>8, <1>9 DEF AInv, Start, StoringLine, LineStored, StoringFile, Notified,
           Ended

LEMMA ParseConfigFileInv ==
    ASSUME AInv, ParseConfigFile
    PROVE  AInv'
<1>1. /\ status = "config" /\ vm["config"] # None /\ \A o \in Flag : vm[o] = None
    BY DEF ParseConfigFile
<1>2. Says(TypedIn, "config") /\ ~\E o \in Flag : Says(TypedIn, o)
  <2>1. "config" \in Generic /\ Flag \subseteq Generic BY DEF Generic, Flag
  <2> QED BY <1>1, <2>1, SaidGeneric
<1>3. CASE Parses(file)
  <2>1. /\ given' = file /\ k' = 1 /\ status' = "store config"
        /\ argv' = argv /\ file' = file /\ vm' = vm /\ final' = final
        /\ options' = options
      BY <1>3 DEF ParseConfigFile, Goto, result
  <2>2. /\ AllRecognised /\ final = Decided /\ options = Constructed
        /\ Consistent(TypedIn, {})
        /\ \A o \in Option : vm[o] = Typed(o)
        /\ \A o \in Decided : Typed(o) # None
      BY <1>1 DEF AInv, LineStored
  <2>3. /\ given' \in Seq(Entry)
        /\ \A n \in 1..Len(given') : Fits(given'[n].name, given'[n].values)
    <3>1. file \in ConfigFile \cup {NoFile} BY Zenon DEF AInv, Shape
    <3> QED BY <1>3, <2>1, <3>1, FileOccurrences
  <2>4. k' \in 1..Len(given') + 1
    <3>1. given' \in Seq(Entry) /\ k' = 1 BY <2>1, <2>3, Zenon
    <3>2. Len(given') \in Nat BY <3>1
    <3> QED BY <3>1, <3>2
  <2>5. DOMAIN vm' = Option /\ \A o \in Option : Variable(o)'
      BY <2>1 DEF AInv, Shape, Variable
  <2>6. Shape' BY <2>1, <2>3, <2>4, <2>5 DEF AInv, Shape
  <2>7. ASSUME NEW o \in Option, o \notin Decided
        PROVE  Gathered(o)' /\ vm'[o] = Default(o)
    <3>1. vm[o] = Default(o) BY <2>2, <2>7 DEF Typed, Decided
    <3>2. ~Explicit(o) BY <3>1 DEF Explicit, Default
    <3>3. ~Explicit(o)' BY <2>1, <3>2 DEF Explicit
    <3>4. k' - 1 = 0
      <4>1. k' = 1 BY <2>1, Zenon
      <4> QED BY <4>1
    <3>5. Walk([n \in {0} |-> <<>>], given', o, k' - 1) BY <3>4 DEF Walk
    <3>6. \A f : Walk(f, given', o, k' - 1) => f[k' - 1] = Held(o)'
        BY <3>3, <3>4 DEF Walk, Held
    <3>7. ~\E n \in 1..k' - 1 : given'[n].name = o BY <3>4
    <3>8. Leads(given', o, k' - 1, Held(o)') BY <3>5, <3>6 DEF Leads
    <3> QED BY <2>1, <3>1, <3>3, <3>7, <3>8 DEF Gathered
  <2>8. ConsistentUpTo(k' - 1, file', Decided')
    <3>1. k' = 1 BY <2>1, Zenon
    <3>2. 1..k' - 1 = {} BY <3>1
    <3> QED BY <3>2, Zenon DEF ConsistentUpTo
  <2>9. StoringFile'
    <3>1. ASSUME NEW o \in Option
          PROVE  IF o \in Decided THEN vm'[o] = Typed(o)
                 ELSE Gathered(o)' /\ (~Explicit(o)' => vm'[o] = Default(o))
        BY <2>1, <2>2, <2>7
    <3>2. Parses(file') BY <1>3, <2>1
    <3> QED BY <1>2, <2>1, <2>2, <2>8, <3>1, <3>2, Fixed DEF StoringFile
  <2> QED BY <2>1, <2>6, <2>9 DEF AInv, Start, StoringLine, LineStored, FileStored, Notified,
             Ended
<1>4. CASE ~Parses(file)
  <2>1. Terminate BY <1>4 DEF ParseConfigFile
  <2>2. ~AcceptedArguments BY <1>2, <1>4 DEF AcceptedArguments
  <2> QED BY <2>1, <2>2, TerminateInv
<1> QED BY <1>3, <1>4

-----------------------------------------------------------------------------
(* notify, and main.                                                       *)
LEMMA NothingExclusive == ExclusiveOptionsOK
<1>1. {"verification-only", "skip-verification"} \cap Option = {}
    BY DEF Option, Config, Generic, Paths, Sizes
<1>2. {o \in {"verification-only", "skip-verification"} \cap Option : Explicit(o)} = {}
    BY <1>1
<1>3. Cardinality({}) = 0 BY FS_EmptySet
<1> QED BY <1>2, <1>3 DEF ExclusiveOptionsOK

LEMMA MergedIsChosen ==
    ASSUME NEW o \in Config, Heard(o) => Merged(o) # None
    PROVE  (IF Merged(o) # None THEN Merged(o).value ELSE Constructed[o]) = Chosen(o)
<1>1. CASE Says(TypedIn, o)
  <2>1. Merged(o) # None BY <1>1 DEF Heard
  <2>2. Merged(o).value = Values(TypedIn, o) BY <1>1 DEF Merged, Said
  <2> QED BY <1>1, <2>1, <2>2 DEF Chosen
<1>2. CASE ~Says(TypedIn, o) /\ Says(TypedIn, "config") /\ Says(file, o)
  <2>1. Merged(o) # None BY <1>2 DEF Heard
  <2>2. Merged(o).value = Values(file, o) BY <1>2 DEF Merged, Said
  <2> QED BY <1>2, <2>1, <2>2 DEF Chosen
<1>3. CASE ~Says(TypedIn, o) /\ ~(Says(TypedIn, "config") /\ Says(file, o))
  <2>1. Merged(o) = Default(o) BY <1>3 DEF Merged
  <2>2. Default(o) # None => Default(o).value = Constructed[o] BY DEF Default
  <2>3. Chosen(o) = Constructed[o] BY <1>3 DEF Chosen
  <2> QED BY <2>1, <2>2, <2>3
<1> QED BY <1>1, <1>2, <1>3

LEMMA NotifyInv ==
    ASSUME AInv, Notify
    PROVE  AInv'
<1>1. /\ status = "notify" /\ status' = "run" /\ argv' = argv /\ file' = file
      /\ given' = given /\ k' = k /\ vm' = vm /\ final' = final
    BY NothingExclusive DEF Notify, Goto
<1>2. /\ options = Constructed /\ AcceptedArguments
      /\ \A o \in Config : vm[o] = Merged(o) /\ (Heard(o) => Merged(o) # None)
    BY <1>1 DEF AInv, FileStored
<1>3. options' = [o \in Config |-> IF vm[o] # None THEN vm[o].value ELSE Constructed[o]]
    BY <1>2 DEF Notify
<1>4. ASSUME NEW o \in Config PROVE options'[o] = Chosen(o)
    BY <1>2, <1>3, MergedIsChosen
<1>5. options'["hash-type"][1] \in DOMAIN HASH_TYPES
  <2> DEFINE h == "hash-type"
  <2>1. h \in Defaulted /\ h \in Config /\ h \in Option /\ h \notin Multitoken /\ h \notin Flag
      BY OptionFacts
  <2>2. vm[h] # None
    <3>1. Default(h) # None
      <4>1. Default(h) = [value |-> Constructed[h], defaulted |-> TRUE] BY <2>1 DEF Default
      <4>2. Constructed[h] \in Seq(STRING) BY <2>1, DefaultValues
      <4>3. \A c \in Seq(STRING) : [value |-> c, defaulted |-> TRUE]
                                       \in [value : Seq(STRING), defaulted : BOOLEAN]
          OBVIOUS
      <4>4. Default(h) \in [value : Seq(STRING), defaulted : BOOLEAN]
          BY <4>1, <4>2, <4>3, Zenon
      <4> QED BY <4>4, ArgParserAssumption DEF ArgParserAssumption
    <3>2. ~Heard(h) => Merged(h) = Default(h) BY DEF Heard, Merged
    <3> QED BY <1>2, <2>1, <3>1, <3>2
  <2>3. Variable(h) BY <2>1 DEF AInv, Shape
  <2>4. /\ Len(vm[h].value) = 1
        /\ \A n \in 1..Len(vm[h].value) : Converts(h, vm[h].value[n])
      BY <2>1, <2>2, <2>3 DEF Variable, Fits
  <2>5. Converts(h, vm[h].value[1]) BY <2>4
  <2>6. ASSUME NEW v, Converts("hash-type", v) PROVE v \in DOMAIN HASH_TYPES
      BY <2>6 DEF Converts, Sizes, Paths
  <2>7. vm[h].value[1] \in DOMAIN HASH_TYPES BY <2>5, <2>6, Zenon
  <2> QED BY <1>3, <2>1, <2>2, <2>7
<1>6. Notified' BY <1>1, <1>2, <1>4, <1>5, Fixed DEF Notified
<1>7. Shape' BY <1>1 DEF AInv, Shape, Variable
<1> QED BY <1>1, <1>6, <1>7 DEF AInv, Start, StoringLine, LineStored, StoringFile, FileStored,
           Ended

(* Every type that a text names is among the alternatives of its variant.  *)
LEMMA HashVisited ==
    ASSUME options["hash-type"][1] \in DOMAIN HASH_TYPES
    PROVE  Visit(HashTypes, HASH_TYPES, "hash-type") = HASH_TYPES[options["hash-type"][1]]
<1> DEFINE t == HASH_TYPES[options["hash-type"][1]]
<1>1. t \in {"keccak_1600<256>", "sha2<256>", "poseidon<mina_poseidon_policy>"} BY DEF HASH_TYPES
<1>2. /\ Len(HashTypes) = 3 /\ HashTypes[1] = "keccak_1600<256>" /\ HashTypes[2] = "sha2<256>"
      /\ HashTypes[3] = "poseidon<mina_poseidon_policy>"
    BY DEF HashTypes
<1>3. \E n \in 1..Len(HashTypes) : HashTypes[n] = t
  <2>1. 1 \in 1..Len(HashTypes) /\ 2 \in 1..Len(HashTypes) /\ 3 \in 1..Len(HashTypes) BY <1>2
  <2> HIDE DEF t
  <2> QED BY <1>1, <1>2, <2>1, Zenon
<1> HIDE DEF t
<1>4. HashTypes[Alternative(HashTypes, t)] = t BY <1>3, Zenon DEF Alternative
<1> QED BY <1>4 DEF Visit, t

LEMMA RunProverInv ==
    ASSUME AInv, RunProver
    PROVE  AInv'
<1>1. /\ status = "run" /\ status' = "run_prover" /\ argv' = argv /\ file' = file
      /\ given' = given /\ k' = k /\ vm' = vm /\ final' = final /\ options' = options
      /\ instance'.hash = Visit(HashTypes, HASH_TYPES, "hash-type")
    BY DEF RunProver, Goto
<1>2. /\ AcceptedArguments /\ options["hash-type"][1] \in DOMAIN HASH_TYPES
      /\ \A o \in Config : options[o] = Chosen(o)
    BY <1>1 DEF AInv, Notified
<1>3. instance'.hash = HASH_TYPES[options["hash-type"][1]] BY <1>1, <1>2, HashVisited
<1>4. Notified' BY <1>1, <1>2, <1>3, Fixed DEF Notified
<1>5. Shape' BY <1>1 DEF AInv, Shape, Variable
<1> QED BY <1>1, <1>4, <1>5 DEF AInv, Start, StoringLine, LineStored, StoringFile, FileStored,
           Ended

-----------------------------------------------------------------------------
LEMMA AInvInit == Init => AInv
<1> SUFFICES ASSUME Init PROVE AInv OBVIOUS
<1>1. /\ argv \in CommandLine /\ file \in ConfigFile \cup {NoFile} /\ status = "parse"
      /\ given = <<>> /\ k = 1 /\ vm = [o \in Option |-> None] /\ final = {}
      /\ options = Constructed
    BY DEF Init
<1>2. given \in Seq(Entry) /\ Len(given) = 0 BY <1>1
<1>3. DOMAIN vm = Option /\ \A o \in Option : vm[o] = None BY <1>1
<1>4. Shape BY <1>1, <1>2, <1>3 DEF Shape, Variable
<1> QED BY <1>1, <1>3, <1>4 DEF AInv, Start, StoringLine, LineStored, StoringFile, FileStored,
           Notified, Ended

LEMMA AInvStep == AInv /\ [Next]_vars => AInv'
<1> SUFFICES ASSUME AInv, [Next]_vars PROVE AInv' OBVIOUS
<1>1. CASE UNCHANGED vars
  <2>1. /\ argv' = argv /\ file' = file /\ status' = status /\ given' = given /\ k' = k
        /\ vm' = vm /\ final' = final /\ options' = options /\ instance' = instance
      BY <1>1 DEF vars
  <2>2. Shape' BY <2>1 DEF AInv, Shape, Variable
  <2>3. \A o : Held(o)' = Held(o) /\ (Explicit(o)' <=> Explicit(o)) BY <2>1 DEF Held, Explicit
  <2>4. \A o : Gathered(o)' <=> Gathered(o) BY <2>1, <2>3 DEF Gathered
  <2>5. Start' /\ StoringLine' /\ LineStored'
      BY <2>1, <2>3, <2>4, Fixed DEF AInv, Start, StoringLine, LineStored
  <2>6. StoringFile' BY <2>1, <2>3, <2>4, Fixed DEF AInv, StoringFile
  <2>7. FileStored' /\ Notified' /\ Ended'
      BY <2>1, Fixed DEF AInv, FileStored, Notified, Ended
  <2> QED BY <2>2, <2>5, <2>6, <2>7 DEF AInv
<1> QED BY <1>1, ParseCommandLineInv, StoreOccurrenceInv, StoreDefaultsInv, InformInv,
           NoConfigInv, ParseConfigFileInv, NotifyInv, RunProverInv DEF Next

LEMMA AInvCorrect == AInv => TypeOK /\ Precedence /\ TerminatesForCause
<1> SUFFICES ASSUME AInv PROVE TypeOK /\ Precedence /\ TerminatesForCause OBVIOUS
<1>1. TypeOK
  <2>1. ASSUME NEW o \in Option, vm[o] # None
        PROVE  /\ \A n \in 1..Len(vm[o].value) : Converts(o, vm[o].value[n])
               /\ o \in Multitoken \/ (Len(vm[o].value) = IF o \in Flag THEN 0 ELSE 1)
    <3>1. Variable(o) BY Zenon DEF AInv, Shape
    <3> QED BY <2>1, <3>1, Zenon DEF Variable, Fits
  <2> QED BY <2>1, Zenon DEF AInv, Shape, TypeOK
<1>2. Precedence
  <2> SUFFICES ASSUME status = "run_prover"
               PROVE  /\ \A o \in Config : options[o] = Chosen(o)
                      /\ instance.hash = HASH_TYPES[Chosen("hash-type")[1]]
      BY DEF Precedence
  <2>1. "hash-type" \in Config BY OptionFacts
  <2> QED BY <2>1 DEF AInv, Notified
<1>3. TerminatesForCause BY DEF AInv, Notified, Ended, TerminatesForCause
<1> QED BY <1>1, <1>2, <1>3

(* For all command lines, files and abbreviations: the variables_map holds *)
(* only values that convert to their option's type, one of a scalar option.*)
THEOREM TypeCorrect == Spec => []TypeOK
<1> QED BY AInvInit, AInvStep, AInvCorrect, PTL DEF Spec

(* The options that reach run_prover are those of the command line, then   *)
(* of the configuration file, then the defaults, with all challenge files  *)
(* of one source in their order, and the instance is that of the hash.     *)
THEOREM SourcePrecedence == Spec => []Precedence
<1> QED BY AInvInit, AInvStep, AInvCorrect, PTL DEF Spec

(* parse_args refuses exactly the inconsistent or unknown arguments, and   *)
(* does not look at a file, or at lines of it, that do not count.          *)
THEOREM TerminatesOnlyForCause == Spec => []TerminatesForCause
<1> QED BY AInvInit, AInvStep, AInvCorrect, PTL DEF Spec
==============================================================================
