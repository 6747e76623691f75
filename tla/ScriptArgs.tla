----------------------------- MODULE ScriptArgs -----------------------------
(***************************************************************************)
(* parse_args of tests/make_proof_for_pairs.sh, and the default of         *)
(* --output-dir after it.  The positional parameters are shifted away one  *)
(* or two at a time.                                                       *)
(*                                                                         *)
(* ShiftTwoOrNone and ForwardOne are mistaken versions of the definitions  *)
(* they precede.                                                           *)
(***************************************************************************)
EXTENDS Integers, Sequences

CONSTANT CommandLine  \* sequences of words

ASSUME ScriptArgsAssumption == CommandLine \subseteq Seq(STRING)

VARIABLES
    line,             \* the command line
    rest,             \* the positional parameters
    options,          \* base_dir, output_dir, use_multithreaded, use_nix
    args_to_forward, targets,
    status            \* "parsing", "forwarding" (after --) or "parsed"

vars == <<line, rest, options, args_to_forward, targets, status>>

ValueOption == [base_dir |-> "--base-dir", output_dir |-> "--output-dir"]
Switch == [use_multithreaded |-> "--multithreaded", use_nix |-> "--use-nix"]
ValueOptions == {ValueOption[o] : o \in DOMAIN ValueOption}
Switches == {Switch[o] : o \in DOMAIN Switch}

Initially == [base_dir |-> ".", output_dir |-> "", use_multithreaded |-> FALSE, use_nix |-> FALSE]

-----------------------------------------------------------------------------
Init ==
    /\ line \in CommandLine
    /\ rest = line
    /\ options = Initially
    /\ args_to_forward = <<>> /\ targets = <<>>
    /\ status = "parsing"

ShiftTwoOrNone == rest' = IF Len(rest) > 2 THEN Tail(Tail(rest)) ELSE rest

(* shift 2, which does nothing if only one parameter is left.              *)
ShiftTwo == rest' = IF Len(rest) >= 2 THEN Tail(Tail(rest)) ELSE rest

TakeValue(o) ==
    /\ status = "parsing" /\ rest # <<>> /\ rest[1] = ValueOption[o]
    /\ options' = [options EXCEPT ![o] = IF Len(rest) >= 2 THEN rest[2] ELSE ""]
    /\ ShiftTwo
    /\ UNCHANGED <<line, args_to_forward, targets, status>>

TurnOn(o) ==
    /\ status = "parsing" /\ rest # <<>> /\ rest[1] = Switch[o]
    /\ options' = [options EXCEPT ![o] = TRUE]
    /\ rest' = Tail(rest)
    /\ UNCHANGED <<line, args_to_forward, targets, status>>

Separator ==
    /\ status = "parsing" /\ rest # <<>> /\ rest[1] = "--"
    /\ rest' = Tail(rest)
    /\ status' = "forwarding"
    /\ UNCHANGED <<line, options, args_to_forward, targets>>

ForwardOne ==
    /\ status = "forwarding" /\ rest # <<>>
    /\ args_to_forward' = Append(args_to_forward, rest[1])
    /\ rest' = Tail(rest)
    /\ status' = "parsing"
    /\ UNCHANGED <<line, options, targets>>

Forward ==
    /\ status = "forwarding" /\ rest # <<>>
    /\ args_to_forward' = Append(args_to_forward, rest[1])
    /\ rest' = Tail(rest)
    /\ UNCHANGED <<line, options, targets, status>>

AddTarget ==
    /\ status = "parsing" /\ rest # <<>>
    /\ rest[1] \notin ValueOptions \cup Switches \cup {"--"}
    /\ targets' = Append(targets, rest[1])
    /\ rest' = Tail(rest)
    /\ UNCHANGED <<line, options, args_to_forward, status>>

Parsed ==
    /\ status # "parsed" /\ rest = <<>>
    /\ status' = "parsed"
    /\ options' = [options EXCEPT !.output_dir = IF @ = "" THEN options.base_dir ELSE @]
    /\ UNCHANGED <<line, rest, args_to_forward, targets>>

Next ==
    \/ \E o \in DOMAIN ValueOption : TakeValue(o)
    \/ \E o \in DOMAIN Switch : TurnOn(o)
    \/ Separator \/ Forward \/ AddTarget \/ Parsed

Spec == Init /\ [][Next]_vars /\ WF_vars(Next)

-----------------------------------------------------------------------------
(* The words that are an option's value.                                   *)
IsValue ==
    LET value[n \in 0..Len(line)] == n > 1 /\ line[n - 1] \in ValueOptions /\ ~value[n - 1]
    IN {n \in 1..Len(line) : value[n]}

(* Where the arguments of the producer begin.                              *)
Separators == {n \in 1..Len(line) \ IsValue : line[n] = "--"}
First == IF Separators = {} THEN Len(line) + 1
         ELSE CHOOSE n \in Separators : \A m \in Separators : n <= m

Targets == {n \in 1..First - 1 \ IsValue : line[n] \notin ValueOptions \cup Switches}

(* The words at these positions, in their order.                           *)
IsSequenceOf(words, positions) ==
    \E at \in [1..Len(words) -> positions] :
        /\ \A i, j \in 1..Len(words) : i < j => at[i] < at[j]
        /\ \A n \in positions : \E i \in 1..Len(words) : at[i] = n
        /\ \A i \in 1..Len(words) : words[i] = line[at[i]]

Given(o) == {n \in IsValue : n < First /\ line[n - 1] = ValueOption[o]}
Last(positions) == CHOOSE n \in positions : \A m \in positions : m <= n
LastGiven(o, default) == IF Given(o) = {} THEN default ELSE line[Last(Given(o))]

(* The last word is an option that waits for its value.                    *)
ValueMissing ==
    line # <<>> /\ First > Len(line) /\ Len(line) \notin IsValue /\ line[Len(line)] \in ValueOptions

(* Each word of the command line ends up in its place, once: what follows  *)
(* "--" is forwarded, words that are neither options nor their values are  *)
(* targets, both in order; the last value of an option counts, and outputs *)
(* go to the base directory unless another is given.                       *)
EveryWordInPlace ==
    status = "parsed" =>
        LET base == LastGiven("base_dir", ".")
            output == LastGiven("output_dir", "")
        IN /\ ~ValueMissing
           /\ args_to_forward = SubSeq(line, First + 1, Len(line))
           /\ IsSequenceOf(targets, Targets)
           /\ options.base_dir = base
           /\ options.output_dir = IF output = "" THEN base ELSE output
           /\ \A o \in DOMAIN Switch :
                 options[o] <=> \E n \in 1..First - 1 : n \notin IsValue /\ line[n] = Switch[o]

(* Parsing ends, with all parameters consumed, but for the lines on which  *)
(* --base-dir or --output-dir is the last word: then shift 2 fails and     *)
(* shifts nothing, and the loop goes round for ever.                       *)
ParsingEnds == <>(status = "parsed") \/ ValueMissing
=============================================================================
