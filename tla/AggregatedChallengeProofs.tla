---------------------- MODULE AggregatedChallengeProofs ----------------------
(***************************************************************************)
(* Proofs about AggregatedChallenge, for any number of processes, files    *)
(* and inputs.                                                             *)
(***************************************************************************)
EXTENDS AggregatedChallenge, TLAPS

States == {"idle", "probing", "reading", "writing", "closing", "exit0", "exit1", "killed"}

(* What a process has absorbed: nothing before it reads, an element per    *)
(* input it is past, and all of them when it writes.                       *)
Absorbed(p) ==
    /\ status[p] = "probing" => transcript[p] = <<>>
    /\ status[p] = "reading" => Len(transcript[p]) = i[p] - 1
    /\ status[p] \in {"writing", "closing"} =>
          Len(transcript[p]) = Len(call[p].inputs) /\ call[p].inputs # <<>>

IInv == TypeOK /\ \A p \in Proc : Absorbed(p)

LEMMA CallType ==
    ASSUME NEW c \in Call
    PROVE  /\ c.inputs \in Seq(File) /\ c.output \in File
           /\ Len(c.inputs) \in Nat
           /\ c.inputs # <<>> <=> Len(c.inputs) > 0
           /\ \A k \in 1..Len(c.inputs) : c.inputs[k] \in File
<1>1. c.inputs \in Seq(File) /\ c.output \in File BY AggregationAssumption
<1> QED BY <1>1

LEMMA InputType ==
    ASSUME IInv, NEW p \in Proc, status[p] # "idle"
    PROVE  /\ call[p] \in Call /\ call[p] # None
           /\ call[p].inputs \in Seq(File) /\ call[p].output \in File
           /\ Len(call[p].inputs) \in Nat
           /\ call[p].inputs # <<>> <=> Len(call[p].inputs) > 0
           /\ \A k \in 1..Len(call[p].inputs) : call[p].inputs[k] \in File
<1>1. call[p] \in Call /\ call[p] # None BY DEF IInv, TypeOK
<1> QED BY <1>1, CallType

(* One step of a loop over the inputs.                                     *)
LEMMA NextInputEffect ==
    ASSUME IInv, NEW p \in Proc, NEW s \in {"reading", "writing"}, status[p] # "idle",
           call[p].inputs # <<>>, i[p] \in 1..Len(call[p].inputs), NextInput(p, s)
    PROVE  /\ call' = call /\ i' \in [Proc -> Nat \ {0}] /\ status' \in [Proc -> States]
           /\ \A q \in Proc : q # p => i'[q] = i[q] /\ status'[q] = status[q]
           /\ \/ /\ i[p] < Len(call[p].inputs) /\ i'[p] = i[p] + 1 /\ status'[p] = status[p]
                 /\ i'[p] \in 1..Len(call[p].inputs)
              \/ i[p] = Len(call[p].inputs) /\ i'[p] = 1 /\ status'[p] = s
                 /\ 1 \in 1..Len(call[p].inputs)
<1>1. Len(call[p].inputs) \in Nat BY InputType
<1>2. i \in [Proc -> Nat \ {0}] /\ status \in [Proc -> States] BY DEF IInv, TypeOK, States
<1>3. CASE i[p] < Len(call[p].inputs)
  <2>1. call' = call /\ i' = [i EXCEPT ![p] = @ + 1] /\ status' = status BY <1>3 DEF NextInput
  <2>2. i'[p] = i[p] + 1 /\ i'[p] \in 1..Len(call[p].inputs) BY <1>1, <1>2, <1>3, <2>1
  <2>3. i' \in [Proc -> Nat \ {0}] BY <1>2, <2>1
  <2> QED BY <1>2, <1>3, <2>1, <2>2, <2>3
<1>4. CASE ~(i[p] < Len(call[p].inputs))
  <2>1. call' = call /\ i' = [i EXCEPT ![p] = 1] /\ status' = [status EXCEPT ![p] = s]
    BY <1>4 DEF NextInput
  <2>2. i[p] = Len(call[p].inputs) /\ 1 \in 1..Len(call[p].inputs) BY <1>1, <1>4
  <2>3. s \in States BY DEF States
  <2>4. i' \in [Proc -> Nat \ {0}] /\ status' \in [Proc -> States] BY <1>2, <2>1, <2>3
  <2> QED BY <1>2, <2>1, <2>2, <2>4
<1> QED BY <1>3, <1>4

LEMMA PutType ==
    ASSUME IInv, NEW who, NEW f \in File, NEW v \in Content, Put(who, f, v)
    PROVE  files' \in [File -> Content] /\ quiet' \in [Proc -> BOOLEAN] /\ orig' = orig
BY DEF Put, IInv, TypeOK

LEMMA OthersAbsorbed ==
    ASSUME NEW q \in Proc, Absorbed(q), call'[q] = call[q], status'[q] = status[q],
           i'[q] = i[q], transcript'[q] = transcript[q]
    PROVE  Absorbed(q)'
BY DEF Absorbed

(* Steps that only change where p is.                                      *)
LEMMA BecomeStep ==
    ASSUME IInv, NEW p \in Proc, status[p] # "idle",
           NEW s \in {"closing", "exit0", "exit1", "killed"}, Become(p, s),
           s = "closing" => status[p] = "writing",
           files' \in [File -> Content], quiet' \in [Proc -> BOOLEAN], orig' = orig,
           runs' \in 0..MaxRuns, faults' \in 0..MaxFaults, edits' \in 0..MaxEdits
    PROVE  IInv'
<1> USE DEF IInv, TypeOK
<1>1. /\ UNCHANGED <<call, i, transcript>> /\ status' \in [Proc -> States]
      /\ status'[p] = s /\ \A q \in Proc : q # p => status'[q] = status[q]
    BY DEF Become, States
<1>2. TypeOK' BY <1>1 DEF States
<1>3. ASSUME NEW q \in Proc PROVE Absorbed(q)'
  <2>1. CASE q = p BY <1>1, <2>1 DEF Absorbed
  <2>2. CASE q # p BY <1>1, <2>2, OthersAbsorbed
  <2> QED BY <2>1, <2>2
<1> QED BY <1>2, <1>3

LEMMA FaultType ==
    ASSUME TypeOK, Fault \/ NoFault
    PROVE  runs' \in 0..MaxRuns /\ faults' \in 0..MaxFaults /\ edits' \in 0..MaxEdits
BY AggregationAssumption DEF TypeOK, Fault, NoFault

LEMMA ProbeStep ==
    ASSUME IInv, NEW p \in Proc, Probe(p)
    PROVE  IInv'
<1> USE DEF IInv, TypeOK
<1>1. status[p] = "probing" /\ call[p].inputs # <<>> /\ NextInput(p, "reading")
      /\ UNCHANGED <<transcript, files, orig, quiet, runs, faults, edits>>
    BY DEF Probe, NoFault, history
<1>2. Len(call[p].inputs) \in Nat /\ Len(call[p].inputs) > 0 BY <1>1, InputType
<1>3. i[p] \in 1..Len(call[p].inputs) BY <1>1, <1>2
<1>4. /\ call' = call /\ i' \in [Proc -> Nat \ {0}] /\ status' \in [Proc -> States]
      /\ \A q \in Proc : q # p => i'[q] = i[q] /\ status'[q] = status[q]
      /\ \/ i'[p] \in 1..Len(call[p].inputs) /\ status'[p] = "probing"
         \/ i'[p] = 1 /\ status'[p] = "reading" /\ 1 \in 1..Len(call[p].inputs)
    BY <1>1, <1>3, NextInputEffect
<1>5. TypeOK' BY <1>1, <1>4 DEF States
<1>6. ASSUME NEW q \in Proc PROVE Absorbed(q)'
  <2>1. CASE q = p BY <1>1, <1>4, <2>1 DEF Absorbed
  <2>2. CASE q # p BY <1>1, <1>4, <2>2, OthersAbsorbed
  <2> QED BY <2>1, <2>2
<1> QED BY <1>5, <1>6

LEMMA AbsorbStep ==
    ASSUME IInv, NEW p \in Proc, Absorb(p)
    PROVE  /\ IInv'
           /\ transcript'[p] = Append(transcript[p], Input(p))
           /\ Len(transcript'[p]) = i[p] /\ Len(transcript[p]) = i[p] - 1
           /\ i[p] \in 1..Len(call[p].inputs)
<1> USE DEF IInv, TypeOK
<1>1. /\ status[p] = "reading" /\ NextInput(p, "writing") /\ Input(p) \in Challenge
      /\ transcript' = [transcript EXCEPT ![p] = Append(@, Input(p))]
      /\ UNCHANGED <<files, orig, quiet, runs, faults, edits>>
    BY DEF Absorb, NoFault, history, Readable
<1>2. i[p] \in 1..Len(call[p].inputs) /\ Len(call[p].inputs) \in Nat BY <1>1, InputType
<1>3. call[p].inputs # <<>> BY <1>1, <1>2, InputType
<1>4. /\ call' = call /\ i' \in [Proc -> Nat \ {0}] /\ status' \in [Proc -> States]
      /\ \A q \in Proc : q # p => i'[q] = i[q] /\ status'[q] = status[q]
      /\ \/ /\ i'[p] = i[p] + 1 /\ status'[p] = "reading"
            /\ i'[p] \in 1..Len(call[p].inputs)
         \/ i[p] = Len(call[p].inputs) /\ i'[p] = 1 /\ status'[p] = "writing"
    BY <1>1, <1>2, <1>3, NextInputEffect
<1>5. /\ transcript'[p] = Append(transcript[p], Input(p))
      /\ transcript' \in [Proc -> Seq(Challenge)]
      /\ \A q \in Proc : q # p => transcript'[q] = transcript[q]
    BY <1>1
<1>6. Len(transcript[p]) = i[p] - 1 BY <1>1 DEF Absorbed
<1>7. Len(transcript'[p]) = i[p]
  <2>1. transcript[p] \in Seq(Challenge) OBVIOUS
  <2>2. Len(transcript'[p]) = Len(transcript[p]) + 1 BY <1>1, <1>5, <2>1
  <2>3. i[p] \in Nat OBVIOUS
  <2> QED BY <1>6, <2>2, <2>3
<1>8. TypeOK' BY <1>1, <1>4, <1>5 DEF States
<1>9. ASSUME NEW q \in Proc PROVE Absorbed(q)'
  <2>1. CASE q = p BY <1>2, <1>3, <1>4, <1>7, <2>1 DEF Absorbed
  <2>2. CASE q # p BY <1>4, <1>5, <2>2, OthersAbsorbed
  <2> QED BY <2>1, <2>2
<1> QED BY <1>2, <1>5, <1>6, <1>7, <1>8, <1>9

(* Steps of p before it has an output open that touch no file.             *)
LEMMA StartStep ==
    ASSUME IInv, NEW p \in Proc, NEW c \in Call, Start(p, c)
    PROVE  IInv'
<1> USE DEF IInv, TypeOK
<1>1. /\ call' = [call EXCEPT ![p] = c] /\ status' = [status EXCEPT ![p] = "probing"]
      /\ i' = [i EXCEPT ![p] = 1] /\ transcript' = [transcript EXCEPT ![p] = <<>>]
      /\ orig' = [orig EXCEPT ![p] = files] /\ quiet' = [quiet EXCEPT ![p] = TRUE]
      /\ UNCHANGED <<files, faults, edits>>
    BY DEF Start
<1>2. runs' \in 0..MaxRuns BY AggregationAssumption DEF Start
<1>3. c # None BY AggregationAssumption
<1>4. /\ call' \in [Proc -> Call \cup {None}] /\ call'[p] # None
      /\ status' \in [Proc -> States] /\ status'[p] = "probing"
      /\ i' \in [Proc -> Nat \ {0}] /\ i'[p] = 1
      /\ transcript' \in [Proc -> Seq(Challenge)] /\ transcript'[p] = <<>>
      /\ orig' \in [Proc -> [File -> Content]] /\ quiet' \in [Proc -> BOOLEAN]
  <2>1. <<>> \in Seq(Challenge) OBVIOUS
  <2> QED BY <1>1, <1>3, <2>1 DEF States
<1>5. \A q \in Proc : q # p => /\ call'[q] = call[q] /\ status'[q] = status[q]
                               /\ i'[q] = i[q] /\ transcript'[q] = transcript[q]
    BY <1>1
<1>6. TypeOK' BY <1>1, <1>2, <1>4, <1>5 DEF States
<1>7. ASSUME NEW q \in Proc PROVE Absorbed(q)'
  <2>1. CASE q = p BY <1>4, <2>1 DEF Absorbed
  <2>2. CASE q # p BY <1>5, <2>2, OthersAbsorbed
  <2> QED BY <2>1, <2>2
<1> QED BY <1>6, <1>7

(* What is in the transcript when the output is written is a challenge.    *)
LEMMA ChallengeType ==
    ASSUME IInv, NEW p \in Proc, status[p] \in {"writing", "closing"}
    PROVE  ChallengeOf(transcript[p]) \in Challenge
<1>1. call[p] \in Call /\ Len(call[p].inputs) \in Nat
      /\ (call[p].inputs # <<>> <=> Len(call[p].inputs) > 0)
    BY InputType
<1>2. Len(transcript[p]) = Len(call[p].inputs) /\ call[p].inputs # <<>> BY DEF IInv, Absorbed
<1>3. transcript[p] \in Seq(Challenge) BY DEF IInv, TypeOK
<1>4. transcript[p] \in [1..Len(call[p].inputs) -> Challenge] /\ transcript[p] # <<>>
    BY <1>1, <1>2, <1>3
<1> QED BY <1>1, <1>4, AggregationAssumption

LEMMA WriteStep ==
    ASSUME IInv, NEW p \in Proc, OpenOutput(p) \/ Close(p)
    PROVE  IInv'
<1>1. status[p] \in {"writing", "closing"} /\ NoFault BY DEF OpenOutput, Close
<1>2. call[p].output \in File BY <1>1, InputType
<1>3. Torn \in Content /\ ChallengeOf(transcript[p]) \in Content
    BY <1>1, ChallengeType DEF Content
<1>4. files' \in [File -> Content] /\ quiet' \in [Proc -> BOOLEAN] /\ orig' = orig
    BY <1>2, <1>3, PutType DEF OpenOutput, Close
<1>5. runs' \in 0..MaxRuns /\ faults' \in 0..MaxFaults /\ edits' \in 0..MaxEdits
    BY <1>1, FaultType DEF IInv
<1>6. CASE OpenOutput(p)
  <2>1. status[p] = "writing" /\ Become(p, "closing") BY <1>6 DEF OpenOutput
  <2> QED BY <1>1, <1>4, <1>5, <2>1, BecomeStep
<1>7. CASE Close(p)
  <2>1. Become(p, "exit0") BY <1>7 DEF Close
  <2> QED BY <1>1, <1>4, <1>5, <2>1, BecomeStep
<1> QED BY <1>6, <1>7

(* Every way to end without touching a file.                               *)
LEMMA StopStep ==
    ASSUME IInv, NEW p \in Proc,
           \/ NoInputs(p) \/ ProbeFails(p) \/ ReadFails(p) \/ OpenFails(p)
           \/ CloseFails(p) \/ Die(p)
    PROVE  /\ IInv' /\ UNCHANGED <<files, history>>
           /\ \E s \in {"exit0", "exit1", "killed"} :
                 Become(p, s) /\ (s = "exit0" => status[p] = "closing")
           /\ status[p] # "idle"
<1>1. status[p] # "idle" /\ UNCHANGED <<files, history>> /\ (Fault \/ NoFault)
    BY DEF NoInputs, ProbeFails, ReadFails, OpenFails, CloseFails, Die, Active
<1>2. PICK s \in {"exit0", "exit1", "killed"} :
         Become(p, s) /\ (s = "exit0" => status[p] = "closing")
    BY DEF NoInputs, ProbeFails, ReadFails, OpenFails, CloseFails, Die
<1>3. runs' \in 0..MaxRuns /\ faults' \in 0..MaxFaults /\ edits' \in 0..MaxEdits
    BY <1>1, FaultType DEF IInv
<1>4. files' \in [File -> Content] /\ quiet' \in [Proc -> BOOLEAN] /\ orig' = orig
    BY <1>1 DEF IInv, TypeOK, history
<1>5. IInv' BY <1>1, <1>2, <1>3, <1>4, BecomeStep
<1> QED BY <1>1, <1>2, <1>5

LEMMA EditStep ==
    ASSUME IInv, NEW f \in File, NEW v \in Delivered, Edit(f, v)
    PROVE  IInv'
<1> USE DEF IInv, TypeOK
<1>1. v \in Content BY AggregationAssumption
<1>2. files' \in [File -> Content] /\ quiet' \in [Proc -> BOOLEAN] /\ orig' = orig
    BY <1>1, PutType DEF Edit
<1>3. UNCHANGED <<call, status, i, transcript, runs, faults>> /\ edits' \in 0..MaxEdits
    BY AggregationAssumption DEF Edit, process
<1>4. TypeOK' BY <1>2, <1>3
<1>5. \A q \in Proc : Absorbed(q)' BY <1>3, OthersAbsorbed
<1> QED BY <1>4, <1>5

LEMMA IInvInit == Init => IInv
<1> SUFFICES ASSUME Init PROVE IInv OBVIOUS
<1>1. files \in [File -> Content] BY AggregationAssumption DEF Init
<1>2. <<>> \in Seq(Challenge) OBVIOUS
<1>3. TypeOK BY <1>1, <1>2, AggregationAssumption DEF Init, TypeOK
<1> QED BY <1>3 DEF IInv, Init, Absorbed

LEMMA IInvStep == IInv /\ [Next]_vars => IInv'
<1> SUFFICES ASSUME IInv, [Next]_vars PROVE IInv' OBVIOUS
<1>1. ASSUME NEW p \in Proc, Work(p) PROVE IInv'
  <2>1. CASE Probe(p) BY <2>1, ProbeStep
  <2>2. CASE Absorb(p) BY <2>2, AbsorbStep
  <2>3. CASE OpenOutput(p) \/ Close(p) BY <2>3, WriteStep
  <2>4. CASE NoInputs(p) \/ ProbeFails(p) \/ ReadFails(p) BY <2>4, StopStep
  <2> QED BY <1>1, <2>1, <2>2, <2>3, <2>4 DEF Work
<1>2. ASSUME NEW p \in Proc, OpenFails(p) \/ CloseFails(p) \/ Die(p) PROVE IInv'
    BY <1>2, StopStep
<1>3. ASSUME NEW p \in Proc, NEW c \in Call, Start(p, c) PROVE IInv' BY <1>3, StartStep
<1>4. ASSUME NEW f \in File, NEW v \in Delivered, Edit(f, v) PROVE IInv' BY <1>4, EditStep
<1>5. CASE UNCHANGED vars
    BY <1>5 DEF vars, process, history, IInv, TypeOK, Absorbed
<1> QED BY <1>1, <1>2, <1>3, <1>4, <1>5 DEF Next

(* Every variable has its type in every state, and with it: the inputs a   *)
(* process looks at are inputs of its command line, in any number of       *)
(* processes and for inputs of any length (prover.hpp:500-517).            *)
THEOREM TypeCorrect == Spec => []TypeOK
<1>1. Spec => []IInv BY IInvInit, IInvStep, PTL DEF Spec
<1>2. IInv => TypeOK BY DEF IInv
<1> QED BY <1>1, <1>2, PTL

(* A process touches no file but its output, and that only after it has    *)
(* absorbed every input, whatever other processes and users do to the      *)
(* inputs between the two looks at them (prover.hpp:500-531).              *)
THEOREM CompleteBeforeOutput == Spec => OutputOnlyWhenComplete
<1> DEFINE Harmless ==
      \A f \in File : files'[f] # files[f] =>
          \/ edits' # edits
          \/ \E p \in Proc :
                /\ status[p] \in {"writing", "closing"} /\ call[p].output = f
                /\ Len(transcript[p]) = Len(call[p].inputs)
<1>1. IInv /\ [Next]_vars => [Harmless]_vars
  <2> SUFFICES ASSUME IInv, Next PROVE Harmless BY DEF vars
  <2>1. CASE files' = files BY <2>1
  <2>2. ASSUME NEW p \in Proc, OpenOutput(p) \/ Close(p) PROVE Harmless
    <3>1. status[p] \in {"writing", "closing"} /\ \E v : Put(p, call[p].output, v)
        BY <2>2 DEF OpenOutput, Close
    <3>2. Len(transcript[p]) = Len(call[p].inputs) BY <3>1 DEF IInv, Absorbed
    <3>3. \A f \in File : f # call[p].output => files'[f] = files[f]
        BY <3>1 DEF Put, IInv, TypeOK
    <3> QED BY <3>1, <3>2, <3>3
  <2>3. ASSUME NEW f \in File, NEW v \in Delivered, Edit(f, v) PROVE Harmless
    <3>1. edits' = edits + 1 /\ edits \in Nat
        BY <2>3, AggregationAssumption DEF Edit, IInv, TypeOK
    <3> QED BY <3>1
  <2>4. ASSUME NEW p \in Proc, Probe(p) \/ Absorb(p) \/ (\E c \in Call : Start(p, c))
        PROVE  files' = files
      BY <2>4 DEF Probe, Absorb, Start
  <2>5. ASSUME NEW p \in Proc,
               \/ NoInputs(p) \/ ProbeFails(p) \/ ReadFails(p) \/ OpenFails(p)
               \/ CloseFails(p) \/ Die(p)
        PROVE  files' = files
      BY <2>5, StopStep
  <2> QED BY <2>1, <2>2, <2>3, <2>4, <2>5 DEF Next, Work
<1>2. Spec => []IInv BY IInvInit, IInvStep, PTL DEF Spec
<1> QED BY <1>1, <1>2, PTL DEF Spec, OutputOnlyWhenComplete

(***************************************************************************)
(* AggregatesItsInputs.  As long as the files of a process are its own, it *)
(* sees them as they were when it was started; so its transcript lists the *)
(* first of its inputs as they were then, until it writes.                 *)
(***************************************************************************)
AsStarted(p) == \A f \in Names(call[p]) : files[f] = orig[p][f]

OwnInputs(p) ==
    quiet[p] =>
      /\ status[p] \in {"probing", "reading", "writing"} => AsStarted(p)
      /\ status[p] \in {"reading", "writing", "closing"} =>
            \A k \in 1..Len(transcript[p]) : transcript[p][k] = orig[p][call[p].inputs[k]]
      /\ status[p] = "closing" => files[call[p].output] = Torn
      /\ status[p] = "exit0" =>
            \/ files[call[p].output] =
                 ChallengeOf([k \in 1..Len(call[p].inputs) |-> orig[p][call[p].inputs[k]]])
            \/ FlushFails /\ files[call[p].output] = Torn

QInv == IInv /\ \A p \in Proc : OwnInputs(p)

(* What others do to the files of q costs q its quiet.                     *)
LEMMA OthersQuiet ==
    ASSUME QInv, NEW q \in Proc, NEW who, q # who, NEW f \in File, NEW v \in Content,
           Put(who, f, v), call'[q] = call[q], status'[q] = status[q],
           transcript'[q] = transcript[q], status[q] # "idle"
    PROVE  OwnInputs(q)'
<1>1. call[q] # None /\ call[q] \in Call /\ call[q].output \in File BY InputType DEF QInv
<1>2. quiet'[q] = (quiet[q] /\ f \notin Names(call[q])) /\ orig' = orig
    BY <1>1 DEF Put, QInv, IInv, TypeOK
<1>3. CASE f \in Names(call[q]) BY <1>2, <1>3 DEF OwnInputs
<1>4. CASE f \notin Names(call[q])
  <2>1. \A g \in Names(call[q]) : files'[g] = files[g]
    <3>1. \A g \in File : g # f => files'[g] = files[g] BY DEF Put, QInv, IInv, TypeOK
    <3>2. Names(call[q]) \subseteq File BY InputType DEF QInv, Names
    <3> QED BY <1>4, <3>1, <3>2
  <2>2. call[q].output \in Names(call[q]) BY DEF Names
  <2>3. OwnInputs(q) /\ (quiet'[q] => quiet[q]) BY <1>2 DEF QInv
  <2>4. AsStarted(q) => AsStarted(q)' BY <1>2, <2>1 DEF AsStarted
  <2>5. files'[call[q].output] = files[call[q].output] BY <2>1, <2>2
  <2> QED BY <1>2, <2>3, <2>4, <2>5 DEF OwnInputs
<1> QED BY <1>3, <1>4

LEMMA OwnInputsFrame ==
    ASSUME QInv, NEW q \in Proc, call'[q] = call[q], status'[q] = status[q],
           transcript'[q] = transcript[q], files' = files, orig'[q] = orig[q],
           quiet'[q] = quiet[q]
    PROVE  OwnInputs(q)'
<1>1. OwnInputs(q) BY DEF QInv
<1>2. AsStarted(q) => AsStarted(q)' BY DEF AsStarted
<1> QED BY <1>1, <1>2, Zenon DEF OwnInputs

LEMMA QInvStop ==
    ASSUME QInv, NEW p \in Proc,
           \/ NoInputs(p) \/ ProbeFails(p) \/ ReadFails(p) \/ OpenFails(p)
           \/ CloseFails(p) \/ Die(p)
    PROVE  \A q \in Proc : OwnInputs(q)'
<1>1. IInv /\ status[p] # "idle" /\ files' = files /\ orig' = orig /\ quiet' = quiet
    BY StopStep DEF QInv, history
<1>2. PICK s \in {"exit0", "exit1", "killed"} :
         Become(p, s) /\ (s = "exit0" => CloseFails(p))
    BY DEF NoInputs, ProbeFails, ReadFails, OpenFails, CloseFails, Die
<1>3. /\ call' = call /\ transcript' = transcript /\ status'[p] = s
      /\ \A q \in Proc : q # p => status'[q] = status[q]
    BY <1>1, <1>2 DEF Become, IInv, TypeOK
<1>4. OwnInputs(p)'
  <2>1. CASE s = "exit0"
    <3>1. FlushFails /\ status[p] = "closing" BY <1>2, <2>1 DEF CloseFails
    <3>2. quiet[p] => files[call[p].output] = Torn BY <3>1 DEF QInv, OwnInputs
    <3> QED BY <1>1, <1>3, <2>1, <3>1, <3>2 DEF OwnInputs
  <2>2. CASE s # "exit0" BY <1>3, <2>2 DEF OwnInputs
  <2> QED BY <2>1, <2>2
<1>5. \A q \in Proc : q # p => OwnInputs(q)' BY <1>1, <1>3, OwnInputsFrame
<1> QED BY <1>4, <1>5

LEMMA QInvStart ==
    ASSUME QInv, NEW p \in Proc, NEW c \in Call, Start(p, c)
    PROVE  \A q \in Proc : OwnInputs(q)'
<1>1. /\ call' = [call EXCEPT ![p] = c] /\ status' = [status EXCEPT ![p] = "probing"]
      /\ transcript' = [transcript EXCEPT ![p] = <<>>]
      /\ orig' = [orig EXCEPT ![p] = files] /\ quiet' = [quiet EXCEPT ![p] = TRUE]
      /\ files' = files
    BY DEF Start
<1>2. status'[p] = "probing" /\ orig'[p] = files
      /\ \A q \in Proc : q # p => /\ call'[q] = call[q] /\ status'[q] = status[q]
                                  /\ transcript'[q] = transcript[q]
                                  /\ orig'[q] = orig[q] /\ quiet'[q] = quiet[q]
    BY <1>1 DEF QInv, IInv, TypeOK
<1>3. OwnInputs(p)' BY <1>1, <1>2 DEF OwnInputs, AsStarted
<1>4. \A q \in Proc : q # p => OwnInputs(q)' BY <1>1, <1>2, OwnInputsFrame
<1> QED BY <1>3, <1>4

(* The loops over the inputs.                                              *)
LEMMA QInvLook ==
    ASSUME QInv, NEW p \in Proc, Probe(p) \/ Absorb(p)
    PROVE  \A q \in Proc : OwnInputs(q)'
<1>1. IInv BY DEF QInv
<1>2. call' = call /\ files' = files /\ orig' = orig /\ quiet' = quiet
    BY DEF Probe, Absorb, NextInput, history
<1>3. status \in [Proc -> States] /\ transcript \in [Proc -> Seq(Challenge)]
    BY <1>1 DEF IInv, TypeOK, States
<1>4. \A q \in Proc : q # p => status'[q] = status[q] /\ transcript'[q] = transcript[q]
    BY <1>3 DEF Probe, Absorb, NextInput
<1>5. status[p] \in {"probing", "reading"} BY DEF Probe, Absorb
<1>6. status'[p] \in {"probing", "reading", "writing"}
    BY <1>3, <1>5 DEF Probe, Absorb, NextInput
<1>7. quiet[p] => AsStarted(p) /\ AsStarted(p)'
    BY <1>2, <1>5 DEF QInv, OwnInputs, AsStarted
<1>8. ASSUME quiet[p]
      PROVE  \A k \in 1..Len(transcript'[p]) :
                transcript'[p][k] = orig[p][call[p].inputs[k]]
  <2>1. CASE Probe(p)
    <3>1. transcript'[p] = <<>> BY <1>1, <2>1 DEF Probe, IInv, Absorbed
    <3> QED BY <3>1
  <2>2. CASE Absorb(p)
    <3>1. /\ transcript'[p] = Append(transcript[p], Input(p))
          /\ Len(transcript'[p]) = i[p] /\ Len(transcript[p]) = i[p] - 1
          /\ i[p] \in 1..Len(call[p].inputs)
        BY <1>1, <2>2, AbsorbStep
    <3>2. \A k \in 1..Len(transcript[p]) : transcript[p][k] = orig[p][call[p].inputs[k]]
        BY <1>8, <2>2 DEF QInv, OwnInputs, Absorb
    <3>3. Input(p) = orig[p][call[p].inputs[i[p]]]
        BY <1>7, <1>8, <3>1 DEF AsStarted, Input, Names
    <3>4. transcript[p] \in Seq(Challenge) BY <1>3
    <3>5. ASSUME NEW k \in 1..Len(transcript'[p])
          PROVE  transcript'[p][k] = orig[p][call[p].inputs[k]]
      <4>1. CASE k = i[p]
        <5>1. transcript'[p][k] = Input(p) BY <3>1, <3>4, <4>1
        <5> QED BY <3>3, <4>1, <5>1
      <4>2. CASE k # i[p]
        <5>1. k \in 1..Len(transcript[p]) BY <1>1, <3>1, <3>5, <4>2 DEF IInv, TypeOK
        <5>2. transcript'[p][k] = transcript[p][k] BY <3>1, <3>4, <5>1
        <5> QED BY <3>2, <5>1, <5>2
      <4> QED BY <4>1, <4>2
    <3> QED BY <3>5
  <2> QED BY <2>1, <2>2
<1>9. OwnInputs(p)' BY <1>2, <1>6, <1>7, <1>8 DEF OwnInputs
<1>10. \A q \in Proc : q # p => OwnInputs(q)' BY <1>2, <1>4, OwnInputsFrame
<1> QED BY <1>9, <1>10

LEMMA QInvWrite ==
    ASSUME QInv, NEW p \in Proc, OpenOutput(p) \/ Close(p)
    PROVE  \A q \in Proc : OwnInputs(q)'
<1>1. IInv /\ status[p] \in {"writing", "closing"} BY DEF QInv, OpenOutput, Close
<1>2. call[p] \in Call /\ call[p] # None /\ call[p].output \in File
      /\ call[p].inputs \in Seq(File) /\ Len(call[p].inputs) \in Nat
    BY <1>1, InputType
<1>3. Torn \in Content /\ ChallengeOf(transcript[p]) \in Content
    BY <1>1, ChallengeType DEF Content
<1>4. PICK v \in Content, s \in {"closing", "exit0"} :
         /\ Put(p, call[p].output, v) /\ Become(p, s)
         /\ IF s = "closing" THEN v = Torn /\ status[p] = "writing"
                             ELSE v = ChallengeOf(transcript[p]) /\ status[p] = "closing"
    BY <1>3 DEF OpenOutput, Close
<1>5. /\ call' = call /\ transcript' = transcript /\ status'[p] = s /\ orig' = orig
      /\ \A q \in Proc : q # p => status'[q] = status[q]
    BY <1>1, <1>4 DEF Become, Put, IInv, TypeOK
<1>6. files'[call[p].output] = v /\ quiet'[p] = quiet[p]
    BY <1>1, <1>2, <1>4 DEF Put, IInv, TypeOK
<1>7. OwnInputs(p)'
  <2>1. CASE ~quiet[p] BY <1>6, <2>1 DEF OwnInputs
  <2>2. CASE quiet[p]
    <3>1. \A k \in 1..Len(transcript[p]) : transcript[p][k] = orig[p][call[p].inputs[k]]
        BY <1>1, <2>2 DEF QInv, OwnInputs
    <3>2. CASE s = "closing" BY <1>4, <1>5, <1>6, <3>1, <3>2 DEF OwnInputs
    <3>3. CASE s = "exit0"
      <4>1. transcript[p] \in Seq(Challenge) /\ Len(transcript[p]) = Len(call[p].inputs)
          BY <1>1 DEF IInv, TypeOK, Absorbed
      <4>2. transcript[p] = [k \in 1..Len(call[p].inputs) |-> transcript[p][k]] BY <4>1
      <4>3. [k \in 1..Len(call[p].inputs) |-> transcript[p][k]]
              = [k \in 1..Len(call[p].inputs) |-> orig[p][call[p].inputs[k]]]
          BY <3>1, <4>1
      <4>4. v = ChallengeOf([k \in 1..Len(call[p].inputs) |-> orig[p][call[p].inputs[k]]])
          BY <1>4, <3>3, <4>2, <4>3
      <4> QED BY <1>5, <1>6, <3>3, <4>4 DEF OwnInputs
    <3> QED BY <3>2, <3>3
  <2> QED BY <2>1, <2>2
<1>8. ASSUME NEW q \in Proc, q # p PROVE OwnInputs(q)'
  <2>1. CASE status[q] = "idle" BY <1>5, <1>8, <2>1 DEF OwnInputs
  <2>2. CASE status[q] # "idle" BY <1>2, <1>4, <1>5, <1>8, <2>2, OthersQuiet
  <2> QED BY <2>1, <2>2
<1> QED BY <1>7, <1>8

LEMMA QInvEdit ==
    ASSUME QInv, NEW f \in File, NEW v \in Delivered, Edit(f, v)
    PROVE  \A q \in Proc : OwnInputs(q)'
<1>1. v \in Content /\ None \notin Proc BY AggregationAssumption
<1>2. Put(None, f, v) /\ UNCHANGED <<call, status, transcript>> BY DEF Edit, process
<1>3. ASSUME NEW q \in Proc PROVE OwnInputs(q)'
  <2>1. CASE status[q] = "idle" BY <1>2, <2>1 DEF OwnInputs
  <2>2. CASE status[q] # "idle" BY <1>1, <1>2, <2>2, OthersQuiet
  <2> QED BY <2>1, <2>2
<1> QED BY <1>3

(* If nobody else touches the files of a process that exits 0, its output  *)
(* is the challenge of all its inputs, in the order of the command line, as *)
(* they were when it was started, also where the output is one of the      *)
(* inputs (prover.hpp:500-531).                                            *)
THEOREM OutputIsAggregate == Spec => []AggregatesItsInputs
<1>1. Init => QInv BY IInvInit DEF QInv, Init, OwnInputs
<1>2. QInv /\ [Next]_vars => QInv'
  <2> SUFFICES ASSUME QInv, [Next]_vars PROVE QInv' OBVIOUS
  <2>1. IInv' BY IInvStep DEF QInv
  <2>2. \A q \in Proc : OwnInputs(q)'
    <3>1. ASSUME NEW p \in Proc, Work(p) PROVE \A q \in Proc : OwnInputs(q)'
        BY <3>1, QInvStop, QInvLook, QInvWrite DEF Work
    <3>2. ASSUME NEW p \in Proc, OpenFails(p) \/ CloseFails(p) \/ Die(p)
          PROVE  \A q \in Proc : OwnInputs(q)'
        BY <3>2, QInvStop
    <3>3. CASE UNCHANGED vars
        BY <3>3, OwnInputsFrame DEF vars, process, history
    <3> QED BY <3>1, <3>2, <3>3, QInvStart, QInvEdit DEF Next
  <2> QED BY <2>1, <2>2 DEF QInv
<1>3. QInv => AggregatesItsInputs BY DEF QInv, OwnInputs, AggregatesItsInputs
<1> QED BY <1>1, <1>2, <1>3, PTL DEF Spec
==============================================================================
