------------------------ MODULE AggregatedChallenge ------------------------
(***************************************************************************)
(* The stage generate-aggregated-challenge: processes that combine the     *)
(* challenges in their input files into one.  All inputs are probed before *)
(* the first is read, all are read before the output is opened; each probe *)
(* and each read is a step, since inputs come from other provers and an    *)
(* output may be another process's input, or the process's own.            *)
(*                                                                         *)
(* NextInputPastEnd, AbsorbInFront, ReadSkipped and ReadRetried are        *)
(* mistaken versions of the definitions they precede.                      *)
(***************************************************************************)
EXTENDS Integers, Sequences

CONSTANTS
    Proc,            \* slots in which processes run, one after another
    File,            \* paths
    Challenge,       \* field elements
    Delivered,       \* what users put into files, or leave there
    Call,            \* command lines: the input files, in order, and the output
    ChallengeOf(_),  \* the Fiat-Shamir challenge after absorbing a sequence
    Absent, Torn,    \* no such file; a file that is empty or cut short
    None,            \* no command line yet
    FlushFails,      \* whether the flush in ~ofstream can fail
    MaxRuns, MaxFaults, MaxEdits  \* bounds on the environment

Content == Challenge \cup {Absent, Torn}

ASSUME AggregationAssumption ==
    /\ Call \subseteq [inputs : Seq(File), output : File]
    /\ None \notin Call \cup Proc
    /\ Delivered \subseteq Content
    /\ Absent \notin Challenge /\ Torn \notin Challenge
    /\ \A c \in Call : \A s \in [1..Len(c.inputs) -> Challenge] :
          s # <<>> => ChallengeOf(s) \in Challenge
    /\ FlushFails \in BOOLEAN
    /\ MaxRuns \in Nat /\ MaxFaults \in Nat /\ MaxEdits \in Nat

VARIABLES
    call,        \* the command line of each process
    status,      \* where it is in generate_aggregated_challenge_to_file
    i,           \* the input it probes or reads next
    transcript,  \* the challenges it has absorbed
    files,
    runs, faults, edits,  \* environment counters, for the bounds
    orig, quiet  \* history: the files when the process was started, and
                 \* whether it alone has changed its files since

process == <<call, status, i, transcript>>
history == <<orig, quiet>>
vars == <<process, files, runs, faults, edits, history>>

Active(p) == status[p] \in {"probing", "reading", "writing", "closing"}
Input(p) == files[call[p].inputs[i[p]]]
Names(c) == {c.inputs[k] : k \in 1..Len(c.inputs)} \cup {c.output}

Fault == faults < MaxFaults /\ faults' = faults + 1 /\ UNCHANGED <<runs, edits>>
NoFault == UNCHANGED <<runs, faults, edits>>

(* who, a process or None for a user, changes file f.                      *)
Put(who, f, v) ==
    /\ files' = [files EXCEPT ![f] = v]
    /\ quiet' = [q \in Proc |-> quiet[q] /\ (q = who \/ call[q] = None \/ f \notin Names(call[q]))]
    /\ UNCHANGED orig

Become(p, s) ==
    /\ status' = [status EXCEPT ![p] = s]
    /\ UNCHANGED <<call, i, transcript>>

NextInputPastEnd(p, nextPhase) ==
    /\ call' = call
    /\ IF i[p] <= Len(call[p].inputs)
       THEN i' = [i EXCEPT ![p] = @ + 1] /\ UNCHANGED status
       ELSE i' = [i EXCEPT ![p] = 1] /\ status' = [status EXCEPT ![p] = nextPhase]

(* One round of a loop over the inputs is done.                            *)
NextInput(p, nextPhase) ==
    /\ call' = call
    /\ IF i[p] < Len(call[p].inputs)
       THEN i' = [i EXCEPT ![p] = @ + 1] /\ UNCHANGED status
       ELSE i' = [i EXCEPT ![p] = 1] /\ status' = [status EXCEPT ![p] = nextPhase]

-----------------------------------------------------------------------------
Init ==
    /\ call = [p \in Proc |-> None]
    /\ status = [p \in Proc |-> "idle"]
    /\ i = [p \in Proc |-> 1]
    /\ transcript = [p \in Proc |-> <<>>]
    /\ files \in [File -> Delivered]
    /\ runs = 0 /\ faults = 0 /\ edits = 0
    /\ orig = [p \in Proc |-> files]
    /\ quiet = [p \in Proc |-> FALSE]

Start(p, c) ==
    /\ ~Active(p)
    /\ runs < MaxRuns
    /\ runs' = runs + 1
    /\ call' = [call EXCEPT ![p] = c]
    /\ status' = [status EXCEPT ![p] = "probing"]
    /\ i' = [i EXCEPT ![p] = 1]
    /\ transcript' = [transcript EXCEPT ![p] = <<>>]
    /\ orig' = [orig EXCEPT ![p] = files]
    /\ quiet' = [quiet EXCEPT ![p] = TRUE]
    /\ UNCHANGED <<files, faults, edits>>

NoInputs(p) ==
    /\ status[p] = "probing"
    /\ call[p].inputs = <<>>
    /\ Become(p, "exit1")
    /\ NoFault
    /\ UNCHANGED <<files, history>>

(* can_read_from_file, which a torn file passes.                           *)
Probe(p) ==
    /\ status[p] = "probing"
    /\ call[p].inputs # <<>>
    /\ Input(p) # Absent
    /\ NextInput(p, "reading")
    /\ NoFault
    /\ UNCHANGED <<transcript, files, history>>

ProbeFails(p) ==
    /\ status[p] = "probing"
    /\ call[p].inputs # <<>>
    /\ Input(p) = Absent
    /\ Become(p, "exit1")
    /\ NoFault
    /\ UNCHANGED <<files, history>>

Readable(p) == Input(p) \in Challenge

AbsorbInFront(p) ==
    /\ status[p] = "reading"
    /\ Readable(p)
    /\ transcript' = [transcript EXCEPT ![p] = <<Input(p)>> \o @]
    /\ NextInput(p, "writing")
    /\ NoFault
    /\ UNCHANGED <<files, history>>

(* The input is opened again, read, decoded and absorbed.                  *)
Absorb(p) ==
    /\ status[p] = "reading"
    /\ Readable(p)
    /\ transcript' = [transcript EXCEPT ![p] = Append(@, Input(p))]
    /\ NextInput(p, "writing")
    /\ NoFault
    /\ UNCHANGED <<files, history>>

ReadSkipped(p) ==
    /\ status[p] = "reading"
    /\ ~Readable(p)
    /\ NextInput(p, "writing")
    /\ NoFault
    /\ UNCHANGED <<transcript, files, history>>

ReadRetried(p) ==
    /\ status[p] = "reading"
    /\ ~Readable(p)
    /\ UNCHANGED vars

(* It has gone since it was probed, or does not decode.                    *)
ReadFails(p) ==
    /\ status[p] = "reading"
    /\ ~Readable(p)
    /\ Become(p, "exit1")
    /\ NoFault
    /\ UNCHANGED <<files, history>>

OpenOutput(p) ==
    /\ status[p] = "writing"
    /\ Put(p, call[p].output, Torn)
    /\ Become(p, "closing")
    /\ NoFault

OpenFails(p) ==
    /\ status[p] = "writing"
    /\ Fault
    /\ Become(p, "exit1")
    /\ UNCHANGED <<files, history>>

(* A challenge fits the stream's buffer: it is written at once, when the   *)
(* stream is destroyed.                                                    *)
Close(p) ==
    /\ status[p] = "closing"
    /\ Put(p, call[p].output, ChallengeOf(transcript[p]))
    /\ Become(p, "exit0")
    /\ NoFault

(* By then stream.fail() has been consulted, so that a failure is lost.    *)
CloseFails(p) ==
    /\ FlushFails
    /\ status[p] = "closing"
    /\ Fault
    /\ Become(p, "exit0")
    /\ UNCHANGED <<files, history>>

(* The process throws, and run_prover catches it, or it is killed.         *)
Die(p) ==
    /\ Active(p)
    /\ Fault
    /\ \E s \in {"exit1", "killed"} : Become(p, s)
    /\ UNCHANGED <<files, history>>

(* Another prover delivers a challenge, or a user removes a file.          *)
Edit(f, v) ==
    /\ edits < MaxEdits
    /\ edits' = edits + 1
    /\ Put(None, f, v)
    /\ UNCHANGED <<process, runs, faults>>

Work(p) ==
    \/ NoInputs(p) \/ Probe(p) \/ ProbeFails(p)
    \/ Absorb(p) \/ ReadFails(p) \/ OpenOutput(p) \/ Close(p)

Next ==
    \/ \E p \in Proc :
          \/ Work(p) \/ OpenFails(p) \/ CloseFails(p) \/ Die(p)
          \/ \E c \in Call : Start(p, c)
    \/ \E f \in File, v \in Delivered : Edit(f, v)

Spec == Init /\ [][Next]_vars

(* The operating system runs what can run.                                 *)
FairSpec == Spec /\ \A p \in Proc : WF_vars(Work(p))

-----------------------------------------------------------------------------
(* Every variable has its type, a process has a command line once it has   *)
(* been started, and its position is one of its inputs.                    *)
TypeOK ==
    /\ call \in [Proc -> Call \cup {None}]
    /\ status \in [Proc -> {"idle", "probing", "reading", "writing", "closing",
                            "exit0", "exit1", "killed"}]
    /\ i \in [Proc -> Nat \ {0}]
    /\ transcript \in [Proc -> Seq(Challenge)]
    /\ files \in [File -> Content]
    /\ orig \in [Proc -> [File -> Content]]
    /\ quiet \in [Proc -> BOOLEAN]
    /\ runs \in 0..MaxRuns /\ faults \in 0..MaxFaults /\ edits \in 0..MaxEdits
    /\ \A p \in Proc :
          /\ status[p] # "idle" => call[p] # None
          /\ status[p] = "reading" \/ (status[p] = "probing" /\ i[p] # 1) =>
                i[p] \in 1..Len(call[p].inputs)

(* The output of a process that exits 0 is the challenge of the inputs as  *)
(* they were when it was started, all of them, in the order of the command *)
(* line, unless others have changed its files: also where a file is listed *)
(* twice, and where the output is one of the inputs, which are all read    *)
(* before the output is truncated.  If the flush can fail, the output may  *)
(* be torn instead.                                                        *)
AggregatesItsInputs ==
    \A p \in Proc : status[p] = "exit0" /\ quiet[p] =>
        LET c == call[p]
        IN \/ files[c.output] = ChallengeOf([k \in 1..Len(c.inputs) |-> orig[p][c.inputs[k]]])
           \/ FlushFails /\ files[c.output] = Torn

(* A process touches no file but its output, and that only after it has    *)
(* absorbed a challenge from every input: inputs that are missing or       *)
(* damaged, be it only at the second look, leave the previous output as it *)
(* was.                                                                    *)
OutputOnlyWhenComplete ==
    [][\A f \in File : files'[f] # files[f] =>
          \/ edits' # edits
          \/ \E p \in Proc :
                /\ status[p] \in {"writing", "closing"} /\ call[p].output = f
                /\ Len(transcript[p]) = Len(call[p].inputs)]_vars

(* Every run ends, whatever happens to its inputs.                         *)
EveryAggregationEnds == \A p \in Proc : Active(p) ~> ~Active(p)
=============================================================================
