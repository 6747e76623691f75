---------------------------- MODULE PairsScript ----------------------------
(***************************************************************************)
(* tests/make_proof_for_pairs.sh: for every assignment.tbl that find meets *)
(* below the targets, the producer is run on it and on the circuit beside  *)
(* it.  The producer is what Publication promises of it; a script runs one *)
(* at a time.  Several scripts may be running.                             *)
(*                                                                         *)
(* LoopInSubshell, RunUnchecked and TriedAgain are mistaken versions of    *)
(* the definitions they precede.                                           *)
(***************************************************************************)
EXTENDS Integers, Sequences

CONSTANTS
    Script,      \* running scripts
    Table,       \* the assignment.tbl files
    HasCircuit,  \* those with a circuit.crct beside them
    Targets,     \* Targets[s]: the tables below each target, in order
    ProofAt,     \* ProofAt[s][t]: where s puts the proof for table t
    Made,        \* Made[t]: the proofs a run of the producer on t can make
    Loc, Proof, Genuine, Absent, Torn, None, LateFlushFails

Found(s) == UNION {Targets[s][n] : n \in 1..Len(Targets[s])}

(* The producer is run with the default stage, which verifies its proofs.  *)
Dest == [s \in Script |-> {ProofAt[s][t] : t \in Found(s) \cap HasCircuit}]

VARIABLES
    file, job, \* of Publication: the proofs, and the runs of the producer
    dir,       \* the target whose tables are being read
    todo,      \* the tables find has yet to report
    current,   \* the table the producer runs on
    made,      \* whether that run has got as far as making its proof
    exit_code,
    status,    \* "running" or "exited"
    failed     \* history: the tables for which there was no success

Publication == INSTANCE Publication WITH Proc <- Script, Strict <- Loc

ASSUME PairsAssumption ==
    /\ HasCircuit \subseteq Table
    /\ Targets \in [Script -> Seq(SUBSET Table)]
    /\ ProofAt \in [Script -> [Table -> Loc]]
    /\ \A s \in Script : \A t, u \in Table : ProofAt[s][t] = ProofAt[s][u] => t = u
    /\ Made \in [Table -> SUBSET Genuine]
    /\ None \notin Table
    /\ Publication!PublicationAssumption

loop == <<dir, todo, status>>
script == <<loop, current, made, exit_code, failed>>
vars == <<file, job, script>>

Init ==
    /\ Publication!Init
    /\ dir = [s \in Script |-> 0]
    /\ todo = [s \in Script |-> {}]
    /\ current = [s \in Script |-> None]
    /\ made = [s \in Script |-> FALSE]
    /\ exit_code = [s \in Script |-> 0]
    /\ status = [s \in Script |-> "running"]
    /\ failed = [s \in Script |-> {}]

AtLoop(s) == status[s] = "running" /\ current[s] = None

LoopInSubshell(s) ==
    /\ AtLoop(s) /\ todo[s] = {}
    /\ IF dir[s] < Len(Targets[s])
       THEN /\ dir' = [dir EXCEPT ![s] = @ + 1]
            /\ todo' = [todo EXCEPT ![s] = Targets[s][dir[s] + 1]]
            /\ UNCHANGED status
       ELSE status' = [status EXCEPT ![s] = "exited"] /\ UNCHANGED <<dir, todo>>
    /\ exit_code' = [exit_code EXCEPT ![s] = 0]
    /\ UNCHANGED <<current, made, failed, file, job>>

(* process_directory for the next target, or the end.                      *)
NextDirectory(s) ==
    /\ AtLoop(s) /\ todo[s] = {}
    /\ IF dir[s] < Len(Targets[s])
       THEN /\ dir' = [dir EXCEPT ![s] = @ + 1]
            /\ todo' = [todo EXCEPT ![s] = Targets[s][dir[s] + 1]]
            /\ UNCHANGED status
       ELSE status' = [status EXCEPT ![s] = "exited"] /\ UNCHANGED <<dir, todo>>
    /\ UNCHANGED <<current, made, exit_code, failed, file, job>>

RunUnchecked(s, t) ==
    /\ AtLoop(s) /\ t \in todo[s]
    /\ todo' = [todo EXCEPT ![s] = @ \ {t}]
    /\ current' = [current EXCEPT ![s] = t]
    /\ made' = [made EXCEPT ![s] = FALSE]
    /\ IF job[s] = None THEN UNCHANGED <<file, job>> ELSE Publication!Forget(s)
    /\ UNCHANGED <<dir, status, exit_code, failed>>

(* make_proof_for_pair: the circuit is there, the producer is started ...  *)
RunProducer(s, t) ==
    /\ AtLoop(s) /\ t \in todo[s] \cap HasCircuit
    /\ todo' = [todo EXCEPT ![s] = @ \ {t}]
    /\ current' = [current EXCEPT ![s] = t]
    /\ made' = [made EXCEPT ![s] = FALSE]
    /\ IF job[s] = None THEN UNCHANGED <<file, job>> ELSE Publication!Forget(s)
    /\ UNCHANGED <<dir, status, exit_code, failed>>

(* ... or it is not.                                                       *)
CircuitMissing(s, t) ==
    /\ AtLoop(s) /\ t \in todo[s] \ HasCircuit
    /\ todo' = [todo EXCEPT ![s] = @ \ {t}]
    /\ exit_code' = [exit_code EXCEPT ![s] = 1]
    /\ failed' = [failed EXCEPT ![s] = @ \cup {t}]
    /\ UNCHANGED <<dir, status, current, made, file, job>>

Produce(s) ==
    /\ current[s] # None /\ ~made[s]
    /\ Publication!Produce(s)
    /\ job'[s].to = ProofAt[s][current[s]] /\ job'[s].proof \in Made[current[s]]
    /\ made' = [made EXCEPT ![s] = TRUE]
    /\ UNCHANGED <<loop, current, exit_code, failed>>

Write(s) ==
    /\ Publication!Open(s) \/ Publication!Finish(s) \/ Publication!Cut(s)
    /\ UNCHANGED script

(* The producer exits 0.                                                   *)
Success(s) ==
    /\ Publication!Report(s)
    /\ current' = [current EXCEPT ![s] = None]
    /\ UNCHANGED <<loop, made, exit_code, failed>>

(* The producer's run ends, and not well.                                  *)
RunFails(s) ==
    /\ current[s] # None
    /\ IF job[s] = None THEN UNCHANGED <<file, job>> ELSE Publication!Forget(s)

TriedAgain(s) ==
    /\ RunFails(s)
    /\ made' = [made EXCEPT ![s] = FALSE]
    /\ UNCHANGED <<loop, current, exit_code, failed>>

(* The script notes the failure, and goes on.                              *)
Failure(s) ==
    /\ RunFails(s)
    /\ current' = [current EXCEPT ![s] = None]
    /\ exit_code' = [exit_code EXCEPT ![s] = 1]
    /\ failed' = [failed EXCEPT ![s] = @ \cup {current[s]}]
    /\ UNCHANGED <<loop, made>>

Steps(s) ==
    \/ NextDirectory(s) \/ \E t \in Table : RunProducer(s, t) \/ CircuitMissing(s, t)
    \/ Produce(s) \/ Write(s) \/ Success(s) \/ Failure(s)

Next == \E s \in Script : Steps(s)

(* Every run of the producer ends, as Prover shows, and then the script    *)
(* goes on.                                                                *)
Spec == Init /\ [][Next]_vars /\ \A s \in Script : WF_vars(Steps(s))

----------------------------------------------------------------------------
(* A producer only runs on a table that has been read, with its circuit.   *)
TypeOK ==
    /\ Publication!TypeOK
    /\ dir \in [Script -> Nat]
    /\ todo \in [Script -> SUBSET Table]
    /\ current \in [Script -> Table \cup {None}]
    /\ made \in [Script -> BOOLEAN]
    /\ exit_code \in [Script -> {0, 1}]
    /\ status \in [Script -> {"running", "exited"}]
    /\ failed \in [Script -> SUBSET Table]
    /\ \A s \in Script :
          /\ dir[s] \in 0..Len(Targets[s])
          /\ current[s] # None => current[s] \in (HasCircuit \cap Found(s)) \ todo[s]
          /\ job[s] # None /\ job[s].state # "reported" =>
                current[s] # None /\ job[s].to = ProofAt[s][current[s]]

(* The exit code tells whether any pair has failed, the last or another,   *)
(* below this or an earlier target.                                        *)
ExitCodeExact ==
    \A s \in Script : status[s] = "exited" => (exit_code[s] = 0 <=> failed[s] = {})

(* Exit code 0 means that for every table that was found there is a        *)
(* genuine proof of that pair, whatever happened to earlier runs and       *)
(* whatever other scripts do at other places.                              *)
ZeroMeansProofs ==
    ~LateFlushFails =>
        \A s \in Script : status[s] = "exited" /\ exit_code[s] = 0 =>
            \A t \in Found(s) :
                Publication!Owns(s, ProofAt[s][t]) => file[ProofAt[s][t]] \in Made[t]

(* The script ends.                                                        *)
EveryScriptEnds == \A s \in Script : <>(status[s] = "exited")
============================================================================
