--------------------------- MODULE ProverPublishes ---------------------------
(***************************************************************************)
(* Prover implements Publication: of a process, Publication sees a job     *)
(* from the moment the operation before write_proof has succeeded.         *)
(***************************************************************************)
EXTENDS Prover

Makes(s) == s \in {"all", "prove"}

(* The position of write_proof in a chain.                                 *)
WriteProofAt(s) == CHOOSE k \in 1..Len(Program[s]) : Program[s][k] = "write_proof"

JobState(p) ==
    CASE status[p] = "exit0" -> "reported"
      [] Running(p) /\ pc[p] > WriteProofAt(inv[p].stage) -> "done"
      [] Running(p) /\ pc[p] = WriteProofAt(inv[p].stage) ->
             IF fd[p] = None THEN "ready" ELSE IF fd[p].alone THEN "writing" ELSE "sharing"

HasJob(p) ==
    /\ status[p] \in {"running", "exit0"}
    /\ Makes(inv[p].stage)
    /\ pc[p] >= WriteProofAt(inv[p].stage)
    /\ pc[p] > WriteProofAt(inv[p].stage) => res[p]

JobOf(p) ==
    IF HasJob(p) THEN [proof |-> mem[p].proof, to |-> inv[p].at["proof"], state |-> JobState(p)]
    ELSE None

ProofFile == [l \in Loc |-> files[<<"proof", l>>]]

ProofDest == [p \in Proc |-> {i.at["proof"] : i \in {j \in Invocation[p] : Makes(j.stage)}}]

(* Nobody is told to prove, without verification, to these locations.      *)
VerifiedOnly ==
    {l \in Loc : \A p \in Proc : \A i \in Invocation[p] :
        i.stage = "prove" => i.at["proof"] # l}

GenuineProof == {x \in Proof : x.sound}

Jobs == [p \in Proc |-> JobOf(p)]

Published == INSTANCE Publication WITH
    file <- ProofFile,
    job <- Jobs,
    Genuine <- GenuineProof,
    Dest <- ProofDest,
    Strict <- VerifiedOnly

ASSUME NoneIsNoRecord == None \notin Published!Job \cup Descriptor

(* What the program does to proof files and reports of them is what        *)
(* Publication allows: in particular, proofs reach a file only complete    *)
(* and, but for the prove stage, verified, and no path through the chains  *)
(* reports success without having written.                                 *)
ImplementsPublication == Published!Spec

(* Where nobody is told to prove without verification, whatever can be     *)
(* read as a proof is a genuine one, no matter how many processes write to *)
(* the file at a time and where they die.                                  *)
ProofFilesGenuine == Published!OnlyGenuine
==============================================================================
