------------------------------- MODULE ProverMC -------------------------------
(***************************************************************************)
(* Instances of Prover for TLC: two circuits, a satisfying table for each, *)
(* and a table of the first circuit's shape with a wrong witness.          *)
(***************************************************************************)
EXTENDS ProverPublishes, TLC

CONSTANTS c1, c2, t1, t2, bad, s1, s2, fri1, fri2, here, there, p1, p2

MCCircuit == {c1, c2}
MCTable == {t1, t2, bad}
MCShape == {s1, s2}
MCShapeOf == [t \in Table |-> IF t = t2 THEN s2 ELSE s1]
MCSatisfies == {<<c1, t1>>, <<c2, t2>>}

(* Where the circuit never changes.                                        *)
OneCircuitSatisfies == {<<c1, t1>>}
MCFri == {fri1, fri2}

(* A command line that gives, or leaves at their defaults, the paths of    *)
(* the roles in R.                                                         *)
Command(s, fri, R) ==
    [stage |-> s, fri |-> fri, at |-> [r \in R |-> here] @@ [r \in Role |-> None]]

Defaults == {"common", "public", "commitment", "proof", "json"}
Inputs == {"circuit", "table"}

AllCall(fri) == Command("all", fri, Inputs \cup Defaults)
PreprocessCall(fri) == Command("preprocess", fri, Inputs \cup Defaults \cup {"description"})
ProveCall(fri) == Command("prove", fri, Inputs \cup Defaults)
VerifyCall(fri) == Command("verify", fri, Defaults \cup {"circuit", "description"})

(* The sample calls of README.md, and two users' slips: a preprocess call  *)
(* without --assignment-description-file, a verify call with other FRI     *)
(* options than the proof was made with.                                   *)
ReadmeCalls == {AllCall(fri1), PreprocessCall(fri1), ProveCall(fri1), VerifyCall(fri1)}
Slips == {Command("preprocess", fri1, Inputs \cup Defaults), VerifyCall(fri2)}

EveryoneReadme == [p \in Proc |-> ReadmeCalls]
EveryoneSlips == [p \in Proc |-> ReadmeCalls \cup Slips]

(* One user splits preprocessing, proving, without verification, and       *)
(* verifying; another makes proofs at the same location, or, as            *)
(* tests/make_proof_for_pairs.sh does, at one of his own.  They share      *)
(* every default.                                                          *)
Elsewhere(i) == [i EXCEPT !.at = ("proof" :> there) @@ @]
SplitAndAll ==
    p1 :> {PreprocessCall(fri1), ProveCall(fri1), VerifyCall(fri1)}
    @@ p2 :> {AllCall(fri1), Elsewhere(AllCall(fri1))}
===============================================================================
