---------------------------- MODULE Publication ----------------------------
(***************************************************************************)
(* What the producer promises about proof files, without saying how it     *)
(* makes a proof: a process that has one publishes it at its location, in  *)
(* place, and reports success (exit code 0) only after that.  Processes    *)
(* may share locations, fail at any point and die.                         *)
(*                                                                         *)
(* Prover implements this specification (ProverPublishes), and PairsScript *)
(* is built on it: both meet the assumption below.                         *)
(***************************************************************************)
CONSTANTS
    Proc,            \* slots in which producer processes run
    Loc,             \* locations of proof files
    Proof, Genuine,  \* proofs, and those that verify
    Dest,            \* Dest[p]: where p may be told to publish; None: nowhere
    Strict,          \* locations to which only verified proofs are published
    Absent, Torn,    \* no such file; a truncated, partial or mixed-up file
    None,
    LateFlushFails   \* whether the flush in ~ofstream can fail unnoticed

Job == [proof : Proof, to : Loc \cup {None},
        state : {"ready", "writing", "sharing", "done", "reported"}]

PublicationAssumption ==
    /\ Genuine \subseteq Proof
    /\ Dest \in [Proc -> SUBSET (Loc \cup {None})]
    /\ Strict \subseteq Loc
    /\ Absent \notin Proof /\ Torn \notin Proof
    /\ None \notin Loc \cup Job
    /\ LateFlushFails \in BOOLEAN

VARIABLES
    file,  \* the proof files
    job    \* job[p]: the proof p is to publish, and how far it got

vars == <<file, job>>

State(p) == IF job[p] = None THEN "none" ELSE job[p].state
Writes(p) == State(p) \in {"writing", "sharing"}
WritesTo(p, l) == Writes(p) /\ job[p].to = l

Become(p, s) == job' = [job EXCEPT ![p].state = s]
Drop(p) == job' = [job EXCEPT ![p] = None]

----------------------------------------------------------------------------
Init ==
    /\ file = [l \in Loc |-> Absent]
    /\ job = [p \in Proc |-> None]

(* A process has made a proof, and verified it where that is asked for.    *)
Produce(p) ==
    /\ State(p) = "none"
    /\ \E l \in Dest[p] : \E x \in IF l \in Strict THEN Genuine ELSE Proof :
          job' = [job EXCEPT ![p] = [proof |-> x, to |-> l, state |-> "ready"]]
    /\ UNCHANGED file

(* Truncating open; whoever has the file open already shares it from now.  *)
Open(p) ==
    /\ State(p) = "ready"
    /\ job[p].to # None
    /\ file' = [file EXCEPT ![job[p].to] = Torn]
    /\ job' = [q \in Proc |->
                  IF q = p
                  THEN [job[p] EXCEPT !.state =
                           IF \E o \in Proc : WritesTo(o, job[p].to) THEN "sharing" ELSE "writing"]
                  ELSE IF WritesTo(q, job[p].to) THEN [job[q] EXCEPT !.state = "sharing"]
                  ELSE job[q]]

(* The end of the write; what shared writers leave may be mixed up.        *)
Finish(p) ==
    /\ Writes(p)
    /\ \E v \in {job[p].proof} \cup (IF State(p) = "sharing" THEN {Torn} ELSE {}) :
          file' = [file EXCEPT ![job[p].to] = v]
    /\ Become(p, "done")

(* The write is cut short: an error, the end of the process, or a flush    *)
(* that fails unnoticed.                                                   *)
Cut(p) ==
    /\ Writes(p)
    /\ \E v \in {Torn} \cup (IF State(p) = "sharing" THEN {file[job[p].to]} ELSE {}) :
          file' = [file EXCEPT ![job[p].to] = v]
    /\ Drop(p) \/ (LateFlushFails /\ Become(p, "done"))

(* Exit code 0.                                                            *)
Report(p) ==
    /\ State(p) = "done"
    /\ Become(p, "reported")
    /\ UNCHANGED file

(* A failure outside the write, or the next run in this slot.              *)
Forget(p) ==
    /\ State(p) \in {"ready", "done", "reported"}
    /\ Drop(p)
    /\ UNCHANGED file

Next ==
    \E p \in Proc :
       \/ Produce(p) \/ Open(p) \/ Finish(p) \/ Cut(p) \/ Report(p) \/ Forget(p)

Spec == Init /\ [][Next]_vars

----------------------------------------------------------------------------
(* A job has a proof and a location among those of its process, which it   *)
(* has once it writes, and proofs for strict locations are genuine.        *)
TypeOK ==
    /\ file \in [Loc -> Proof \cup {Absent, Torn}]
    /\ job \in [Proc -> Job \cup {None}]
    /\ \A p \in Proc : job[p] # None =>
          /\ job[p].to \in Dest[p]
          /\ job[p].state # "ready" => job[p].to # None
          /\ job[p].to \in Strict => job[p].proof \in Genuine

(* Where only runs publish that verify their proofs, whatever can be read  *)
(* as a proof is a genuine one, no matter how many processes write to the  *)
(* file at a time and where they die.                                      *)
OnlyGenuine == \A l \in Strict : file[l] \in Genuine \cup {Absent, Torn}

(* Nobody but p publishes at l.                                            *)
Owns(p, l) == \A q \in Proc \ {p} : l \notin Dest[q]

(* A process that reports success has left its proof at its location,      *)
(* whole, if no other process publishes there; where flushes can fail late *)
(* it may have left a torn one instead, but never somebody else's, an      *)
(* earlier one or none.                                                    *)
ReportedIsThere ==
    \A p \in Proc : State(p) \in {"done", "reported"} /\ Owns(p, job[p].to) =>
        \/ file[job[p].to] = job[p].proof
        \/ LateFlushFails /\ file[job[p].to] = Torn
============================================================================
