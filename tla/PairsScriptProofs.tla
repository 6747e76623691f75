-------------------------- MODULE PairsScriptProofs --------------------------
(***************************************************************************)
(* Proofs about PairsScript, for any number of scripts, targets and        *)
(* tables, from what is proved of the producer in Publication.             *)
(***************************************************************************)
EXTENDS PairsScript, TLAPS

Facts == INSTANCE PublicationProofs WITH Proc <- Script, Strict <- Loc

-----------------------------------------------------------------------------
(* PublicationProofs is about Publication as it is used here.              *)
LEMMA SameAssumption == Facts!PublicationAssumption
BY PairsAssumption DEF PairsAssumption, Publication!PublicationAssumption,
   Facts!PublicationAssumption, Publication!Job, Facts!Job

LEMMA SameState ==
    \A s \in Script : /\ Publication!State(s) = Facts!State(s)
                      /\ Publication!Writes(s) = Facts!Writes(s)
                      /\ \A l : Publication!WritesTo(s, l) = Facts!WritesTo(s, l)
                      /\ \A l : Publication!Owns(s, l) = Facts!Owns(s, l)
BY DEF Publication!State, Facts!State, Publication!Writes, Facts!Writes,
   Publication!WritesTo, Facts!WritesTo, Publication!Owns, Facts!Owns

LEMMA SameSteps ==
    ASSUME NEW s \in Script
    PROVE  /\ Publication!Produce(s) => Facts!Produce(s)
           /\ Publication!Open(s) => Facts!Open(s)
           /\ Publication!Finish(s) => Facts!Finish(s)
           /\ Publication!Cut(s) => Facts!Cut(s)
           /\ Publication!Report(s) => Facts!Report(s)
           /\ Publication!Forget(s) => Facts!Forget(s)
<1>1. Publication!Produce(s) => Facts!Produce(s)
    BY SameState DEF Publication!Produce, Facts!Produce
<1>2. Publication!Open(s) => Facts!Open(s)
    BY SameState DEF Publication!Open, Facts!Open
<1>3. Publication!Finish(s) => Facts!Finish(s)
    BY SameState DEF Publication!Finish, Facts!Finish, Publication!Become, Facts!Become
<1>4. Publication!Cut(s) => Facts!Cut(s)
    BY SameState DEF Publication!Cut, Facts!Cut, Publication!Become, Facts!Become,
       Publication!Drop, Facts!Drop
<1>5. Publication!Report(s) => Facts!Report(s)
    BY SameState DEF Publication!Report, Facts!Report, Publication!Become, Facts!Become
<1>6. Publication!Forget(s) => Facts!Forget(s)
    BY SameState DEF Publication!Forget, Facts!Forget, Publication!Drop, Facts!Drop
<1> QED BY <1>1, <1>2, <1>3, <1>4, <1>5, <1>6

(* The scripts use the producer only in ways that Publication allows.      *)
LEMMA UsesPublication == Spec => Facts!Spec
<1>1. Init => Facts!Init BY DEF Init, Publication!Init, Facts!Init
<1>2. [Next]_vars => [Facts!Next]_Facts!vars
  <2> SUFFICES ASSUME [Next]_vars PROVE Facts!Next \/ UNCHANGED <<file, job>>
      BY DEF Facts!vars
  <2>1. ASSUME NEW s \in Script, Steps(s) PROVE Facts!Next \/ UNCHANGED <<file, job>>
    <3>1. CASE NextDirectory(s) BY <3>1 DEF NextDirectory
    <3>2. ASSUME NEW t \in Table, RunProducer(s, t)
          PROVE  Facts!Next \/ UNCHANGED <<file, job>>
        BY <3>2, SameSteps DEF RunProducer, Facts!Next
    <3>3. ASSUME NEW t \in Table, CircuitMissing(s, t)
          PROVE  Facts!Next \/ UNCHANGED <<file, job>>
        BY <3>3 DEF CircuitMissing
    <3>4. CASE Produce(s) BY <3>4, SameSteps DEF Produce, Facts!Next
    <3>5. CASE Write(s) BY <3>5, SameSteps DEF Write, Facts!Next
    <3>6. CASE Success(s) BY <3>6, SameSteps DEF Success, Facts!Next
    <3>7. CASE Failure(s) BY <3>7, SameSteps DEF Failure, RunFails, Facts!Next
    <3> QED BY <2>1, <3>1, <3>2, <3>3, <3>4, <3>5, <3>6, <3>7 DEF Steps
  <2>2. CASE UNCHANGED vars BY <2>2 DEF vars
  <2> QED BY <2>1, <2>2 DEF Next
<1> QED BY <1>1, <1>2, PTL DEF Spec, Facts!Spec

JobsOK == Publication!TypeOK /\ Publication!ReportedIsThere

LEMMA JobsCorrect == Spec => []JobsOK
<1>1. Facts!Spec => []Facts!TypeOK BY SameAssumption, Facts!JobsCorrect
<1>2. Facts!Spec => []Facts!ReportedIsThere BY SameAssumption, Facts!SuccessLasts
<1>3. Facts!TypeOK => Publication!TypeOK
    BY DEF Facts!TypeOK, Publication!TypeOK, Facts!Job, Publication!Job
<1>4. Facts!ReportedIsThere => Publication!ReportedIsThere
    BY SameState DEF Facts!ReportedIsThere, Publication!ReportedIsThere
<1>5. Facts!TypeOK /\ Facts!ReportedIsThere => JobsOK BY <1>3, <1>4 DEF JobsOK
<1> QED BY <1>1, <1>2, <1>5, UsesPublication, PTL

-----------------------------------------------------------------------------
(* The producer's steps on a proof file: only the file of the job changes, *)
(* jobs keep proof and place, and none is reported.                        *)
LEMMA WriteEffect ==
    ASSUME Publication!TypeOK, NEW s \in Script,
           Publication!Open(s) \/ Publication!Finish(s) \/ Publication!Cut(s)
    PROVE  /\ job[s] # None /\ job[s].state # "reported" /\ job[s].to \in Dest[s]
           /\ \A l \in Loc : l # job[s].to => file'[l] = file[l]
           /\ \A q \in Script : job'[q] # None =>
                 /\ job[q] # None /\ job'[q].to = job[q].to /\ job'[q].proof = job[q].proof
                 /\ job'[q].state = "reported" <=> job[q].state = "reported"
<1> USE DEF Publication!State
<1>1. None \notin Publication!Job
    BY PairsAssumption DEF PairsAssumption, Publication!PublicationAssumption
<1>2. job \in [Script -> Publication!Job \cup {None}] /\ file \in [Loc -> Proof \cup {Absent, Torn}]
    BY DEF Publication!TypeOK
<1>3. job[s] # None /\ job[s].state \in {"ready", "writing", "sharing"}
    BY DEF Publication!Open, Publication!Finish, Publication!Cut, Publication!Writes
<1>4. job[s].to \in Dest[s] BY <1>3 DEF Publication!TypeOK
<1>5. \A l \in Loc : l # job[s].to => file'[l] = file[l]
    BY <1>2 DEF Publication!Open, Publication!Finish, Publication!Cut
<1>6. ASSUME NEW q \in Script, job'[q] # None
      PROVE  /\ job[q] # None /\ job'[q].to = job[q].to /\ job'[q].proof = job[q].proof
             /\ job'[q].state = "reported" <=> job[q].state = "reported"
  <2>1. CASE Publication!Open(s)
    <3>1. PICK w \in {"writing", "sharing"} :
             job'[q] = job[q] \/
             (/\ job[q] # None /\ job[q].state \in {"ready", "writing", "sharing"}
              /\ job'[q] = [job[q] EXCEPT !.state = w])
      <4>1. CASE q = s
        <5>1. PICK w \in {"writing", "sharing"} : job'[s] = [job[s] EXCEPT !.state = w]
            BY <2>1 DEF Publication!Open
        <5> QED BY <1>3, <4>1, <5>1
      <4>2. CASE q # s /\ Publication!WritesTo(q, job[s].to)
        <5>1. job'[q] = [job[q] EXCEPT !.state = "sharing"] BY <2>1, <4>2 DEF Publication!Open
        <5>2. job[q] # None /\ job[q].state \in {"writing", "sharing"}
            BY <4>2 DEF Publication!WritesTo, Publication!Writes
        <5> QED BY <5>1, <5>2
      <4>3. CASE q # s /\ ~Publication!WritesTo(q, job[s].to)
          BY <2>1, <4>3 DEF Publication!Open
      <4> QED BY <4>1, <4>2, <4>3
    <3>2. CASE job'[q] = job[q] BY <1>6, <3>2
    <3>3. CASE job'[q] # job[q]
      <4>1. job[q] \in Publication!Job BY <1>2, <3>1, <3>3
      <4> QED BY <3>1, <3>3, <4>1 DEF Publication!Job
    <3> QED BY <3>2, <3>3
  <2>2. CASE Publication!Become(s, "done")
    <3>1. job[s] \in Publication!Job BY <1>2, <1>3
    <3> QED BY <1>2, <1>3, <1>6, <2>2, <3>1 DEF Publication!Become, Publication!Job
  <2>3. CASE Publication!Drop(s) BY <1>2, <1>6, <2>3 DEF Publication!Drop
  <2> QED BY <2>1, <2>2, <2>3 DEF Publication!Finish, Publication!Cut
<1> QED BY <1>3, <1>4, <1>5, <1>6

(* The tables of the targets that s has come to.                           *)
Reached(s) == UNION {Targets[s][n] : n \in 1..dir[s]}

(* A proof of the pair of t is at its place, if that is the script's own.  *)
Proven(s, t) == Publication!Owns(s, ProofAt[s][t]) => file[ProofAt[s][t]] \in Made[t]

(* The job of the running producer is that of its table, and there is no   *)
(* other.                                                                  *)
JobFits(s) ==
    job[s] # None /\ job[s].state # "reported" =>
        /\ current[s] # None
        /\ job[s].to = ProofAt[s][current[s]] /\ job[s].proof \in Made[current[s]]

(* Every table that has been reached is waiting, being worked on, failed   *)
(* or proven.                                                              *)
Accounted(s) ==
    \A t \in Reached(s) :
        t \in todo[s] \/ t = current[s] \/ t \in failed[s] \/ (~LateFlushFails => Proven(s, t))

ScriptType ==
    /\ dir \in [Script -> Nat]
    /\ todo \in [Script -> SUBSET Table]
    /\ current \in [Script -> Table \cup {None}]
    /\ made \in [Script -> BOOLEAN]
    /\ exit_code \in [Script -> {0, 1}]
    /\ status \in [Script -> {"running", "exited"}]
    /\ failed \in [Script -> SUBSET Table]

AtTable(s) ==
    /\ dir[s] \in 0..Len(Targets[s])
    /\ todo[s] \subseteq Found(s)
    /\ current[s] # None => current[s] \in (HasCircuit \cap Found(s)) \ todo[s]

(* The code is 1 from the first failure on.                                *)
Remembers(s) == exit_code[s] = 0 <=> failed[s] = {}

Finished(s) ==
    status[s] = "exited" => dir[s] = Len(Targets[s]) /\ todo[s] = {} /\ current[s] = None

SInv ==
    /\ ScriptType
    /\ \A s \in Script : AtTable(s) /\ JobFits(s) /\ Accounted(s) /\ Remembers(s) /\ Finished(s)

LEMMA TargetsType ==
    ASSUME NEW s \in Script
    PROVE  /\ Targets[s] \in Seq(SUBSET Table) /\ Len(Targets[s]) \in Nat
           /\ \A n \in 1..Len(Targets[s]) : Targets[s][n] \subseteq Table
           /\ \A n \in 1..Len(Targets[s]) : Targets[s][n] \subseteq Found(s)
           /\ Found(s) \subseteq Table /\ HasCircuit \subseteq Table
           /\ \A t \in Table : ProofAt[s][t] \in Loc
           /\ \A t, u \in Table : ProofAt[s][t] = ProofAt[s][u] => t = u
           /\ None \notin Table
<1>1. Targets[s] \in Seq(SUBSET Table) BY PairsAssumption DEF PairsAssumption
<1>2. Len(Targets[s]) \in Nat /\ \A n \in 1..Len(Targets[s]) : Targets[s][n] \subseteq Table
    BY <1>1
<1>3. /\ \A n \in 1..Len(Targets[s]) : Targets[s][n] \subseteq Found(s)
      /\ Found(s) \subseteq Table
    BY <1>2, Zenon DEF Found
<1>4. /\ \A t \in Table : ProofAt[s][t] \in Loc
      /\ \A t, u \in Table : ProofAt[s][t] = ProofAt[s][u] => t = u
      /\ HasCircuit \subseteq Table /\ None \notin Table
    BY PairsAssumption DEF PairsAssumption
<1> QED BY <1>1, <1>2, <1>3, <1>4

(* A step that leaves the script as it is: one of another script, which    *)
(* may change proofs that are not this script's own, or one of the         *)
(* producer, which may change the proof that is being made.                *)
LEMMA ScriptFrame ==
    ASSUME SInv, NEW q \in Script,
           dir'[q] = dir[q], todo'[q] = todo[q], current'[q] = current[q],
           exit_code'[q] = exit_code[q], status'[q] = status[q], failed'[q] = failed[q],
           job'[q] # None => /\ job[q] # None /\ job'[q].to = job[q].to
                             /\ job'[q].proof = job[q].proof
                             /\ job'[q].state = "reported" <=> job[q].state = "reported",
           \A t \in Table : Publication!Owns(q, ProofAt[q][t]) /\ t # current[q] =>
               file'[ProofAt[q][t]] = file[ProofAt[q][t]]
    PROVE  AtTable(q)' /\ JobFits(q)' /\ Accounted(q)' /\ Remembers(q)' /\ Finished(q)'
<1>1. AtTable(q)' /\ Remembers(q)' /\ Finished(q)'
    BY DEF SInv, AtTable, Remembers, Finished
<1>2. JobFits(q)' BY DEF SInv, JobFits
<1>3. ASSUME NEW t \in Reached(q), t # current[q], Proven(q, t) PROVE Proven(q, t)'
  <2>1. t \in Table BY <1>3, TargetsType DEF Reached, SInv, AtTable
  <2> QED BY <1>3, <2>1 DEF Proven, Publication!Owns
<1>4. Accounted(q)'
  <2>1. Reached(q)' = Reached(q) BY DEF Reached
  <2> QED BY <1>3, <2>1 DEF SInv, Accounted
<1> QED BY <1>1, <1>2, <1>4

(* A step of s changes no script but s.                                    *)
LEMMA OneScript ==
    ASSUME SInv, NEW s \in Script, Steps(s), NEW q \in Script, q # s
    PROVE  /\ dir'[q] = dir[q] /\ todo'[q] = todo[q] /\ current'[q] = current[q]
           /\ exit_code'[q] = exit_code[q] /\ status'[q] = status[q] /\ failed'[q] = failed[q]
<1> USE DEF SInv, ScriptType, loop, script
<1>1. CASE NextDirectory(s) BY <1>1 DEF NextDirectory
<1>2. ASSUME NEW t \in Table, RunProducer(s, t) \/ CircuitMissing(s, t)
      PROVE  /\ dir'[q] = dir[q] /\ todo'[q] = todo[q] /\ current'[q] = current[q]
             /\ exit_code'[q] = exit_code[q] /\ status'[q] = status[q] /\ failed'[q] = failed[q]
    BY <1>2 DEF RunProducer, CircuitMissing
<1>3. CASE Produce(s) \/ Write(s) \/ Success(s) \/ Failure(s)
    BY <1>3 DEF Produce, Write, Success, Failure
<1> QED BY <1>1, <1>2, <1>3 DEF Steps

(* What a step of s does to the jobs and proofs of another script.         *)
LEMMA OtherProofs ==
    ASSUME SInv, JobsOK, NEW s \in Script, Steps(s), NEW q \in Script, q # s
    PROVE  /\ job'[q] # None => /\ job[q] # None /\ job'[q].to = job[q].to
                                /\ job'[q].proof = job[q].proof
                                /\ job'[q].state = "reported" <=> job[q].state = "reported"
           /\ \A t \in Table : Publication!Owns(q, ProofAt[q][t]) =>
                 file'[ProofAt[q][t]] = file[ProofAt[q][t]]
<1>1. CASE Write(s)
  <2>1. Publication!TypeOK /\ (Publication!Open(s) \/ Publication!Finish(s) \/ Publication!Cut(s))
      BY <1>1 DEF JobsOK, Write
  <2>2. \A t \in Table : Publication!Owns(q, ProofAt[q][t]) => job[s].to # ProofAt[q][t]
      BY <2>1, WriteEffect DEF Publication!Owns
  <2> QED BY <2>1, <2>2, WriteEffect, TargetsType
<1>2. CASE ~Write(s)
  <2>1. UNCHANGED <<file, job>> \/ Publication!Produce(s) \/ Publication!Report(s)
           \/ Publication!Forget(s)
      BY <1>2 DEF Steps, NextDirectory, RunProducer, CircuitMissing, Produce, Success, Failure,
         RunFails
  <2>2. file' = file BY <2>1 DEF Publication!Produce, Publication!Report, Publication!Forget
  <2>3. job'[q] = job[q]
    <3>1. job \in [Script -> Publication!Job \cup {None}] BY DEF JobsOK, Publication!TypeOK
    <3> QED BY <2>1, <3>1 DEF Publication!Produce, Publication!Report, Publication!Forget,
               Publication!Become, Publication!Drop
  <2> QED BY <2>2, <2>3
<1> QED BY <1>1, <1>2

LEMMA Forgotten ==
    ASSUME JobsOK, NEW s \in Script,
           IF job[s] = None THEN UNCHANGED <<file, job>> ELSE Publication!Forget(s)
    PROVE  file' = file /\ job'[s] = None
<1>1. job \in [Script -> Publication!Job \cup {None}] BY DEF JobsOK, Publication!TypeOK
<1> QED BY <1>1 DEF Publication!Forget, Publication!Drop

(* Steps that read, in which no proof changes.                             *)
LEMMA AccountedFrame ==
    ASSUME NEW s \in Script, Accounted(s), file' = file, dir'[s] = dir[s],
           todo[s] \subseteq todo'[s] \cup failed'[s] \cup {current'[s]},
           failed[s] \subseteq failed'[s],
           \/ current[s] \in {current'[s]} \cup failed'[s]
           \/ current[s] = None /\ None \notin Reached(s)
           \/ ~LateFlushFails => Proven(s, current[s])
    PROVE  Accounted(s)'
<1>1. Reached(s)' = Reached(s) BY DEF Reached
<1>2. \A t : Proven(s, t) => Proven(s, t)' BY DEF Proven, Publication!Owns
<1>3. ASSUME NEW t \in Reached(s)
      PROVE  t \in todo'[s] \/ t = current'[s] \/ t \in failed'[s]
                \/ (~LateFlushFails => Proven(s, t)')
  <2>1. CASE t \in todo[s] \/ t \in failed[s] BY <2>1
  <2>2. CASE t = current[s] BY <1>2, <2>2
  <2>3. CASE ~LateFlushFails => Proven(s, t) BY <1>2, <2>3
  <2> QED BY <2>1, <2>2, <2>3 DEF Accounted
<1> QED BY <1>1, <1>3 DEF Accounted

Fine(s) == AtTable(s) /\ JobFits(s) /\ Accounted(s) /\ Remembers(s) /\ Finished(s)

LEMMA OwnStep ==
    ASSUME SInv, JobsOK, NEW s \in Script, Steps(s)
    PROVE  ScriptType' /\ Fine(s)'
<1> USE DEF SInv, ScriptType
<1>1. AtTable(s) /\ JobFits(s) /\ Accounted(s) /\ Remembers(s) /\ Finished(s) OBVIOUS
<1>2. None \notin Reached(s)
    BY <1>1, TargetsType DEF Reached, AtTable
<1>3. CASE NextDirectory(s)
  <2>1. /\ current[s] = None /\ todo[s] = {} /\ status[s] = "running"
        /\ UNCHANGED <<current, made, exit_code, failed, file, job>>
      BY <1>3 DEF NextDirectory, AtLoop
  <2>2. CASE dir[s] < Len(Targets[s])
    <3>1. dir' = [dir EXCEPT ![s] = dir[s] + 1] /\ status' = status
          /\ todo' = [todo EXCEPT ![s] = Targets[s][dir[s] + 1]]
        BY <1>3, <2>2 DEF NextDirectory
    <3>2. dir[s] + 1 \in 1..Len(Targets[s]) /\ dir[s] \in Nat
        BY <1>1, <2>2, TargetsType DEF AtTable
    <3>3. dir'[s] = dir[s] + 1 /\ todo'[s] = Targets[s][dir[s] + 1] BY <3>1
    <3>4. ScriptType' BY <2>1, <3>1, <3>2, TargetsType
    <3>5. AtTable(s)' BY <2>1, <3>2, <3>3, TargetsType DEF AtTable, Found
    <3>6. Accounted(s)'
      <4>1. SUFFICES ASSUME NEW t \in Reached(s)'
                     PROVE  \/ t \in todo'[s] \/ t = current'[s] \/ t \in failed'[s]
                            \/ (~LateFlushFails => Proven(s, t)')
          BY DEF Accounted
      <4>2. t \in todo'[s] \/ t \in Reached(s)
        <5>1. PICK n \in 1..dir[s] + 1 : t \in Targets[s][n] BY <3>3, <4>1 DEF Reached
        <5>2. CASE n = dir[s] + 1 BY <3>3, <5>1, <5>2
        <5>3. CASE n # dir[s] + 1
          <6>1. n \in 1..dir[s] BY <3>2, <5>3
          <6> QED BY <5>1, <6>1 DEF Reached
        <5> QED BY <5>2, <5>3
      <4>3. Proven(s, t) => Proven(s, t)' BY <2>1 DEF Proven, Publication!Owns
      <4> QED BY <1>1, <2>1, <4>2, <4>3 DEF Accounted
    <3>7. JobFits(s)' /\ Remembers(s)' /\ Finished(s)'
        BY <1>1, <2>1, <3>1 DEF JobFits, Remembers, Finished
    <3> QED BY <3>4, <3>5, <3>6, <3>7 DEF Fine
  <2>3. CASE ~(dir[s] < Len(Targets[s]))
    <3>1. status' = [status EXCEPT ![s] = "exited"] /\ UNCHANGED <<dir, todo>>
        BY <1>3, <2>3 DEF NextDirectory
    <3>2. dir[s] = Len(Targets[s]) BY <1>1, <2>3, TargetsType DEF AtTable
    <3>3. ScriptType' BY <2>1, <3>1
    <3>4. AtTable(s)' /\ JobFits(s)' /\ Remembers(s)' /\ Finished(s)'
        BY <1>1, <2>1, <3>1, <3>2 DEF AtTable, JobFits, Remembers, Finished
    <3>5. Accounted(s)' BY <1>1, <2>1, <3>1, AccountedFrame
    <3> QED BY <3>3, <3>4, <3>5 DEF Fine
  <2> QED BY <2>2, <2>3
<1>4. ASSUME NEW t \in Table, RunProducer(s, t) PROVE ScriptType' /\ Fine(s)'
  <2>1. /\ current[s] = None /\ status[s] = "running" /\ t \in todo[s] \cap HasCircuit
        /\ todo' = [todo EXCEPT ![s] = @ \ {t}] /\ current' = [current EXCEPT ![s] = t]
        /\ made' = [made EXCEPT ![s] = FALSE]
        /\ UNCHANGED <<dir, status, exit_code, failed>>
      BY <1>4 DEF RunProducer, AtLoop
  <2>2. file' = file /\ job'[s] = None BY <1>4, Forgotten DEF RunProducer
  <2>3. ScriptType' BY <2>1
  <2>4. AtTable(s)' /\ JobFits(s)' /\ Remembers(s)' /\ Finished(s)'
      BY <1>1, <2>1, <2>2 DEF AtTable, JobFits, Remembers, Finished
  <2>5. Accounted(s)'
    <3>1. todo[s] \subseteq todo'[s] \cup failed'[s] \cup {current'[s]} BY <2>1
    <3> QED BY <1>1, <1>2, <2>1, <2>2, <3>1, AccountedFrame
  <2> QED BY <2>3, <2>4, <2>5 DEF Fine
<1>5. ASSUME NEW t \in Table, CircuitMissing(s, t) PROVE ScriptType' /\ Fine(s)'
  <2>1. /\ current[s] = None /\ status[s] = "running" /\ t \in todo[s]
        /\ todo' = [todo EXCEPT ![s] = @ \ {t}]
        /\ exit_code' = [exit_code EXCEPT ![s] = 1]
        /\ failed' = [failed EXCEPT ![s] = @ \cup {t}]
        /\ UNCHANGED <<dir, status, current, made, file, job>>
      BY <1>5 DEF CircuitMissing, AtLoop
  <2>2. ScriptType' BY <2>1
  <2>3. AtTable(s)' /\ JobFits(s)' /\ Remembers(s)' /\ Finished(s)'
      BY <1>1, <2>1 DEF AtTable, JobFits, Remembers, Finished
  <2>4. Accounted(s)'
    <3>1. todo[s] \subseteq todo'[s] \cup failed'[s] \cup {current'[s]} BY <2>1
    <3> QED BY <1>1, <2>1, <3>1, AccountedFrame
  <2> QED BY <2>2, <2>3, <2>4 DEF Fine
<1>6. CASE Produce(s)
  <2>1. /\ current[s] # None /\ made' = [made EXCEPT ![s] = TRUE] /\ file' = file
        /\ job'[s].to = ProofAt[s][current[s]] /\ job'[s].proof \in Made[current[s]]
        /\ UNCHANGED <<dir, todo, status, current, exit_code, failed>>
      BY <1>6 DEF Produce, Publication!Produce, loop
  <2>2. ScriptType' BY <2>1
  <2>3. AtTable(s)' /\ JobFits(s)' /\ Remembers(s)' /\ Finished(s)'
      BY <1>1, <2>1 DEF AtTable, JobFits, Remembers, Finished
  <2>4. Accounted(s)' BY <1>1, <2>1, AccountedFrame
  <2> QED BY <2>2, <2>3, <2>4 DEF Fine
<1>7. CASE Write(s)
  <2>1. UNCHANGED <<dir, todo, status, current, made, exit_code, failed>>
      BY <1>7 DEF Write, script, loop
  <2>2. Publication!TypeOK /\ (Publication!Open(s) \/ Publication!Finish(s) \/ Publication!Cut(s))
      BY <1>7 DEF JobsOK, Write
  <2>3. job[s].to = ProofAt[s][current[s]] /\ current[s] \in Table
      BY <1>1, <2>2, WriteEffect DEF JobFits
  <2>4. \A t \in Table : Publication!Owns(s, ProofAt[s][t]) /\ t # current[s] =>
            file'[ProofAt[s][t]] = file[ProofAt[s][t]]
      BY <2>2, <2>3, WriteEffect, TargetsType
  <2>5. ScriptType' BY <2>1
  <2>6. AtTable(s)' /\ JobFits(s)' /\ Accounted(s)' /\ Remembers(s)' /\ Finished(s)'
      BY <2>1, <2>2, <2>4, WriteEffect, ScriptFrame
  <2> QED BY <2>5, <2>6 DEF Fine
<1>8. CASE Success(s)
  <2>1. /\ current' = [current EXCEPT ![s] = None]
        /\ UNCHANGED <<dir, todo, status, made, exit_code, failed>>
        /\ Publication!Report(s)
      BY <1>8 DEF Success, loop
  <2>2. /\ file' = file /\ job[s] # None /\ job[s].state = "done"
        /\ job' = [job EXCEPT ![s].state = "reported"]
      BY <2>1 DEF Publication!Report, Publication!State, Publication!Become
  <2>3. job[s] \in Publication!Job /\ job'[s] = [job[s] EXCEPT !.state = "reported"]
      BY <2>2 DEF JobsOK, Publication!TypeOK
  <2>4. job'[s].state = "reported" BY <2>3 DEF Publication!Job
  <2>5. /\ current[s] # None
        /\ job[s].to = ProofAt[s][current[s]] /\ job[s].proof \in Made[current[s]]
      BY <1>1, <2>2 DEF JobFits
  <2>6. ~LateFlushFails => Proven(s, current[s])
    <3>1. Publication!State(s) = "done" BY <2>2 DEF Publication!State
    <3> QED BY <2>5, <3>1 DEF Proven, JobsOK, Publication!ReportedIsThere
  <2>7. ScriptType' BY <2>1
  <2>8. AtTable(s)' /\ JobFits(s)' /\ Remembers(s)' /\ Finished(s)'
      BY <1>1, <2>1, <2>4, <2>5 DEF AtTable, JobFits, Remembers, Finished
  <2>9. Accounted(s)' BY <1>1, <2>1, <2>2, <2>6, AccountedFrame
  <2> QED BY <2>7, <2>8, <2>9 DEF Fine
<1>9. CASE Failure(s)
  <2>1. /\ current[s] # None /\ current' = [current EXCEPT ![s] = None]
        /\ exit_code' = [exit_code EXCEPT ![s] = 1]
        /\ failed' = [failed EXCEPT ![s] = @ \cup {current[s]}]
        /\ UNCHANGED <<dir, todo, status, made>>
      BY <1>9 DEF Failure, RunFails, loop
  <2>2. file' = file /\ job'[s] = None BY <1>9, Forgotten DEF Failure, RunFails
  <2>3. ScriptType' BY <2>1
  <2>4. AtTable(s)' /\ JobFits(s)' /\ Remembers(s)' /\ Finished(s)'
      BY <1>1, <2>1, <2>2 DEF AtTable, JobFits, Remembers, Finished
  <2>5. Accounted(s)' BY <1>1, <2>1, <2>2, AccountedFrame
  <2> QED BY <2>3, <2>4, <2>5 DEF Fine
<1> QED BY <1>3, <1>4, <1>5, <1>6, <1>7, <1>8, <1>9 DEF Steps

LEMMA SInvStep == SInv /\ JobsOK /\ [Next]_vars => SInv'
<1> SUFFICES ASSUME SInv, JobsOK, [Next]_vars PROVE SInv' OBVIOUS
<1>1. ASSUME NEW s \in Script, Steps(s) PROVE SInv'
  <2>1. ScriptType' /\ Fine(s)' BY <1>1, OwnStep
  <2>2. ASSUME NEW q \in Script, q # s PROVE Fine(q)'
    <3>1. /\ dir'[q] = dir[q] /\ todo'[q] = todo[q] /\ current'[q] = current[q]
          /\ exit_code'[q] = exit_code[q] /\ status'[q] = status[q] /\ failed'[q] = failed[q]
        BY <1>1, <2>2, OneScript
    <3> QED BY <1>1, <2>2, <3>1, OtherProofs, ScriptFrame DEF Fine
  <2> QED BY <2>1, <2>2 DEF SInv, Fine
<1>2. CASE UNCHANGED vars
  <2>1. ScriptType' BY <1>2 DEF SInv, ScriptType, vars, script, loop
  <2>2. ASSUME NEW q \in Script PROVE Fine(q)'
      BY <1>2, ScriptFrame DEF vars, script, loop, Fine
  <2> QED BY <2>1, <2>2 DEF SInv, Fine
<1> QED BY <1>1, <1>2 DEF Next

LEMMA SInvInit == Init => SInv
<1> SUFFICES ASSUME Init PROVE SInv OBVIOUS
<1>1. ScriptType BY DEF Init, ScriptType
<1>2. ASSUME NEW s \in Script PROVE AtTable(s) /\ Accounted(s)
    BY TargetsType DEF Init, AtTable, Accounted, Reached
<1>3. ASSUME NEW s \in Script PROVE JobFits(s) /\ Remembers(s) /\ Finished(s)
    BY DEF Init, Publication!Init, JobFits, Remembers, Finished
<1> QED BY <1>1, <1>2, <1>3 DEF SInv

LEMMA SInvCorrect == Spec => []SInv
<1> QED BY SInvInit, SInvStep, JobsCorrect, PTL DEF Spec

(* The exit code of the script is 0 exactly if no pair has failed, however *)
(* many there are and in whichever directory (make_proof_for_pairs.sh:104).*)
THEOREM ExitCodeRemembers == Spec => []ExitCodeExact
<1>1. SInv => ExitCodeExact BY DEF SInv, Remembers, ExitCodeExact
<1> QED BY <1>1, SInvCorrect, PTL

(* If the script exits 0, there is a proof for every table it has found,   *)
(* at the places that are its own, whatever other scripts do: from what    *)
(* Publication promises of a single run.                                   *)
THEOREM ZeroIsEnough == Spec => []ZeroMeansProofs
<1>1. SInv => ZeroMeansProofs
  <2> SUFFICES ASSUME SInv, ~LateFlushFails, NEW s \in Script, status[s] = "exited",
                      exit_code[s] = 0, NEW t \in Found(s)
               PROVE  Proven(s, t)
      BY DEF ZeroMeansProofs, Proven
  <2>1. dir[s] = Len(Targets[s]) /\ todo[s] = {} /\ current[s] = None /\ failed[s] = {}
      BY DEF SInv, Finished, Remembers
  <2>2. t \in Reached(s) /\ t # None BY <2>1, TargetsType DEF Found, Reached
  <2> QED BY <2>1, <2>2 DEF SInv, Accounted
<1> QED BY <1>1, SInvCorrect, PTL

(* Every variable has its type, and a running producer makes the proof of  *)
(* the table the script is at (make_proof_for_pairs.sh:70-95).             *)
THEOREM TypeCorrect == Spec => []TypeOK
<1>1. SInv /\ JobsOK => TypeOK
  <2> SUFFICES ASSUME SInv, JobsOK PROVE TypeOK OBVIOUS
  <2>1. Publication!TypeOK BY DEF JobsOK
  <2>2. ScriptType BY DEF SInv
  <2>3. \A s \in Script :
           /\ dir[s] \in 0..Len(Targets[s])
           /\ current[s] # None => current[s] \in (HasCircuit \cap Found(s)) \ todo[s]
           /\ job[s] # None /\ job[s].state # "reported" =>
                 current[s] # None /\ job[s].to = ProofAt[s][current[s]]
      BY DEF SInv, AtTable, JobFits
  <2> QED BY <2>1, <2>2, <2>3, Zenon DEF ScriptType, TypeOK
<1> QED BY <1>1, SInvCorrect, JobsCorrect, PTL
==============================================================================
