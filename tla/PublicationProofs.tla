-------------------------- MODULE PublicationProofs --------------------------
(***************************************************************************)
(* Proofs about Publication, for any number of processes, locations and    *)
(* proofs.                                                                 *)
(***************************************************************************)
EXTENDS Publication, TLAPS

States == {"ready", "writing", "sharing", "done", "reported"}

(* Facts about one job, and about the steps that leave the other jobs      *)
(* alone, and p with its job in another state or without one.              *)
LEMMA StateType ==
    ASSUME PublicationAssumption, TypeOK, NEW p \in Proc
    PROVE  /\ State(p) = "none" <=> job[p] = None
           /\ State(p) # "none" =>
                 job[p] \in Job /\ State(p) = job[p].state /\ State(p) \in States
                 /\ job[p].to \in Dest[p] /\ job[p].proof \in Proof
           /\ State(p) \notin {"none", "ready"} => job[p].to \in Loc
BY DEF PublicationAssumption, TypeOK, State, Job, States

LEMMA BecomeJob ==
    ASSUME PublicationAssumption, TypeOK, NEW p \in Proc, State(p) # "none", NEW s \in States, Become(p, s),
           s = "ready" \/ job[p].to # None
    PROVE  /\ job' \in [Proc -> Job \cup {None}]
           /\ \A q \in Proc : job'[q] # None =>
                 /\ job'[q].to \in Dest[q]
                 /\ job'[q].state # "ready" => job'[q].to # None
                 /\ job'[q].to \in Strict => job'[q].proof \in Genuine
<1>1. job[p] \in Job /\ job[p] # None BY StateType
<1>2. /\ job'[p] \in Job
      /\ job'[p].to = job[p].to /\ job'[p].proof = job[p].proof /\ job'[p].state = s
    BY <1>1 DEF Become, Job, States, TypeOK
<1>3. \A q \in Proc \ {p} : job'[q] = job[q] BY DEF Become, TypeOK
<1>4. job' \in [Proc -> Job \cup {None}] BY <1>2 DEF Become, TypeOK
<1> QED BY <1>1, <1>2, <1>3, <1>4 DEF TypeOK

LEMMA DropJob ==
    ASSUME PublicationAssumption, TypeOK, NEW p \in Proc, Drop(p)
    PROVE  /\ job' \in [Proc -> Job \cup {None}]
           /\ \A q \in Proc : job'[q] # None =>
                 /\ job'[q].to \in Dest[q]
                 /\ job'[q].state # "ready" => job'[q].to # None
                 /\ job'[q].to \in Strict => job'[q].proof \in Genuine
BY DEF TypeOK, Drop

LEMMA InitType ==
    ASSUME PublicationAssumption
    PROVE  Init => TypeOK
BY DEF Init, TypeOK

LEMMA ProduceType ==
    ASSUME PublicationAssumption, TypeOK, NEW p \in Proc, Produce(p)
    PROVE  TypeOK'
<1>1. PICK l \in Dest[p], x \in Proof :
         /\ job' = [job EXCEPT ![p] = [proof |-> x, to |-> l, state |-> "ready"]]
         /\ l \in Strict => x \in Genuine
    BY DEF Produce, PublicationAssumption
<1>2. [proof |-> x, to |-> l, state |-> "ready"] \in Job BY DEF Job, PublicationAssumption
<1>3. job' \in [Proc -> Job \cup {None}] BY <1>1, <1>2 DEF TypeOK
<1> QED BY <1>1, <1>2, <1>3 DEF TypeOK, Produce

(* Who has a file open shares it when p opens it; nobody else's job        *)
(* changes, and neither proofs nor locations do.                           *)
LEMMA OpenEffect ==
    ASSUME PublicationAssumption, TypeOK, NEW p \in Proc, Open(p), NEW q \in Proc
    PROVE  /\ job[q] # None => job'[q] \in Job /\ job'[q].to = job[q].to
                               /\ job'[q].proof = job[q].proof
           /\ job[q] = None => job'[q] = None
           /\ State(q)' = "sharing" =>
                 \/ State(q) = "sharing"
                 \/ \E o \in Proc \ {q} : job[o] # None /\ job[o].to = job[q].to
           /\ State(q) \in {"none", "done", "reported"} => job'[q] = job[q]
           /\ State(q)' \in {"done", "reported"} => State(q) \in {"done", "reported"}
           /\ q # p => (job'[q] # None /\ job'[q].state = "ready" => State(q) = "ready")
<1>1. job[p] # None /\ job[p] \in Job /\ State(p) = "ready" /\ job[p].to # None
    BY StateType DEF Open
<1>2. CASE q = p
  <2>1. PICK s \in {"sharing", "writing"} :
           /\ job'[p] = [job[p] EXCEPT !.state = s]
           /\ s = "sharing" => \E o \in Proc : WritesTo(o, job[p].to)
      BY DEF Open
  <2>2. job'[p] \in Job /\ job'[p].to = job[p].to /\ job'[p].proof = job[p].proof
        /\ job'[p].state = s
      BY <1>1, <2>1 DEF Job
  <2>3. \A o \in Proc : WritesTo(o, job[p].to) => o # p /\ job[o] # None /\ job[o].to = job[p].to
      BY <1>1 DEF WritesTo, Writes, State
  <2>4. State(p)' = s BY <2>2 DEF State, PublicationAssumption
  <2> QED BY <1>1, <1>2, <2>1, <2>2, <2>3, <2>4
<1>3. CASE q # p /\ WritesTo(q, job[p].to)
  <2>1. job'[q] = [job[q] EXCEPT !.state = "sharing"] BY <1>3 DEF Open
  <2>2. job[q] # None /\ job[q] \in Job /\ job[q].to = job[p].to
        /\ State(q) \in {"writing", "sharing"}
      BY <1>3, StateType DEF WritesTo, Writes, State
  <2>3. job'[q] \in Job /\ job'[q].to = job[q].to /\ job'[q].proof = job[q].proof
        /\ job'[q].state = "sharing"
      BY <2>1, <2>2 DEF Job
  <2>4. State(q)' = "sharing" BY <2>3 DEF State, PublicationAssumption
  <2> QED BY <1>1, <1>3, <2>2, <2>3, <2>4
<1>4. CASE q # p /\ ~WritesTo(q, job[p].to)
  <2>1. job'[q] = job[q] BY <1>4 DEF Open
  <2>2. State(q)' = State(q) BY <2>1 DEF State
  <2> QED BY <1>4, <2>1, <2>2, StateType DEF TypeOK, State
<1> QED BY <1>2, <1>3, <1>4

LEMMA OpenType ==
    ASSUME PublicationAssumption, TypeOK, NEW p \in Proc, Open(p)
    PROVE  TypeOK'
<1>1. \A q \in Proc : job'[q] \in Job \cup {None} BY OpenEffect, StateType DEF TypeOK
<1>2. job' \in [Proc -> Job \cup {None}] BY <1>1 DEF Open
<1>3. job[p].to \in Loc BY StateType DEF Open, TypeOK, Job, PublicationAssumption
<1>4. file' \in [Loc -> Proof \cup {Absent, Torn}] BY <1>3 DEF Open, TypeOK
<1>5. ASSUME NEW q \in Proc, job'[q] # None
      PROVE  /\ job'[q].to \in Dest[q]
             /\ job'[q].state # "ready" => job'[q].to # None
             /\ job'[q].to \in Strict => job'[q].proof \in Genuine
  <2>1. job[q] # None /\ job'[q].to = job[q].to /\ job'[q].proof = job[q].proof
      BY <1>5, OpenEffect
  <2>2. CASE q = p BY <1>3, <2>1, <2>2 DEF TypeOK, PublicationAssumption
  <2>3. CASE q # p
    <3>1. CASE WritesTo(q, job[p].to)
      BY <1>3, <2>1, <3>1 DEF TypeOK, WritesTo, PublicationAssumption
    <3>2. CASE ~WritesTo(q, job[p].to)
      BY <1>5, <2>1, <2>3, <3>2 DEF TypeOK, Open
    <3> QED BY <3>1, <3>2
  <2> QED BY <2>2, <2>3
<1> QED BY <1>2, <1>4, <1>5 DEF TypeOK

(* The value an ended write leaves.                                        *)
LEMMA EndingType ==
    ASSUME PublicationAssumption, TypeOK, NEW p \in Proc, Writes(p), NEW v \in Proof \cup {Absent, Torn},
           file' = [file EXCEPT ![job[p].to] = v],
           Become(p, "done") \/ Drop(p)
    PROVE  TypeOK'
<1>1. State(p) # "none" /\ job[p].to \in Loc BY StateType DEF Writes
<1>2. job[p].to # None BY <1>1 DEF PublicationAssumption
<1>3. file' \in [Loc -> Proof \cup {Absent, Torn}] BY <1>1 DEF TypeOK
<1>4. CASE Become(p, "done") BY <1>1, <1>2, <1>3, <1>4, BecomeJob DEF TypeOK, States
<1>5. CASE Drop(p) BY <1>3, <1>5, DropJob DEF TypeOK
<1> QED BY <1>4, <1>5

LEMMA FinishType ==
    ASSUME PublicationAssumption, TypeOK, NEW p \in Proc, Finish(p)
    PROVE  TypeOK'
<1>1. job[p].proof \in Proof BY StateType DEF Finish, Writes
<1> QED BY <1>1, EndingType DEF Finish

LEMMA CutType ==
    ASSUME PublicationAssumption, TypeOK, NEW p \in Proc, Cut(p)
    PROVE  TypeOK'
<1>1. job[p].to \in Loc BY StateType DEF Cut, Writes
<1>2. file[job[p].to] \in Proof \cup {Absent, Torn} BY <1>1 DEF TypeOK
<1> QED BY <1>2, EndingType DEF Cut

LEMMA NextType ==
    ASSUME PublicationAssumption
    PROVE  TypeOK /\ [Next]_vars => TypeOK'
<1> SUFFICES ASSUME TypeOK, [Next]_vars PROVE TypeOK' OBVIOUS
<1>1. ASSUME NEW p \in Proc, Report(p) PROVE TypeOK'
  <2>1. State(p) = "done" /\ job[p].to # None
      BY <1>1, StateType DEF Report, PublicationAssumption
  <2> QED BY <1>1, <2>1, BecomeJob DEF Report, TypeOK, States
<1>2. ASSUME NEW p \in Proc, Forget(p) PROVE TypeOK'
    BY <1>2, DropJob DEF Forget, TypeOK
<1>3. CASE UNCHANGED vars BY <1>3 DEF vars, TypeOK
<1> QED BY <1>1, <1>2, <1>3, ProduceType, OpenType, FinishType, CutType DEF Next

(* Publication's types: a job has a location once it writes, and a proof   *)
(* for a location of verified proofs is a genuine one.                     *)
THEOREM JobsCorrect ==
    ASSUME PublicationAssumption
    PROVE  Spec => []TypeOK
<1> QED BY InitType, NextType, PTL DEF Spec

-----------------------------------------------------------------------------
(* Where only verifying runs publish, every readable proof is genuine:     *)
(* what a step leaves in a file is the proof of a job for that file, what  *)
(* was there before, or a torn file.                                       *)
THEOREM GenuineOnly ==
    ASSUME PublicationAssumption
    PROVE  Spec => []OnlyGenuine
<1>1. Init => OnlyGenuine BY DEF Init, OnlyGenuine, PublicationAssumption
<1>2. TypeOK /\ OnlyGenuine /\ [Next]_vars => OnlyGenuine'
  <2> SUFFICES ASSUME TypeOK, OnlyGenuine, [Next]_vars, NEW l \in Strict
               PROVE  file'[l] \in Genuine \cup {Absent, Torn}
      BY DEF OnlyGenuine
  <2>1. l \in Loc /\ file[l] \in Genuine \cup {Absent, Torn}
      BY DEF OnlyGenuine, PublicationAssumption
  <2>2. CASE file' = file BY <2>1, <2>2
  <2>3. ASSUME NEW p \in Proc, Open(p) PROVE file'[l] \in {file[l], Torn}
      BY <2>1, <2>3 DEF Open, TypeOK
  <2>4. ASSUME NEW p \in Proc, Finish(p) PROVE file'[l] \in Genuine \cup {Absent, Torn}
    <3>1. job[p] # None BY <2>4, StateType DEF Finish, Writes
    <3>2. job[p].to = l => job[p].proof \in Genuine BY <3>1 DEF TypeOK
    <3> QED BY <2>1, <2>4, <3>2 DEF Finish, TypeOK
  <2>5. ASSUME NEW p \in Proc, Cut(p) PROVE file'[l] \in {file[l], Torn}
      BY <2>1, <2>5 DEF Cut, TypeOK
  <2>6. ASSUME NEW p \in Proc, Produce(p) \/ Report(p) \/ Forget(p) PROVE file' = file
      BY <2>6 DEF Produce, Report, Forget
  <2>7. UNCHANGED vars => file' = file BY DEF vars
  <2> QED BY <2>1, <2>2, <2>3, <2>4, <2>5, <2>6, <2>7 DEF Next
<1> QED BY <1>1, <1>2, JobsCorrect, PTL DEF Spec

-----------------------------------------------------------------------------
(* Who publishes at a location of its own never shares it: the             *)
(* strengthening that makes ReportedIsThere inductive.                     *)
NotShared == \A p \in Proc : State(p) = "sharing" => ~Owns(p, job[p].to)

(* A process that publishes elsewhere.                                     *)
LEMMA OtherPlace ==
    ASSUME PublicationAssumption, TypeOK, NEW p \in Proc, NEW q \in Proc \ {p},
           job[p] # None, job[q] # None, Owns(p, job[p].to)
    PROVE  job[q].to # job[p].to
BY DEF TypeOK, Owns

(* A location p owns is touched by p alone, and keeps its file otherwise.  *)
LEMMA OwnFile ==
    ASSUME PublicationAssumption, TypeOK, NEW p \in Proc, job[p] # None, job[p].to # None,
           Owns(p, job[p].to), NEW q \in Proc \ {p},
           Produce(q) \/ Open(q) \/ Finish(q) \/ Cut(q) \/ Report(q) \/ Forget(q)
    PROVE  job'[p] = job[p] /\ file'[job[p].to] = file[job[p].to]
<1>1. job[p].to \in Loc BY DEF TypeOK, PublicationAssumption
<1>2. Produce(q) \/ Report(q) \/ Forget(q) => job'[p] = job[p] /\ file' = file
    BY DEF Produce, Report, Forget, Become, Drop, TypeOK
<1>3. ASSUME Writes(q) PROVE job[q] # None /\ job[q].to # job[p].to
    BY <1>3, StateType, OtherPlace DEF Writes
<1>4. ASSUME Finish(q) \/ Cut(q) PROVE job'[p] = job[p] /\ file'[job[p].to] = file[job[p].to]
    BY <1>1, <1>3, <1>4 DEF Finish, Cut, Become, Drop, TypeOK
<1>5. ASSUME Open(q) PROVE job'[p] = job[p] /\ file'[job[p].to] = file[job[p].to]
  <2>1. job[q] # None /\ job[q].to # job[p].to BY <1>5, StateType, OtherPlace DEF Open
  <2>2. ~WritesTo(p, job[q].to) BY <2>1 DEF WritesTo
  <2>3. job'[p] = job[p] BY <1>5, <2>2 DEF Open
  <2>4. file'[job[p].to] = file[job[p].to] BY <1>1, <1>5, <2>1 DEF Open, TypeOK
  <2> QED BY <2>3, <2>4
<1> QED BY <1>2, <1>4, <1>5

LEMMA NotSharedStep ==
    ASSUME PublicationAssumption, TypeOK, NotShared, [Next]_vars
    PROVE  NotShared'
<1> SUFFICES ASSUME NEW p \in Proc, State(p)' = "sharing", Owns(p, job'[p].to)
             PROVE  FALSE
    BY DEF NotShared, Owns
<1>1. ASSUME UNCHANGED job PROVE FALSE BY <1>1 DEF NotShared, State
<1>2. ASSUME NEW q \in Proc, Open(q) PROVE FALSE
  <2>1. job[p] # None /\ job'[p].to = job[p].to
      BY <1>2, OpenEffect DEF State
  <2>2. State(p) # "sharing" BY <2>1 DEF NotShared
  <2>3. PICK o \in Proc \ {p} : job[o] # None /\ job[o].to = job[p].to
      BY <1>2, <2>2, OpenEffect
  <2> QED BY <2>1, <2>3, OtherPlace
<1>3. ASSUME NEW q \in Proc, Become(q, "done") \/ Become(q, "reported"), State(q) # "none"
      PROVE  FALSE
  <2>1. CASE q = p BY <1>3, <2>1, StateType DEF Become, State, TypeOK, Job, PublicationAssumption
  <2>2. CASE q # p BY <1>3, <2>2 DEF Become, State, TypeOK, NotShared
  <2> QED BY <2>1, <2>2
<1>4. ASSUME NEW q \in Proc, Drop(q) PROVE FALSE
    BY <1>4 DEF Drop, State, TypeOK, NotShared
<1>5. ASSUME NEW q \in Proc, Produce(q) PROVE FALSE
    BY <1>5 DEF Produce, State, TypeOK, NotShared
<1> QED BY <1>1, <1>2, <1>3, <1>4, <1>5 DEF Next, Finish, Cut, Report, Forget, Writes, vars

(* What a process that has ended its write has left at its location.       *)
Kept(p) == file[job[p].to] = job[p].proof \/ (LateFlushFails /\ file[job[p].to] = Torn)

LEMMA ReportedStep ==
    ASSUME PublicationAssumption, TypeOK, NotShared, ReportedIsThere, [Next]_vars
    PROVE  ReportedIsThere'
<1> SUFFICES ASSUME NEW p \in Proc, State(p)' \in {"done", "reported"}, Owns(p, job'[p].to)
             PROVE  Kept(p)'
    BY DEF ReportedIsThere, Owns, Kept
<1>1. ASSUME UNCHANGED <<file, job>>
      PROVE  Kept(p)'
    BY <1>1 DEF ReportedIsThere, State, Kept
<1>2. ASSUME NEW q \in Proc \ {p},
             Produce(q) \/ Open(q) \/ Finish(q) \/ Cut(q) \/ Report(q) \/ Forget(q)
      PROVE  Kept(p)'
  <2>1. job[p] # None
    <3>1. Open(q) => (job[p] = None => job'[p] = None) BY OpenEffect
    <3>2. ~Open(q) => job'[p] = job[p]
        BY <1>2 DEF Produce, Finish, Cut, Report, Forget, Become, Drop, TypeOK
    <3> QED BY <3>1, <3>2 DEF State
  <2>2. State(p) \in {"done", "reported"} /\ job'[p].to = job[p].to
    <3>1. Open(q) => State(p) \in {"done", "reported"} /\ job'[p].to = job[p].to
        BY <2>1, OpenEffect
    <3>2. ~Open(q) => job'[p] = job[p]
        BY <1>2 DEF Produce, Finish, Cut, Report, Forget, Become, Drop, TypeOK
    <3> QED BY <3>1, <3>2 DEF State
  <2>3. job[p].to # None BY <2>2, StateType DEF PublicationAssumption
  <2>4. job'[p] = job[p] /\ file'[job[p].to] = file[job[p].to]
      BY <1>2, <2>1, <2>2, <2>3, OwnFile
  <2> QED BY <2>2, <2>4 DEF ReportedIsThere, Kept
<1>3. ASSUME Produce(p) PROVE FALSE
    BY <1>3 DEF Produce, State, TypeOK, PublicationAssumption, Job
<1>4. ASSUME Forget(p) PROVE FALSE BY <1>4 DEF Forget, Drop, State, TypeOK
<1>5. ASSUME Open(p) PROVE FALSE
    BY <1>5, OpenEffect DEF Open
<1>6. ASSUME Report(p)
      PROVE  Kept(p)'
  <2>1. job'[p].to = job[p].to /\ job'[p].proof = job[p].proof /\ file' = file
      BY <1>6, StateType DEF Report, Become, TypeOK, Job
  <2> QED BY <1>6, <2>1 DEF Report, ReportedIsThere, Kept
<1>7. ASSUME Finish(p) \/ Cut(p)
      PROVE  Kept(p)'
  <2>1. job[p] \in Job /\ job[p].to \in Loc BY <1>7, StateType DEF Finish, Cut, Writes
  <2>2. Become(p, "done") BY <1>7 DEF Finish, Cut, Drop, State, TypeOK
  <2>3. job'[p].to = job[p].to /\ job'[p].proof = job[p].proof
      BY <2>1, <2>2 DEF Become, TypeOK, Job
  <2>4. State(p) # "sharing" BY <2>3 DEF NotShared, Owns
  <2>5. CASE Finish(p) BY <2>1, <2>3, <2>4, <2>5 DEF Finish, TypeOK, Kept
  <2>6. CASE Cut(p)
    <3>1. ~Drop(p) BY DEF Drop, State, TypeOK
    <3>2. LateFlushFails BY <2>6, <3>1 DEF Cut
    <3>3. file'[job[p].to] = Torn BY <2>1, <2>4, <2>6 DEF Cut, TypeOK
    <3> QED BY <2>3, <3>2, <3>3 DEF Kept
  <2> QED BY <1>7, <2>5, <2>6
<1> QED BY <1>1, <1>2, <1>3, <1>4, <1>5, <1>6, <1>7 DEF Next, vars

(* Who reports success has left its proof at a location of its own.        *)
THEOREM SuccessLasts ==
    ASSUME PublicationAssumption
    PROVE  Spec => []ReportedIsThere
<1>1. Init => NotShared /\ ReportedIsThere
    BY DEF Init, NotShared, ReportedIsThere, State
<1> QED BY <1>1, NotSharedStep, ReportedStep, JobsCorrect, PTL DEF Spec
==============================================================================
