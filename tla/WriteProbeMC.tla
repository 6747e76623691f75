---------------------------- MODULE WriteProbeMC ----------------------------
(***************************************************************************)
(* An instance of WriteProbe for TLC: users who share a directory, one of  *)
(* whom may only read it.                                                  *)
(***************************************************************************)
EXTENDS WriteProbe, TLC

CONSTANTS p1, p2, u1, u2, guest, a, b

(* No definition tells the slots, the writers or the proofs apart.         *)
Symmetry == Permutations(Proc) \cup Permutations(MayWrite) \cup Permutations(Path)
=============================================================================
