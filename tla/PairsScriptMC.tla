--------------------------- MODULE PairsScriptMC ---------------------------
(***************************************************************************)
(* An instance of PairsScript for TLC: a script with two targets, whose    *)
(* tables overlap, and another that works on one of them.                  *)
(***************************************************************************)
EXTENDS PairsScript, TLC

CONSTANTS s1, s2, t1, t2, t3, good1, good2, out1, out2, out3

(* There is no circuit for t3 ...                                          *)
Both == s1 :> <<{t1, t2}, {t2}>> @@ s2 :> <<{}, {t1, t3}>>
(* ... and the scripts share the location of the proof for t1.             *)
Outputs == t1 :> out1 @@ t2 :> out2 @@ t3 :> out3
MCProofAt == s1 :> Outputs @@ s2 :> Outputs
MCMade == t1 :> {good1, good2} @@ t2 :> {good2} @@ t3 :> {}
============================================================================
