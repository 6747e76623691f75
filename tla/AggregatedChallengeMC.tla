----------------------- MODULE AggregatedChallengeMC -----------------------
(***************************************************************************)
(* An instance of AggregatedChallenge for TLC: three files, a challenge    *)
(* from another prover, and what can be aggregated from it.                *)
(***************************************************************************)
EXTENDS AggregatedChallenge, TLC

CONSTANTS x, a, b, out, deep, p1, p2

UpTo2(S) == {<<s>> : s \in S} \cup {<<s, t>> : s \in S, t \in S}
Digest(s) == [digest |-> s]

(* An ideal hash, down to two levels of aggregation.                       *)
Level0 == {x}
Level1 == Level0 \cup {Digest(s) : s \in UpTo2(Level0)}
Level2 == Level1 \cup {Digest(s) : s \in UpTo2(Level1)}
MCChallenge == Level2 \cup {deep}
IdealChallengeOf(s) ==
    IF \A k \in 1..Len(s) : s[k] \in Level1 THEN Digest(s) ELSE deep

Aggregate(inputs, output) == [inputs |-> inputs, output |-> output]

(* README.md's sample call; the same challenge twice; an output that is    *)
(* one of the inputs; an input that is another call's output; no inputs.   *)
MCCall == {Aggregate(<<a, b>>, out), Aggregate(<<b, b>>, out),
           Aggregate(<<b, out>>, out), Aggregate(<<out, a>>, b), Aggregate(<<>>, out)}
=============================================================================
