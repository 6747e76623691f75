----------------------------- MODULE Placeholder -----------------------------
(***************************************************************************)
(* The proof system the producer drives: crypto3's placeholder_* classes   *)
(* and the LPC commitment scheme.  None of it is under src/; it is         *)
(* modelled from the calls in prover.hpp, keeping of every value only      *)
(* where it comes from.  Cryptography is idealised: a proof made from      *)
(* parts that belong together and a satisfying table verifies, and any     *)
(* other proof, or any mismatch between the proof and what the verifier is *)
(* given, is rejected.                                                     *)
(***************************************************************************)
CONSTANTS
    Circuit,    \* constraint systems (circuit.crct)
    Table,      \* assignment tables (assignment.tbl)
    Shape,      \* what a table's description and constant columns can be
    ShapeOf,    \* the Shape of each table
    Satisfies,  \* the <<circuit, table>> pairs where the witness is valid
    Fri,        \* values of the options --lambda-param, --expand-factor
    None        \* an empty std::optional

(* A table has one shape, and only a circuit and a table can be related.   *)
ASSUME PlaceholderAssumption ==
    /\ ShapeOf \in [Table -> Shape]
    /\ Satisfies \subseteq Circuit \X Table

(* placeholder_common_data: the verifier's part of the preprocessed data.  *)
CommonData == [circuit : Circuit, shape : Shape, fri : Fri]

(* All that the public preprocessor returns: the common data and the       *)
(* polynomials and Merkle trees behind it.                                 *)
PublicPreprocessedData == [common : CommonData]

(* What the private preprocessor returns.                                  *)
PrivatePreprocessedData == [circuit : Circuit, table : Table, shape : Shape]

(* lpc_commitment_scheme: FRI parameters for a domain given by the table's *)
(* rows, and the batch of fixed polynomials committed so far.              *)
LpcScheme == [fri : Fri, shape : Shape, fixed : (Circuit \X Shape) \cup {None}]

(* placeholder_proof.  "sound" tells whether an honest verifier holding    *)
(* the same circuit, shape and FRI parameters accepts it.                  *)
Proof == [circuit : Circuit, shape : Shape, fri : Fri, table : Table, sound : BOOLEAN]

(* The constructor of FriParams, from the table description and options.   *)
NewLpcScheme(shape, fri) == [fri |-> fri, shape |-> shape, fixed |-> None]

(* placeholder_public_preprocessor::process: its result ...                *)
PublicPreprocess(circuit, table, scheme) ==
    [common |-> [circuit |-> circuit, shape |-> ShapeOf[table], fri |-> scheme.fri]]

(* ... and the scheme it was handed by reference, in which it has          *)
(* committed the fixed columns.                                            *)
WithFixedBatch(scheme, circuit, shape) ==
    [scheme EXCEPT !.fixed = <<circuit, shape>>]

(* placeholder_private_preprocessor::process                               *)
PrivatePreprocess(circuit, table, shape) ==
    [circuit |-> circuit, table |-> table, shape |-> shape]

(* placeholder_prover::process.  It never refuses: parts that do not       *)
(* belong together yield a proof that does not verify.                     *)
PlaceholderProve(public, private, shape, circuit, scheme) ==
    [circuit |-> circuit, shape |-> shape, fri |-> scheme.fri, table |-> private.table,
     sound |-> /\ public.common = [circuit |-> circuit, shape |-> shape, fri |-> scheme.fri]
               /\ private = PrivatePreprocess(circuit, private.table, shape)
               /\ scheme.shape = shape
               /\ scheme.fixed = <<circuit, shape>>
               /\ ShapeOf[private.table] = shape
               /\ <<circuit, private.table>> \in Satisfies]

(* placeholder_verifier::process                                           *)
PlaceholderVerify(common, proof, shape, circuit, scheme) ==
    /\ proof.sound
    /\ common = [circuit |-> circuit, shape |-> shape, fri |-> scheme.fri]
    /\ proof.circuit = circuit
    /\ proof.shape = shape
    /\ proof.fri = scheme.fri
    /\ scheme.shape = shape
=============================================================================
