---------------------------- MODULE ScriptArgsMC ----------------------------
(***************************************************************************)
(* An instance of ScriptArgs for TLC: all command lines of up to four      *)
(* words.                                                                  *)
(***************************************************************************)
EXTENDS ScriptArgs

Words == {"--base-dir", "--output-dir", "--use-nix", "--multithreaded", "--", "x", "y"}
UpTo4 == UNION {[1..n -> Words] : n \in 0..4}
=============================================================================
