---------------------------- MODULE ArgParserMC ----------------------------
(***************************************************************************)
(* Instances of ArgParser for TLC: short command lines and configuration   *)
(* files over a few options of every kind, and the calls of README.md.     *)
(***************************************************************************)
EXTENDS ArgParser

Give(n, vs) == [name |-> n, values |-> vs]

(* A few abbreviations, each with all the options it abbreviates.          *)
MCPrefixOf ==
    {<<"assignment", "assignment-table">>, <<"assignment", "assignment-description-file">>,
     <<"input", "input-challenge-files">>, <<"aggregated", "aggregated-challenge-file">>,
     <<"ver", "version">>}

MCNumber == {"0", "2", "9", "10", "69"}
MCSeverity == {"info", "error"}
MCBlank == {"my proof"}

Typed ==
    {Give("proof", <<"a">>), Give("p", <<"my proof">>), Give("p", <<"b", "c">>),
     Give("expand-factor", <<"10">>), Give("hash-type", <<"sha256">>), Give("hash-type", <<"md5">>),
     Give("input", <<"a", "b">>), Give("u", <<"c">>), Give("u", <<>>),
     Give("assignment", <<"a">>), Give("nonsense", <<"a">>), Give("version", <<>>)}

Lines ==
    {Give("proof", <<"d">>), Give("proof", <<"my proof">>), Give("expand-factor", <<"9">>),
     Give("expand-factor", <<"all">>), Give("input-challenge-files", <<"d">>),
     Give("input-challenge-files", <<"e">>), Give("input", <<"d">>), Give("help", <<"">>)}

UseConfig == Give("c", <<"cfg">>)

MCCommandLine ==
    {<<>>, <<UseConfig>>} \cup {<<e>> : e \in Typed} \cup {<<e, f>> : e \in Typed, f \in Typed}
    \cup {<<UseConfig, e, f>> : e \in Typed, f \in Typed} \cup {<<e, UseConfig>> : e \in Typed}

MCConfigFile ==
    {<<>>} \cup {<<e>> : e \in Lines} \cup {<<e, f>> : e \in Lines, f \in Lines}

UsageCall ==
    <<Give("circuit", <<"c">>), Give("assignment", <<"a">>), Give("proof", <<"p">>)>>
ProveSampleCall ==
    <<Give("circuit", <<"c">>), Give("assignment-table", <<"a">>), Give("proof", <<"p">>), Give("q", <<"10">>)>>
AggregateSampleCall ==
    <<Give("stage", <<"generate-aggregated-challenge">>),
      Give("input-challenge-files", <<"a", "b">>), Give("aggregated-challenge-file", <<"c">>)>>

ReadmeCommandLine == {UsageCall, ProveSampleCall, AggregateSampleCall}
============================================================================
