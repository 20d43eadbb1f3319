----------------------------- MODULE MCValidator -----------------------------
(***************************************************************************)
(* Situations for Validator: a flawless repository under the publish gate, *)
(* and everything that differs from it in one or two features of the       *)
(* repository and in one or two of the invocation.                         *)
(***************************************************************************)
EXTENDS Validator

MCReleases == <<"0.9", "1.0">>

Flaws ==
  [check : Checks("TF", 1..5), severity : {"FAIL"}, at : Release]
  \cup [check : Checks("BP", {1, 2, 3}) \cup {<<"JC", 1>>},
        severity : {"FAIL"}, at : {"source"}]
  \cup [check : {<<"BP", 5>>, <<"JC", 1>>, <<"SZ", 1>>},
        severity : {"FAIL"}, at : Release]
  \cup [check : Checks("CSV", 2..6) \cup Checks("CM", 1..3) \cup {<<"BP", 2>>}
                \cup Checks("SZ", {1, 2}),
        severity : {"FAIL"}, at : {"main"}]
  \cup [check : {<<"BP", 2>>, <<"CSV", 3>>, <<"CSV", 7>>, <<"CM", 4>>,
                 <<"SZ", 3>>, <<"SZ", 4>>, <<"PI", 1>>},
        severity : {"WARN"}, at : {"main"}]
  \cup [check : {<<"SZ", 5>>}, severity : {"INFO"}, at : {"main"}]

(* TF-3 compares with the release before, which the first does not have. *)
MCFlaws == Flaws \cap Defect

Clean ==
  [shallow |-> FALSE, main |-> TRUE, source |-> TRUE, csv |-> "canonical",
   listed |-> Release, codemeta |-> "metadata", tagged |-> Release,
   named |-> [r \in Release |-> 1], pyld |-> TRUE, swhModel |-> TRUE,
   remote |-> "append", defects |-> {}]

RepoChoices ==
  [shallow |-> {TRUE}, main |-> {FALSE}, source |-> {FALSE},
   csv |-> {"absent", "dialect", "unknown"}, listed |-> {{}, {"1.0"}},
   codemeta |-> {"absent", "root"}, tagged |-> {{}, {"0.9"}},
   named |-> {[r \in Release |-> n] : n \in {0, 2}},
   pyld |-> {FALSE}, swhModel |-> {FALSE},
   remote |-> {"unreachable", "empty", "sanctioned", "diverged"},
   defects |-> {{d} : d \in MCFlaws}]

Whole ==
  [parses |-> TRUE, profile |-> "both", gate |-> "publish", skip |-> {},
   only |-> {}, strictWarn |-> FALSE, report |-> "file", remote |-> TRUE,
   browser |-> TRUE, oracle |-> Release, malformed |-> FALSE]

ArgChoices ==
  [parses |-> {FALSE}, profile |-> Profile, gate |-> {"build"},
   skip |-> {{<<f, 1>>} : f \in DOMAIN Numbers} \cup {{<<"BP", 3>>}},
   only |-> {{<<"BP", 3>>}, {<<"PC", 1>>, <<"BP", 1>>}},
   strictWarn |-> {TRUE}, report |-> {"-", "unwritable"}, remote |-> {FALSE},
   browser |-> {FALSE}, oracle |-> {{}, {"1.0"}}, malformed |-> {TRUE}]

(* The records that differ from one of S in one more field. *)
Vary(S, choices) ==
  S \cup UNION {{[x EXCEPT ![f] = v] : v \in choices[f], x \in S} :
                  f \in DOMAIN choices}

OneRepo == Vary({Clean}, RepoChoices)
OneArg  == Vary({Whole}, ArgChoices)

MCSituation ==
  [args : Vary(OneArg, ArgChoices), repo : OneRepo]
  \cup [args : OneArg, repo : Vary(OneRepo, RepoChoices)]
=============================================================================
