------------------------------ MODULE Validator ------------------------------
(***************************************************************************)
(* swhap-validate (tools/validator/swhap_validate): one invocation of the  *)
(* driver in cli.py, which runs the battery of checks over a repository    *)
(* once per profile, writes a report for each, and ends with an exit code  *)
(* that gates the build and the publication.                               *)
(*                                                                         *)
(* What is wrong with the content of the repository is a set of defects.   *)
(* A check is modelled by what decides its part of the report: which       *)
(* inputs it needs, what it records when they are missing, whether it      *)
(* counts as run, and which defects it can see.                            *)
(***************************************************************************)
EXTENDS Integers, Sequences, SequencesExt

CONSTANTS
  Releases,  \* the releases, a sequence in release order
  Situation  \* the pairs [args, repo] to validate

Release == ToSet(Releases)

(* A check ID is its family and its number; family() splits it. *)
Family == <<"PC", "TF", "BP", "CSV", "CM", "SZ", "PI", "JC", "DV">>

Numbers == [PC |-> {1}, TF |-> 1..5, BP |-> {1, 2, 3, 5}, CSV |-> 1..7,
            CM |-> 1..4, SZ |-> 1..5, PI |-> {1}, JC |-> {1}, DV |-> {1}]

Checks(f, ns) == {f} \X ns
Check == UNION {Checks(f, Numbers[f]) : f \in DOMAIN Numbers}

Profile  == {"strict-P", "strict-G", "legacy"}
Severity == {"FAIL", "WARN", "INFO"}
Finding  == [check : Check, severity : Severity]

(* A finding waiting to be made, and a place that shows it to the check. *)
Flaw(cs, severities, places) == [check : cs, severity : severities, at : places]

Defect ==
  Flaw(Checks("TF", {1, 2, 4, 5}) \cup {<<"BP", 5>>}, Severity, Release)
  \cup Flaw({<<"TF", 3>>}, Severity, {Releases[n] : n \in 2..Len(Releases)})
  \cup Flaw(Checks("BP", {1, 2, 3}), Severity, {"source"})
  \cup Flaw(Checks("CSV", 2..7) \cup Checks("CM", 1..4) \cup {<<"BP", 2>>, <<"PI", 1>>},
            Severity, {"main"})
  \cup Flaw({<<"SZ", 4>>}, {"WARN"}, {"main"})
  \cup Flaw(Checks("SZ", {1, 2, 3, 5}), Severity, {"main", "source"} \cup Release)
  \cup Flaw({<<"JC", 1>>}, Severity, {"source"} \cup Release)

Invocation ==
  [parses : BOOLEAN,                \* argparse and --reference-date accept it
   profile : Profile \cup {"both"}, \* "both": no --profile
   gate : {"build", "publish"}, skip : SUBSET Check, only : SUBSET Check,
   strictWarn : BOOLEAN, report : {"-", "file", "unwritable"},
   remote : BOOLEAN, browser : BOOLEAN, oracle : SUBSET Release,
   malformed : BOOLEAN]             \* a manifest that load_dir chokes on

Repository ==
  [shallow : BOOLEAN, main : BOOLEAN, source : BOOLEAN,
   csv : {"absent", "canonical", "dialect", "unknown"},
   listed : SUBSET Release,         \* releases in a canonical CSV
   codemeta : {"absent", "root", "metadata"},
   tagged : SUBSET Release,         \* releases with a tag
   named : [Release -> 0..2],       \* commits whose subject names the release
   pyld : BOOLEAN, swhModel : BOOLEAN,
   remote : {"unreachable", "empty", "append", "sanctioned", "diverged"},
   defects : SUBSET Defect]

ASSUME SituationAssumption ==
  /\ Releases \in Seq(Release)
  /\ Situation \subseteq [args : Invocation, repo : Repository]

VARIABLES
  args,    \* the command line
  repo,    \* the repository and the installation
  queue,   \* profiles that remain, the current one first
  stage,   \* 0, then the index of the family to check, then Done
  report,  \* the report under construction
  docs,    \* the reports that were written
  worst,   \* proc_exit: the highest exit code so far
  exit     \* the exit code of the process

vars == <<args, repo, queue, stage, report, docs, worst, exit>>

Running == -1
Done    == Len(Family) + 1

Report == [profile : Profile, ran : SUBSET Check, skipped : SUBSET Check,
           findings : SUBSET Finding]

NewReport(p) == [profile |-> p, ran |-> {}, skipped |-> {}, findings |-> {}]

-----------------------------------------------------------------------------
(* profiles.py *)

(* Mutated form of IsSkipped: legacy leaves out the addresses as well. *)
IsSkippedWidely(p, f) == p = "legacy" /\ f \in {"RB", "DV", "JC", "LG", "PI"}

IsSkipped(p, f) == p = "legacy" /\ f \in {"RB", "DV", "JC", "LG"}

IsEnforced(p, f) == f = "PC" \/ p # "legacy"

(* enabled(): the guard of a family, asked of the ID of its first check. *)
Wanted(c)     == c \notin args.skip /\ (args.only = {} \/ c \in args.only)
Enabled(p, c) == Wanted(c) /\ ~IsSkipped(p, c[1])

(* Mutated form of NotRun: the family is recorded instead of the check. *)
NotRunFamily(p, c) ==
  IF c \in args.skip \/ (Wanted(c) /\ IsSkipped(p, c[1])) THEN {<<c[1]>>} ELSE {}

(* What enabled() records when it says no: nothing for an unselected check. *)
NotRun(p, c) ==
  IF c \in args.skip \/ (Wanted(c) /\ IsSkipped(p, c[1])) THEN {c} ELSE {}

(* Mutated form of ExitCode: a WARN never counts. *)
ExitCodeLenient(p, findings) ==
  IF \E f \in findings : f.check[1] = "PC" /\ f.severity = "FAIL" THEN 4
  ELSE IF \E f \in findings : IsEnforced(p, f.check[1]) /\ f.severity = "FAIL" THEN 1
  ELSE 0

(* compute_exit_code(). *)
ExitCode(p, findings) ==
  LET bad == {"FAIL"} \cup (IF args.strictWarn THEN {"WARN"} ELSE {})
  IN IF \E f \in findings : f.check[1] = "PC" /\ f.severity = "FAIL" THEN 4
     ELSE IF \E f \in findings : IsEnforced(p, f.check[1]) /\ f.severity \in bad THEN 1
     ELSE 0

-----------------------------------------------------------------------------
(* The checks: what each family adds to the report. *)
Found(c, severity) == [check |-> c, severity |-> severity]
Failed(c) == Found(c, "FAIL")

(* The findings for the defects of these checks that show in these places. *)
Seen(cs, places) ==
  {Found(d.check, d.severity) :
     d \in {e \in repo.defects :
              /\ e.check \in cs
              /\ e.at \in places
              /\ e.at = "main" => repo.main
              /\ e.at = "source" => repo.source}}

Part(ran, skipped, findings) ==
  [ran |-> ran, skipped |-> skipped, findings |-> findings]

Preflight ==
  Part({<<"PC", 1>>}, {}, IF repo.shallow THEN {Failed(<<"PC", 1>>)} ELSE {})

(***************************************************************************)
(* _release_tags(): the tags a canonical CSV lists, else those the oracle  *)
(* leads to expect, else those there are.                                  *)
(***************************************************************************)
ReleaseTags ==
  IF repo.main /\ repo.csv = "canonical" /\ repo.listed # {} THEN repo.listed
  ELSE IF args.oracle # {} THEN args.oracle
  ELSE repo.tagged

(* _map_releases(): by tag, or by the one commit that names the release. *)
Located(r) == r \in repo.tagged \/ (repo.source /\ repo.named[r] = 1)

Mapped == {r \in args.oracle : Located(r)}

(* The releases that TF-3 compares with one before them. *)
Compared ==
  {Releases[n] : n \in {m \in 1..Len(Releases) :
                          /\ Releases[m] \in Mapped
                          /\ \E k \in 1..(m - 1) : Releases[k] \in Mapped}}

(* Mutated form of TreeFidelity: nothing to compare, nothing to report. *)
TreeFidelityQuiet ==
  IF Mapped = {}
    THEN Part({}, {}, {})
    ELSE Part(Checks("TF", {1, 2, 4, 5} \cup (IF Compared = {} THEN {} ELSE {3})),
              IF Mapped = args.oracle THEN {} ELSE {<<"TF", 1>>},
              Seen(Checks("TF", {1, 2, 4, 5}), Mapped) \cup Seen({<<"TF", 3>>}, Compared))

TreeFidelity ==
  IF Mapped = {}
    THEN Part({}, Checks("TF", 1..5), {})
    ELSE Part(Checks("TF", {1, 2, 4, 5} \cup (IF Compared = {} THEN {} ELSE {3})),
              IF Mapped = args.oracle THEN {} ELSE {<<"TF", 1>>},
              Seen(Checks("TF", {1, 2, 4, 5}), Mapped) \cup Seen({<<"TF", 3>>}, Compared))

BranchPurity(p) ==
  Part(Checks("BP", {1, 2, 3, 5}), {},
       (IF p # "strict-P" THEN {}
        ELSE IF ~repo.source THEN {Failed(<<"BP", 1>>)}
        ELSE Seen({<<"BP", 1>>}, {"source"}))
       \cup (IF p = "strict-P" THEN Seen({<<"BP", 2>>}, {"main"}) ELSE {})
       \cup Seen(Checks("BP", {2, 3}), {"source"})
       \cup (IF repo.source /\ ~(ReleaseTags \subseteq repo.tagged)
               THEN {Failed(<<"BP", 3>>)} ELSE {})
       \cup Seen({<<"BP", 5>>}, ReleaseTags \cap repo.tagged))

(* A dialect is tolerated in legacy, where an ambiguous date is a WARN. *)
CsvContract(p) ==
  LET ambiguous == Found(<<"CSV", 3>>, "WARN")
  IN CASE repo.main /\ repo.csv = "canonical" ->
            Part(Checks("CSV", 1..7), {},
                 Seen(Checks("CSV", 2..7), {"main"}) \ {ambiguous})
       [] repo.main /\ repo.csv = "dialect" /\ p = "legacy" ->
            Part({<<"CSV", 1>>}, {},
                 Seen({<<"CSV", 3>>}, {"main"}) \cap {ambiguous})
       [] OTHER -> Part({<<"CSV", 1>>}, {}, {Failed(<<"CSV", 1>>)})

(***************************************************************************)
(* CM-3 expands the JSON-LD as the indexer does.  Without pyld it warns;   *)
(* with a context that CM-2 refuses it is skipped.                         *)
(***************************************************************************)
CodeMeta(p) ==
  LET there    == /\ repo.main
                  /\ repo.codemeta \in {"metadata"} \cup
                       (IF p = "legacy" THEN {"root"} ELSE {})
      seen(ns) == Seen(Checks("CM", ns), {"main"})
      refused  == Failed(<<"CM", 2>>) \in seen({2})
  IN IF ~there \/ seen({1}) # {}
       THEN Part({<<"CM", 1>>}, {}, {Failed(<<"CM", 1>>)})
     ELSE IF repo.pyld /\ refused
       THEN Part(Checks("CM", {1, 2, 4}), {<<"CM", 3>>}, seen({2, 4}))
     ELSE Part(Checks("CM", 1..4), {},
               seen({2, 4}) \cup (IF repo.pyld THEN seen({3})
                                  ELSE {Found(<<"CM", 3>>, "WARN")}))

SizeLfs ==
  Part(Checks("SZ", {1, 2, 3, 5} \cup (IF args.browser THEN {4} ELSE {})), {},
       Seen(Checks("SZ", {1, 2, 3, 5}),
            {"main", "source"} \cup (ReleaseTags \cap repo.tagged))
       \cup (IF args.browser THEN Seen({<<"SZ", 4>>}, {"main"}) ELSE {}))

(* PI-1 reads the addresses from the columns of a canonical CSV only. *)
PersonalEmail ==
  Part({<<"PI", 1>>}, {},
       IF repo.csv = "canonical" THEN Seen({<<"PI", 1>>}, {"main"}) ELSE {})

(* Every commit of SourceCode and every release tag is in the journal. *)
JournalCoverage ==
  Part({<<"JC", 1>>}, {},
       Seen({<<"JC", 1>>}, {"source"} \cup (ReleaseTags \cap repo.tagged)))

(***************************************************************************)
(* The fetch runs with check=False, so that a remote that cannot be        *)
(* reached looks like one without a SourceCode branch.                     *)
(***************************************************************************)
Divergence ==
  LET dv == <<"DV", 1>>
  IN IF args.gate # "publish" \/ ~args.remote
       THEN Part({}, {dv}, {})
     ELSE IF ~repo.source \/ repo.remote \in {"unreachable", "empty"}
       THEN Part({dv}, {dv}, {})
     ELSE IF repo.remote = "append"
       THEN Part({dv}, {}, {})
     ELSE IF repo.swhModel /\ repo.remote = "sanctioned"
       THEN Part({dv}, {}, {Found(dv, "WARN")})
     ELSE Part({dv}, {}, {Failed(dv)})

Outcome(f, p) ==
  CASE f = "PC" -> Preflight
    [] f = "TF" -> TreeFidelity
    [] f = "BP" -> BranchPurity(p)
    [] f = "CSV" -> CsvContract(p)
    [] f = "CM" -> CodeMeta(p)
    [] f = "SZ" -> SizeLfs
    [] f = "PI" -> PersonalEmail
    [] f = "JC" -> JournalCoverage
    [] f = "DV" -> Divergence

-----------------------------------------------------------------------------
Init ==
  /\ \E s \in Situation : args = s.args /\ repo = s.repo
  /\ queue = IF args.profile = "both" THEN <<"strict-P", "strict-G">>
                                      ELSE <<args.profile>>
  /\ stage = 0
  /\ report = NewReport(Head(queue))
  /\ docs = {}
  /\ worst = 0
  /\ exit = Running

Refused == ~args.parses \/ (args.profile = "both" /\ args.report = "-")

End(code) == exit' = code

(* The manifests are loaded before the last usage error is found. *)
RefuseUsage ==
  /\ exit = Running /\ stage = 0
  /\ Refused
  /\ args.parses => ~args.malformed
  /\ End(2)
  /\ UNCHANGED <<args, repo, queue, stage, report, docs, worst>>

(* ... and outside of the try block: python itself exits with 1. *)
LoadCrashes ==
  /\ exit = Running /\ stage = 0
  /\ args.parses /\ args.malformed
  /\ End(1)
  /\ UNCHANGED <<args, repo, queue, stage, report, docs, worst>>

Begin ==
  /\ exit = Running /\ stage = 0
  /\ ~Refused /\ ~args.malformed
  /\ stage' = 1
  /\ UNCHANGED <<args, repo, queue, report, docs, worst, exit>>

With(part) ==
  [report EXCEPT !.ran = @ \cup part.ran, !.skipped = @ \cup part.skipped,
                 !.findings = @ \cup part.findings]

(* The family is not asked for, or its first check is deselected. *)
PassOver(f) ==
  /\ ~Enabled(report.profile, <<f, 1>>)
  /\ report' = With(Part({}, NotRun(report.profile, <<f, 1>>), {}))
  /\ stage' = stage + 1

Examine(f) ==
  /\ Enabled(report.profile, <<f, 1>>)
  /\ report' = With(Outcome(f, report.profile))
  /\ stage' = IF f = "PC" /\ repo.shallow THEN Done ELSE stage + 1

(* The next family of run_validation(). *)
Step ==
  /\ exit = Running /\ stage \in 1..Len(Family)
  /\ PassOver(Family[stage]) \/ Examine(Family[stage])
  /\ UNCHANGED <<args, repo, queue, docs, worst, exit>>

Document(r, aborted) ==
  [profile |-> r.profile, ran |-> r.ran, skipped |-> r.skipped,
   findings |-> r.findings, aborted |-> aborted,
   exit |-> IF aborted THEN 3 ELSE ExitCode(r.profile, r.findings)]

(* _emit() is called where nothing catches what open() raises. *)
EmitCrashes ==
  /\ exit = Running /\ stage = Done
  /\ args.report = "unwritable"
  /\ End(1)
  /\ UNCHANGED <<args, repo, queue, stage, report, docs, worst>>

(* An exception in run_validation(): a report without findings, exit 3. *)
Abort ==
  /\ exit = Running /\ stage \in 1..Len(Family)
  /\ IF args.report = "unwritable"
       THEN End(1) /\ UNCHANGED docs
       ELSE /\ End(3)
            /\ docs' = docs \cup {Document(NewReport(report.profile), TRUE)}
  /\ UNCHANGED <<args, repo, queue, stage, report, worst>>

(* Mutated form of Worst: the last profile decides. *)
WorstLast(code) == code

Worst(code) == IF code > worst THEN code ELSE worst

(* A report is written; the next profile begins, or the process ends. *)
Emit ==
  /\ exit = Running /\ stage = Done
  /\ args.report # "unwritable"
  /\ LET doc == Document(report, FALSE)
     IN /\ docs' = docs \cup {doc}
        /\ worst' = Worst(doc.exit)
  /\ queue' = Tail(queue)
  /\ IF Tail(queue) = <<>>
       THEN End(worst') /\ UNCHANGED <<stage, report>>
       ELSE /\ stage' = 1
            /\ report' = NewReport(Head(Tail(queue)))
            /\ UNCHANGED exit
  /\ UNCHANGED <<args, repo>>

Next == RefuseUsage \/ LoadCrashes \/ Begin \/ Step \/ EmitCrashes \/ Abort \/ Emit

Spec == Init /\ [][Next]_vars

-----------------------------------------------------------------------------
(* The type invariant of the driver. *)
TypeOK ==
  /\ args \in Invocation /\ repo \in Repository
  /\ queue \in Seq(Profile)
  /\ stage \in 0..Done
  /\ report \in Report
  /\ \A d \in docs : Document(d, d.aborted) = d
                    /\ NewReport(d.profile) \in Report
  /\ worst \in {0, 1, 4}
  /\ exit \in Running..4

Asked == IF args.profile = "both" THEN {"strict-P", "strict-G"} ELSE {args.profile}

Reported == \E d \in docs : d.aborted \/ {e.profile : e \in docs} = Asked

(***************************************************************************)
(* validator-report 4.1 and 4.3, "top-down; the first matching rule        *)
(* decides": the exit code of the process, over all reports it wrote.      *)
(***************************************************************************)
ContractExit ==
  LET worse(rank) == \E d \in docs : \E f \in d.findings :
        f.severity = rank /\ f.check[1] # "PC" /\ d.profile # "legacy"
  IN IF Refused THEN 2
     ELSE IF \E d \in docs : d.aborted THEN 3
     ELSE IF \E d \in docs : Failed(<<"PC", 1>>) \in d.findings THEN 4
     ELSE IF worse("FAIL") \/ (args.strictWarn /\ worse("WARN")) THEN 1
     ELSE 0

(***************************************************************************)
(* The process ends with the code that the contract assigns to what its    *)
(* reports say, for both profiles and through internal errors, whenever    *)
(* it could write them.                                                    *)
(***************************************************************************)
ExitIsContract ==
  exit # Running /\ ((Refused /\ ~args.malformed) \/ Reported)
    => exit = ContractExit

(***************************************************************************)
(* What a 0 is worth.  When the selection is the whole battery and every   *)
(* input is there to be examined, exit 0 under the strict-P model means    *)
(* that the repository has no failing defect of any kind and that the      *)
(* published history is not about to be replaced without a sanction.       *)
(***************************************************************************)
Complete ==
  /\ "strict-P" \in Asked
  /\ args.skip = {} /\ args.only = {}
  /\ args.gate = "publish" /\ args.remote
  /\ args.oracle = Release /\ repo.listed = Release
  /\ repo.pyld \/ args.strictWarn

Sound ==
  /\ ~repo.shallow
  /\ \A d \in repo.defects : d.severity # "FAIL"
  /\ repo.remote # "diverged"

ZeroCertifies ==
  exit = 0 /\ Complete /\ repo.remote # "unreachable" => Sound

(***************************************************************************)
(* The legacy audit enforces nothing, but it hides nothing either: what a  *)
(* strict-G run would report of the families that legacy runs, a legacy    *)
(* report has too, except that a dialect header and a codemeta.json in the *)
(* root are tolerated.                                                     *)
(***************************************************************************)
Tolerated == {Failed(<<"CSV", 1>>), Failed(<<"CM", 1>>)}

LegacyHidesNothing ==
  \A d \in docs :
    d.profile = "legacy" /\ ~d.aborted /\ d.exit # 4 =>
      \A f \in {"TF", "BP", "CSV", "CM", "SZ", "PI"} :
        Wanted(<<f, 1>>) =>
          Outcome(f, "strict-G").findings \ Tolerated \subseteq d.findings

(***************************************************************************)
(* validator-report 1.2, "skipped, reported, never silent", as far as it   *)
(* goes.  In a report that ends with 0, a check that the invocation asks   *)
(* for and gives its input is run, or skipped with a reason, exactly when  *)
(* the first check of its family is asked for too: --checks BP-3 alone     *)
(* runs nothing and says nothing.                                          *)
(***************************************************************************)
First(c) == <<c[1], 1>>

Supplied(c) ==
  /\ c = <<"SZ", 4>> => args.browser
  /\ c = <<"TF", 3>> => Mapped = {} \/ Compared # {}

SelectionIsAnswered ==
  \A d \in docs : d.exit = 0 /\ d.profile # "legacy" =>
    \A c \in Check : Wanted(c) /\ Supplied(c) =>
      (c \in d.ran \cup d.skipped <=> Wanted(First(c)))
=============================================================================
