--------------------------- MODULE ValidatorProofs ---------------------------
(***************************************************************************)
(* Proofs about Validator, for any releases, any set of situations and any *)
(* selection of checks.                                                    *)
(***************************************************************************)
EXTENDS Validator, SequenceTheorems, TLAPS

-----------------------------------------------------------------------------
(* Checks and findings *)

Families == {"PC", "TF", "BP", "CSV", "CM", "SZ", "PI", "JC", "DV"}

LEMMA FamilyIs ==
  /\ Len(Family) = 9 /\ Done = 10
  /\ Family[1] = "PC" /\ Family[2] = "TF" /\ Family[3] = "BP" /\ Family[4] = "CSV"
  /\ Family[5] = "CM" /\ Family[6] = "SZ" /\ Family[7] = "PI" /\ Family[8] = "JC"
  /\ Family[9] = "DV"
BY DEF Family, Done

LEMMA FamilyType == \A k \in 1..9 : Family[k] \in Families
BY FamilyIs DEF Families

LEMMA NumbersAre ==
  /\ DOMAIN Numbers = Families
  /\ Numbers["PC"] = {1} /\ Numbers["TF"] = 1..5 /\ Numbers["BP"] = {1, 2, 3, 5}
  /\ Numbers["CSV"] = 1..7 /\ Numbers["CM"] = 1..4 /\ Numbers["SZ"] = 1..5
  /\ Numbers["PI"] = {1} /\ Numbers["JC"] = {1} /\ Numbers["DV"] = {1}
BY DEF Numbers, Families

ChecksOf(f) == Checks(f, Numbers[f])

LEMMA CheckIs ==
  /\ \A f \in Families : ChecksOf(f) \subseteq Check /\ <<f, 1>> \in ChecksOf(f)
  /\ \A c \in Check : c[1] \in Families /\ c \in ChecksOf(c[1])
  /\ \A f \in Families : \A c \in ChecksOf(f) : c[1] = f
  /\ \A f \in Families : \A n \in Numbers[f] : <<f, n>> \in ChecksOf(f)
<1>1. \A f \in Families : 1 \in Numbers[f]
  BY NumbersAre DEF Families
<1>2. Check = UNION {ChecksOf(f) : f \in Families}
  BY NumbersAre DEF Check, ChecksOf
<1>3. \A f : \A c : c \in ChecksOf(f) <=> \E n \in Numbers[f] : c = <<f, n>>
  BY DEF ChecksOf, Checks
<1> QED
  BY <1>1, <1>2, <1>3

(* A finding of a check of this family. *)
FindingsOf(f) == {x \in Finding : x.check \in ChecksOf(f)}

LEMMA FoundType ==
  ASSUME NEW f \in Families, NEW c \in ChecksOf(f), NEW s \in Severity
  PROVE  Found(c, s) \in FindingsOf(f) /\ Found(c, s).check = c /\ Found(c, s).severity = s
BY CheckIs DEF Found, FindingsOf, Finding

Severities == {"FAIL", "WARN", "INFO"}

LEMMA DefectType ==
  \A d \in Defect : d.severity \in Severity
BY DEF Defect, Flaw, Severity

LEMMA SeenType ==
  ASSUME repo.defects \subseteq Defect, NEW f \in Families, NEW cs, cs \subseteq ChecksOf(f),
         NEW places
  PROVE  /\ Seen(cs, places) \subseteq FindingsOf(f)
         /\ \A x \in Seen(cs, places) : x.check \in cs
<1> SUFFICES ASSUME NEW x \in Seen(cs, places) PROVE x \in FindingsOf(f) /\ x.check \in cs
  OBVIOUS
<1>1. PICK d \in repo.defects : d.check \in cs /\ x = Found(d.check, d.severity)
  BY DEF Seen
<1>2. d.severity \in Severity
  BY DefectType
<1> QED
  BY <1>1, <1>2, FoundType

-----------------------------------------------------------------------------
(* What a family contributes to a report *)

OfFamily(f, part) ==
  /\ part.ran \subseteq ChecksOf(f) /\ part.skipped \subseteq ChecksOf(f)
  /\ part.findings \subseteq FindingsOf(f)

Share(f, p) ==
  IF Enabled(p, <<f, 1>>) THEN Outcome(f, p) ELSE Part({}, NotRun(p, <<f, 1>>), {})

LEMMA PartOf ==
  ASSUME NEW f \in Families, NEW ran, NEW skipped, NEW findings,
         ran \subseteq ChecksOf(f), skipped \subseteq ChecksOf(f),
         findings \subseteq FindingsOf(f)
  PROVE  OfFamily(f, Part(ran, skipped, findings))
BY DEF OfFamily, Part

LEMMA ChecksIn ==
  ASSUME NEW f \in Families, NEW ns, ns \subseteq Numbers[f]
  PROVE  Checks(f, ns) \subseteq ChecksOf(f)
BY DEF Checks, ChecksOf

LEMMA OneIn ==
  ASSUME NEW f \in Families, NEW n \in Numbers[f]
  PROVE  {<<f, n>>} \subseteq ChecksOf(f) /\ <<f, n>> \in ChecksOf(f)
BY CheckIs

LEMMA SeverityIs == "FAIL" \in Severity /\ "WARN" \in Severity /\ "INFO" \in Severity
BY DEF Severity

LEMMA FailedType ==
  ASSUME NEW f \in Families, NEW n \in Numbers[f]
  PROVE  Failed(<<f, n>>) \in FindingsOf(f)
BY CheckIs, FoundType, SeverityIs DEF Failed

LEMMA TreeFidelityOf ==
  ASSUME repo.defects \subseteq Defect
  PROVE  OfFamily("TF", TreeFidelity)
<1>1. "TF" \in Families /\ Numbers["TF"] = 1..5
  BY NumbersAre DEF Families
<1>2. /\ Checks("TF", 1..5) \subseteq ChecksOf("TF")
      /\ Checks("TF", {1, 2, 4, 5}) \subseteq ChecksOf("TF")
      /\ Checks("TF", {1, 2, 4, 5} \cup (IF Compared = {} THEN {} ELSE {3})) \subseteq ChecksOf("TF")
      /\ {<<"TF", 1>>} \subseteq ChecksOf("TF") /\ {<<"TF", 3>>} \subseteq ChecksOf("TF")
  BY <1>1, ChecksIn, OneIn
<1>3. /\ Seen(Checks("TF", {1, 2, 4, 5}), Mapped) \subseteq FindingsOf("TF")
      /\ Seen({<<"TF", 3>>}, Compared) \subseteq FindingsOf("TF")
  BY <1>1, <1>2, SeenType
<1> QED
  BY <1>1, <1>2, <1>3, PartOf DEF TreeFidelity

LEMMA BranchPurityOf ==
  ASSUME repo.defects \subseteq Defect, NEW p
  PROVE  OfFamily("BP", BranchPurity(p))
<1>1. "BP" \in Families /\ Numbers["BP"] = {1, 2, 3, 5}
  BY NumbersAre DEF Families
<1>2. /\ Checks("BP", {1, 2, 3, 5}) \subseteq ChecksOf("BP")
      /\ Checks("BP", {2, 3}) \subseteq ChecksOf("BP")
      /\ {<<"BP", 1>>} \subseteq ChecksOf("BP") /\ {<<"BP", 2>>} \subseteq ChecksOf("BP")
      /\ {<<"BP", 5>>} \subseteq ChecksOf("BP")
  BY <1>1, ChecksIn, OneIn
<1>3. /\ Seen({<<"BP", 1>>}, {"source"}) \subseteq FindingsOf("BP")
      /\ Seen({<<"BP", 2>>}, {"main"}) \subseteq FindingsOf("BP")
      /\ Seen(Checks("BP", {2, 3}), {"source"}) \subseteq FindingsOf("BP")
      /\ Seen({<<"BP", 5>>}, ReleaseTags \cap repo.tagged) \subseteq FindingsOf("BP")
  BY <1>1, <1>2, SeenType
<1>4. Failed(<<"BP", 1>>) \in FindingsOf("BP") /\ Failed(<<"BP", 3>>) \in FindingsOf("BP")
  BY <1>1, FailedType
<1> QED
  BY <1>1, <1>2, <1>3, <1>4, PartOf, ZenonT(60) DEF BranchPurity

LEMMA CsvContractOf ==
  ASSUME repo.defects \subseteq Defect, NEW p
  PROVE  OfFamily("CSV", CsvContract(p))
<1>1. "CSV" \in Families /\ Numbers["CSV"] = 1..7
  BY NumbersAre DEF Families
<1>2. /\ Checks("CSV", 1..7) \subseteq ChecksOf("CSV")
      /\ Checks("CSV", 2..7) \subseteq ChecksOf("CSV")
      /\ {<<"CSV", 1>>} \subseteq ChecksOf("CSV") /\ {<<"CSV", 3>>} \subseteq ChecksOf("CSV")
  BY <1>1, ChecksIn, OneIn
<1>3. /\ Seen(Checks("CSV", 2..7), {"main"}) \subseteq FindingsOf("CSV")
      /\ Seen({<<"CSV", 3>>}, {"main"}) \subseteq FindingsOf("CSV")
  BY <1>1, <1>2, SeenType
<1>4. Failed(<<"CSV", 1>>) \in FindingsOf("CSV")
  BY <1>1, FailedType
<1> DEFINE ambiguous == Found(<<"CSV", 3>>, "WARN")
<1>5. /\ OfFamily("CSV", Part(Checks("CSV", 1..7), {},
                              Seen(Checks("CSV", 2..7), {"main"}) \ {ambiguous}))
      /\ OfFamily("CSV", Part({<<"CSV", 1>>}, {},
                              Seen({<<"CSV", 3>>}, {"main"}) \cap {ambiguous}))
      /\ OfFamily("CSV", Part({<<"CSV", 1>>}, {}, {Failed(<<"CSV", 1>>)}))
  BY <1>1, <1>2, <1>3, <1>4, PartOf
<1> QED
  BY <1>5 DEF CsvContract

LEMMA CodeMetaOf ==
  ASSUME repo.defects \subseteq Defect, NEW p
  PROVE  OfFamily("CM", CodeMeta(p))
<1>1. "CM" \in Families /\ Numbers["CM"] = 1..4
  BY NumbersAre DEF Families
<1>2. /\ Checks("CM", 1..4) \subseteq ChecksOf("CM")
      /\ Checks("CM", {1, 2, 4}) \subseteq ChecksOf("CM")
      /\ Checks("CM", {2, 4}) \subseteq ChecksOf("CM") /\ Checks("CM", {3}) \subseteq ChecksOf("CM")
      /\ {<<"CM", 1>>} \subseteq ChecksOf("CM") /\ {<<"CM", 3>>} \subseteq ChecksOf("CM")
  BY <1>1, ChecksIn, OneIn
<1>3. /\ Seen(Checks("CM", {2, 4}), {"main"}) \subseteq FindingsOf("CM")
      /\ Seen(Checks("CM", {3}), {"main"}) \subseteq FindingsOf("CM")
  BY <1>1, <1>2, SeenType
<1>4. Failed(<<"CM", 1>>) \in FindingsOf("CM")
  BY <1>1, FailedType
<1>5. Found(<<"CM", 3>>, "WARN") \in FindingsOf("CM")
  BY <1>1, <1>2, FoundType, SeverityIs
<1> DEFINE seen(ns) == Seen(Checks("CM", ns), {"main"})
<1>6. /\ OfFamily("CM", Part({<<"CM", 1>>}, {}, {Failed(<<"CM", 1>>)}))
      /\ OfFamily("CM", Part(Checks("CM", {1, 2, 4}), {<<"CM", 3>>}, seen({2, 4})))
      /\ OfFamily("CM", Part(Checks("CM", 1..4), {}, seen({2, 4}) \cup seen({3})))
      /\ OfFamily("CM", Part(Checks("CM", 1..4), {},
                             seen({2, 4}) \cup {Found(<<"CM", 3>>, "WARN")}))
  BY <1>1, <1>2, <1>3, <1>4, <1>5, PartOf
<1> QED
  BY <1>6 DEF CodeMeta

LEMMA SizeLfsOf ==
  ASSUME repo.defects \subseteq Defect
  PROVE  OfFamily("SZ", SizeLfs)
<1>1. "SZ" \in Families /\ Numbers["SZ"] = 1..5
  BY NumbersAre DEF Families
<1>2. /\ Checks("SZ", {1, 2, 3, 5} \cup (IF args.browser THEN {4} ELSE {})) \subseteq ChecksOf("SZ")
      /\ Checks("SZ", {1, 2, 3, 5}) \subseteq ChecksOf("SZ")
      /\ {<<"SZ", 4>>} \subseteq ChecksOf("SZ")
  BY <1>1, ChecksIn, OneIn
<1>3. /\ Seen(Checks("SZ", {1, 2, 3, 5}),
              {"main", "source"} \cup (ReleaseTags \cap repo.tagged)) \subseteq FindingsOf("SZ")
      /\ Seen({<<"SZ", 4>>}, {"main"}) \subseteq FindingsOf("SZ")
  BY <1>1, <1>2, SeenType
<1> QED
  BY <1>1, <1>2, <1>3, PartOf DEF SizeLfs

LEMMA SmallFamilies ==
  ASSUME repo.defects \subseteq Defect
  PROVE  /\ OfFamily("PC", Preflight) /\ OfFamily("PI", PersonalEmail)
         /\ OfFamily("JC", JournalCoverage)
<1>1. /\ "PC" \in Families /\ "PI" \in Families /\ "JC" \in Families
      /\ 1 \in Numbers["PC"] /\ 1 \in Numbers["PI"] /\ 1 \in Numbers["JC"]
  BY NumbersAre DEF Families
<1>2. /\ {<<"PC", 1>>} \subseteq ChecksOf("PC") /\ {<<"PI", 1>>} \subseteq ChecksOf("PI")
      /\ {<<"JC", 1>>} \subseteq ChecksOf("JC") /\ Failed(<<"PC", 1>>) \in FindingsOf("PC")
  BY <1>1, OneIn, FailedType
<1>3. /\ Seen({<<"PI", 1>>}, {"main"}) \subseteq FindingsOf("PI")
      /\ Seen({<<"JC", 1>>}, {"source"} \cup (ReleaseTags \cap repo.tagged))
           \subseteq FindingsOf("JC")
  BY <1>1, <1>2, SeenType
<1>4. OfFamily("PC", Preflight)
  BY <1>1, <1>2, PartOf DEF Preflight
<1>5. OfFamily("PI", PersonalEmail)
  BY <1>1, <1>2, <1>3, PartOf DEF PersonalEmail
<1>6. OfFamily("JC", JournalCoverage)
  BY <1>1, <1>2, <1>3, PartOf DEF JournalCoverage
<1> QED
  BY <1>4, <1>5, <1>6

LEMMA DivergenceOf == OfFamily("DV", Divergence)
<1> DEFINE dv == <<"DV", 1>>
<1>1. "DV" \in Families /\ 1 \in Numbers["DV"]
  BY NumbersAre DEF Families
<1>2. {dv} \subseteq ChecksOf("DV") /\ Failed(dv) \in FindingsOf("DV")
  BY <1>1, OneIn, FailedType
<1>3. Found(dv, "WARN") \in FindingsOf("DV")
  BY <1>1, <1>2, FoundType, SeverityIs
<1>4. /\ OfFamily("DV", Part({}, {dv}, {})) /\ OfFamily("DV", Part({dv}, {dv}, {}))
      /\ OfFamily("DV", Part({dv}, {}, {})) /\ OfFamily("DV", Part({dv}, {}, {Failed(dv)}))
      /\ OfFamily("DV", Part({dv}, {}, {Found(dv, "WARN")}))
  BY <1>1, <1>2, <1>3, PartOf
<1> HIDE DEF dv
<1> DEFINE D == Divergence
<1>5. D \in {Part({}, {dv}, {}), Part({dv}, {dv}, {}), Part({dv}, {}, {}),
             Part({dv}, {}, {Failed(dv)}), Part({dv}, {}, {Found(dv, "WARN")})}
  BY DEF Divergence, dv
<1> QED
  BY <1>4, <1>5

LEMMA OutcomeOf ==
  ASSUME repo.defects \subseteq Defect, NEW f \in Families, NEW p
  PROVE  OfFamily(f, Outcome(f, p))
<1>1. /\ OfFamily("TF", TreeFidelity) /\ OfFamily("BP", BranchPurity(p))
      /\ OfFamily("CSV", CsvContract(p)) /\ OfFamily("CM", CodeMeta(p))
      /\ OfFamily("SZ", SizeLfs) /\ OfFamily("DV", Divergence)
  BY TreeFidelityOf, BranchPurityOf, CsvContractOf, CodeMetaOf, SizeLfsOf, DivergenceOf
<1>2. /\ OfFamily("PC", Preflight) /\ OfFamily("PI", PersonalEmail)
      /\ OfFamily("JC", JournalCoverage)
  BY SmallFamilies
<1> QED
  BY <1>1, <1>2 DEF Families, Outcome

LEMMA ShareOf ==
  ASSUME repo.defects \subseteq Defect, NEW f \in Families, NEW p
  PROVE  OfFamily(f, Share(f, p))
<1>1. NotRun(p, <<f, 1>>) \subseteq {<<f, 1>>}
  BY DEF NotRun
<1>2. NotRun(p, <<f, 1>>) \subseteq ChecksOf(f)
  BY <1>1, CheckIs
<1>3. OfFamily(f, Part({}, NotRun(p, <<f, 1>>), {}))
  BY <1>2, PartOf
<1> QED
  BY <1>3, OutcomeOf DEF Share

-----------------------------------------------------------------------------
(***************************************************************************)
(* The driver.  While it works on the family of a stage, the report holds  *)
(* the shares of the families before it; a finished report holds them all, *)
(* or that of PC alone when PC-1 ended it.                                 *)
(***************************************************************************)
Upto(r, n) ==
  /\ r.ran = UNION {Share(Family[k], r.profile).ran : k \in 1..n}
  /\ r.skipped = UNION {Share(Family[k], r.profile).skipped : k \in 1..n}
  /\ r.findings = UNION {Share(Family[k], r.profile).findings : k \in 1..n}

Cut(r) == repo.shallow /\ Enabled(r.profile, <<"PC", 1>>) /\ Upto(r, 1)

Finished(r) == Upto(r, 9) \/ Cut(r)

(* The report that a document gives. *)
Of(d) == [profile |-> d.profile, ran |-> d.ran, skipped |-> d.skipped,
          findings |-> d.findings]

DocOK(d) ==
  /\ d = Document(Of(d), d.aborted) /\ Of(d) \in Report /\ d.profile \in Asked
  /\ d.aborted \in BOOLEAN
  /\ IF d.aborted THEN Of(d) = NewReport(d.profile) ELSE Finished(Of(d))

Queues ==
  IF args.profile = "both"
    THEN {<<"strict-P", "strict-G">>, <<"strict-G">>, <<>>}
    ELSE {<<args.profile>>, <<>>}

WorkInv ==
  /\ args \in Invocation /\ repo \in Repository
  /\ queue \in Queues /\ stage \in 0..Done /\ report \in Report
  /\ exit = Running => queue # <<>> /\ report.profile = Head(queue)
  /\ stage = 0 => docs = {} /\ worst = 0 /\ report = NewReport(report.profile)
  /\ stage # 0 => ~Refused /\ ~args.malformed
  /\ stage \in 1..9 => Upto(report, stage - 1)
  /\ stage = Done => Finished(report)

DocsInv ==
  /\ \A d \in docs : DocOK(d)
  /\ worst \in {0, 1, 4} /\ \A d \in docs : ~d.aborted => d.exit <= worst
  /\ worst = 0 \/ \E d \in docs : ~d.aborted /\ d.exit = worst
  /\ docs # {} => args.report # "unwritable"
  /\ exit = Running => \A d \in docs : ~d.aborted
  /\ \A p \in Asked :
       \/ \E d \in docs : d.profile = p
       \/ \E k \in 1..Len(queue) : queue[k] = p

ExitInv ==
  \/ exit = Running
  \/ exit = 2 /\ Refused /\ docs = {}
  \/ exit = 1 /\ (args.malformed \/ ~Refused) /\ docs = {}
  \/ exit = 3 /\ ~Refused /\ \E d \in docs : d.aborted
  \/ exit = worst /\ ~Refused /\ queue = <<>> /\ \A d \in docs : ~d.aborted

VInv == WorkInv /\ DocsInv /\ ExitInv

(* The command line and the repository do not change, so what they decide  *)
(* does not.                                                               *)
LEMMA Constant1 ==
  ASSUME UNCHANGED <<args, repo>>
  PROVE  /\ \A cs, places : Seen(cs, places)' = Seen(cs, places)
         /\ ReleaseTags' = ReleaseTags /\ Mapped' = Mapped /\ Compared' = Compared
         /\ \A p, c : Enabled(p, c)' <=> Enabled(p, c)
         /\ \A p, c : NotRun(p, c)' = NotRun(p, c)
<1>1. args' = args /\ repo' = repo
  OBVIOUS
<1>2. \A cs, places : Seen(cs, places)' = Seen(cs, places)
  BY <1>1 DEF Seen
<1>3. ReleaseTags' = ReleaseTags
  BY <1>1 DEF ReleaseTags
<1>4. Mapped' = Mapped
  BY <1>1 DEF Mapped, Located
<1>5. Compared' = Compared
  BY <1>4 DEF Compared
<1>6. \A p, c : Enabled(p, c)' <=> Enabled(p, c)
  BY <1>1 DEF Enabled, Wanted
<1>7. \A p, c : NotRun(p, c)' = NotRun(p, c)
  BY <1>1 DEF NotRun, Wanted
<1> QED
  BY <1>2, <1>3, <1>4, <1>5, <1>6, <1>7

LEMMA Constant2 ==
  ASSUME UNCHANGED <<args, repo>>
  PROVE  \A f, p : Share(f, p)' = Share(f, p)
<1>1. /\ args' = args /\ repo' = repo
      /\ \A cs, places : Seen(cs, places)' = Seen(cs, places)
      /\ ReleaseTags' = ReleaseTags /\ Mapped' = Mapped /\ Compared' = Compared
  BY Constant1
<1>2. Preflight' = Preflight
  BY <1>1 DEF Preflight
<1>3. TreeFidelity' = TreeFidelity
  BY <1>1 DEF TreeFidelity
<1>4. \A p : BranchPurity(p)' = BranchPurity(p)
  BY <1>1 DEF BranchPurity
<1>5. \A p : CsvContract(p)' = CsvContract(p)
  BY <1>1 DEF CsvContract
<1>6. \A p : CodeMeta(p)' = CodeMeta(p)
  BY <1>1 DEF CodeMeta
<1>7. SizeLfs' = SizeLfs
  BY <1>1 DEF SizeLfs
<1>8. PersonalEmail' = PersonalEmail
  BY <1>1 DEF PersonalEmail
<1>9. JournalCoverage' = JournalCoverage
  BY <1>1 DEF JournalCoverage
<1>10. Divergence' = Divergence
  BY <1>1 DEF Divergence
<1>11. \A f, p : Outcome(f, p)' = Outcome(f, p)
  BY <1>2, <1>3, <1>4, <1>5, <1>6, <1>7, <1>8, <1>9, <1>10 DEF Outcome
<1> QED
  BY <1>11, Constant1 DEF Share

LEMMA Constant ==
  ASSUME UNCHANGED <<args, repo>>
  PROVE  /\ \A r, n : Upto(r, n)' <=> Upto(r, n)
         /\ \A r : Finished(r)' <=> Finished(r)
         /\ \A r, a : Document(r, a)' = Document(r, a)
         /\ \A d : DocOK(d)' <=> DocOK(d)
         /\ Asked' = Asked /\ Queues' = Queues /\ (Refused' <=> Refused)
<1>1. args' = args /\ repo' = repo
  OBVIOUS
<1>2. \A r, n : Upto(r, n)' <=> Upto(r, n)
  BY Constant2 DEF Upto
<1>3. \A r : Finished(r)' <=> Finished(r)
  BY <1>1, <1>2, Constant1 DEF Finished, Cut
<1>4. \A r, a : Document(r, a)' = Document(r, a)
  BY <1>1 DEF Document, ExitCode
<1>5. Asked' = Asked /\ Queues' = Queues /\ (Refused' <=> Refused)
  BY <1>1 DEF Asked, Queues, Refused
<1>6. \A d : DocOK(d)' <=> DocOK(d)
  BY <1>3, <1>4, <1>5 DEF DocOK
<1> QED
  BY <1>2, <1>3, <1>4, <1>5, <1>6

-----------------------------------------------------------------------------
(* The actions keep the invariant. *)

LEMMA ShareTypes ==
  ASSUME WorkInv, NEW k \in 1..9, NEW p
  PROVE  LET s == Share(Family[k], p)
         IN  s.ran \subseteq Check /\ s.skipped \subseteq Check /\ s.findings \subseteq Finding
<1>1. repo.defects \subseteq Defect
  BY DEF WorkInv, Repository
<1>2. Family[k] \in Families
  BY FamilyType
<1>3. OfFamily(Family[k], Share(Family[k], p))
  BY <1>1, <1>2, ShareOf
<1> QED
  BY <1>2, <1>3, CheckIs DEF OfFamily, FindingsOf

LEMMA ReportGrows ==
  ASSUME WorkInv, NEW n \in 1..9, Upto(report, n - 1)
  PROVE  LET r == With(Share(Family[n], report.profile))
         IN  r \in Report /\ r.profile = report.profile /\ Upto(r, n)
<1> DEFINE p == report.profile
           s == Share(Family[n], p)
           r == With(s)
<1>1. report \in Report /\ p \in Profile
  BY DEF WorkInv, Report
<1>2. s.ran \subseteq Check /\ s.skipped \subseteq Check /\ s.findings \subseteq Finding
  BY ShareTypes
<1> HIDE DEF s
<1>3. /\ r.profile = p /\ r.ran = report.ran \cup s.ran
      /\ r.skipped = report.skipped \cup s.skipped
      /\ r.findings = report.findings \cup s.findings /\ r \in Report
  BY <1>1, <1>2 DEF With, Report
<1> HIDE DEF r
<1>4. 1..n = (1..(n - 1)) \cup {n}
  OBVIOUS
<1>5. /\ UNION {Share(Family[k], p).ran : k \in 1..n}
           = (UNION {Share(Family[k], p).ran : k \in 1..(n - 1)}) \cup s.ran
      /\ UNION {Share(Family[k], p).skipped : k \in 1..n}
           = (UNION {Share(Family[k], p).skipped : k \in 1..(n - 1)}) \cup s.skipped
      /\ UNION {Share(Family[k], p).findings : k \in 1..n}
           = (UNION {Share(Family[k], p).findings : k \in 1..(n - 1)}) \cup s.findings
  BY <1>4 DEF s
<1>6. Upto(r, n)
  BY <1>3, <1>5 DEF Upto
<1> QED
  BY <1>1, <1>3, <1>6 DEF r, s

LEMMA Tails ==
  ASSUME NEW a, NEW b
  PROVE  /\ Tail(<<a>>) = <<>> /\ Len(<<a>>) = 1 /\ <<a>>[1] = a /\ Head(<<a>>) = a
         /\ Tail(<<a, b>>) = <<b>> /\ Len(<<a, b>>) = 2
         /\ <<a, b>>[1] = a /\ <<a, b>>[2] = b /\ Head(<<a, b>>) = a
<1> DEFINE S == {a, b}
<1>1. <<a>> \in Seq(S) /\ <<a, b>> \in Seq(S) /\ <<b>> \in Seq(S) /\ <<>> \in Seq(S)
  OBVIOUS
<1>2. /\ Len(<<a>>) = 1 /\ Len(<<a, b>>) = 2 /\ Len(<<b>>) = 1 /\ Len(<<>>) = 0
      /\ <<a>> # <<>> /\ <<a, b>> # <<>> /\ <<a, b>>[2] = b /\ <<b>>[1] = b
  OBVIOUS
<1>3. /\ Tail(<<a>>) \in Seq(S) /\ Len(Tail(<<a>>)) = 0
      /\ Tail(<<a, b>>) \in Seq(S) /\ Len(Tail(<<a, b>>)) = 1
      /\ Tail(<<a, b>>)[1] = <<a, b>>[2]
  BY <1>1, <1>2, HeadTailProperties
<1>4. Tail(<<a>>) = <<>> /\ Tail(<<a, b>>) = <<b>>
  <2>1. \A i \in 1..1 : Tail(<<a, b>>)[i] = <<b>>[i]
    BY <1>2, <1>3
  <2> QED
    BY <1>1, <1>2, <1>3, <2>1, SeqEqual, EmptySeq
<1> QED
  BY <1>2, <1>4

LEMMA QueueTypes ==
  ASSUME WorkInv, queue # <<>>
  PROVE  /\ Head(queue) \in Profile /\ Tail(queue) \in Queues /\ Head(queue) \in Asked
         /\ Len(queue) \in Nat /\ queue[1] = Head(queue)
         /\ \A k \in 1..Len(queue) :
              k = 1 \/ \E l \in 1..Len(Tail(queue)) : queue[k] = Tail(queue)[l]
<1>1. args.profile \in Profile \cup {"both"}
  BY DEF WorkInv, Invocation
<1>2. CASE args.profile = "both" /\ queue = <<"strict-P", "strict-G">>
  <2>1. /\ Head(queue) = "strict-P" /\ Tail(queue) = <<"strict-G">> /\ Len(queue) = 2
        /\ queue[1] = "strict-P" /\ queue[2] = Tail(queue)[1] /\ Len(Tail(queue)) = 1
    BY <1>2, Tails
  <2> QED
    BY <1>2, <2>1 DEF Queues, Asked, Profile
<1>3. CASE args.profile = "both" /\ queue = <<"strict-G">>
  <2>1. /\ Head(queue) = "strict-G" /\ Tail(queue) = <<>> /\ Len(queue) = 1
        /\ queue[1] = "strict-G"
    BY <1>3, Tails
  <2> QED
    BY <1>3, <2>1 DEF Queues, Asked, Profile
<1>4. CASE args.profile # "both"
  <2>1. queue = <<args.profile>>
    BY <1>4 DEF WorkInv, Queues
  <2>2. /\ Head(queue) = args.profile /\ Tail(queue) = <<>> /\ Len(queue) = 1
        /\ queue[1] = args.profile
    BY <2>1, Tails
  <2> QED
    BY <1>1, <1>4, <2>2 DEF Queues, Asked, Profile
<1> QED
  BY <1>2, <1>3, <1>4 DEF WorkInv, Queues

LEMMA UptoZero ==
  ASSUME NEW p
  PROVE  Upto(NewReport(p), 0)
BY DEF Upto, NewReport

LEMMA NewReportType ==
  ASSUME NEW p \in Profile
  PROVE  NewReport(p) \in Report /\ NewReport(p).profile = p
BY DEF NewReport, Report

LEMMA InitDriver == Init => VInv
<1> SUFFICES ASSUME Init PROVE VInv
  OBVIOUS
<1>1. PICK s \in Situation : args = s.args /\ repo = s.repo
  BY DEF Init
<1>2. args \in Invocation /\ repo \in Repository
  BY <1>1, SituationAssumption
<1>3. args.profile \in Profile \cup {"both"}
  BY <1>2 DEF Invocation
<1>4. /\ queue \in Queues /\ queue # <<>> /\ Head(queue) \in Profile
      /\ \A p \in Asked : \E k \in 1..Len(queue) : queue[k] = p
  BY <1>3 DEF Init, Queues, Profile, Asked
<1>5. report \in Report /\ report.profile = Head(queue) /\ report = NewReport(report.profile)
  BY <1>4, NewReportType DEF Init
<1> QED
  BY <1>2, <1>4, <1>5, FamilyIs DEF Init, VInv, WorkInv, DocsInv, ExitInv, Running

LEMMA StepKeeps ==
  ASSUME VInv, Step
  PROVE  VInv'
<1> DEFINE p == report.profile
           f == Family[stage]
<1>1. /\ exit = Running /\ stage \in 1..9 /\ UNCHANGED <<args, repo, queue, docs, worst, exit>>
      /\ PassOver(f) \/ Examine(f)
  BY FamilyIs DEF Step
<1>2. WorkInv /\ Upto(report, stage - 1)
  BY <1>1 DEF VInv, WorkInv
<1>3. report' = With(Share(f, p))
  BY <1>1 DEF PassOver, Examine, Share
<1>4. report' \in Report /\ report'.profile = p /\ Upto(report', stage)
  BY <1>1, <1>2, <1>3, ReportGrows
<1>5. stage' = stage + 1 \/ (stage' = Done /\ stage = 1 /\ repo.shallow /\ Enabled(p, <<"PC", 1>>))
  <2>1. f = "PC" => stage = 1
    BY <1>1, FamilyIs
  <2> QED
    BY <1>1, <2>1 DEF PassOver, Examine
<1>6. ASSUME stage' \in 1..9 PROVE stage' - 1 = stage /\ Upto(report', stage' - 1)
  <2>1. stage \in Int /\ stage' = stage + 1
    BY <1>1, <1>5, <1>6, FamilyIs
  <2>2. stage' - 1 = stage
    BY <2>1
  <2> QED
    BY <1>4, <2>2
<1>7. stage' = Done => Finished(report')
  <2>1. CASE stage' = stage + 1
    BY <1>1, <1>4, <2>1, FamilyIs DEF Finished
  <2>2. CASE stage' # stage + 1
    BY <1>4, <1>5, <2>2 DEF Finished, Cut
  <2> QED
    BY <2>1, <2>2
<1>8. stage' \in 0..Done /\ stage' # 0
  BY <1>1, <1>5, FamilyIs
<1>9. /\ \A r, n : Upto(r, n)' <=> Upto(r, n)
      /\ \A r : Finished(r)' <=> Finished(r)
      /\ \A d : DocOK(d)' <=> DocOK(d)
      /\ Asked' = Asked /\ Queues' = Queues /\ (Refused' <=> Refused)
  BY <1>1, Constant
<1>10. stage' \in 1..9 => Upto(report, stage - 1)'
  BY <1>6, <1>9
<1>11. stage' = Done => Finished(report)'
  BY <1>7, <1>9
<1>12. stage # 0
  BY <1>1
<1>13. WorkInv'
  BY <1>1, <1>2, <1>4, <1>8, <1>9, <1>10, <1>11, <1>12 DEF WorkInv
<1>14. DocsInv'
  BY <1>1, <1>9 DEF VInv, DocsInv
<1>15. ExitInv'
  BY <1>1 DEF ExitInv
<1> QED
  BY <1>13, <1>14, <1>15 DEF VInv

LEMMA EndsKeep ==
  ASSUME VInv, RefuseUsage \/ LoadCrashes \/ EmitCrashes
  PROVE  VInv'
<1>1. /\ exit = Running /\ UNCHANGED <<args, repo, queue, stage, report, docs, worst>>
      /\ exit' # Running
  BY DEF RefuseUsage, LoadCrashes, EmitCrashes, End, Running
<1>2. WorkInv /\ DocsInv
  BY DEF VInv
<1>3. /\ \A r, n : Upto(r, n)' <=> Upto(r, n)
      /\ \A r : Finished(r)' <=> Finished(r)
      /\ \A d : DocOK(d)' <=> DocOK(d)
      /\ Asked' = Asked /\ Queues' = Queues /\ (Refused' <=> Refused)
  BY <1>1, Constant
<1>4. WorkInv'
  <2>1. /\ stage' \in 1..9 => Upto(report, stage - 1)'
        /\ stage' = Done => Finished(report)'
    BY <1>1, <1>2, <1>3 DEF WorkInv
  <2> QED
    BY <1>1, <1>2, <1>3, <2>1 DEF WorkInv
<1>5. DocsInv'
  BY <1>1, <1>2, <1>3 DEF DocsInv
<1>6. ExitInv'
  <2>1. CASE RefuseUsage
    BY <1>1, <1>2, <1>3, <2>1 DEF RefuseUsage, End, WorkInv, ExitInv
  <2>2. CASE LoadCrashes
    BY <1>1, <1>2, <1>3, <2>2 DEF LoadCrashes, End, WorkInv, ExitInv
  <2>3. CASE EmitCrashes
    <3>1. /\ exit' = 1 /\ stage # 0 /\ docs = {}
      BY <1>2, <2>3, FamilyIs DEF EmitCrashes, End, DocsInv
    <3> QED
      BY <1>1, <1>2, <1>3, <3>1 DEF WorkInv, ExitInv
  <2> QED
    BY <2>1, <2>2, <2>3
<1> QED
  BY <1>4, <1>5, <1>6 DEF VInv

LEMMA BeginKeeps ==
  ASSUME VInv, Begin
  PROVE  VInv'
<1>1. /\ exit = Running /\ UNCHANGED <<args, repo, queue, report, docs, worst, exit>>
      /\ stage = 0 /\ stage' = 1 /\ ~Refused /\ ~args.malformed
  BY DEF Begin
<1>2. WorkInv /\ DocsInv
  BY DEF VInv
<1>3. /\ \A r, n : Upto(r, n)' <=> Upto(r, n)
      /\ \A d : DocOK(d)' <=> DocOK(d)
      /\ Asked' = Asked /\ Queues' = Queues /\ (Refused' <=> Refused)
  BY <1>1, Constant
<1>4. WorkInv'
  <2>1. Upto(report, 0)
    BY <1>1, <1>2, UptoZero DEF WorkInv
  <2>2. stage' - 1 = 0 /\ stage' \in 0..Done /\ stage' # 0 /\ stage' # Done
    BY <1>1, FamilyIs
  <2>3. Upto(report', stage' - 1)
    BY <1>1, <2>1, <2>2
  <2>4. Upto(report, stage - 1)'
    BY <1>3, <2>3
  <2> QED
    BY <1>1, <1>2, <1>3, <2>2, <2>4 DEF WorkInv
<1>5. DocsInv'
  BY <1>1, <1>2, <1>3 DEF DocsInv
<1> QED
  BY <1>1, <1>4, <1>5 DEF VInv, ExitInv

LEMMA DocumentIs ==
  ASSUME NEW r \in Report, NEW a \in BOOLEAN
  PROVE  LET d == Document(r, a)
         IN  /\ Of(d) = r /\ d.profile = r.profile /\ d.aborted = a /\ d = Document(Of(d), d.aborted)
             /\ d.findings = r.findings /\ d.ran = r.ran /\ d.skipped = r.skipped
             /\ d.exit = IF a THEN 3 ELSE ExitCode(r.profile, r.findings)
<1> DEFINE d == Document(r, a)
<1>1. /\ d.profile = r.profile /\ d.ran = r.ran /\ d.skipped = r.skipped
      /\ d.findings = r.findings /\ d.aborted = a
      /\ d.exit = IF a THEN 3 ELSE ExitCode(r.profile, r.findings)
  BY DEF Document
<1>2. r = [profile |-> r.profile, ran |-> r.ran, skipped |-> r.skipped, findings |-> r.findings]
  BY DEF Report
<1>3. Of(d) = r
  BY <1>1, <1>2 DEF Of
<1> QED
  BY <1>1, <1>3

LEMMA ExitCodeIs ==
  ASSUME NEW p, NEW findings
  PROVE  LET aborts == \E f \in findings : f.check[1] = "PC" /\ f.severity = "FAIL"
             counts == \E f \in findings : /\ IsEnforced(p, f.check[1])
                                           /\ \/ f.severity = "FAIL"
                                              \/ args.strictWarn /\ f.severity = "WARN"
         IN  ExitCode(p, findings) = IF aborts THEN 4 ELSE IF counts THEN 1 ELSE 0
<1> DEFINE aborts == \E f \in findings : f.check[1] = "PC" /\ f.severity = "FAIL"
           bad == {"FAIL"} \cup (IF args.strictWarn THEN {"WARN"} ELSE {})
           hits == \E f \in findings : IsEnforced(p, f.check[1]) /\ f.severity \in bad
           counts == \E f \in findings : /\ IsEnforced(p, f.check[1])
                                         /\ \/ f.severity = "FAIL"
                                            \/ args.strictWarn /\ f.severity = "WARN"
<1>1. \A s : s \in bad <=> (s = "FAIL" \/ (args.strictWarn /\ s = "WARN"))
  OBVIOUS
<1> HIDE DEF bad
<1>2. hits <=> counts
  BY <1>1
<1>3. ExitCode(p, findings) = IF aborts THEN 4 ELSE IF hits THEN 1 ELSE 0
  BY DEF ExitCode, bad
<1> HIDE DEF aborts, hits, counts
<1>4. ExitCode(p, findings) = IF aborts THEN 4 ELSE IF counts THEN 1 ELSE 0
  BY <1>2, <1>3
<1> QED
  BY <1>4 DEF aborts, counts

LEMMA ExitCodeType ==
  ASSUME NEW p, NEW findings
  PROVE  ExitCode(p, findings) \in {0, 1, 4}
BY ExitCodeIs

LEMMA AbortKeeps ==
  ASSUME VInv, Abort
  PROVE  VInv'
<1>1. /\ exit = Running /\ UNCHANGED <<args, repo, queue, stage, report, worst>>
      /\ stage \in 1..9
  BY FamilyIs DEF Abort
<1>2. WorkInv /\ DocsInv
  BY DEF VInv
<1>3. /\ \A r, n : Upto(r, n)' <=> Upto(r, n)
      /\ \A r : Finished(r)' <=> Finished(r)
      /\ \A d : DocOK(d)' <=> DocOK(d)
      /\ Asked' = Asked /\ Queues' = Queues /\ (Refused' <=> Refused)
  BY <1>1, Constant
<1>4. exit' # Running
  <2>1. exit' \in {1, 3}
    BY DEF Abort, End
  <2> QED
    BY <2>1 DEF Running
<1>5. WorkInv'
  <2>1. /\ stage' \in 1..9 => Upto(report, stage - 1)'
        /\ stage' = Done => Finished(report)'
    BY <1>1, <1>2, <1>3 DEF WorkInv
  <2> QED
    BY <1>1, <1>2, <1>3, <1>4, <2>1 DEF WorkInv
<1>6. ~Refused
  BY <1>1, <1>2 DEF WorkInv
<1>7. CASE args.report = "unwritable"
  <2>1. exit' = 1 /\ docs' = docs /\ docs = {}
    BY <1>2, <1>7 DEF Abort, End, DocsInv
  <2>2. DocsInv'
    BY <1>1, <1>2, <1>3, <1>4, <2>1 DEF DocsInv
  <2>3. ExitInv'
    BY <1>3, <1>6, <2>1 DEF ExitInv
  <2> QED
    BY <1>5, <2>2, <2>3 DEF VInv
<1>8. CASE args.report # "unwritable"
  <2> DEFINE p == report.profile
             r == NewReport(p)
             d == Document(r, TRUE)
  <2>1. exit' = 3 /\ docs' = docs \cup {d}
    BY <1>8 DEF Abort, End
  <2>2. queue # <<>> /\ p = Head(queue)
    BY <1>1, <1>2 DEF WorkInv
  <2>3. p \in Profile /\ p \in Asked
    BY <1>2, <2>2, QueueTypes
  <2>4. r \in Report /\ r.profile = p
    BY <2>3, NewReportType
  <2>5. /\ Of(d) = r /\ d.profile = p /\ d.aborted = TRUE /\ d = Document(Of(d), d.aborted)
    BY <2>4, DocumentIs
  <2>6. DocOK(d)
    BY <2>3, <2>4, <2>5 DEF DocOK
  <2> HIDE DEF d
  <2>7. \A e \in docs' : DocOK(e)'
    BY <1>2, <1>3, <2>1, <2>6 DEF DocsInv
  <2>8. DocsInv'
    BY <1>1, <1>2, <1>3, <1>4, <1>8, <2>1, <2>5, <2>7 DEF DocsInv
  <2>9. ExitInv'
    BY <1>3, <1>6, <2>1, <2>5 DEF ExitInv
  <2> QED
    BY <1>5, <2>8, <2>9 DEF VInv
<1> QED
  BY <1>7, <1>8

LEMMA EmitKeeps ==
  ASSUME VInv, Emit
  PROVE  VInv'
<1> DEFINE p == report.profile
           d == Document(report, FALSE)
           T == Tail(queue)
<1>1. /\ exit = Running /\ stage = Done /\ UNCHANGED <<args, repo>>
      /\ args.report # "unwritable"
      /\ docs' = docs \cup {d} /\ worst' = Worst(d.exit) /\ queue' = T
      /\ IF T = <<>> THEN exit' = worst' /\ UNCHANGED <<stage, report>>
                     ELSE stage' = 1 /\ report' = NewReport(Head(T)) /\ UNCHANGED exit
  BY DEF Emit, End
<1>2. WorkInv /\ DocsInv
  BY DEF VInv
<1>3. /\ \A r, n : Upto(r, n)' <=> Upto(r, n)
      /\ \A r : Finished(r)' <=> Finished(r)
      /\ \A e : DocOK(e)' <=> DocOK(e)
      /\ Asked' = Asked /\ Queues' = Queues /\ (Refused' <=> Refused)
  BY <1>1, Constant
<1>4. /\ queue # <<>> /\ p = Head(queue) /\ report \in Report /\ Finished(report)
      /\ ~Refused /\ ~args.malformed
  BY <1>1, <1>2, FamilyIs DEF WorkInv
<1>5. /\ p \in Profile /\ p \in Asked /\ T \in Queues /\ Len(queue) \in Nat
      /\ \A k \in 1..Len(queue) : queue[k] = p \/ \E l \in 1..Len(T) : queue[k] = T[l]
  BY <1>2, <1>4, QueueTypes
<1>6. /\ Of(d) = report /\ d.profile = p /\ d.aborted = FALSE
      /\ d = Document(Of(d), d.aborted) /\ d.exit = ExitCode(p, report.findings)
  BY <1>4, DocumentIs
<1>7. DocOK(d)
  BY <1>4, <1>5, <1>6 DEF DocOK
<1>8. d.exit \in {0, 1, 4}
  BY <1>6, ExitCodeType
<1> HIDE DEF d, T
<1>9. worst' \in {0, 1, 4} /\ worst <= worst' /\ d.exit <= worst'
      /\ (worst' = worst \/ worst' = d.exit)
  BY <1>1, <1>2, <1>8 DEF Worst, DocsInv
<1>10. \A e \in docs : e.aborted = FALSE /\ e.exit \in {0, 1, 4} /\ DocOK(e)
  <2> SUFFICES ASSUME NEW e \in docs PROVE e.aborted = FALSE /\ e.exit \in {0, 1, 4} /\ DocOK(e)
    OBVIOUS
  <2>1. e.aborted = FALSE /\ DocOK(e)
    BY <1>1, <1>2 DEF DocsInv, DocOK
  <2>2. e = Document(Of(e), FALSE) /\ Of(e) \in Report
    BY <2>1 DEF DocOK
  <2>3. e.exit = ExitCode(Of(e).profile, Of(e).findings)
    <3> DEFINE r == Of(e)
    <3>1. r \in Report
      BY <2>2
    <3> HIDE DEF r
    <3>2. Document(r, FALSE).exit = ExitCode(r.profile, r.findings)
      BY <3>1, DocumentIs
    <3> QED
      BY <2>2, <3>2 DEF r
  <2> QED
    BY <2>1, <2>3, ExitCodeType
<1>11. /\ \A e \in docs' : DocOK(e)' /\ e.aborted = FALSE /\ e.exit <= worst'
       /\ worst' = 0 \/ \E e \in docs' : ~e.aborted /\ e.exit = worst'
  BY <1>1, <1>2, <1>3, <1>6, <1>7, <1>9, <1>10 DEF DocsInv
<1>12. \A q \in Asked :
         (\E e \in docs' : e.profile = q) \/ (\E k \in 1..Len(queue') : queue'[k] = q)
  BY <1>1, <1>2, <1>5, <1>6 DEF DocsInv
<1>13. DocsInv'
  BY <1>1, <1>3, <1>9, <1>11, <1>12 DEF DocsInv
<1>14. CASE T = <<>>
  <2>1. /\ exit' = worst' /\ UNCHANGED <<stage, report>> /\ exit' # Running
    BY <1>1, <1>9, <1>14 DEF Running
  <2>2. Finished(report)'
    BY <1>3, <1>4, <2>1
  <2>3. WorkInv'
    BY <1>1, <1>2, <1>3, <1>4, <1>5, <2>1, <2>2, FamilyIs DEF WorkInv
  <2>4. ExitInv'
    BY <1>1, <1>3, <1>4, <1>11, <1>14, <2>1 DEF ExitInv
  <2> QED
    BY <1>13, <2>3, <2>4 DEF VInv
<1>15. CASE T # <<>>
  <2>1. stage' = 1 /\ report' = NewReport(Head(T)) /\ exit' = exit
    BY <1>1, <1>15
  <2>2. Head(T) \in Profile
    <3>1. args.profile \in Profile \cup {"both"}
      BY <1>2 DEF WorkInv, Invocation
    <3>2. CASE args.profile = "both"
      <4>1. T = <<"strict-P", "strict-G">> \/ T = <<"strict-G">>
        BY <1>5, <1>15, <3>2 DEF Queues
      <4> QED
        BY <4>1, Tails DEF Profile
    <3>3. CASE args.profile # "both"
      <4>1. T = <<args.profile>>
        BY <1>5, <1>15, <3>3 DEF Queues
      <4> QED
        BY <3>1, <3>3, <4>1, Tails DEF Profile
    <3> QED
      BY <3>2, <3>3
  <2>3. report' \in Report /\ report'.profile = Head(T) /\ report' = NewReport(report'.profile)
    BY <2>1, <2>2, NewReportType
  <2>4. Upto(report', 0) /\ stage' - 1 = 0
    BY <2>1, UptoZero
  <2>5. Upto(report, stage - 1)'
    BY <1>3, <2>4
  <2>6. stage' \in 0..Done /\ stage' # 0 /\ stage' # Done
    BY <2>1, FamilyIs
  <2>7. WorkInv'
    BY <1>1, <1>2, <1>3, <1>4, <1>5, <1>15, <2>3, <2>5, <2>6 DEF WorkInv
  <2>8. ExitInv'
    BY <1>1, <2>1 DEF ExitInv
  <2> QED
    BY <1>13, <2>7, <2>8 DEF VInv
<1> QED
  BY <1>14, <1>15

LEMMA DriverInvariant == Spec => []VInv
<1>1. Init => VInv
  BY InitDriver
<1>2. VInv /\ [Next]_vars => VInv'
  <2> SUFFICES ASSUME VInv, [Next]_vars PROVE VInv'
    OBVIOUS
  <2>1. CASE UNCHANGED vars
    <3>1. UNCHANGED <<args, repo>> /\ UNCHANGED <<queue, stage, report, docs, worst, exit>>
      BY <2>1 DEF vars
    <3>2. /\ \A r, n : Upto(r, n)' <=> Upto(r, n)
          /\ \A r : Finished(r)' <=> Finished(r)
          /\ \A e : DocOK(e)' <=> DocOK(e)
          /\ Asked' = Asked /\ Queues' = Queues /\ (Refused' <=> Refused)
      BY <3>1, Constant
    <3>3. /\ stage' \in 1..9 => Upto(report, stage - 1)'
          /\ stage' = Done => Finished(report)'
      BY <3>1, <3>2 DEF VInv, WorkInv
    <3>4. WorkInv'
      BY <3>1, <3>2, <3>3 DEF VInv, WorkInv
    <3>5. DocsInv'
      BY <3>1, <3>2 DEF VInv, DocsInv
    <3>6. ExitInv'
      BY <3>1, <3>2 DEF VInv, ExitInv
    <3> QED
      BY <3>4, <3>5, <3>6 DEF VInv
  <2> QED
    BY <2>1, EndsKeep, BeginKeeps, StepKeeps, AbortKeeps, EmitKeeps DEF Next
<1> QED
  BY <1>1, <1>2, PTL DEF Spec

-----------------------------------------------------------------------------
(* What a finished report says *)

(* The shares of the families add up. *)
LEMMA FinishedHas ==
  ASSUME NEW r, NEW n \in 1..9, Upto(r, n), NEW k \in 1..n
  PROVE  LET s == Share(Family[k], r.profile)
         IN  s.ran \subseteq r.ran /\ s.skipped \subseteq r.skipped /\ s.findings \subseteq r.findings
BY DEF Upto

LEMMA FinishedFrom ==
  ASSUME NEW r, Finished(r)
  PROVE  /\ \A x \in r.ran : \E k \in 1..9 : x \in Share(Family[k], r.profile).ran
         /\ \A x \in r.skipped : \E k \in 1..9 : x \in Share(Family[k], r.profile).skipped
         /\ \A x \in r.findings : \E k \in 1..9 : x \in Share(Family[k], r.profile).findings
<1>1. PICK n \in {1, 9} : Upto(r, n)
  BY DEF Finished, Cut
<1>2. 1..n \subseteq 1..9
  OBVIOUS
<1> QED
  BY <1>1, <1>2 DEF Upto

LEMMA PreflightShare ==
  ASSUME NEW p
  PROVE  /\ Share("PC", p).findings \subseteq {Failed(<<"PC", 1>>)}
         /\ repo.shallow /\ Enabled(p, <<"PC", 1>>) =>
              Failed(<<"PC", 1>>) \in Share("PC", p).findings
<1>1. Outcome("PC", p) = Preflight
  BY DEF Outcome
<1> QED
  BY <1>1 DEF Share, Preflight, Part

(* PC-1 is the only finding that aborts the battery. *)
LEMMA PreflightFinding ==
  ASSUME WorkInv, NEW r, Finished(r), NEW x \in r.findings, x.check[1] = "PC"
  PROVE  x = Failed(<<"PC", 1>>)
<1>1. PICK k \in 1..9 : x \in Share(Family[k], r.profile).findings
  BY FinishedFrom
<1>2. repo.defects \subseteq Defect /\ Family[k] \in Families
  BY FamilyType DEF WorkInv, Repository
<1>3. x.check \in ChecksOf(Family[k])
  BY <1>1, <1>2, ShareOf DEF OfFamily, FindingsOf
<1>4. Family[k] = "PC"
  BY <1>2, <1>3, CheckIs
<1> QED
  BY <1>1, <1>4, PreflightShare

LEMMA FailedIs ==
  ASSUME NEW c
  PROVE  Failed(c).check = c /\ Failed(c).severity = "FAIL"
BY DEF Failed, Found

(* What a document that was not aborted is worth. *)
LEMMA DocumentOf ==
  ASSUME VInv, NEW d \in docs, ~d.aborted
  PROVE  /\ Of(d) \in Report /\ Finished(Of(d)) /\ d.profile \in Asked /\ d.profile \in Profile
         /\ d.exit = ExitCode(d.profile, d.findings)
         /\ Of(d).profile = d.profile /\ Of(d).findings = d.findings
         /\ Of(d).ran = d.ran /\ Of(d).skipped = d.skipped
<1>1. DocOK(d)
  BY DEF VInv, DocsInv
<1>2. d = Document(Of(d), FALSE) /\ Of(d) \in Report /\ Finished(Of(d)) /\ d.profile \in Asked
  BY <1>1 DEF DocOK
<1>3. /\ Of(d).profile = d.profile /\ Of(d).findings = d.findings
      /\ Of(d).ran = d.ran /\ Of(d).skipped = d.skipped
  BY DEF Of
<1> DEFINE r == Of(d)
<1> HIDE DEF r
<1>4. r \in Report /\ d = Document(r, FALSE)
  BY <1>2 DEF r
<1>5. d.exit = ExitCode(r.profile, r.findings)
  BY <1>4, DocumentIs
<1>6. r.profile \in Profile
  BY <1>4 DEF Report
<1> QED
  BY <1>2, <1>3, <1>5, <1>6 DEF r

(* A report that does not end with 4 is one of the whole battery. *)
LEMMA NotCut ==
  ASSUME VInv, NEW d \in docs, ~d.aborted, d.exit # 4
  PROVE  Upto(Of(d), 9)
<1>1. /\ Finished(Of(d)) /\ d.exit = ExitCode(d.profile, d.findings)
      /\ Of(d).profile = d.profile /\ Of(d).findings = d.findings
  BY DocumentOf
<1>2. SUFFICES ASSUME Cut(Of(d)) PROVE FALSE
  BY <1>1 DEF Finished
<1>3. Failed(<<"PC", 1>>) \in Share("PC", d.profile).findings
  BY <1>1, <1>2, PreflightShare DEF Cut
<1>4. Share(Family[1], d.profile).findings \subseteq d.findings
  <2>1. Upto(Of(d), 1) /\ 1 \in 1..9 /\ 1 \in 1..1
    BY <1>2 DEF Cut
  <2> QED
    BY <1>1, <2>1, FinishedHas
<1>5. Failed(<<"PC", 1>>) \in d.findings
  BY <1>3, <1>4, FamilyIs
<1>6. Failed(<<"PC", 1>>).check[1] = "PC" /\ Failed(<<"PC", 1>>).severity = "FAIL"
  BY FailedIs
<1> QED
  BY <1>1, <1>5, <1>6, ExitCodeIs

(***************************************************************************)
(* The driver and its reports keep their types.                            *)
(***************************************************************************)
THEOREM TypeCorrect == Spec => []TypeOK
<1>1. VInv => TypeOK
  <2> SUFFICES ASSUME VInv PROVE TypeOK
    OBVIOUS
  <2>1. queue \in Seq(Profile)
    <3>1. args.profile \in Profile \cup {"both"}
      BY DEF VInv, WorkInv, Invocation
    <3>2. "strict-P" \in Profile /\ "strict-G" \in Profile
      BY DEF Profile
    <3>3. /\ <<>> \in Seq(Profile) /\ \A a \in Profile : <<a>> \in Seq(Profile)
          /\ \A a, b \in Profile : <<a, b>> \in Seq(Profile)
      OBVIOUS
    <3>4. queue \in Queues
      BY DEF VInv, WorkInv
    <3> QED
      BY <3>1, <3>2, <3>3, <3>4 DEF Queues
  <2>2. worst \in {0, 1, 4} /\ exit \in Running..4
    BY DEF VInv, DocsInv, ExitInv, Running
  <2>3. ASSUME NEW d \in docs
        PROVE  Document(d, d.aborted) = d /\ NewReport(d.profile) \in Report
    <3>1. DocOK(d)
      BY DEF VInv, DocsInv
    <3>2. Document(Of(d), d.aborted) = Document(d, d.aborted)
      BY DEF Document, Of
    <3>3. d.profile \in Profile
      BY <3>1 DEF DocOK, Of, Report
    <3> QED
      BY <3>1, <3>2, <3>3, NewReportType DEF DocOK
  <2> QED
    BY <2>1, <2>2, <2>3 DEF VInv, WorkInv, TypeOK
<1> QED
  BY <1>1, DriverInvariant, PTL

(***************************************************************************)
(* The exit code of the process is the one that the contract assigns to    *)
(* its reports, for every selection, profile and repository.               *)
(***************************************************************************)
THEOREM ExitCodeIsContract == Spec => []ExitIsContract
<1>1. ASSUME VInv, exit # Running, (Refused /\ ~args.malformed) \/ Reported
      PROVE  exit = ContractExit
  <2>1. CASE exit = 2 /\ Refused /\ docs = {}
    BY <2>1 DEF ContractExit
  <2>2. CASE exit = 1 /\ (args.malformed \/ ~Refused) /\ docs = {}
    BY <1>1, <2>2 DEF Reported
  <2>3. CASE exit = 3 /\ ~Refused /\ \E d \in docs : d.aborted
    BY <2>3 DEF ContractExit
  <2>4. CASE exit = worst /\ ~Refused /\ \A d \in docs : ~d.aborted
    <3> DEFINE pc1 == Failed(<<"PC", 1>>)
               worse(rank) == \E d \in docs : \E f \in d.findings :
                 f.severity = rank /\ f.check[1] # "PC" /\ d.profile # "legacy"
               aborts(d) == \E f \in d.findings : f.check[1] = "PC" /\ f.severity = "FAIL"
               counts(d) == \E f \in d.findings :
                              /\ IsEnforced(d.profile, f.check[1])
                              /\ \/ f.severity = "FAIL"
                                 \/ args.strictWarn /\ f.severity = "WARN"
    <3>1. pc1.check[1] = "PC" /\ pc1.severity = "FAIL"
      BY FailedIs
    <3>2. ASSUME NEW d \in docs
          PROVE  /\ d.exit = IF aborts(d) THEN 4 ELSE IF counts(d) THEN 1 ELSE 0
                 /\ \A f \in d.findings : f.check[1] = "PC" => f = pc1
      <4>1. /\ d.exit = ExitCode(d.profile, d.findings) /\ Finished(Of(d))
            /\ Of(d).findings = d.findings
        BY <1>1, <2>4, DocumentOf
      <4>2. \A f \in d.findings : f.check[1] = "PC" => f = pc1
        BY <1>1, <4>1, PreflightFinding DEF VInv
      <4> QED
        BY <4>1, <4>2, ExitCodeIs
    <3>3. \A d \in docs : aborts(d) <=> pc1 \in d.findings
      BY <3>1, <3>2
    <3>4. \A d \in docs : pc1 \notin d.findings =>
            (counts(d) <=> \E f \in d.findings :
                             /\ f.check[1] # "PC" /\ d.profile # "legacy"
                             /\ \/ f.severity = "FAIL"
                                \/ args.strictWarn /\ f.severity = "WARN")
      BY <3>2 DEF IsEnforced
    <3>5. /\ worst \in {0, 1, 4} /\ \A d \in docs : d.exit <= worst
          /\ worst = 0 \/ \E d \in docs : d.exit = worst
      BY <1>1, <2>4 DEF VInv, DocsInv
    <3>6. ContractExit = IF \E d \in docs : pc1 \in d.findings THEN 4
                         ELSE IF worse("FAIL") \/ (args.strictWarn /\ worse("WARN")) THEN 1 ELSE 0
      BY <2>4 DEF ContractExit
    <3> HIDE DEF pc1, aborts, counts
    <3>7. CASE \E d \in docs : pc1 \in d.findings
      BY <2>4, <3>2, <3>3, <3>5, <3>6, <3>7
    <3>8. CASE ~\E d \in docs : pc1 \in d.findings
      <4>1. (\E d \in docs : counts(d)) <=> worse("FAIL") \/ (args.strictWarn /\ worse("WARN"))
        BY <3>4, <3>8
      <4>2. \A d \in docs : d.exit = IF counts(d) THEN 1 ELSE 0
        BY <3>2, <3>3, <3>8
      <4> HIDE DEF worse
      <4>3. worst = IF \E d \in docs : counts(d) THEN 1 ELSE 0
        BY <3>5, <4>2
      <4> QED
        BY <2>4, <3>6, <3>8, <4>1, <4>3
    <3> QED
      BY <3>7, <3>8
  <2> QED
    BY <1>1, <2>1, <2>2, <2>3, <2>4 DEF VInv, ExitInv
<1>2. VInv => ExitIsContract
  BY <1>1 DEF ExitIsContract
<1> QED
  BY <1>2, DriverInvariant, PTL

-----------------------------------------------------------------------------
(* Legacy against strict-G *)

LEMMA LegacyShows ==
  ASSUME NEW f \in {"TF", "BP", "CSV", "CM", "SZ", "PI"}
  PROVE  Outcome(f, "strict-G").findings \ Tolerated \subseteq Outcome(f, "legacy").findings
<1>1. CASE f \in {"TF", "SZ", "PI"}
  BY <1>1 DEF Outcome
<1>2. CASE f = "BP"
  BY <1>2 DEF Outcome, BranchPurity
<1>3. CASE f = "CSV"
  <2>1. /\ Outcome(f, "strict-G") = CsvContract("strict-G")
        /\ Outcome(f, "legacy") = CsvContract("legacy")
    BY <1>3 DEF Outcome
  <2>2. CASE repo.main /\ repo.csv = "canonical"
    BY <2>1, <2>2 DEF CsvContract
  <2>3. CASE ~(repo.main /\ repo.csv = "canonical")
    <3>1. CsvContract("strict-G") = Part({<<"CSV", 1>>}, {}, {Failed(<<"CSV", 1>>)})
      BY <2>3 DEF CsvContract
    <3> QED
      BY <2>1, <3>1 DEF Part, Tolerated
  <2> QED
    BY <2>2, <2>3
<1>4. CASE f = "CM"
  <2>1. /\ Outcome(f, "strict-G") = CodeMeta("strict-G")
        /\ Outcome(f, "legacy") = CodeMeta("legacy")
    BY <1>4 DEF Outcome
  <2>2. CASE repo.main /\ repo.codemeta = "metadata"
    BY <2>1, <2>2 DEF CodeMeta
  <2>3. CASE ~(repo.main /\ repo.codemeta = "metadata")
    <3>1. CodeMeta("strict-G") = Part({<<"CM", 1>>}, {}, {Failed(<<"CM", 1>>)})
      BY <2>3 DEF CodeMeta
    <3> QED
      BY <2>1, <3>1 DEF Part, Tolerated
  <2> QED
    BY <2>2, <2>3
<1> QED
  BY <1>1, <1>2, <1>3, <1>4

LEMMA FamilyHas ==
  ASSUME NEW f \in Families
  PROVE  \E k \in 1..9 : Family[k] = f
BY FamilyIs DEF Families

(***************************************************************************)
(* A legacy report hides nothing that a strict-G one would say of the      *)
(* families it runs, but the two tolerated findings.                       *)
(***************************************************************************)
THEOREM LegacyAuditIsOpen == Spec => []LegacyHidesNothing
<1>1. ASSUME VInv, NEW d \in docs, d.profile = "legacy", ~d.aborted, d.exit # 4,
             NEW f \in {"TF", "BP", "CSV", "CM", "SZ", "PI"}, Wanted(<<f, 1>>)
      PROVE  Outcome(f, "strict-G").findings \ Tolerated \subseteq d.findings
  <2>1. PICK k \in 1..9 : Family[k] = f
    BY FamilyHas DEF Families
  <2>2. Upto(Of(d), 9) /\ Of(d).profile = "legacy" /\ Of(d).findings = d.findings
    BY <1>1, NotCut, DocumentOf
  <2>3. Share(f, "legacy").findings \subseteq d.findings
    BY <2>1, <2>2, FinishedHas
  <2>4. Enabled("legacy", <<f, 1>>)
    BY <1>1 DEF Enabled, IsSkipped
  <2>5. Share(f, "legacy") = Outcome(f, "legacy")
    BY <2>4 DEF Share
  <2> QED
    BY <2>3, <2>5, LegacyShows
<1>2. VInv => LegacyHidesNothing
  BY <1>1 DEF LegacyHidesNothing
<1> QED
  BY <1>2, DriverInvariant, PTL

-----------------------------------------------------------------------------
(* What a selection is answered with *)

(* The checks of a family that is run without a failure answer, each one.  *)
LEMMA FamilyAnswers ==
  ASSUME NEW f \in Families, NEW p, p # "legacy",
         \A x \in Outcome(f, p).findings : x.severity # "FAIL",
         NEW c \in ChecksOf(f), Supplied(c)
  PROVE  c \in Outcome(f, p).ran \cup Outcome(f, p).skipped
<1>1. PICK n \in Numbers[f] : c = <<f, n>>
  BY DEF ChecksOf, Checks
<1>2. \A ns : n \in ns => c \in Checks(f, ns)
  BY <1>1 DEF Checks
<1>3. \A ran, skipped, findings :
        /\ Part(ran, skipped, findings).ran = ran
        /\ Part(ran, skipped, findings).skipped = skipped
        /\ Part(ran, skipped, findings).findings = findings
  BY DEF Part
<1>4. \A b : Failed(b).severity = "FAIL"
  BY FailedIs
<1>5. CASE f \in {"PC", "PI", "JC"}
  <2>1. n = 1
    BY <1>5, NumbersAre
  <2>2. /\ Preflight.ran = {<<"PC", 1>>} /\ PersonalEmail.ran = {<<"PI", 1>>}
        /\ JournalCoverage.ran = {<<"JC", 1>>}
    BY <1>3 DEF Preflight, PersonalEmail, JournalCoverage
  <2>3. Outcome(f, p).ran = {<<f, 1>>}
    BY <1>5, <2>2 DEF Outcome
  <2> QED
    BY <1>1, <2>1, <2>3
<1>6. CASE f = "TF"
  <2>1. n \in 1..5 /\ (n = 3 => Mapped = {} \/ Compared # {})
    BY <1>1, <1>6, NumbersAre DEF Supplied
  <2>2. Outcome(f, p) = TreeFidelity
    BY <1>6 DEF Outcome
  <2>3. CASE Mapped = {}
    BY <1>2, <1>3, <1>6, <2>1, <2>2, <2>3 DEF TreeFidelity
  <2>4. CASE Mapped # {}
    <3>1. n \in {1, 2, 4, 5} \cup (IF Compared = {} THEN {} ELSE {3})
      BY <2>1, <2>4
    <3>2. TreeFidelity.ran = Checks("TF", {1, 2, 4, 5} \cup (IF Compared = {} THEN {} ELSE {3}))
      BY <1>3, <2>4 DEF TreeFidelity
    <3> QED
      BY <1>2, <1>6, <2>2, <3>1, <3>2
  <2> QED
    BY <2>3, <2>4
<1>7. CASE f = "BP"
  <2>1. Outcome(f, p).ran = Checks("BP", {1, 2, 3, 5})
    BY <1>3, <1>7 DEF Outcome, BranchPurity
  <2> QED
    BY <1>2, <1>7, <2>1, NumbersAre
<1>8. CASE f = "CSV"
  <2>1. Outcome(f, p) = CsvContract(p)
    BY <1>8 DEF Outcome
  <2>2. CASE repo.main /\ repo.csv = "canonical"
    <3>1. CsvContract(p).ran = Checks("CSV", 1..7)
      BY <1>3, <2>2 DEF CsvContract
    <3> QED
      BY <1>2, <1>8, <2>1, <3>1, NumbersAre
  <2>3. CASE ~(repo.main /\ repo.csv = "canonical")
    <3>1. CsvContract(p).findings = {Failed(<<"CSV", 1>>)}
      BY <1>3, <2>3 DEF CsvContract
    <3> QED
      BY <1>4, <2>1, <3>1
  <2> QED
    BY <2>2, <2>3
<1>9. CASE f = "CM"
  <2>1. Outcome(f, p) = CodeMeta(p) /\ n \in 1..4
    BY <1>9, NumbersAre DEF Outcome
  <2>2. \/ CodeMeta(p).findings = {Failed(<<"CM", 1>>)}
        \/ CodeMeta(p).ran = Checks("CM", {1, 2, 4}) /\ CodeMeta(p).skipped = {<<"CM", 3>>}
        \/ CodeMeta(p).ran = Checks("CM", 1..4)
    BY <1>3 DEF CodeMeta
  <2>3. CodeMeta(p).findings # {Failed(<<"CM", 1>>)}
    BY <1>4, <2>1
  <2>4. n \in {1, 2, 4} \/ n = 3
    BY <2>1
  <2> QED
    BY <1>1, <1>2, <1>9, <2>1, <2>2, <2>3, <2>4
<1>10. CASE f = "SZ"
  <2>1. n \in {1, 2, 3, 5} \cup (IF args.browser THEN {4} ELSE {})
    BY <1>1, <1>10, NumbersAre DEF Supplied
  <2>2. Outcome(f, p).ran = Checks("SZ", {1, 2, 3, 5} \cup (IF args.browser THEN {4} ELSE {}))
    BY <1>3, <1>10 DEF Outcome, SizeLfs
  <2> QED
    BY <1>2, <1>10, <2>1, <2>2
<1>11. CASE f = "DV"
  <2>1. n = 1
    BY <1>11, NumbersAre
  <2>2. Outcome(f, p) = Divergence
    BY <1>11 DEF Outcome
  <2>3. <<"DV", 1>> \in Divergence.ran \cup Divergence.skipped
    BY <1>3 DEF Divergence
  <2> QED
    BY <1>1, <1>11, <2>1, <2>2, <2>3
<1> QED
  BY <1>5, <1>6, <1>7, <1>8, <1>9, <1>10, <1>11 DEF Families

(* A report that ends with 0 counts no failure and, as asked, no warning.  *)
LEMMA ZeroCounts ==
  ASSUME VInv, NEW d \in docs, d.exit = 0
  PROVE  /\ ~d.aborted /\ Upto(Of(d), 9)
         /\ Of(d).profile = d.profile /\ Of(d).findings = d.findings
         /\ Of(d).ran = d.ran /\ Of(d).skipped = d.skipped
         /\ d.profile # "legacy" =>
              \A x \in d.findings : /\ x.severity # "FAIL"
                                    /\ args.strictWarn => x.severity # "WARN"
<1>1. ~d.aborted
  <2>1. DocOK(d)
    BY DEF VInv, DocsInv
  <2>2. SUFFICES ASSUME d.aborted PROVE FALSE
    OBVIOUS
  <2> DEFINE r == Of(d)
  <2> HIDE DEF r
  <2>3. d.aborted = TRUE /\ r \in Report /\ d = Document(r, TRUE)
    BY <2>1, <2>2 DEF DocOK, r
  <2>4. d.exit = 3
    BY <2>3, DocumentIs
  <2> QED
    BY <2>4
<1>2. /\ d.exit = ExitCode(d.profile, d.findings)
      /\ Of(d).profile = d.profile /\ Of(d).findings = d.findings
      /\ Of(d).ran = d.ran /\ Of(d).skipped = d.skipped
  BY <1>1, DocumentOf
<1>3. Upto(Of(d), 9)
  BY <1>1, NotCut
<1>4. ASSUME d.profile # "legacy", NEW x \in d.findings
      PROVE  x.severity # "FAIL" /\ (args.strictWarn => x.severity # "WARN")
  <2>1. IsEnforced(d.profile, x.check[1])
    BY <1>4 DEF IsEnforced
  <2> QED
    BY <1>2, <2>1, ExitCodeIs
<1> QED
  BY <1>1, <1>2, <1>3, <1>4

(***************************************************************************)
(* In a report that ends with 0, a check that is asked for and has its     *)
(* input is run or skipped with a reason exactly when the first check of   *)
(* its family is asked for too.                                            *)
(***************************************************************************)
THEOREM FirstCheckDecides == Spec => []SelectionIsAnswered
<1>1. ASSUME VInv, NEW d \in docs, d.exit = 0, d.profile # "legacy",
             NEW c \in Check, Wanted(c), Supplied(c)
      PROVE  c \in d.ran \cup d.skipped <=> Wanted(First(c))
  <2> DEFINE p == d.profile
             f == c[1]
             s == Share(f, p)
  <2>1. /\ Upto(Of(d), 9) /\ Of(d).profile = p /\ Of(d).findings = d.findings
        /\ Of(d).ran = d.ran /\ Of(d).skipped = d.skipped
        /\ \A x \in d.findings : x.severity # "FAIL"
    BY <1>1, ZeroCounts
  <2>2. f \in Families /\ c \in ChecksOf(f)
    BY CheckIs
  <2>3. PICK k \in 1..9 : Family[k] = f
    BY <2>2, FamilyHas
  <2>4. s.ran \subseteq d.ran /\ s.skipped \subseteq d.skipped /\ s.findings \subseteq d.findings
    BY <2>1, <2>3, FinishedHas
  <2>5. c \in d.ran \cup d.skipped => c \in s.ran \cup s.skipped
    <3> SUFFICES ASSUME c \in d.ran \cup d.skipped PROVE c \in s.ran \cup s.skipped
      OBVIOUS
    <3>1. Finished(Of(d))
      BY <2>1 DEF Finished
    <3>2. PICK l \in 1..9 : c \in Share(Family[l], p).ran \cup Share(Family[l], p).skipped
      BY <2>1, <3>1, FinishedFrom
    <3>3. repo.defects \subseteq Defect /\ Family[l] \in Families
      BY <1>1, FamilyType DEF VInv, WorkInv, Repository
    <3>4. c \in ChecksOf(Family[l])
      BY <3>2, <3>3, ShareOf DEF OfFamily
    <3>5. Family[l] = f
      BY <3>3, <3>4, CheckIs
    <3> QED
      BY <3>2, <3>5
  <2>6. ~IsSkipped(p, f) /\ (Enabled(p, <<f, 1>>) <=> Wanted(First(c)))
    BY <1>1 DEF IsSkipped, Enabled, First
  <2>7. CASE Wanted(First(c))
    <3>1. s = Outcome(f, p)
      BY <2>6, <2>7 DEF Share
    <3>2. \A x \in Outcome(f, p).findings : x.severity # "FAIL"
      BY <2>1, <2>4, <3>1
    <3>3. c \in s.ran \cup s.skipped
      BY <1>1, <2>2, <3>1, <3>2, FamilyAnswers
    <3> QED
      BY <2>4, <2>7, <3>3
  <2>8. CASE ~Wanted(First(c))
    <3>1. s = Part({}, NotRun(p, <<f, 1>>), {})
      BY <2>6, <2>8 DEF Share
    <3>2. s.ran \cup s.skipped \subseteq {<<f, 1>>}
      BY <3>1 DEF Part, NotRun
    <3> QED
      BY <1>1, <2>5, <2>8, <3>2 DEF First
  <2> QED
    BY <2>7, <2>8
<1>2. VInv => SelectionIsAnswered
  BY <1>1 DEF SelectionIsAnswered
<1> QED
  BY <1>2, DriverInvariant, PTL

-----------------------------------------------------------------------------
(* What a 0 is worth *)

(* A flaw that a check sees is a finding of its report. *)
LEMMA SeenIs ==
  ASSUME NEW d \in repo.defects, NEW cs, d.check \in cs, NEW places, d.at \in places,
         repo.main, repo.source
  PROVE  Found(d.check, d.severity) \in Seen(cs, places)
BY DEF Seen

(* A repository over which the whole battery, with every input, is silent. *)
Silent ==
  /\ \A f \in Families : \A x \in Outcome(f, "strict-P").findings :
       x.severity # "FAIL" /\ (args.strictWarn => x.severity # "WARN")
  /\ args.gate = "publish" /\ args.remote
  /\ args.oracle = Release /\ repo.listed = Release
  /\ repo.pyld \/ args.strictWarn

LEMMA OutcomesAre ==
  ASSUME Silent
  PROVE  \A x \in Preflight.findings \cup TreeFidelity.findings
                    \cup BranchPurity("strict-P").findings
                    \cup CsvContract("strict-P").findings \cup CodeMeta("strict-P").findings
                    \cup SizeLfs.findings \cup PersonalEmail.findings
                    \cup JournalCoverage.findings \cup Divergence.findings :
           x.severity # "FAIL" /\ (args.strictWarn => x.severity # "WARN")
<1>1. /\ Outcome("PC", "strict-P") = Preflight
      /\ Outcome("TF", "strict-P") = TreeFidelity
      /\ Outcome("BP", "strict-P") = BranchPurity("strict-P")
      /\ Outcome("CSV", "strict-P") = CsvContract("strict-P")
      /\ Outcome("CM", "strict-P") = CodeMeta("strict-P")
      /\ Outcome("SZ", "strict-P") = SizeLfs
      /\ Outcome("PI", "strict-P") = PersonalEmail
      /\ Outcome("JC", "strict-P") = JournalCoverage
      /\ Outcome("DV", "strict-P") = Divergence
  BY DEF Outcome
<1>2. ASSUME NEW f \in Families, NEW x \in Outcome(f, "strict-P").findings
      PROVE  x.severity # "FAIL" /\ (args.strictWarn => x.severity # "WARN")
  BY <1>2 DEF Silent
<1> QED
  BY <1>1, <1>2 DEF Families

(* Nothing is missing: main, source, the CSV and all the tags are there. *)
LEMMA SilentHasInputs ==
  ASSUME Silent
  PROVE  /\ ~repo.shallow /\ repo.main /\ repo.source /\ repo.csv = "canonical"
         /\ Release # {} => /\ ReleaseTags = Release /\ Release \subseteq repo.tagged
                            /\ Mapped = Release
<1>1. \A ran, skipped, findings : Part(ran, skipped, findings).findings = findings
  BY DEF Part
<1>2. \A c : Failed(c).severity = "FAIL"
  BY FailedIs
<1>3. ~repo.shallow
  <2>1. repo.shallow => Failed(<<"PC", 1>>) \in Preflight.findings
    BY <1>1 DEF Preflight
  <2> QED
    BY <1>2, <2>1, OutcomesAre
<1>4. repo.main /\ repo.csv = "canonical"
  <2>1. ~(repo.main /\ repo.csv = "canonical") =>
          CsvContract("strict-P").findings = {Failed(<<"CSV", 1>>)}
    BY <1>1 DEF CsvContract
  <2>2. Failed(<<"CSV", 1>>) \notin CsvContract("strict-P").findings
    BY <1>2, OutcomesAre
  <2> QED
    BY <2>1, <2>2
<1>5. repo.source
  <2>1. ~repo.source => Failed(<<"BP", 1>>) \in BranchPurity("strict-P").findings
    BY <1>1 DEF BranchPurity
  <2> QED
    BY <1>2, <2>1, OutcomesAre
<1>6. ASSUME Release # {}
      PROVE  ReleaseTags = Release /\ Release \subseteq repo.tagged /\ Mapped = Release
  <2>1. ReleaseTags = Release
    BY <1>4, <1>6 DEF ReleaseTags, Silent
  <2>2. ~(ReleaseTags \subseteq repo.tagged) =>
          Failed(<<"BP", 3>>) \in BranchPurity("strict-P").findings
    BY <1>1, <1>5 DEF BranchPurity
  <2>3. ReleaseTags \subseteq repo.tagged
    BY <1>2, <2>2, OutcomesAre
  <2>4. Mapped = Release
    BY <2>1, <2>3 DEF Mapped, Located, Silent
  <2> QED
    BY <2>1, <2>3, <2>4
<1> QED
  BY <1>3, <1>4, <1>5, <1>6

LEMMA FoundSeverity ==
  ASSUME NEW c, NEW s
  PROVE  Found(c, s).severity = s /\ Found(c, s).check = c
BY DEF Found

LEMMA FlawIs ==
  ASSUME NEW cs, NEW severities, NEW places, NEW d \in Flaw(cs, severities, places)
  PROVE  d.check \in cs /\ d.severity \in severities /\ d.at \in places
BY DEF Flaw

LEMMA SilentIsFlawless ==
  ASSUME Silent, repo.defects \subseteq Defect, NEW d \in repo.defects
  PROVE  d.severity # "FAIL"
<1> DEFINE x == Found(d.check, d.severity)
<1>1. /\ repo.main /\ repo.source /\ repo.csv = "canonical"
      /\ Release # {} => /\ ReleaseTags = Release /\ Release \subseteq repo.tagged
                         /\ Mapped = Release
  BY SilentHasInputs
<1>2. x.severity = d.severity
  BY FoundSeverity
<1> HIDE DEF x
<1>3. \A ran, skipped, findings : Part(ran, skipped, findings).findings = findings
  BY DEF Part
<1>4. \A r \in Release : r \in ReleaseTags \cap repo.tagged /\ Mapped = Release
  BY <1>1
<1>5. ASSUME NEW cs, NEW places, d.check \in cs, d.at \in places
      PROVE  x \in Seen(cs, places)
  BY <1>1, <1>5, SeenIs DEF x
<1>6. CASE d \in Flaw(Checks("TF", {1, 2, 4, 5}) \cup {<<"BP", 5>>}, Severity, Release)
  <2>1. d.check \in Checks("TF", {1, 2, 4, 5}) \cup {<<"BP", 5>>} /\ d.at \in Release
    BY <1>6, FlawIs
  <2>2. Mapped = Release /\ Mapped # {} /\ d.at \in ReleaseTags \cap repo.tagged
    BY <1>4, <2>1
  <2>3. CASE d.check = <<"BP", 5>>
    <3> DEFINE onTags == Seen({<<"BP", 5>>}, ReleaseTags \cap repo.tagged)
    <3>1. x \in onTags
      BY <1>5, <2>2, <2>3
    <3> DEFINE ran == Checks("BP", {1, 2, 3, 5})
               elsewhere == (IF "strict-P" # "strict-P" THEN {}
                             ELSE IF ~repo.source THEN {Failed(<<"BP", 1>>)}
                             ELSE Seen({<<"BP", 1>>}, {"source"}))
                 \cup (IF "strict-P" = "strict-P" THEN Seen({<<"BP", 2>>}, {"main"}) ELSE {})
                 \cup Seen(Checks("BP", {2, 3}), {"source"})
                 \cup (IF repo.source /\ ~(ReleaseTags \subseteq repo.tagged)
                         THEN {Failed(<<"BP", 3>>)} ELSE {})
    <3>2. BranchPurity("strict-P") = Part(ran, {}, elsewhere \cup onTags)
      BY DEF BranchPurity
    <3>3. x \in BranchPurity("strict-P").findings
      <4> HIDE DEF onTags, ran, elsewhere
      <4> QED  BY <1>3, <3>1, <3>2
    <3> QED
      BY <1>2, <3>3, OutcomesAre
  <2>4. CASE d.check \in Checks("TF", {1, 2, 4, 5})
    <3>1. x \in Seen(Checks("TF", {1, 2, 4, 5}), Mapped)
      BY <1>5, <2>1, <2>2, <2>4
    <3>2. x \in TreeFidelity.findings
      BY <1>3, <2>2, <3>1 DEF TreeFidelity
    <3> QED
      BY <1>2, <3>2, OutcomesAre
  <2> QED
    BY <2>1, <2>3, <2>4
<1>7. CASE d \in Flaw({<<"TF", 3>>}, Severity, {Releases[n] : n \in 2..Len(Releases)})
  <2>1. d.check = <<"TF", 3>> /\ d.at \in {Releases[n] : n \in 2..Len(Releases)}
    BY <1>7, FlawIs
  <2>2. PICK n \in 2..Len(Releases) : d.at = Releases[n]
    BY <2>1
  <2>3. Releases \in Seq(Release) /\ Len(Releases) \in Nat
    BY SituationAssumption
  <2>4. n \in 1..Len(Releases) /\ 1 \in 1..Len(Releases) /\ 1 \in 1..(n - 1)
    BY <2>3
  <2>5. Releases[n] \in Release /\ Releases[1] \in Release
    BY <2>3, <2>4, ElementOfSeq
  <2>6. Mapped = Release /\ Mapped # {}
    BY <1>4, <2>5
  <2>7. d.at \in Compared
    BY <2>2, <2>4, <2>5, <2>6 DEF Compared
  <2>8. x \in Seen({<<"TF", 3>>}, Compared)
    BY <1>5, <2>1, <2>7
  <2>9. x \in TreeFidelity.findings
    BY <1>3, <2>6, <2>8 DEF TreeFidelity
  <2> QED
    BY <1>2, <2>9, OutcomesAre
<1>8. CASE d \in Flaw(Checks("BP", {1, 2, 3}), Severity, {"source"})
  <2>1. d.check \in Checks("BP", {1, 2, 3}) /\ d.at = "source"
    BY <1>8, FlawIs
  <2>2. d.check = <<"BP", 1>> \/ d.check \in Checks("BP", {2, 3})
    BY <2>1 DEF Checks
  <2>3. x \in Seen({<<"BP", 1>>}, {"source"}) \cup Seen(Checks("BP", {2, 3}), {"source"})
    BY <1>5, <2>1, <2>2
  <2>4. x \in BranchPurity("strict-P").findings
    BY <1>1, <1>3, <2>3 DEF BranchPurity
  <2> QED
    BY <1>2, <2>4, OutcomesAre
<1>9. CASE d \in Flaw(Checks("CSV", 2..7) \cup Checks("CM", 1..4) \cup {<<"BP", 2>>, <<"PI", 1>>},
                      Severity, {"main"})
  <2>1. /\ d.at = "main"
        /\ \/ d.check \in Checks("CSV", 2..7) \/ d.check \in Checks("CM", 1..4)
           \/ d.check = <<"BP", 2>> \/ d.check = <<"PI", 1>>
    BY <1>9, FlawIs
  <2>2. CASE d.check \in Checks("CSV", 2..7)
    <3>1. x \in Seen(Checks("CSV", 2..7), {"main"})
      BY <1>5, <2>1, <2>2
    <3>2. x \in CsvContract("strict-P").findings \/ x = Found(<<"CSV", 3>>, "WARN")
      BY <1>1, <1>3, <3>1 DEF CsvContract
    <3>3. x = Found(<<"CSV", 3>>, "WARN") => x.severity = "WARN"
      BY FoundSeverity
    <3> QED
      BY <1>2, <3>2, <3>3, OutcomesAre
  <2>3. CASE d.check \in Checks("CM", 1..4)
    <3> DEFINE seen(ns) == Seen(Checks("CM", ns), {"main"})
               there == repo.main /\ repo.codemeta = "metadata"
               refused == Failed(<<"CM", 2>>) \in seen({2})
    <3>1. PICK n \in 1..4 : d.check = <<"CM", n>>
      BY <2>3 DEF Checks
    <3>2. \A ns : n \in ns => x \in seen(ns)
      <4>1. \A ns : n \in ns => d.check \in Checks("CM", ns)
        BY <3>1 DEF Checks
      <4> QED
        BY <1>5, <2>1, <4>1
    <3>3. seen({2}) \subseteq seen({2, 4})
      <4>1. Checks("CM", {2}) \subseteq Checks("CM", {2, 4})
        BY DEF Checks
      <4> QED
        BY <4>1 DEF Seen
    <3>4. /\ ~there \/ seen({1}) # {} =>
               Failed(<<"CM", 1>>) \in CodeMeta("strict-P").findings
          /\ ~(~there \/ seen({1}) # {}) /\ repo.pyld /\ refused =>
               CodeMeta("strict-P").findings = seen({2, 4})
          /\ ~(~there \/ seen({1}) # {}) /\ ~(repo.pyld /\ refused) =>
               CodeMeta("strict-P").findings =
                 seen({2, 4}) \cup (IF repo.pyld THEN seen({3})
                                    ELSE {Found(<<"CM", 3>>, "WARN")})
      BY <1>3 DEF CodeMeta
    <3>5. /\ Failed(<<"CM", 1>>).severity = "FAIL" /\ Failed(<<"CM", 2>>).severity = "FAIL"
          /\ Found(<<"CM", 3>>, "WARN").severity = "WARN"
      BY FailedIs, FoundSeverity
    <3> HIDE DEF seen, there
    <3>6. there /\ seen({1}) = {}
      BY <3>4, <3>5, OutcomesAre
    <3>7. ~(repo.pyld /\ refused)
      BY <3>3, <3>4, <3>5, <3>6, OutcomesAre
    <3> HIDE DEF refused
    <3>8. repo.pyld
      <4>1. ~repo.pyld => Found(<<"CM", 3>>, "WARN") \in CodeMeta("strict-P").findings
        BY <3>4, <3>6, <3>7
      <4> QED
        BY <3>5, <4>1, OutcomesAre DEF Silent
    <3>9. CodeMeta("strict-P").findings = seen({2, 4}) \cup seen({3})
      BY <3>4, <3>6, <3>7, <3>8
    <3>10. n # 1
      BY <3>2, <3>6
    <3>11. x \in seen({2, 4}) \cup seen({3})
      BY <3>2, <3>10
    <3> QED
      BY <1>2, <3>9, <3>11, OutcomesAre
  <2>4. CASE d.check = <<"BP", 2>>
    <3>1. x \in Seen({<<"BP", 2>>}, {"main"})
      BY <1>5, <2>1, <2>4
    <3>2. x \in BranchPurity("strict-P").findings
      BY <1>3, <3>1 DEF BranchPurity
    <3> QED
      BY <1>2, <3>2, OutcomesAre
  <2>5. CASE d.check = <<"PI", 1>>
    <3>1. x \in Seen({<<"PI", 1>>}, {"main"})
      BY <1>5, <2>1, <2>5
    <3>2. x \in PersonalEmail.findings
      BY <1>1, <1>3, <3>1 DEF PersonalEmail
    <3> QED
      BY <1>2, <3>2, OutcomesAre
  <2> QED
    BY <2>1, <2>2, <2>3, <2>4, <2>5
<1>10. CASE d \in Flaw({<<"SZ", 4>>}, {"WARN"}, {"main"})
  BY <1>10, FlawIs
<1>11. CASE d \in Flaw(Checks("SZ", {1, 2, 3, 5}), Severity, {"main", "source"} \cup Release)
  <2>1. d.check \in Checks("SZ", {1, 2, 3, 5}) /\ d.at \in {"main", "source"} \cup Release
    BY <1>11, FlawIs
  <2>2. d.at \in {"main", "source"} \cup (ReleaseTags \cap repo.tagged)
    BY <1>4, <2>1
  <2> DEFINE sizes == Seen(Checks("SZ", {1, 2, 3, 5}),
                           {"main", "source"} \cup (ReleaseTags \cap repo.tagged))
  <2>3. x \in sizes
    BY <1>5, <2>1, <2>2
  <2> DEFINE ran == Checks("SZ", {1, 2, 3, 5} \cup (IF args.browser THEN {4} ELSE {}))
             large == IF args.browser THEN Seen({<<"SZ", 4>>}, {"main"}) ELSE {}
  <2>4. SizeLfs = Part(ran, {}, sizes \cup large)
    BY DEF SizeLfs
  <2>5. x \in SizeLfs.findings
    <3> HIDE DEF sizes, ran, large
    <3> QED  BY <1>3, <2>3, <2>4
  <2> QED
    BY <1>2, <2>5, OutcomesAre
<1>12. CASE d \in Flaw({<<"JC", 1>>}, Severity, {"source"} \cup Release)
  <2>1. d.check \in {<<"JC", 1>>} /\ d.at \in {"source"} \cup Release
    BY <1>12, FlawIs
  <2>2. d.at \in {"source"} \cup (ReleaseTags \cap repo.tagged)
    BY <1>4, <2>1
  <2>3. x \in Seen({<<"JC", 1>>}, {"source"} \cup (ReleaseTags \cap repo.tagged))
    BY <1>5, <2>1, <2>2
  <2>4. x \in JournalCoverage.findings
    BY <1>3, <2>3 DEF JournalCoverage
  <2> QED
    BY <1>2, <2>4, OutcomesAre
<1> QED
  BY <1>6, <1>7, <1>8, <1>9, <1>10, <1>11, <1>12 DEF Defect

(***************************************************************************)
(* A 0 for the whole strict-P battery with every input means that the      *)
(* repository has no failing flaw of any kind, anywhere a check looks, and *)
(* that the published history is not about to be replaced.                 *)
(***************************************************************************)
THEOREM ZeroIsSound == Spec => []ZeroCertifies
<1>1. ASSUME VInv, exit = 0, Complete, repo.remote # "unreachable"
      PROVE  Sound
  <2>1. worst = 0 /\ queue = <<>> /\ \A d \in docs : ~d.aborted
    BY <1>1 DEF VInv, ExitInv, Running
  <2>2. PICK d \in docs : d.profile = "strict-P"
    BY <1>1, <2>1 DEF VInv, DocsInv, Complete
  <2>3. d.exit <= 0
    BY <1>1, <2>1 DEF VInv, DocsInv
  <2>4. d.exit \in {0, 1, 4}
    BY <1>1, <2>1, DocumentOf, ExitCodeType
  <2>5. d.exit = 0
    BY <2>3, <2>4
  <2>6. /\ Upto(Of(d), 9) /\ Of(d).profile = "strict-P" /\ Of(d).findings = d.findings
        /\ \A x \in d.findings : x.severity # "FAIL" /\ (args.strictWarn => x.severity # "WARN")
    BY <1>1, <2>2, <2>5, ZeroCounts
  <2>7. ASSUME NEW f \in Families, NEW x \in Outcome(f, "strict-P").findings
        PROVE  x.severity # "FAIL" /\ (args.strictWarn => x.severity # "WARN")
    <3>1. PICK k \in 1..9 : Family[k] = f
      BY FamilyHas
    <3>2. Share(f, "strict-P").findings \subseteq d.findings
      BY <2>6, <3>1, FinishedHas
    <3>3. Share(f, "strict-P") = Outcome(f, "strict-P")
      BY <1>1 DEF Share, Enabled, Wanted, IsSkipped, Complete
    <3> QED
      BY <2>6, <3>2, <3>3
  <2>8. Silent
    BY <1>1, <2>7 DEF Silent, Complete
  <2>9. repo.defects \subseteq Defect
    BY <1>1 DEF VInv, WorkInv, Repository
  <2>10. ~repo.shallow /\ repo.source
    BY <2>8, SilentHasInputs
  <2>11. repo.remote # "diverged"
    <3>1. repo.remote = "diverged" => Divergence.findings = {Failed(<<"DV", 1>>)}
      BY <1>1, <2>10 DEF Divergence, Complete, Part
    <3> QED
      BY <2>8, <3>1, OutcomesAre, FailedIs
  <2>12. \A e \in repo.defects : e.severity # "FAIL"
    BY <2>8, <2>9, SilentIsFlawless
  <2> QED
    BY <2>10, <2>11, <2>12 DEF Sound
<1>2. VInv => ZeroCertifies
  BY <1>1 DEF ZeroCertifies
<1> QED
  BY <1>2, DriverInvariant, PTL
=============================================================================
