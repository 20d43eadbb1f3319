---------------------------- MODULE BuildProofs ----------------------------
(***************************************************************************)
(* Proofs about Build, for every set of inputs, run ids, tags and epochs   *)
(* and every bound.  What ties the plan, the refs and the ledger together  *)
(* holds for any number of builders in one workbench; that rebuilds agree  *)
(* holds for a builder that is alone.                                      *)
(***************************************************************************)
EXTENDS Build, SequenceTheorems, WellFoundedInduction, TLAPS

-----------------------------------------------------------------------------
(* The objects of a plan *)

LEMMA InputOfPlan ==
  ASSUME NEW plan \in Plan
  PROVE  /\ plan.input \in Input /\ plan.input # <<>>
         /\ plan.input \in Seq([tag : Tag, tree : Nat])
         /\ Len(plan.input) \in Nat \ {0}
<1>1. plan.input \in Input
  BY DEF Plan
<1>2. plan.input # <<>> /\ plan.input \in Seq([tag : Tag, tree : Nat])
  BY <1>1, BuildAssumption
<1> QED
  BY <1>1, <1>2, EmptySeq

LEMMA CommitType ==
  ASSUME NEW plan \in Plan, NEW i \in 1..Len(plan.input)
  PROVE  ReleaseCommit(plan, i) \in Commit /\ ReleaseCommit(plan, i) # None
<1>1. /\ plan.model \in Model /\ plan.epoch \in Epoch /\ plan.input \in Input
      /\ plan.input \in Seq([tag : Tag, tree : Nat])
  BY InputOfPlan DEF Plan
<1>2. i \in Int /\ \A k \in 1..i : k \in 1..Len(plan.input)
  BY InputOfPlan
<1>3. \A k \in 1..i : plan.input[k] \in [tag : Tag, tree : Nat]
  BY <1>1, <1>2, ElementOfSeq
<1>4. SubSeq(plan.input, 1, i) \in Seq([tag : Tag, tree : Nat])
  BY <1>2, <1>3, SubSeqProperties
<1>5. ReleaseCommit(plan, i) \in Commit
  BY <1>1, <1>4 DEF ReleaseCommit, Commit
<1> QED
  BY <1>5, NoneIsNoCommit

LEMMA TipType ==
  ASSUME NEW plan \in Plan
  PROVE  TipCommit(plan) \in Commit /\ TipCommit(plan) # None
<1>1. Len(plan.input) \in 1..Len(plan.input)
  BY InputOfPlan
<1> QED
  BY <1>1, CommitType DEF TipCommit

(* The commit of a tag is that of the one release that has the tag.        *)
LEMMA TaggedRelease ==
  ASSUME NEW plan \in Plan, NEW i \in 1..Len(plan.input)
  PROVE  /\ plan.input[i].tag \in Tag
         /\ TagCommits(plan)[plan.input[i].tag] = ReleaseCommit(plan, i)
<1> DEFINE t == plan.input[i].tag
           j == CHOOSE k \in 1..Len(plan.input) : plan.input[k].tag = t
<1>0. plan.input[i] \in [tag : Tag, tree : Nat]
  BY InputOfPlan, ElementOfSeq
<1>1. t \in Tag
  BY <1>0
<1>2. j \in 1..Len(plan.input) /\ plan.input[j].tag = t
  OBVIOUS
<1>3. plan.input \in Input
  BY InputOfPlan
<1>4. j = i
  BY <1>2, <1>3, BuildAssumption
<1>5. TagCommits(plan)[t] = ReleaseCommit(plan, j)
  BY <1>1 DEF TagCommits
<1> QED
  BY <1>1, <1>4, <1>5

LEMMA UntaggedOrRelease ==
  ASSUME NEW plan \in Plan, NEW t \in Tag
  PROVE  \/ TagCommits(plan)[t] = None
         \/ \E i \in 1..Len(plan.input) : TagCommits(plan)[t] = ReleaseCommit(plan, i)
<1> DEFINE j == CHOOSE k \in 1..Len(plan.input) : plan.input[k].tag = t
<1>1. CASE \E i \in 1..Len(plan.input) : plan.input[i].tag = t
  <2>1. TagCommits(plan)[t] = ReleaseCommit(plan, j)
    BY <1>1 DEF TagCommits
  <2>2. j \in 1..Len(plan.input)
    BY <1>1
  <2> QED
    BY <2>1, <2>2
<1>2. CASE ~\E i \in 1..Len(plan.input) : plan.input[i].tag = t
  BY <1>2 DEF TagCommits
<1> QED
  BY <1>1, <1>2

LEMMA TagCommitsType ==
  ASSUME NEW plan \in Plan
  PROVE  TagCommits(plan) \in [Tag -> Commit \cup {None}]
<1>1. \A t \in Tag : TagCommits(plan)[t] \in Commit \cup {None}
  BY UntaggedOrRelease, CommitType
<1>2. DOMAIN TagCommits(plan) = Tag /\ TagCommits(plan) = [t \in Tag |-> TagCommits(plan)[t]]
  BY DEF TagCommits
<1> QED
  BY <1>1, <1>2

(* The commits that a plan creates are those that its tags name.           *)
LEMMA CommitsAreTagged ==
  ASSUME NEW plan \in Plan
  PROVE  /\ Commits(plan) \in SUBSET Commit
         /\ Commits(plan) = {TagCommits(plan)[t] : t \in Tag} \ {None}
<1>1. Commits(plan) \in SUBSET Commit
  BY CommitType DEF Commits
<1>2. ASSUME NEW i \in 1..Len(plan.input)
      PROVE  ReleaseCommit(plan, i) \in {TagCommits(plan)[t] : t \in Tag} \ {None}
  BY TaggedRelease, CommitType
<1>3. ASSUME NEW t \in Tag, TagCommits(plan)[t] # None
      PROVE  TagCommits(plan)[t] \in Commits(plan)
  BY <1>3, UntaggedOrRelease DEF Commits
<1> QED
  BY <1>1, <1>2, <1>3 DEF Commits

(* Every release commit is the tip, cut to its own history.                *)
LEMMA ReleaseInTip ==
  ASSUME NEW plan \in Plan, NEW i \in 1..Len(plan.input)
  PROVE  /\ Len(TipCommit(plan).history) = Len(plan.input)
         /\ ReleaseCommit(plan, i)
              = [TipCommit(plan) EXCEPT !.history = SubSeq(@, 1, i)]
<1> DEFINE csv == IF plan.model = "G" THEN plan.input ELSE <<>>
<1>1. plan.input \in Seq([tag : Tag, tree : Nat])
  BY InputOfPlan
<1>2. SubSeq(plan.input, 1, Len(plan.input)) = plan.input
  BY <1>1, SubSeqFull
<1>3. /\ TipCommit(plan) = [model |-> plan.model, epoch |-> plan.epoch,
                            history |-> plan.input, csv |-> csv]
      /\ ReleaseCommit(plan, i) = [model |-> plan.model, epoch |-> plan.epoch,
                                   history |-> SubSeq(plan.input, 1, i), csv |-> csv]
  BY <1>2 DEF TipCommit, ReleaseCommit
<1>4. TipCommit(plan).history = plan.input
  BY <1>3
<1>5. ASSUME NEW r, NEW m, NEW e, NEW h, NEW s, NEW c,
             r = [model |-> m, epoch |-> e, history |-> h, csv |-> c]
      PROVE  [r EXCEPT !.history = s] = [model |-> m, epoch |-> e, history |-> s, csv |-> c]
  BY <1>5
<1> DEFINE tip == TipCommit(plan)
           rel == ReleaseCommit(plan, i)
           cut == SubSeq(plan.input, 1, i)
<1>6. /\ tip = [model |-> plan.model, epoch |-> plan.epoch, history |-> plan.input, csv |-> csv]
      /\ rel = [model |-> plan.model, epoch |-> plan.epoch, history |-> cut, csv |-> csv]
  BY <1>3
<1> HIDE DEF csv, tip, rel, cut
<1>7. [tip EXCEPT !.history = cut] = rel
  BY <1>5, <1>6
<1> QED
  BY <1>4, <1>7 DEF tip, rel, cut

-----------------------------------------------------------------------------
(* Types *)

Label == {"idle", "render", "refs", "timestamp", "append timestamp",
          "journal plan", "journal apply"}

Command == [plan : Plan \cup {None}, loaded : Plan \cup {None}, run : Run \cup {None},
            full : BOOLEAN, applies : BOOLEAN, cites : Nat]

Line == [action : {"curation-timestamp", "plan", "apply"}, epoch : Epoch,
         plan : Plan, run : Run \cup {None}, cites : Nat, outputs : SUBSET Commit]

(***************************************************************************)
(* What a builder has in hand where it stands: a plan, a run id of its own *)
(* from the start of an apply on, and refs to write only when it applies.  *)
(***************************************************************************)
Standing(b) ==
  /\ pc[b] = "idle" => ~job[b].full /\ ~job[b].applies
  /\ pc[b] # "idle" => job[b].plan \in Plan
  /\ pc[b] \in {"render", "refs"} => job[b].run \in Run
  /\ pc[b] \in {"refs", "journal apply"} => job[b].applies
  /\ pc[b] \in {"render", "journal plan"} => ~job[b].applies
  /\ job[b].full \/ job[b].applies => job[b].run \in Run
  /\ job[b].applies => job[b].loaded \in {None, job[b].plan}

TInv == TypeOK /\ \A b \in Builder : Standing(b)

LEMMA JobTypes ==
  ASSUME TypeOK
  PROVE  /\ job \in [Builder -> Command] /\ pc \in [Builder -> Label]
         /\ ledger \in Seq(Line) /\ Len(ledger) \in Nat /\ NoJob \in Command
<1>1. job \in [Builder -> Command] /\ pc \in [Builder -> Label] /\ ledger \in Seq(Line)
  BY DEF TypeOK, Command, Label, Line
<1>2. NoJob \in Command
  BY DEF Command, NoJob
<1>3. Len(ledger) \in Nat
  BY <1>1
<1> QED
  BY <1>1, <1>2, <1>3

LEMMA InitTInv == Init => TInv
<1> SUFFICES ASSUME Init PROVE TInv
  OBVIOUS
<1>1. NoTags \in [Tag -> Commit \cup {None}]
  BY DEF NoTags
<1>2. TypeOK
  BY <1>1 DEF Init, TypeOK, NoJob
<1>3. \A b \in Builder : Standing(b)
  BY DEF Init, Standing, NoJob
<1> QED
  BY <1>2, <1>3 DEF TInv

(* The command of one builder changes, the others stay where they are.     *)
LEMMA StandingStep ==
  ASSUME TInv, NEW b \in Builder, NEW label \in Label, NEW command \in Command,
         pc' = [pc EXCEPT ![b] = label], job' = [job EXCEPT ![b] = command],
         /\ label = "idle" => ~command.full /\ ~command.applies
         /\ label # "idle" => command.plan \in Plan
         /\ label \in {"render", "refs"} => command.run \in Run
         /\ label \in {"refs", "journal apply"} => command.applies
         /\ label \in {"render", "journal plan"} => ~command.applies
         /\ command.full \/ command.applies => command.run \in Run
         /\ command.applies => command.loaded \in {None, command.plan}
  PROVE  /\ pc' \in [Builder -> Label] /\ job' \in [Builder -> Command]
         /\ \A c \in Builder : Standing(c)'
<1>1. pc \in [Builder -> Label] /\ job \in [Builder -> Command]
  BY JobTypes DEF TInv
<1>2. pc' \in [Builder -> Label] /\ job' \in [Builder -> Command]
  BY <1>1
<1>3. pc'[b] = label /\ job'[b] = command
  BY <1>1
<1>4. \A c \in Builder \ {b} : pc'[c] = pc[c] /\ job'[c] = job[c]
  BY <1>1
<1>5. Standing(b)'
  BY <1>3 DEF Standing
<1>6. \A c \in Builder \ {b} : Standing(c)'
  BY <1>4 DEF Standing, TInv
<1> QED
  BY <1>2, <1>5, <1>6

LEMMA MovedType ==
  ASSUME TInv, NEW b \in Builder, pc[b] = "refs", NEW tags \in SUBSET Tag, RefsMoved(b, tags)
  PROVE  /\ branch' \in [Slot -> Commit \cup {None}]
         /\ tag' \in [Slot -> [Tag -> Commit \cup {None}]]
         /\ origin' \in [Slot -> Plan \cup {None}]
<1> DEFINE plan == job[b].plan
           slot == <<plan.model, job[b].run>>
           tip == TipCommit(plan)
           new == [t \in Tag |-> IF t \in tags THEN TagCommits(plan)[t] ELSE tag[slot][t]]
<1>1. plan \in Plan /\ job[b].run \in Run /\ job[b].loaded \in Plan \cup {None}
  BY JobTypes DEF TInv, Standing, Command
<1>2. slot \in Slot
  BY <1>1 DEF Slot, Plan
<1>3. /\ branch \in [Slot -> Commit \cup {None}]
      /\ tag \in [Slot -> [Tag -> Commit \cup {None}]]
      /\ origin \in [Slot -> Plan \cup {None}]
  BY DEF TInv, TypeOK
<1>4. tip \in Commit
  BY <1>1, TipType
<1>5. TagCommits(plan) \in [Tag -> Commit \cup {None}] /\ tag[slot] \in [Tag -> Commit \cup {None}]
  BY <1>1, <1>2, <1>3, TagCommitsType
<1>6. new \in [Tag -> Commit \cup {None}]
  BY <1>5
<1>7. /\ branch' = [branch EXCEPT ![slot] = tip]
      /\ tag' = [tag EXCEPT ![slot] = new]
      /\ origin' = [origin EXCEPT ![slot] = job[b].loaded]
  BY DEF RefsMoved
<1> HIDE DEF plan, slot, tip, new
<1> QED
  BY <1>1, <1>2, <1>3, <1>4, <1>6, <1>7

LEMMA RecordType ==
  ASSUME TInv, NEW b \in Builder, pc[b] # "idle",
         NEW action \in {"curation-timestamp", "plan", "apply"}, Record(b, action)
  PROVE  /\ Entry(b, action) \in Line
         /\ ledger' = Append(ledger, Entry(b, action)) /\ ledger' \in Seq(Line)
<1>1. /\ job[b].plan \in Plan /\ job[b].run \in Run \cup {None} /\ job[b].cites \in Nat
      /\ job[b].plan.epoch \in Epoch
  BY JobTypes DEF TInv, Standing, Command, Plan
<1>2. (IF action = "apply" THEN Commits(job[b].plan) ELSE {}) \in SUBSET Commit
  BY <1>1, CommitsAreTagged
<1>3. Entry(b, action) \in Line
  BY <1>1, <1>2 DEF Entry, Line
<1>4. ledger \in Seq(Line)
  BY JobTypes DEF TInv
<1> QED
  BY <1>3, <1>4 DEF Record

LEMMA FirstExists ==
  ASSUME NEW S \in SUBSET Nat, S # {}
  PROVE  \E n \in S : \A m \in S : n <= m
<1> DEFINE R == OpToRel(<, Nat)
<1>1. R = {p \in Nat \X Nat : p[1] < p[2]}
  BY DEF OpToRel
<1>2. PICK n \in S : \A m \in S : <<m, n>> \notin R
  BY NatLessThanWellFounded, WFMin
<1>3. \A m \in S : m \in Nat /\ n \in Nat /\ ~(m < n)
  BY <1>1, <1>2
<1>4. \A m \in S : n <= m
  BY <1>3
<1> QED
  BY <1>4

LEMMA FirstTimestampIsFirst ==
  ASSUME TypeOK, Timestamps # {}
  PROVE  /\ FirstTimestamp \in Timestamps /\ FirstTimestamp \in Nat
         /\ \A m \in Timestamps : FirstTimestamp <= m
<1>1. Timestamps \in SUBSET Nat
  BY JobTypes DEF Timestamps
<1>2. \E n \in Timestamps : \A m \in Timestamps : n <= m
  BY <1>1, FirstExists
<1> QED
  BY <1>1, <1>2 DEF FirstTimestamp

LEMMA NextTInv == TInv /\ [Next]_vars => TInv'
<1> SUFFICES ASSUME TInv, [Next]_vars PROVE TInv'
  OBVIOUS
<1> USE DEF refs
<1>a. /\ job \in [Builder -> Command] /\ pc \in [Builder -> Label]
      /\ ledger \in Seq(Line) /\ NoJob \in Command
  BY JobTypes DEF TInv
<1>b. ASSUME /\ pc' \in [Builder -> Label] /\ job' \in [Builder -> Command]
             /\ \A c \in Builder : Standing(c)',
             UNCHANGED work \/ work' \in Input,
             UNCHANGED planFile \/ planFile' \in Plan,
             UNCHANGED refs \/ (/\ branch' \in [Slot -> Commit \cup {None}]
                               /\ tag' \in [Slot -> [Tag -> Commit \cup {None}]]
                               /\ origin' \in [Slot -> Plan \cup {None}]),
             UNCHANGED ledger \/ ledger' \in Seq(Line),
             UNCHANGED faults \/ faults' = faults + 1,
             UNCHANGED used \/ \E r \in Run : used' = used \cup {r}
      PROVE  TInv'
  <2>1a. work' \in Input /\ planFile' \in Plan \cup {None}
    BY <1>b DEF TInv, TypeOK
  <2>1b. faults' \in Nat
    <3>1. faults \in Nat
      BY DEF TInv, TypeOK
    <3> QED
      BY <1>b, <3>1
  <2>1c. used' \subseteq Run
    BY <1>b DEF TInv, TypeOK
  <2>2. /\ branch' \in [Slot -> Commit \cup {None}]
        /\ tag' \in [Slot -> [Tag -> Commit \cup {None}]]
        /\ origin' \in [Slot -> Plan \cup {None}]
    BY <1>b DEF TInv, TypeOK
  <2>3. ledger' \in Seq(Line)
    BY <1>a, <1>b
  <2> QED
    BY <1>b, <2>1a, <2>1b, <2>1c, <2>2, <2>3 DEF TInv, TypeOK, Label, Command, Line
<1>c. ASSUME NEW b \in Builder, Leave(b)
      PROVE  /\ pc' \in [Builder -> Label] /\ job' \in [Builder -> Command]
             /\ \A c \in Builder : Standing(c)'
  <2>1. /\ pc' = [pc EXCEPT ![b] = "idle"] /\ job' = [job EXCEPT ![b] = NoJob]
        /\ "idle" \in Label /\ ~NoJob.full /\ ~NoJob.applies
    BY <1>c DEF Leave, Goto, Label, NoJob
  <2> QED
    BY <1>a, <2>1, StandingStep
<1>1. CASE UNCHANGED vars
  BY <1>1 DEF vars, TInv, TypeOK, Standing
<1>2. ASSUME NEW input \in Input, Edit(input)
      PROVE  TInv'
  BY <1>2 DEF Edit, TInv, TypeOK, Standing
<1>3. ASSUME NEW b \in Builder, NEW m \in Model, NEW e \in Epoch, NEW out \in BOOLEAN,
             PlanFrom(b, m, e, out)
      PROVE  /\ [model |-> m, epoch |-> e, input |-> work] \in Plan
             /\ UNCHANGED planFile \/ planFile' \in Plan
             /\ pc' = [pc EXCEPT ![b] = "timestamp"]
             /\ UNCHANGED <<work, refs, ledger, faults>>
  BY <1>3 DEF PlanFrom, Goto, TInv, TypeOK, Plan
<1>4. ASSUME NEW b \in Builder, NEW m \in Model, NEW e \in Epoch, NEW out \in BOOLEAN,
             PlanOnly(b, m, e, out)
      PROVE  TInv'
  <2> DEFINE plan == [model |-> m, epoch |-> e, input |-> work]
             command == [NoJob EXCEPT !.plan = plan]
  <2>1. PlanFrom(b, m, e, out) /\ job' = [job EXCEPT ![b] = command] /\ UNCHANGED used
    BY <1>4 DEF PlanOnly
  <2>3. /\ plan \in Plan
        /\ UNCHANGED planFile \/ planFile' \in Plan
        /\ pc' = [pc EXCEPT ![b] = "timestamp"]
        /\ UNCHANGED <<work, refs, ledger, faults>>
    BY <1>3, <2>1
  <2>2. plan \in Plan /\ command \in Command /\ ~command.full /\ ~command.applies
        /\ command.plan = plan
    BY <2>3 DEF Command, NoJob
  <2> HIDE DEF command, plan
  <2>S. /\ pc' \in [Builder -> Label] /\ job' \in [Builder -> Command]
        /\ \A c \in Builder : Standing(c)'
    BY <2>1, <2>2, <2>3, StandingStep DEF Label
  <2> QED
    BY <1>b, <2>1, <2>3, <2>S DEF Claim
<1>5. ASSUME NEW b \in Builder, NEW m \in Model, NEW e \in Epoch, NEW out \in BOOLEAN,
             NEW r \in Run, PlanAndApply(b, m, e, out, r)
      PROVE  TInv'
  <2> DEFINE plan == [model |-> m, epoch |-> e, input |-> work]
             command == [NoJob EXCEPT !.plan = plan, !.run = r, !.full = TRUE]
  <2>1. PlanFrom(b, m, e, out) /\ job' = [job EXCEPT ![b] = command] /\ Claim(r)
    BY <1>5 DEF PlanAndApply
  <2>3. /\ plan \in Plan
        /\ UNCHANGED planFile \/ planFile' \in Plan
        /\ pc' = [pc EXCEPT ![b] = "timestamp"]
        /\ UNCHANGED <<work, refs, ledger, faults>>
    BY <1>3, <2>1
  <2>2. plan \in Plan /\ command \in Command /\ ~command.applies
        /\ command.plan = plan /\ command.run = r
    BY <2>3 DEF Command, NoJob
  <2> HIDE DEF command, plan
  <2>S. /\ pc' \in [Builder -> Label] /\ job' \in [Builder -> Command]
        /\ \A c \in Builder : Standing(c)'
    BY <2>1, <2>2, <2>3, StandingStep DEF Label
  <2> QED
    BY <1>b, <2>1, <2>3, <2>S DEF Claim
<1>6. ASSUME NEW b \in Builder, NEW r \in Run, ApplyFile(b, r)
      PROVE  TInv'
  <2> DEFINE command == [NoJob EXCEPT !.plan = planFile, !.loaded = planFile, !.run = r]
  <2>1. /\ pc' = [pc EXCEPT ![b] = "render"] /\ job' = [job EXCEPT ![b] = command]
        /\ Claim(r) /\ UNCHANGED <<work, planFile, refs, ledger, faults>> /\ planFile # None
    BY <1>6 DEF ApplyFile, Goto
  <2>2. planFile \in Plan
    BY <2>1 DEF TInv, TypeOK
  <2>3. command \in Command /\ ~command.applies /\ ~command.full
        /\ command.plan = planFile /\ command.run = r
    BY <2>2 DEF Command, NoJob
  <2> HIDE DEF command
  <2>S. /\ pc' \in [Builder -> Label] /\ job' \in [Builder -> Command]
        /\ \A c \in Builder : Standing(c)'
    BY <2>1, <2>2, <2>3, StandingStep DEF Label
  <2> QED
    BY <1>b, <2>1, <2>S DEF Claim
<1>7. ASSUME NEW b \in Builder, NEW m \in Model, NEW e \in Epoch, NEW r \in Run,
             ApplyDirect(b, m, e, r)
      PROVE  TInv'
  <2> DEFINE plan == [model |-> m, epoch |-> e, input |-> work]
             command == [NoJob EXCEPT !.plan = plan, !.run = r]
  <2>1. /\ pc' = [pc EXCEPT ![b] = "render"] /\ job' = [job EXCEPT ![b] = command]
        /\ Claim(r) /\ UNCHANGED <<work, planFile, refs, ledger, faults>>
    BY <1>7 DEF ApplyDirect, Goto
  <2>2. plan \in Plan
    BY DEF TInv, TypeOK, Plan
  <2>3. command \in Command /\ ~command.applies /\ ~command.full
        /\ command.plan = plan /\ command.run = r
    BY <2>2 DEF Command, NoJob
  <2> HIDE DEF command, plan
  <2>S. /\ pc' \in [Builder -> Label] /\ job' \in [Builder -> Command]
        /\ \A c \in Builder : Standing(c)'
    BY <2>1, <2>2, <2>3, StandingStep DEF Label
  <2> QED
    BY <1>b, <2>1, <2>S DEF Claim
<1>8. ASSUME NEW b \in Builder, Render(b)
      PROVE  TInv'
  <2> DEFINE old == job[b]
             rendered == Rendered(b)
             command == [old EXCEPT !.plan = rendered, !.applies = TRUE]
  <2>1. /\ pc' = [pc EXCEPT ![b] = "refs"] /\ job' = [job EXCEPT ![b] = command]
        /\ UNCHANGED <<work, planFile, refs, ledger, faults, used>>
        /\ pc[b] = "render" /\ ~Drifted(b)
    BY <1>8, <1>a DEF Render, Goto
  <2>2. /\ old \in Command /\ old.plan \in Plan /\ old.run \in Run
        /\ old.loaded \in {None, rendered}
    BY <1>a, <2>1 DEF TInv, Standing, Drifted
  <2>3. rendered \in Plan
    <3> DEFINE plan == old.plan
    <3>1. rendered = [plan EXCEPT !.input = work] /\ plan \in Plan /\ work \in Input
      BY <2>2 DEF Rendered, TInv, TypeOK
    <3> HIDE DEF plan, rendered
    <3> QED
      BY <3>1 DEF Plan
  <2> HIDE DEF old, rendered
  <2>4. /\ command \in Command /\ command.plan = rendered /\ command.run = old.run
        /\ command.loaded = old.loaded /\ command.applies
    BY <2>2, <2>3 DEF Command
  <2> HIDE DEF command
  <2>S. /\ pc' \in [Builder -> Label] /\ job' \in [Builder -> Command]
        /\ \A c \in Builder : Standing(c)'
    BY <2>1, <2>2, <2>3, <2>4, StandingStep DEF Label
  <2> QED
    BY <1>b, <2>1, <2>S
<1>9. ASSUME NEW b \in Builder, RefuseDrift(b) \/ RefuseTimestamp(b) \/ Crash(b)
      PROVE  TInv'
  <2>1. Leave(b) /\ UNCHANGED <<work, planFile, refs, ledger, used>>
        /\ (UNCHANGED faults \/ faults' = faults + 1)
    BY <1>9 DEF RefuseDrift, RefuseTimestamp, Crash, Fault
  <2> QED
    BY <1>b, <1>c, <2>1
<1>10. ASSUME NEW b \in Builder, WriteRefs(b)
      PROVE  TInv'
  <2> DEFINE old == job[b]
  <2>1. /\ pc' = [pc EXCEPT ![b] = "timestamp"] /\ job' = [job EXCEPT ![b] = old]
        /\ UNCHANGED <<work, planFile, ledger, faults, used>>
        /\ pc[b] = "refs" /\ RefsMoved(b, Tag)
    BY <1>10, <1>a DEF WriteRefs, Goto
  <2>2. old \in Command /\ Standing(b)
    BY <1>a, <2>1 DEF TInv
  <2>S. /\ pc' \in [Builder -> Label] /\ job' \in [Builder -> Command]
        /\ \A c \in Builder : Standing(c)'
    <3>1. /\ old.plan \in Plan /\ old.run \in Run /\ old.loaded \in {None, old.plan}
      BY <2>1, <2>2 DEF Standing
    <3> HIDE DEF old
    <3> QED
      BY <2>1, <2>2, <3>1, StandingStep DEF Label
  <2>3. /\ branch' \in [Slot -> Commit \cup {None}]
        /\ tag' \in [Slot -> [Tag -> Commit \cup {None}]]
        /\ origin' \in [Slot -> Plan \cup {None}]
    BY <2>1, MovedType
  <2> QED
    BY <1>b, <2>1, <2>3, <2>S
<1>11. ASSUME NEW b \in Builder, NEW tags \in SUBSET Tag, CrashInRefs(b, tags)
      PROVE  TInv'
  <2>1. /\ UNCHANGED <<work, planFile, ledger, used>> /\ faults' = faults + 1
        /\ pc[b] = "refs" /\ RefsMoved(b, tags) /\ Leave(b)
    BY <1>11 DEF CrashInRefs, Fault
  <2>2. /\ branch' \in [Slot -> Commit \cup {None}]
        /\ tag' \in [Slot -> [Tag -> Commit \cup {None}]]
        /\ origin' \in [Slot -> Plan \cup {None}]
    BY <2>1, MovedType
  <2> QED
    BY <1>b, <1>c, <2>1, <2>2
(* From here on a command keeps all but the entry that it cites.           *)
<1>d. ASSUME NEW b \in Builder, NEW label \in Label, NEW n \in Nat,
             pc[b] # "idle", label # "idle", label # "render",
             pc' = [pc EXCEPT ![b] = label],
             UNCHANGED job \/ job' = [job EXCEPT ![b].cites = n],
             label \in {"refs", "journal apply"} => job[b].applies,
             label = "journal plan" => ~job[b].applies
      PROVE  /\ pc' \in [Builder -> Label] /\ job' \in [Builder -> Command]
             /\ \A c \in Builder : Standing(c)'
  <2> DEFINE old == job[b]
             k == job'[b].cites
             command == [old EXCEPT !.cites = k]
  <2>1. old \in Command /\ Standing(b)
    BY <1>a DEF TInv
  <2>2. k \in Nat /\ job' = [job EXCEPT ![b] = command]
    BY <1>a, <1>d, ZenonT(60) DEF Command
  <2>3. /\ old.plan \in Plan
        /\ label \in {"refs", "journal apply"} => old.applies
        /\ label = "journal plan" => ~old.applies
        /\ old.full \/ old.applies => old.run \in Run
        /\ old.applies => old.loaded \in {None, old.plan}
        /\ label = "refs" => old.run \in Run
    BY <1>d, <2>1 DEF Standing
  <2> HIDE DEF old, k
  <2>4. /\ command \in Command /\ command.plan = old.plan /\ command.run = old.run
        /\ command.loaded = old.loaded
    BY <2>1, <2>2 DEF Command
  <2>5. (command.applies <=> old.applies) /\ (command.full <=> old.full)
    BY <2>1, <2>2 DEF Command
  <2> HIDE DEF command
  <2> QED
    BY <1>d, <2>2, <2>3, <2>4, <2>5, StandingStep
<1>12. ASSUME NEW b \in Builder, FindTimestamp(b)
      PROVE  TInv'
  <2>1. /\ pc' = [pc EXCEPT ![b] = AfterTimestamp(b)]
        /\ job' = [job EXCEPT ![b].cites = FirstTimestamp]
        /\ UNCHANGED <<work, planFile, refs, ledger, faults, used>>
        /\ pc[b] = "timestamp" /\ Timestamps # {}
    BY <1>12 DEF FindTimestamp, Goto
  <2>2. FirstTimestamp \in Nat
    BY <2>1, FirstTimestampIsFirst DEF TInv
  <2>3. /\ AfterTimestamp(b) \in Label \ {"idle", "render", "refs"}
        /\ AfterTimestamp(b) = "journal apply" => job[b].applies
        /\ AfterTimestamp(b) = "journal plan" => ~job[b].applies
    BY DEF AfterTimestamp, Label
  <2>S. /\ pc' \in [Builder -> Label] /\ job' \in [Builder -> Command]
        /\ \A c \in Builder : Standing(c)'
    BY <1>d, <2>1, <2>2, <2>3
  <2> QED
    BY <1>b, <2>1, <2>S
<1>13. ASSUME NEW b \in Builder, MissTimestamp(b)
      PROVE  TInv'
  <2>1. /\ pc' = [pc EXCEPT ![b] = "append timestamp"] /\ UNCHANGED job
        /\ UNCHANGED <<work, planFile, refs, ledger, faults, used>>
        /\ pc[b] = "timestamp"
    BY <1>13 DEF MissTimestamp, Goto
  <2>S. /\ pc' \in [Builder -> Label] /\ job' \in [Builder -> Command]
        /\ \A c \in Builder : Standing(c)'
    BY <1>d, <2>1 DEF Label
  <2> QED
    BY <1>b, <2>1, <2>S
<1>14. ASSUME NEW b \in Builder, AppendTimestamp(b)
      PROVE  TInv'
  <2>1. /\ pc' = [pc EXCEPT ![b] = AfterTimestamp(b)]
        /\ job' = [job EXCEPT ![b].cites = Len(ledger) + 1]
        /\ UNCHANGED <<work, planFile, refs, faults, used>>
        /\ pc[b] = "append timestamp" /\ Record(b, "curation-timestamp")
    BY <1>14 DEF AppendTimestamp, Record, Goto
  <2>2. Len(ledger) + 1 \in Nat
    BY JobTypes DEF TInv
  <2>4. ledger' \in Seq(Line)
    BY <2>1, RecordType
  <2>3. /\ AfterTimestamp(b) \in Label \ {"idle", "render", "refs"}
        /\ AfterTimestamp(b) = "journal apply" => job[b].applies
        /\ AfterTimestamp(b) = "journal plan" => ~job[b].applies
    BY DEF AfterTimestamp, Label
  <2>S. /\ pc' \in [Builder -> Label] /\ job' \in [Builder -> Command]
        /\ \A c \in Builder : Standing(c)'
    BY <1>d, <2>1, <2>2, <2>3
  <2> QED
    BY <1>b, <2>1, <2>4, <2>S
<1>15. ASSUME NEW b \in Builder, JournalPlan(b)
      PROVE  TInv'
  <2>1. UNCHANGED <<work, planFile, refs, faults, used>> /\ ledger' \in Seq(Line)
    BY <1>15, RecordType DEF JournalPlan, Record
  <2>S. /\ pc' \in [Builder -> Label] /\ job' \in [Builder -> Command]
        /\ \A c \in Builder : Standing(c)'
    <3> DEFINE old == job[b]
    <3>1. CASE ~old.full
      BY <1>15, <1>c, <3>1 DEF JournalPlan
    <3>2. CASE old.full
      <4>1. /\ pc' = [pc EXCEPT ![b] = "render"] /\ job' = [job EXCEPT ![b] = old]
            /\ pc[b] = "journal plan"
        BY <1>15, <1>a, <3>2 DEF JournalPlan, Goto
      <4>2. old \in Command /\ old.plan \in Plan /\ old.run \in Run /\ ~old.applies
        BY <1>a, <3>2, <4>1 DEF TInv, Standing
      <4> HIDE DEF old
      <4> QED
        BY <4>1, <4>2, StandingStep DEF Label
    <3> QED
      BY <3>1, <3>2
  <2> QED
    BY <1>b, <2>1, <2>S
<1>16. ASSUME NEW b \in Builder, JournalApply(b)
      PROVE  TInv'
  <2>1. UNCHANGED <<work, planFile, refs, faults, used>> /\ ledger' \in Seq(Line) /\ Leave(b)
    BY <1>16, RecordType DEF JournalApply, Record
  <2> QED
    BY <1>b, <1>c, <2>1
<1> QED
  BY <1>1, <1>2, <1>4, <1>5, <1>6, <1>7, <1>8, <1>9, <1>10, <1>11, <1>12, <1>13, <1>14,
     <1>15, <1>16 DEF Next, Start, Advance, BreakOff

(* The type invariant, for any number of builders.                         *)
THEOREM TypeCorrect == Spec => []TypeOK
<1>1. TInv => TypeOK
  BY DEF TInv
<1> QED
  BY <1>1, InitTInv, NextTInv, PTL DEF Spec

-----------------------------------------------------------------------------
(***************************************************************************)
(* The inductive invariant.  A command that will apply owns its run id.    *)
(* Until it writes, all slots of that run are empty, and from then on the  *)
(* slot of its plan is complete, so that a second command never finishes   *)
(* what a first one began, and the apply entry comes after all the refs.   *)
(***************************************************************************)
Empty(s) == branch[s] = None /\ tag[s] = NoTags /\ origin[s] = None

Whole(plan, r) ==
  /\ branch[<<plan.model, r>>] = TipCommit(plan)
  /\ tag[<<plan.model, r>>] = TagCommits(plan)

Holds(b)     == job[b].full \/ job[b].applies \/ pc[b] \in {"render", "refs"}
Unwritten(b) == Holds(b) /\ (job[b].applies => pc[b] = "refs")
Written(b)   == job[b].applies /\ pc[b] # "refs"

OwnRun ==
  /\ \A b \in Builder : Holds(b) => job[b].run \in used
  /\ \A b, c \in Builder :
       Holds(b) /\ Holds(c) /\ job[b].run = job[c].run => b = c

SlotsOfRuns ==
  /\ \A m \in Model, r \in Run : r \notin used => Empty(<<m, r>>)
  /\ \A b \in Builder : Unwritten(b) => \A m \in Model : Empty(<<m, job[b].run>>)
  /\ \A b \in Builder : Written(b) => Whole(job[b].plan, job[b].run)

AppliesWhole ==
  \A n \in 1..Len(ledger) : ledger[n].action = "apply" =>
    /\ ledger[n].run \in used
    /\ Whole(ledger[n].plan, ledger[n].run)
    /\ ledger[n].outputs = Commits(ledger[n].plan)

IInv ==
  TInv /\ OwnRun /\ SlotsOfRuns /\ AppliesWhole /\ InspectedIsBuilt /\ TagsOnBranch

LEMMA InitIInv == Init => IInv
<1> SUFFICES ASSUME Init PROVE IInv
  OBVIOUS
<1>1. TInv
  BY InitTInv
<1>2. \A b \in Builder : ~Holds(b) /\ ~Unwritten(b) /\ ~Written(b)
  BY DEF Init, Holds, Unwritten, Written, NoJob
<1>3. \A s \in Slot : Empty(s)
  BY DEF Init, Empty
<1>4. \A m \in Model, r \in Run : <<m, r>> \in Slot
  BY DEF Slot
<1>5. OwnRun /\ SlotsOfRuns
  BY <1>2, <1>3, <1>4 DEF OwnRun, SlotsOfRuns
<1>6. AppliesWhole
  BY DEF Init, AppliesWhole
<1>7. InspectedIsBuilt /\ TagsOnBranch
  BY <1>3 DEF Empty, NoTags, InspectedIsBuilt, TagsOnBranch
<1> QED
  BY <1>1, <1>5, <1>6, <1>7 DEF IInv

(* What a step leaves alone of the other builders.                         *)
OthersKept(b) ==
  \A c \in Builder \ {b} :
    /\ Holds(c)' <=> Holds(c)
    /\ Unwritten(c)' <=> Unwritten(c)
    /\ Written(c)' <=> Written(c)
    /\ job'[c] = job[c]

LEMMA OthersKeep ==
  ASSUME TInv, NEW b \in Builder, NEW label, NEW command,
         pc' = [pc EXCEPT ![b] = label], job' = [job EXCEPT ![b] = command]
  PROVE  OthersKept(b) /\ pc'[b] = label /\ job'[b] = command
<1>1. pc \in [Builder -> Label] /\ job \in [Builder -> Command]
  BY JobTypes DEF TInv
<1>2. pc'[b] = label /\ job'[b] = command
  BY <1>1
<1>3. \A c \in Builder \ {b} : pc'[c] = pc[c] /\ job'[c] = job[c]
  BY <1>1
<1> QED
  BY <1>2, <1>3 DEF OthersKept, Holds, Unwritten, Written

CutOf(commit, tip) ==
  \E i \in 1..Len(tip.history) : commit = [tip EXCEPT !.history = SubSeq(@, 1, i)]

CutOff ==
  \A s \in Slot : \A t \in Tag : tag[s][t] # None =>
    branch[s] # None /\ CutOf(tag[s][t], branch[s])

LEMMA TagsAreCuts == (TagsOnBranch <=> CutOff) /\ (TagsOnBranch <=> CutOff)'
BY DEF TagsOnBranch, CutOff, CutOf

LEMMA SameRefs ==
  ASSUME InspectedIsBuilt, TagsOnBranch, UNCHANGED <<branch, tag, origin>>
  PROVE  InspectedIsBuilt' /\ TagsOnBranch'
<1>1. InspectedIsBuilt'
  BY DEF InspectedIsBuilt
<1>2. CutOff'
  BY TagsAreCuts DEF CutOff
<1> QED
  BY <1>1, <1>2, TagsAreCuts

(* A command begins, with a run id that nobody had.                        *)
LEMMA ClaimKeeps ==
  ASSUME IInv, TInv', NEW b \in Builder, NEW r \in Run, Claim(r), OthersKept(b),
         job'[b].run = r, ~job'[b].applies,
         UNCHANGED <<branch, tag, origin, ledger>>
  PROVE  IInv'
<1>1. OwnRun'
  BY DEF IInv, OwnRun, Claim, OthersKept
<1>2. SlotsOfRuns'
  BY DEF IInv, SlotsOfRuns, Claim, OthersKept, Empty, Whole, Unwritten, Written
<1>3. AppliesWhole'
  BY DEF IInv, AppliesWhole, Claim, Whole
<1>4. InspectedIsBuilt' /\ TagsOnBranch'
  BY SameRefs DEF IInv
<1> QED
  BY <1>1, <1>2, <1>3, <1>4 DEF IInv

(* A command goes on without writing a ref.                                *)
LEMMA GoOnKeeps ==
  ASSUME IInv, TInv', NEW b \in Builder, OthersKept(b),
         UNCHANGED <<branch, tag, origin, used>>,
         Holds(b)' => Holds(b) /\ job'[b].run = job[b].run,
         Unwritten(b)' => Unwritten(b),
         Written(b)' => Written(b) /\ job'[b].plan = job[b].plan,
         \/ UNCHANGED ledger
         \/ \E e \in Line :
              /\ ledger' = Append(ledger, e)
              /\ e.action = "apply" =>
                   /\ Written(b) /\ e.run = job[b].run /\ e.plan = job[b].plan
                   /\ e.outputs = Commits(e.plan)
  PROVE  IInv'
<1>1. OwnRun'
  BY DEF IInv, OwnRun, OthersKept
<1>2. Holds(b)' \/ ~(Unwritten(b)' \/ Written(b)')
  BY DEF Holds, Unwritten, Written
<1>3. SlotsOfRuns'
  BY <1>2 DEF IInv, SlotsOfRuns, OthersKept, Empty, Whole
<1>4. InspectedIsBuilt' /\ TagsOnBranch'
  BY SameRefs DEF IInv
<1>5. AppliesWhole'
  <2>1. CASE UNCHANGED ledger
    BY <2>1 DEF IInv, AppliesWhole, Whole
  <2>2. ASSUME NEW e \in Line, ledger' = Append(ledger, e),
               e.action = "apply" =>
                 /\ Written(b) /\ e.run = job[b].run /\ e.plan = job[b].plan
                 /\ e.outputs = Commits(e.plan)
        PROVE  AppliesWhole'
    <3>1. e.action = "apply" => e.run \in used /\ Whole(e.plan, e.run)
      BY <2>2 DEF IInv, SlotsOfRuns, OwnRun, Written, Holds
    <3>2. /\ ledger \in Seq(Line) /\ Len(ledger) \in Nat
          /\ Len(ledger') = Len(ledger) + 1
          /\ \A n \in 1..Len(ledger) : ledger'[n] = ledger[n]
          /\ ledger'[Len(ledger) + 1] = e
      BY <2>2, JobTypes DEF IInv, TInv
    <3>3. ASSUME NEW n \in 1..Len(ledger'), ledger'[n].action = "apply"
          PROVE  /\ ledger'[n].run \in used
                 /\ Whole(ledger'[n].plan, ledger'[n].run)
                 /\ ledger'[n].outputs = Commits(ledger'[n].plan)
      <4>1. CASE n \in 1..Len(ledger)
        BY <3>2, <3>3, <4>1 DEF IInv, AppliesWhole
      <4>2. CASE n = Len(ledger) + 1
        BY <2>2, <3>1, <3>2, <3>3, <4>2
      <4> QED
        BY <3>2, <4>1, <4>2
    <3> QED
      BY <3>3 DEF AppliesWhole, Whole
  <2> QED
    BY <2>1, <2>2
<1> QED
  BY <1>1, <1>3, <1>4, <1>5 DEF IInv

(***************************************************************************)
(* The refs are written, all or some of the tags: the slot was empty, so   *)
(* that all it holds afterwards comes from this one plan.                  *)
(***************************************************************************)
LEMMA MoveKeeps ==
  ASSUME IInv, TInv', NEW b \in Builder, OthersKept(b), pc[b] = "refs",
         NEW tags \in SUBSET Tag, RefsMoved(b, tags),
         UNCHANGED <<ledger, used>>,
         ~Unwritten(b)',
         Holds(b)' => job'[b] = job[b],
         Written(b)' => tags = Tag
  PROVE  IInv'
<1> DEFINE plan == job[b].plan
           r == job[b].run
           slot == <<plan.model, r>>
           tip == TipCommit(plan)
           of == TagCommits(plan)
<1>1. /\ plan \in Plan /\ plan.model \in Model /\ r \in Run /\ job[b].loaded \in {None, plan}
      /\ Holds(b) /\ Unwritten(b)
  BY DEF IInv, TInv, Standing, Plan, Holds, Unwritten
<1>2. slot \in Slot
  BY <1>1 DEF Slot
<1>3. Empty(slot)
  BY <1>1 DEF IInv, SlotsOfRuns
<1>4. /\ branch' \in [Slot -> Commit \cup {None}] /\ branch \in [Slot -> Commit \cup {None}]
      /\ DOMAIN tag = Slot /\ DOMAIN origin = Slot
  BY DEF IInv, TInv, TypeOK
<1>5. /\ branch'[slot] = tip
      /\ tag'[slot] = [t \in Tag |-> IF t \in tags THEN of[t] ELSE None]
      /\ origin'[slot] = job[b].loaded
  BY <1>2, <1>3, <1>4 DEF RefsMoved, Empty, NoTags
<1>6. \A s \in Slot \ {slot} :
        branch'[s] = branch[s] /\ tag'[s] = tag[s] /\ origin'[s] = origin[s]
  BY <1>4 DEF RefsMoved
<1>7. of = [t \in Tag |-> of[t]]
  BY DEF TagCommits
<1>8. r \in used /\ \A c \in Builder \ {b} : Holds(c) => job[c].run # r
  BY <1>1 DEF IInv, OwnRun
<1> HIDE DEF plan, r, tip, of
<1>9. OwnRun'
  BY <1>1 DEF IInv, OwnRun, OthersKept
<1>10. SlotsOfRuns'
  <2>1. ASSUME NEW m \in Model, NEW q \in Run, q # r, Empty(<<m, q>>)
        PROVE  Empty(<<m, q>>)'
    BY <1>6, <2>1 DEF Empty, Slot
  <2>2. \A m \in Model, q \in Run : q \notin used' => Empty(<<m, q>>)'
    BY <1>8, <2>1 DEF IInv, SlotsOfRuns
  <2>3. ASSUME NEW c \in Builder, Unwritten(c)'
        PROVE  \A m \in Model : Empty(<<m, job[c].run>>)'
    <3>1. c # b /\ Unwritten(c) /\ Holds(c) /\ job'[c] = job[c]
      BY <2>3 DEF OthersKept, Unwritten
    <3>2. job[c].run \in Run /\ job[c].run # r
      BY <1>8, <3>1 DEF Holds, IInv, TInv, Standing
    <3> QED
      BY <2>1, <3>1, <3>2 DEF IInv, SlotsOfRuns
  <2>4. ASSUME NEW c \in Builder, Written(c)'
        PROVE  Whole(job[c].plan, job[c].run)'
    <3>1. CASE c = b
      BY <1>1, <1>5, <1>7, <2>4, <3>1 DEF Whole, Written, Holds, plan, r, tip, of
    <3>2. CASE c # b
      <4>1. Written(c) /\ Holds(c) /\ job'[c] = job[c]
        BY <2>4, <3>2 DEF OthersKept, Written, Holds
      <4>2. /\ job[c].run \in Run /\ job[c].run # r /\ job[c].plan.model \in Model
        BY <1>8, <3>2, <4>1 DEF IInv, TInv, Standing, Written, Plan
      <4>3. <<job[c].plan.model, job[c].run>> \in Slot \ {slot}
        BY <4>2 DEF Slot
      <4> QED
        BY <1>6, <4>1, <4>3 DEF IInv, SlotsOfRuns, Whole
    <3> QED
      BY <3>1, <3>2
  <2> QED
    BY <2>2, <2>3, <2>4 DEF SlotsOfRuns
<1>11. AppliesWhole'
  <2>1. ASSUME NEW n \in 1..Len(ledger), ledger[n].action = "apply"
        PROVE  Whole(ledger[n].plan, ledger[n].run)'
    <3>1. ledger[n] \in Line
      BY JobTypes, ElementOfSeq DEF IInv, TInv
    <3>2. ledger[n].plan \in Plan /\ ledger[n].plan.model \in Model /\ ledger[n].run \in used
      BY <2>1, <3>1 DEF Line, Plan, IInv, AppliesWhole
    <3>3. Whole(ledger[n].plan, ledger[n].run)
      BY <2>1 DEF IInv, AppliesWhole
    <3>4. branch[<<ledger[n].plan.model, ledger[n].run>>] # None
      BY <3>2, <3>3, TipType DEF Whole
    <3>5. <<ledger[n].plan.model, ledger[n].run>> \in Slot \ {slot}
      BY <1>3, <3>2, <3>4 DEF Slot, Empty, IInv, TInv, TypeOK
    <3> QED
      BY <1>6, <3>3, <3>5 DEF Whole
  <2> QED
    BY <2>1 DEF IInv, AppliesWhole, Whole
<1>12. InspectedIsBuilt'
  <2>1. ASSUME origin'[slot] # None
        PROVE  /\ branch'[slot] = TipCommit(origin'[slot])
               /\ \A t \in Tag : tag'[slot][t] \in {None, TagCommits(origin'[slot])[t]}
    BY <1>1, <1>5, <2>1 DEF plan, tip, of
  <2> QED
    BY <1>6, <2>1 DEF IInv, InspectedIsBuilt
<1>13. CutOff'
  <2>1. ASSUME NEW t \in Tag, tag'[slot][t] # None
        PROVE  branch'[slot] # None /\ CutOf(tag'[slot][t], branch'[slot])
    <3>1. tag'[slot][t] = of[t] /\ of[t] # None
      BY <1>5, <2>1
    <3>2. PICK i \in 1..Len(plan.input) : of[t] = ReleaseCommit(plan, i)
      BY <1>1, <3>1, UntaggedOrRelease DEF of
    <3>3. /\ Len(tip.history) = Len(plan.input)
          /\ of[t] = [tip EXCEPT !.history = SubSeq(@, 1, i)]
      BY <1>1, <3>2, ReleaseInTip DEF tip
    <3>4. CutOf(of[t], tip)
      BY <3>3 DEF CutOf
    <3> QED
      BY <1>1, <1>5, <3>1, <3>4, TipType DEF tip
  <2> QED
    BY <1>6, <2>1, TagsAreCuts DEF IInv, CutOff
<1> QED
  BY <1>9, <1>10, <1>11, <1>12, <1>13, TagsAreCuts DEF IInv

LEMMA NextIInv == IInv /\ [Next]_vars => IInv'
<1> SUFFICES ASSUME IInv, [Next]_vars PROVE IInv'
  OBVIOUS
<1> USE DEF refs
<1>a. TInv /\ TInv' /\ job \in [Builder -> Command] /\ pc \in [Builder -> Label]
  BY NextTInv, JobTypes DEF IInv, TInv
<1>1. CASE UNCHANGED vars \/ \E input \in Input : Edit(input)
  <2>1. UNCHANGED <<branch, tag, ledger, pc, job, used, origin>>
    BY <1>1 DEF vars, Edit
  <2>2. OwnRun' /\ SlotsOfRuns' /\ AppliesWhole'
    BY <2>1 DEF IInv, OwnRun, SlotsOfRuns, AppliesWhole, Holds, Unwritten, Written, Empty, Whole
  <2> QED
    BY <1>a, <2>1, <2>2, SameRefs DEF IInv
<1>2. ASSUME NEW b \in Builder, NEW m \in Model, NEW e \in Epoch, NEW out \in BOOLEAN,
             PlanOnly(b, m, e, out)
      PROVE  IInv'
  <2> DEFINE command == [NoJob EXCEPT !.plan = [model |-> m, epoch |-> e, input |-> work]]
  <2>1. /\ pc' = [pc EXCEPT ![b] = "timestamp"] /\ job' = [job EXCEPT ![b] = command]
        /\ UNCHANGED <<refs, ledger, used>>
    BY <1>2 DEF PlanOnly, PlanFrom, Goto
  <2>2. ~command.full /\ ~command.applies
    BY DEF NoJob
  <2> HIDE DEF command
  <2>3. OthersKept(b) /\ pc'[b] = "timestamp" /\ job'[b] = command
    BY <1>a, <2>1, OthersKeep
  <2>4. ~Holds(b)' /\ ~Unwritten(b)' /\ ~Written(b)'
    BY <2>2, <2>3 DEF Holds, Unwritten, Written
  <2> QED
    BY <1>a, <2>1, <2>3, <2>4, GoOnKeeps
<1>3. ASSUME NEW b \in Builder, NEW r \in Run, NEW label, NEW command,
             pc' = [pc EXCEPT ![b] = label], job' = [job EXCEPT ![b] = command],
             command.run = r, ~command.applies, Claim(r), UNCHANGED <<refs, ledger>>
      PROVE  IInv'
  <2>1. OthersKept(b) /\ job'[b] = command
    BY <1>3, <1>a, OthersKeep
  <2> QED
    BY <1>3, <1>a, <2>1, ClaimKeeps
<1>4. ASSUME NEW b \in Builder, NEW m \in Model, NEW e \in Epoch, NEW out \in BOOLEAN,
             NEW r \in Run, PlanAndApply(b, m, e, out, r)
      PROVE  IInv'
  <2> DEFINE command == [NoJob EXCEPT !.plan = [model |-> m, epoch |-> e, input |-> work],
                                      !.run = r, !.full = TRUE]
  <2>1. /\ pc' = [pc EXCEPT ![b] = "timestamp"] /\ job' = [job EXCEPT ![b] = command]
        /\ Claim(r) /\ UNCHANGED <<refs, ledger>>
    BY <1>4 DEF PlanAndApply, PlanFrom, Goto
  <2>2. command.run = r /\ ~command.applies
    BY DEF NoJob
  <2> HIDE DEF command
  <2> QED
    BY <1>3, <2>1, <2>2
<1>5. ASSUME NEW b \in Builder, NEW r \in Run, ApplyFile(b, r)
      PROVE  IInv'
  <2> DEFINE command == [NoJob EXCEPT !.plan = planFile, !.loaded = planFile, !.run = r]
  <2>1. /\ pc' = [pc EXCEPT ![b] = "render"] /\ job' = [job EXCEPT ![b] = command]
        /\ Claim(r) /\ UNCHANGED <<refs, ledger>>
    BY <1>5 DEF ApplyFile, Goto
  <2>2. command.run = r /\ ~command.applies
    BY DEF NoJob
  <2> HIDE DEF command
  <2> QED
    BY <1>3, <2>1, <2>2
<1>6. ASSUME NEW b \in Builder, NEW m \in Model, NEW e \in Epoch, NEW r \in Run,
             ApplyDirect(b, m, e, r)
      PROVE  IInv'
  <2> DEFINE command == [NoJob EXCEPT !.plan = [model |-> m, epoch |-> e, input |-> work],
                                      !.run = r]
  <2>1. /\ pc' = [pc EXCEPT ![b] = "render"] /\ job' = [job EXCEPT ![b] = command]
        /\ Claim(r) /\ UNCHANGED <<refs, ledger>>
    BY <1>6 DEF ApplyDirect, Goto
  <2>2. command.run = r /\ ~command.applies
    BY DEF NoJob
  <2> HIDE DEF command
  <2> QED
    BY <1>3, <2>1, <2>2
<1>7. ASSUME NEW b \in Builder, Render(b)
      PROVE  IInv'
  <2>1. /\ pc[b] = "render" /\ pc'[b] = "refs"
        /\ job'[b].run = job[b].run /\ OthersKept(b)
        /\ UNCHANGED <<refs, ledger, used>>
    <3> DEFINE command == [job[b] EXCEPT !.plan = Rendered(b), !.applies = TRUE]
    <3>1. /\ pc' = [pc EXCEPT ![b] = "refs"] /\ job' = [job EXCEPT ![b] = command]
          /\ command.run = job[b].run
      BY <1>7, <1>a DEF Render, Goto, Command
    <3> HIDE DEF command
    <3>2. OthersKept(b) /\ pc'[b] = "refs" /\ job'[b] = command
      BY <1>a, <3>1, OthersKeep
    <3> QED
      BY <1>7, <3>1, <3>2 DEF Render
  <2>2. ~job[b].applies
    BY <1>a, <2>1 DEF TInv, Standing
  <2>3. Holds(b) /\ Unwritten(b) /\ ~Written(b)'
    BY <2>1, <2>2 DEF Holds, Unwritten, Written
  <2> QED
    BY <1>a, <2>1, <2>3, GoOnKeeps
<1>8. ASSUME NEW b \in Builder, Leave(b)
      PROVE  /\ OthersKept(b) /\ ~Holds(b)' /\ ~Unwritten(b)' /\ ~Written(b)'
  <2>1. OthersKept(b) /\ pc'[b] = "idle" /\ job'[b] = NoJob
    BY <1>8, <1>a, OthersKeep DEF Leave, Goto
  <2>2. ~NoJob.full /\ ~NoJob.applies
    BY DEF NoJob
  <2> QED
    BY <2>1, <2>2 DEF Holds, Unwritten, Written
<1>9. ASSUME NEW b \in Builder, RefuseDrift(b) \/ RefuseTimestamp(b) \/ Crash(b)
      PROVE  IInv'
  <2>1. Leave(b) /\ UNCHANGED <<refs, ledger, used>>
    BY <1>9 DEF RefuseDrift, RefuseTimestamp, Crash
  <2> QED
    BY <1>a, <1>8, <2>1, GoOnKeeps
<1>10. ASSUME NEW b \in Builder, WriteRefs(b)
       PROVE  IInv'
  <2>1. /\ pc[b] = "refs" /\ RefsMoved(b, Tag) /\ UNCHANGED <<ledger, used>>
        /\ pc' = [pc EXCEPT ![b] = "timestamp"] /\ job' = [job EXCEPT ![b] = job[b]]
    BY <1>10, <1>a DEF WriteRefs, Goto
  <2>2. OthersKept(b) /\ pc'[b] = "timestamp" /\ job'[b] = job[b]
    BY <1>a, <2>1, OthersKeep
  <2>3. job[b].applies
    BY <1>a, <2>1 DEF TInv, Standing
  <2>4. ~Unwritten(b)'
    BY <2>2, <2>3 DEF Unwritten
  <2> QED
    BY <1>a, <2>1, <2>2, <2>4, MoveKeeps
<1>11. ASSUME NEW b \in Builder, NEW tags \in SUBSET Tag, CrashInRefs(b, tags)
       PROVE  IInv'
  <2>1. pc[b] = "refs" /\ RefsMoved(b, tags) /\ UNCHANGED <<ledger, used>> /\ Leave(b)
    BY <1>11 DEF CrashInRefs
  <2> QED
    BY <1>a, <1>8, <2>1, MoveKeeps
<1>12. ASSUME NEW b \in Builder, NEW label, pc[b] \notin {"render", "refs"},
              label \notin {"render", "refs"}, pc' = [pc EXCEPT ![b] = label],
              UNCHANGED job \/ \E n \in Nat : job' = [job EXCEPT ![b].cites = n]
       PROVE  /\ OthersKept(b) /\ job'[b].run = job[b].run /\ job'[b].plan = job[b].plan
              /\ Holds(b)' => Holds(b)
              /\ Unwritten(b)' => Unwritten(b)
              /\ Written(b)' => Written(b)
  <2> DEFINE old == job[b]
             k == job'[b].cites
             command == [old EXCEPT !.cites = k]
  <2>1. old \in Command /\ job' = [job EXCEPT ![b] = command]
    BY <1>12, <1>a DEF Command
  <2> HIDE DEF old, k
  <2>2. /\ command.plan = old.plan /\ command.run = old.run
        /\ (command.full <=> old.full) /\ (command.applies <=> old.applies)
    BY <2>1 DEF Command
  <2> HIDE DEF command
  <2>3. OthersKept(b) /\ pc'[b] = label /\ job'[b] = command
    BY <1>12, <1>a, <2>1, OthersKeep
  <2> QED
    BY <1>12, <2>2, <2>3 DEF Holds, Unwritten, Written, old
<1>13. ASSUME NEW b \in Builder, FindTimestamp(b) \/ MissTimestamp(b)
       PROVE  IInv'
  <2>1. /\ UNCHANGED <<refs, ledger, used>> /\ pc[b] \notin {"render", "refs"}
        /\ \E label : label \notin {"render", "refs"} /\ pc' = [pc EXCEPT ![b] = label]
        /\ UNCHANGED job \/ \E n \in Nat : job' = [job EXCEPT ![b].cites = n]
    BY <1>13, <1>a, FirstTimestampIsFirst
       DEF FindTimestamp, MissTimestamp, Goto, AfterTimestamp, TInv
  <2> QED
    BY <1>a, <1>12, <2>1, GoOnKeeps
<1>14. ASSUME NEW b \in Builder, NEW action \in {"curation-timestamp", "plan", "apply"},
              pc[b] # "idle", Record(b, action), action = "apply" => Written(b)
       PROVE  /\ UNCHANGED <<refs, used>>
              /\ \E e \in Line :
                   /\ ledger' = Append(ledger, e)
                   /\ e.action = "apply" =>
                        /\ Written(b) /\ e.run = job[b].run /\ e.plan = job[b].plan
                        /\ e.outputs = Commits(e.plan)
  <2>1. Entry(b, action) \in Line /\ ledger' = Append(ledger, Entry(b, action))
    BY <1>14, <1>a, RecordType
  <2>2. /\ Entry(b, action).action = action /\ Entry(b, action).run = job[b].run
        /\ Entry(b, action).plan = job[b].plan
        /\ action = "apply" => Entry(b, action).outputs = Commits(job[b].plan)
    BY DEF Entry
  <2>3. UNCHANGED <<refs, used>>
    BY <1>14 DEF Record
  <2> HIDE DEF refs
  <2> QED
    BY <1>14, <2>1, <2>2, <2>3
<1>15. ASSUME NEW b \in Builder, AppendTimestamp(b)
       PROVE  IInv'
  <2>1. /\ pc[b] = "append timestamp" /\ Record(b, "curation-timestamp")
        /\ pc' = [pc EXCEPT ![b] = AfterTimestamp(b)]
        /\ AfterTimestamp(b) \notin {"render", "refs"}
    BY <1>15 DEF AppendTimestamp, Goto, AfterTimestamp
  <2>2. \E n \in Nat : job' = [job EXCEPT ![b].cites = n]
    <3>1. Len(ledger) + 1 \in Nat
      BY <1>a, JobTypes DEF TInv
    <3> QED
      BY <1>15, <3>1 DEF AppendTimestamp
  <2>3. /\ OthersKept(b) /\ job'[b].run = job[b].run /\ job'[b].plan = job[b].plan
        /\ Holds(b)' => Holds(b)
        /\ Unwritten(b)' => Unwritten(b)
        /\ Written(b)' => Written(b)
    BY <1>12, <2>1, <2>2
  <2>4. /\ UNCHANGED <<refs, used>>
        /\ \E e \in Line :
             /\ ledger' = Append(ledger, e)
             /\ e.action = "apply" =>
                  /\ Written(b) /\ e.run = job[b].run /\ e.plan = job[b].plan
                  /\ e.outputs = Commits(e.plan)
    BY <1>14, <2>1
  <2> QED
    BY <1>a, <2>3, <2>4, GoOnKeeps
<1>16. ASSUME NEW b \in Builder, JournalPlan(b)
       PROVE  IInv'
  <2>1. pc[b] = "journal plan" /\ Record(b, "plan") /\ ~job[b].applies
    BY <1>16, <1>a DEF JournalPlan, TInv, Standing
  <2>2. /\ UNCHANGED <<refs, used>>
        /\ \E e \in Line :
             /\ ledger' = Append(ledger, e)
             /\ e.action = "apply" =>
                  /\ Written(b) /\ e.run = job[b].run /\ e.plan = job[b].plan
                  /\ e.outputs = Commits(e.plan)
    BY <1>14, <2>1
  <2>3. CASE ~job[b].full
    <3>1. Leave(b)
      BY <1>16, <2>3 DEF JournalPlan
    <3>2. OthersKept(b) /\ ~Holds(b)' /\ ~Unwritten(b)' /\ ~Written(b)'
      BY <1>8, <3>1
    <3> QED
      BY <1>a, <2>2, <3>2, GoOnKeeps
  <2>4. CASE job[b].full
    <3>1. pc' = [pc EXCEPT ![b] = "render"] /\ job' = [job EXCEPT ![b] = job[b]]
      BY <1>16, <1>a, <2>4 DEF JournalPlan, Goto
    <3>2. OthersKept(b) /\ pc'[b] = "render" /\ job'[b] = job[b]
      BY <1>a, <3>1, OthersKeep
    <3>3. Holds(b) /\ Unwritten(b) /\ ~Written(b)'
      BY <2>1, <2>4, <3>2 DEF Holds, Unwritten, Written
    <3> QED
      BY <1>a, <2>2, <3>2, <3>3, GoOnKeeps
  <2> QED
    BY <2>3, <2>4
<1>17. ASSUME NEW b \in Builder, JournalApply(b)
       PROVE  IInv'
  <2>1. pc[b] = "journal apply" /\ Record(b, "apply") /\ Leave(b) /\ job[b].applies
    BY <1>17, <1>a DEF JournalApply, TInv, Standing
  <2>2. Written(b)
    BY <2>1 DEF Written
  <2>3. OthersKept(b) /\ ~Holds(b)' /\ ~Unwritten(b)' /\ ~Written(b)'
    BY <1>8, <2>1
  <2>4. /\ UNCHANGED <<refs, used>>
        /\ \E e \in Line :
             /\ ledger' = Append(ledger, e)
             /\ e.action = "apply" =>
                  /\ Written(b) /\ e.run = job[b].run /\ e.plan = job[b].plan
                  /\ e.outputs = Commits(e.plan)
    BY <1>14, <2>1, <2>2
  <2> QED
    BY <1>a, <2>3, <2>4, GoOnKeeps
<1> QED
  BY <1>1, <1>2, <1>4, <1>5, <1>6, <1>7, <1>9, <1>10, <1>11, <1>13, <1>15, <1>16, <1>17
  DEF Next, Start, Advance, BreakOff

(***************************************************************************)
(* What the curator inspected is what is built: whatever was edited, a     *)
(* candidate of a plan file holds the releases of that file, or some.      *)
(***************************************************************************)
THEOREM InspectedPlanIsBuilt == Spec => []InspectedIsBuilt
<1>1. IInv => InspectedIsBuilt
  BY DEF IInv
<1> QED
  BY <1>1, InitIInv, NextIInv, PTL DEF Spec

(***************************************************************************)
(* A candidate that a crash cut short has no tag outside of the history    *)
(* that its branch names.                                                  *)
(***************************************************************************)
THEOREM CandidatesAreClosed == Spec => []TagsOnBranch
<1>1. IInv => TagsOnBranch
  BY DEF IInv
<1> QED
  BY <1>1, InitIInv, NextIInv, PTL DEF Spec

(***************************************************************************)
(* An apply entry describes a complete candidate, which no other command   *)
(* has touched since, and lists all that its refs reach.                   *)
(***************************************************************************)
THEOREM AppliesDescribeCandidates == Spec => []AppliesAreComplete
<1>1. ASSUME IInv
      PROVE  AppliesAreComplete
  <2>1. ASSUME NEW n \in 1..Len(ledger), ledger[n].action = "apply"
        PROVE  /\ Whole(ledger[n].plan, ledger[n].run)
               /\ ledger[n].outputs = {TagCommits(ledger[n].plan)[t] : t \in Tag} \ {None}
    <3>1. ledger[n] \in Line
      BY <1>1, JobTypes, ElementOfSeq DEF IInv, TInv
    <3>2. ledger[n].plan \in Plan
      BY <3>1 DEF Line
    <3> QED
      BY <1>1, <2>1, <3>2, CommitsAreTagged DEF IInv, AppliesWhole
  <2> QED
    BY <2>1 DEF AppliesAreComplete, Whole
<1> QED
  BY <1>1, InitIInv, NextIInv, PTL DEF Spec

-----------------------------------------------------------------------------
(***************************************************************************)
(* A builder that is alone.  Nobody writes between its look for a          *)
(* timestamp and its append, so that the ledger has one timestamp at most; *)
(* the epoch of everything that is journaled is the one it records.        *)
(***************************************************************************)
Alone == \A b, c \in Builder : b = c

OnRecord(e) == \E n \in Timestamps : ledger[n].epoch = e

OneEpoch ==
  /\ \A m, n \in Timestamps : m = n
  /\ \A b \in Builder : pc[b] = "append timestamp" => Timestamps = {}
  /\ \A b \in Builder :
       pc[b] \in {"journal plan", "journal apply"} => OnRecord(job[b].plan.epoch)
  /\ \A n \in 1..Len(ledger) :
       ledger[n].action = "apply" => OnRecord(ledger[n].plan.epoch)

LEMMA TimestampsAppend ==
  ASSUME TInv, NEW e \in Line, ledger' = Append(ledger, e)
  PROVE  /\ Len(ledger') = Len(ledger) + 1 /\ ledger'[Len(ledger) + 1] = e
         /\ \A n \in 1..Len(ledger) : ledger'[n] = ledger[n]
         /\ 1..Len(ledger') = 1..Len(ledger) \cup {Len(ledger) + 1}
         /\ e.action # "curation-timestamp" => Timestamps' = Timestamps
         /\ e.action = "curation-timestamp" => Timestamps' = Timestamps \cup {Len(ledger) + 1}
         /\ \A x : OnRecord(x) => OnRecord(x)'
<1>1. ledger \in Seq(Line) /\ Len(ledger) \in Nat
  BY JobTypes DEF TInv
<1>2. /\ Len(ledger') = Len(ledger) + 1 /\ ledger'[Len(ledger) + 1] = e
      /\ \A n \in 1..Len(ledger) : ledger'[n] = ledger[n]
  BY <1>1
<1>3. 1..Len(ledger') = 1..Len(ledger) \cup {Len(ledger) + 1}
  BY <1>1, <1>2
<1>4. e.action # "curation-timestamp" => Timestamps' = Timestamps
  BY <1>2, <1>3 DEF Timestamps
<1>5. e.action = "curation-timestamp" => Timestamps' = Timestamps \cup {Len(ledger) + 1}
  BY <1>2, <1>3 DEF Timestamps
<1>6. ASSUME NEW x, OnRecord(x)
      PROVE  OnRecord(x)'
  <2>1. PICK n \in Timestamps : ledger[n].epoch = x
    BY <1>6 DEF OnRecord
  <2>2. n \in Timestamps' /\ ledger'[n] = ledger[n]
    BY <1>2, <1>4, <1>5 DEF Timestamps
  <2> QED
    BY <2>1, <2>2 DEF OnRecord
<1> QED
  BY <1>2, <1>3, <1>4, <1>5, <1>6

(* The ledger grows by an entry that is not a timestamp.                   *)
LEMMA EntryKeepsEpoch ==
  ASSUME Alone, TInv, OneEpoch, NEW b \in Builder, NEW action \in {"plan", "apply"},
         pc[b] \in {"journal plan", "journal apply"}, Record(b, action),
         pc'[b] \in {"idle", "render"}
  PROVE  OneEpoch'
<1> DEFINE e == Entry(b, action)
<1>1. e \in Line /\ ledger' = Append(ledger, e)
  BY RecordType
<1>2. e.action = action /\ e.plan = job[b].plan
  BY DEF Entry
<1> HIDE DEF e
<1>3. Timestamps' = Timestamps
  BY <1>1, <1>2, TimestampsAppend
<1>4. \A n \in 1..Len(ledger') : n \in 1..Len(ledger) \/ ledger'[n] = e
  BY <1>1, TimestampsAppend
<1>5. OnRecord(e.plan.epoch)
  BY <1>2 DEF OneEpoch
<1>6. \A n \in 1..Len(ledger') : ledger'[n].action = "apply" => OnRecord(ledger'[n].plan.epoch)
  BY <1>1, <1>4, <1>5, TimestampsAppend DEF OneEpoch
<1>7. \A n \in 1..Len(ledger') : ledger'[n].action = "apply" => OnRecord(ledger[n].plan.epoch)'
  BY <1>1, <1>6, TimestampsAppend
<1> QED
  BY <1>3, <1>7 DEF OneEpoch, Alone

LEMMA NextOneEpoch ==
  ASSUME Alone, TInv, OneEpoch, [Next]_vars
  PROVE  OneEpoch'
<1>a. job \in [Builder -> Command] /\ pc \in [Builder -> Label] /\ ledger \in Seq(Line)
  BY JobTypes DEF TInv
<1>b. ASSUME UNCHANGED ledger
      PROVE  Timestamps' = Timestamps /\ \A x : OnRecord(x)' <=> OnRecord(x)
  BY <1>b DEF OnRecord, Timestamps
<1>1. CASE UNCHANGED vars \/ \E input \in Input : Edit(input)
  <2>1. UNCHANGED <<ledger, pc, job>>
    BY <1>1 DEF vars, Edit
  <2> QED
    BY <1>b, <2>1 DEF OneEpoch
<1>2. ASSUME NEW b \in Builder, UNCHANGED ledger,
             pc'[b] \in {"idle", "render", "refs", "timestamp"}
      PROVE  OneEpoch'
  <2>1. pc'[b] \notin {"append timestamp", "journal plan", "journal apply"}
    BY <1>2
  <2> QED
    BY <1>b, <1>2, <2>1 DEF OneEpoch, Alone
<1>3. ASSUME NEW b \in Builder, Start(b)
      PROVE  OneEpoch'
  <2>1. UNCHANGED ledger /\ (\E label \in {"timestamp", "render"} : Goto(b, label))
    BY <1>3 DEF Start, PlanOnly, PlanAndApply, PlanFrom, ApplyFile, ApplyDirect, refs
  <2> QED
    BY <1>2, <1>a, <2>1 DEF Goto
<1>4. ASSUME NEW b \in Builder,
             \/ Render(b) \/ RefuseDrift(b) \/ RefuseTimestamp(b) \/ WriteRefs(b) \/ BreakOff(b)
      PROVE  OneEpoch'
  <2>1. UNCHANGED ledger /\ (\E label \in {"idle", "refs", "timestamp"} : Goto(b, label))
    BY <1>4 DEF Render, RefuseDrift, RefuseTimestamp, WriteRefs, BreakOff, Crash,
       CrashInRefs, Leave, refs
  <2> QED
    BY <1>2, <1>a, <2>1 DEF Goto
<1>5. ASSUME NEW b \in Builder, FindTimestamp(b)
      PROVE  OneEpoch'
  <2>1. /\ UNCHANGED ledger /\ job'[b].plan = job[b].plan
        /\ ledger[FirstTimestamp].epoch = job[b].plan.epoch
        /\ pc'[b] \in {"journal plan", "journal apply"}
    BY <1>5, <1>a DEF FindTimestamp, Goto, AfterTimestamp, Command
  <2>2. FirstTimestamp \in Timestamps
    BY <1>5, FirstTimestampIsFirst DEF FindTimestamp, TInv
  <2>3. OnRecord(job[b].plan.epoch)'
    BY <2>1, <2>2 DEF OnRecord, Timestamps
  <2> QED
    BY <1>b, <2>1, <2>3 DEF OneEpoch, Alone
<1>6. ASSUME NEW b \in Builder, MissTimestamp(b)
      PROVE  OneEpoch'
  <2>1. UNCHANGED ledger /\ Timestamps = {} /\ pc'[b] = "append timestamp"
    BY <1>6, <1>a DEF MissTimestamp, Goto
  <2> QED
    BY <1>b, <2>1 DEF OneEpoch, Alone
<1>7. ASSUME NEW b \in Builder, AppendTimestamp(b)
      PROVE  OneEpoch'
  <2> DEFINE e == Entry(b, "curation-timestamp")
  <2>1. e \in Line /\ ledger' = Append(ledger, e)
    BY <1>7, RecordType DEF AppendTimestamp
  <2>2. /\ e.action = "curation-timestamp" /\ e.epoch = job[b].plan.epoch
        /\ job'[b].plan = job[b].plan /\ pc'[b] \in {"journal plan", "journal apply"}
    BY <1>7, <1>a DEF AppendTimestamp, Entry, Goto, AfterTimestamp, Command
  <2>3. Timestamps = {}
    BY <1>7 DEF AppendTimestamp, OneEpoch
  <2> HIDE DEF e
  <2>4. Timestamps' = {Len(ledger) + 1} /\ ledger'[Len(ledger) + 1].epoch = job'[b].plan.epoch
    BY <2>1, <2>2, <2>3, TimestampsAppend
  <2>5. OnRecord(job[b].plan.epoch)'
    BY <2>4 DEF OnRecord
  <2>6. \A n \in 1..Len(ledger') : ledger'[n].action # "apply"
    <3>1. \A n \in 1..Len(ledger) : ledger[n].action # "apply"
      BY <2>3 DEF OneEpoch, OnRecord
    <3> QED
      BY <2>1, <2>2, <3>1, TimestampsAppend
  <2> QED
    BY <2>2, <2>4, <2>5, <2>6 DEF OneEpoch, Alone
<1>8. ASSUME NEW b \in Builder, JournalPlan(b) \/ JournalApply(b)
      PROVE  OneEpoch'
  <2>1. /\ \E action \in {"plan", "apply"} : Record(b, action)
        /\ pc[b] \in {"journal plan", "journal apply"} /\ pc'[b] \in {"idle", "render"}
    BY <1>8, <1>a DEF JournalPlan, JournalApply, Leave, Goto
  <2> QED
    BY <2>1, EntryKeepsEpoch
<1> QED
  BY <1>1, <1>3, <1>4, <1>5, <1>6, <1>7, <1>8 DEF Next, Advance

(***************************************************************************)
(* D4, one fixed date for every rebuild: whatever a builder that is alone  *)
(* does, through crashes and edits, two journaled builds of one input made *)
(* the same objects.                                                       *)
(***************************************************************************)
THEOREM RebuildsOfOneBuilderAgree ==
  ASSUME Alone
  PROVE  Spec => []RebuildsAgree
<1>1. Init => IInv /\ OneEpoch
  <2>1. Init => OneEpoch
    BY DEF Init, OneEpoch, Timestamps
  <2> QED
    BY <2>1, InitIInv
<1>2. IInv /\ OneEpoch /\ [Next]_vars => (IInv /\ OneEpoch)'
  BY NextIInv, NextOneEpoch DEF IInv
<1>3. ASSUME IInv, OneEpoch
      PROVE  RebuildsAgree
  <2> SUFFICES ASSUME NEW m \in 1..Len(ledger), NEW n \in 1..Len(ledger),
                      ledger[m].action = "apply", ledger[n].action = "apply",
                      ledger[m].plan.model = ledger[n].plan.model,
                      ledger[m].plan.input = ledger[n].plan.input
               PROVE  ledger[m].outputs = ledger[n].outputs
    BY DEF RebuildsAgree
  <2>1. ledger[m] \in Line /\ ledger[n] \in Line
    BY <1>3, JobTypes, ElementOfSeq DEF IInv, TInv
  <2>2. ledger[m].plan.epoch = ledger[n].plan.epoch
    BY <1>3 DEF OneEpoch, OnRecord
  <2>3. ledger[m].plan \in Plan /\ ledger[n].plan \in Plan
    BY <2>1 DEF Line
  <2>4. ledger[m].plan = ledger[n].plan
    BY <2>2, <2>3 DEF Plan
  <2> QED
    BY <1>3, <2>4 DEF IInv, AppliesWhole
<1> QED
  BY <1>1, <1>2, <1>3, PTL DEF Spec
=============================================================================
