-------------------------------- MODULE Build --------------------------------
(***************************************************************************)
(* swhap build (swhap_core/history): do_plan, do_apply and do_build.  A    *)
(* command reads the curated input, writes plan.json, then the candidate   *)
(* refs, then the ledger, with nothing that ties the three together; the   *)
(* curator edits the input at any time, builders may share the workbench,  *)
(* and a command can die between any two effects.                          *)
(*                                                                         *)
(* Git objects are content-addressed: a release commit is what goes into   *)
(* it, and an annotated tag is determined by its name and its commit.      *)
(* Scratch runs write neither candidate refs nor the ledger and are left   *)
(* out.  Appending one entry is one step here, see Ledger.tla.             *)
(***************************************************************************)
EXTENDS Integers, Sequences, FiniteSets

CONSTANTS
  Builder,   \* commands that may run at the same time in the workbench
  Run,       \* run ids, each given to one command only (fresh ULIDs)
  Model,     \* branch models, "P" and "G"
  Epoch,     \* curation timestamps a curator may pass
  Tag,       \* release tags
  Input,     \* the states of version_history.csv with its release trees
  None,      \* an absent ref, plan file or entry
  MaxLedger, \* bound on the entries of the ledger; TLC only
  MaxFaults  \* bound on the crashes; TLC only

(* A row of the CSV and its extracted tree; no two rows share their tag.   *)
ASSUME BuildAssumption ==
  /\ \A input \in Input : input # <<>> /\ input \in Seq([tag : Tag, tree : Nat])
  /\ \A input \in Input : \A i, j \in 1..Len(input) :
       input[i].tag = input[j].tag => i = j
  /\ MaxLedger \in Nat /\ MaxFaults \in Nat

VARIABLES
  work,     \* the input as it is on disk
  planFile, \* plan.json, or None
  branch,   \* [Slot -> Maybe commit]: refs/heads/candidate/<model>/<run>
  tag,      \* [Slot -> [Tag -> Maybe commit]]: refs/tags/candidate/...
  ledger,   \* curation-timestamp, plan and apply entries
  pc,       \* where each builder is
  job,      \* the arguments and local variables of its command
  faults,   \* how many commands have died
  used,     \* the run ids given out
  origin    \* history: the plan file each slot was built from, if any

vars == <<work, planFile, branch, tag, ledger, pc, job, faults, used, origin>>

-----------------------------------------------------------------------------
(* render_p and render_g *)

Plan == [model : Model, epoch : Epoch, input : Input]

Slot == Model \X Run

Commit == [model : Model, epoch : Epoch, history : Seq([tag : Tag, tree : Nat]),
           csv : Input \cup {<<>>}]

(* An absent ref is told from any commit. *)
ASSUME NoneIsNoCommit == None \notin Commit

(***************************************************************************)
(* The commit of release i: its date is the curation epoch, its parents    *)
(* are the releases before it; a tree of model G also holds the CSV.       *)
(***************************************************************************)
ReleaseCommit(plan, i) ==
  [model |-> plan.model, epoch |-> plan.epoch,
   history |-> SubSeq(plan.input, 1, i),
   csv |-> IF plan.model = "G" THEN plan.input ELSE <<>>]

TipCommit(plan) == ReleaseCommit(plan, Len(plan.input))

TagCommits(plan) ==
  [t \in Tag |->
     IF \E i \in 1..Len(plan.input) : plan.input[i].tag = t
       THEN ReleaseCommit(plan, CHOOSE i \in 1..Len(plan.input) : plan.input[i].tag = t)
       ELSE None]

(* Mutated form of Commits: tags no release has are listed too. *)
CommitsOfAllTags(plan) == {TagCommits(plan)[t] : t \in Tag}

(* Mutated form of Commits: the first release is forgotten. *)
CommitsButTheRoot(plan) == {ReleaseCommit(plan, i) : i \in 2..Len(plan.input)}

Commits(plan) == {ReleaseCommit(plan, i) : i \in 1..Len(plan.input)}

NoTags == [t \in Tag |-> None]

NoJob == [plan |-> None, loaded |-> None, run |-> None, full |-> FALSE,
          applies |-> FALSE, cites |-> 0]

-----------------------------------------------------------------------------
Init ==
  /\ work \in Input
  /\ planFile = None
  /\ branch = [s \in Slot |-> None]
  /\ tag = [s \in Slot |-> NoTags]
  /\ ledger = <<>>
  /\ pc = [b \in Builder |-> "idle"]
  /\ job = [b \in Builder |-> NoJob]
  /\ faults = 0
  /\ used = {}
  /\ origin = [s \in Slot |-> None]

refs == <<branch, tag, origin>>

Goto(b, label) == pc' = [pc EXCEPT ![b] = label]

Leave(b) == Goto(b, "idle") /\ job' = [job EXCEPT ![b] = NoJob]

(* A command that will apply gets a run id of its own. *)
Claim(r) == r \notin used /\ used' = used \cup {r}

(* The curator corrects the CSV or a release tree. *)
Edit(input) ==
  /\ work' = input
  /\ UNCHANGED <<planFile, refs, ledger, pc, job, faults, used>>

(***************************************************************************)
(* do_plan: render what is there and write the plan file if one is named;  *)
(* the ledger comes after.                                                 *)
(***************************************************************************)
PlanFrom(b, m, e, out) ==
  /\ pc[b] = "idle"
  /\ planFile' = IF out THEN [model |-> m, epoch |-> e, input |-> work] ELSE planFile
  /\ Goto(b, "timestamp")
  /\ UNCHANGED <<work, refs, ledger, faults>>

PlanOnly(b, m, e, out) ==
  /\ PlanFrom(b, m, e, out)
  /\ job' = [job EXCEPT ![b] =
               [NoJob EXCEPT !.plan = [model |-> m, epoch |-> e, input |-> work]]]
  /\ UNCHANGED used

(* do_build is do_plan and then do_apply, with a run id. *)
PlanAndApply(b, m, e, out, r) ==
  /\ PlanFrom(b, m, e, out)
  /\ Claim(r)
  /\ job' = [job EXCEPT ![b] =
               [NoJob EXCEPT !.plan = [model |-> m, epoch |-> e, input |-> work],
                             !.run = r, !.full = TRUE]]

(* do_apply of a plan file: its model and epoch are the arguments. *)
ApplyFile(b, r) ==
  /\ pc[b] = "idle"
  /\ planFile # None
  /\ Claim(r)
  /\ job' = [job EXCEPT ![b] = [NoJob EXCEPT !.plan = planFile, !.loaded = planFile,
                                             !.run = r]]
  /\ Goto(b, "render")
  /\ UNCHANGED <<work, planFile, refs, ledger, faults>>

(* do_apply without a plan file. *)
ApplyDirect(b, m, e, r) ==
  /\ pc[b] = "idle"
  /\ Claim(r)
  /\ job' = [job EXCEPT ![b] =
               [NoJob EXCEPT !.plan = [model |-> m, epoch |-> e, input |-> work],
                             !.run = r]]
  /\ Goto(b, "render")
  /\ UNCHANGED <<work, planFile, refs, ledger, faults>>

-----------------------------------------------------------------------------
(***************************************************************************)
(* do_apply renders again what is there now, and refuses with              *)
(* HB-PLAN-DRIFT if it is not the plan that was loaded.                    *)
(***************************************************************************)
Rendered(b) == [job[b].plan EXCEPT !.input = work]

(* Mutated form of Drifted: the loaded plan is not compared. *)
NeverDrifted(b) == FALSE

Drifted(b) == job[b].loaded \notin {None, Rendered(b)}

Render(b) ==
  /\ pc[b] = "render"
  /\ ~Drifted(b)
  /\ job' = [job EXCEPT ![b].plan = Rendered(b), ![b].applies = TRUE]
  /\ Goto(b, "refs")
  /\ UNCHANGED <<work, planFile, refs, ledger, faults, used>>

RefuseDrift(b) ==
  /\ pc[b] = "render"
  /\ Drifted(b)
  /\ Leave(b)
  /\ UNCHANGED <<work, planFile, refs, ledger, faults, used>>

(* Mutated form of RefsMoved: the branch after the tags. *)
RefsMovedTagsFirst(b, tags) ==
  LET plan == job[b].plan
      slot == <<plan.model, job[b].run>>
  IN /\ branch' = IF tags = Tag THEN [branch EXCEPT ![slot] = TipCommit(plan)] ELSE branch
     /\ tag' = [tag EXCEPT ![slot] =
                  [t \in Tag |-> IF t \in tags THEN TagCommits(plan)[t] ELSE @[t]]]
     /\ origin' = [origin EXCEPT ![slot] = job[b].loaded]

(***************************************************************************)
(* execute_plan writes the objects, then the branch, then the tags; no ref *)
(* names an object before it is complete.                                  *)
(***************************************************************************)
RefsMoved(b, tags) ==
  LET plan == job[b].plan
      slot == <<plan.model, job[b].run>>
  IN /\ branch' = [branch EXCEPT ![slot] = TipCommit(plan)]
     /\ tag' = [tag EXCEPT ![slot] =
                  [t \in Tag |-> IF t \in tags THEN TagCommits(plan)[t] ELSE @[t]]]
     /\ origin' = [origin EXCEPT ![slot] = job[b].loaded]

WriteRefs(b) ==
  /\ pc[b] = "refs"
  /\ RefsMoved(b, Tag)
  /\ Goto(b, "timestamp")
  /\ UNCHANGED <<work, planFile, ledger, job, faults, used>>

Fault == faults < MaxFaults /\ faults' = faults + 1

CrashInRefs(b, tags) ==
  /\ pc[b] = "refs"
  /\ Fault
  /\ RefsMoved(b, tags)
  /\ Leave(b)
  /\ UNCHANGED <<work, planFile, ledger, used>>

Crash(b) ==
  /\ pc[b] # "idle"
  /\ Fault
  /\ Leave(b)
  /\ UNCHANGED <<work, planFile, refs, ledger, used>>

-----------------------------------------------------------------------------
(* _ensure_curation_ts: the first entry found decides. *)

Timestamps == {n \in 1..Len(ledger) : ledger[n].action = "curation-timestamp"}

FirstTimestamp == CHOOSE n \in Timestamps : \A m \in Timestamps : n <= m

AfterTimestamp(b) == IF job[b].applies THEN "journal apply" ELSE "journal plan"

(* Mutated form of FindTimestamp: any epoch on record will do. *)
FindAnyTimestamp(b) ==
  /\ pc[b] = "timestamp"
  /\ Timestamps # {}
  /\ job' = [job EXCEPT ![b].cites = FirstTimestamp]
  /\ Goto(b, AfterTimestamp(b))
  /\ UNCHANGED <<work, planFile, refs, ledger, faults, used>>

FindTimestamp(b) ==
  /\ pc[b] = "timestamp"
  /\ Timestamps # {}
  /\ ledger[FirstTimestamp].epoch = job[b].plan.epoch
  /\ job' = [job EXCEPT ![b].cites = FirstTimestamp]
  /\ Goto(b, AfterTimestamp(b))
  /\ UNCHANGED <<work, planFile, refs, ledger, faults, used>>

(* HB-PLAN-DRIFT: another epoch is on record for this acquisition. *)
RefuseTimestamp(b) ==
  /\ pc[b] = "timestamp"
  /\ Timestamps # {}
  /\ ledger[FirstTimestamp].epoch # job[b].plan.epoch
  /\ Leave(b)
  /\ UNCHANGED <<work, planFile, refs, ledger, faults, used>>

MissTimestamp(b) ==
  /\ pc[b] = "timestamp"
  /\ Timestamps = {}
  /\ Goto(b, "append timestamp")
  /\ UNCHANGED <<work, planFile, refs, ledger, job, faults, used>>

Entry(b, action) ==
  [action |-> action, epoch |-> job[b].plan.epoch, plan |-> job[b].plan,
   run |-> job[b].run, cites |-> job[b].cites,
   outputs |-> IF action = "apply" THEN Commits(job[b].plan) ELSE {}]

Record(b, action) ==
  /\ Len(ledger) < MaxLedger
  /\ ledger' = Append(ledger, Entry(b, action))
  /\ UNCHANGED <<work, planFile, refs, faults, used>>

AppendTimestamp(b) ==
  /\ pc[b] = "append timestamp"
  /\ Record(b, "curation-timestamp")
  /\ job' = [job EXCEPT ![b].cites = Len(ledger) + 1]
  /\ Goto(b, AfterTimestamp(b))

JournalPlan(b) ==
  /\ pc[b] = "journal plan"
  /\ Record(b, "plan")
  /\ IF job[b].full THEN Goto(b, "render") /\ UNCHANGED job ELSE Leave(b)

JournalApply(b) ==
  /\ pc[b] = "journal apply"
  /\ Record(b, "apply")
  /\ Leave(b)

-----------------------------------------------------------------------------
Start(b) ==
  \/ \E m \in Model, e \in Epoch, out \in BOOLEAN :
       \/ PlanOnly(b, m, e, out)
       \/ \E r \in Run : PlanAndApply(b, m, e, out, r)
  \/ \E r \in Run : ApplyFile(b, r)
  \/ \E m \in Model, e \in Epoch, r \in Run : ApplyDirect(b, m, e, r)

Advance(b) ==
  \/ Render(b) \/ RefuseDrift(b) \/ WriteRefs(b)
  \/ FindTimestamp(b) \/ RefuseTimestamp(b) \/ MissTimestamp(b)
  \/ AppendTimestamp(b) \/ JournalPlan(b) \/ JournalApply(b)

BreakOff(b) == Crash(b) \/ \E tags \in SUBSET Tag : CrashInRefs(b, tags)

Next ==
  \/ \E input \in Input : Edit(input)
  \/ \E b \in Builder : Start(b) \/ Advance(b) \/ BreakOff(b)

Spec == Init /\ [][Next]_vars

-----------------------------------------------------------------------------
(* The type invariant of the workbench and of the builders. *)
TypeOK ==
  /\ work \in Input
  /\ planFile \in Plan \cup {None}
  /\ branch \in [Slot -> Commit \cup {None}]
  /\ tag \in [Slot -> [Tag -> Commit \cup {None}]]
  /\ ledger \in Seq([action : {"curation-timestamp", "plan", "apply"}, epoch : Epoch,
                     plan : Plan, run : Run \cup {None}, cites : Nat,
                     outputs : SUBSET Commit])
  /\ pc \in [Builder -> {"idle", "render", "refs", "timestamp", "append timestamp",
                         "journal plan", "journal apply"}]
  /\ job \in [Builder -> [plan : Plan \cup {None}, loaded : Plan \cup {None},
                          run : Run \cup {None}, full : BOOLEAN, applies : BOOLEAN,
                          cites : Nat]]
  /\ faults \in Nat
  /\ used \subseteq Run
  /\ origin \in [Slot -> Plan \cup {None}]

(***************************************************************************)
(* do_apply: "what the curator inspected is what is built".  Whenever the  *)
(* input was edited, a candidate built from a plan file holds the releases *)
(* of that file, whole or cut short.                                       *)
(***************************************************************************)
InspectedIsBuilt ==
  \A s \in Slot : origin[s] # None =>
    /\ branch[s] = TipCommit(origin[s])
    /\ \A t \in Tag : tag[s][t] \in {None, TagCommits(origin[s])[t]}

(***************************************************************************)
(* A candidate may be cut short, but each of its tags leads into the       *)
(* history its branch names: publish never meets a tag without a branch.   *)
(***************************************************************************)
TagsOnBranch ==
  \A s \in Slot : \A t \in Tag : tag[s][t] # None =>
    /\ branch[s] # None
    /\ \E i \in 1..Len(branch[s].history) :
         tag[s][t] = [branch[s] EXCEPT !.history = SubSeq(@, 1, i)]

(***************************************************************************)
(* An apply entry is never early: the candidate it describes is complete,  *)
(* and what it lists as created is all that its refs reach.                *)
(***************************************************************************)
AppliesAreComplete ==
  \A n \in 1..Len(ledger) : ledger[n].action = "apply" =>
    LET plan == ledger[n].plan
        slot == <<plan.model, ledger[n].run>>
    IN /\ branch[slot] = TipCommit(plan)
       /\ tag[slot] = TagCommits(plan)
       /\ ledger[n].outputs = {tag[slot][t] : t \in Tag} \ {None}

(***************************************************************************)
(* D4: one fixed date for every rebuild.  Two journaled builds of the same *)
(* input and model created the very same objects.                          *)
(***************************************************************************)
RebuildsAgree ==
  \A m, n \in 1..Len(ledger) :
    (/\ ledger[m].action = "apply" /\ ledger[n].action = "apply"
     /\ ledger[m].plan.model = ledger[n].plan.model
     /\ ledger[m].plan.input = ledger[n].plan.input)
      => ledger[m].outputs = ledger[n].outputs

(***************************************************************************)
(* journal-schema 1: every commit on a candidate ref has a covering entry, *)
(* as soon as no command is still at work on it.                           *)
(***************************************************************************)
Covered ==
  (\A b \in Builder : pc[b] = "idle") =>
    \A s \in Slot : branch[s] # None =>
      \E n \in 1..Len(ledger) : branch[s] \in ledger[n].outputs
=============================================================================
