----------------------------- MODULE ReleaseJobs -----------------------------
(***************************************************************************)
(* The release workflow of a workbench (chassis, build-and-publish.yml):   *)
(* jobs that a maintainer starts on the forge, each with a checkout of its *)
(* own, and curators who merge into main meanwhile.  A job extracts, pushes*)
(* source_code/ to main, builds a candidate, pushes the journal to main,   *)
(* validates and publishes.  Nothing locks main: a push is refused when    *)
(* main has moved since the checkout, and that is all that orders the jobs.*)
(*                                                                         *)
(* A build is Build.tla in one step, with the places where it can die; an  *)
(* execution of the validator is its verdict.  The engine is installed     *)
(* from its own main branch at every run, so what its rule BP-2 lets stand *)
(* on main is a parameter: BP2Allows.                                      *)
(***************************************************************************)
EXTENDS PublishedRefs, Integers, SequencesExt

CONSTANTS
  Job,       \* executions of the workflow
  Input,     \* states of raw_materials/ and metadata/ but for the journal
  Epoch,     \* contents of metadata/curation-epoch
  FirstEpoch,\* ... and the one that the template comes with
  Rendered,  \* [Input \X Epoch -> Refs]: what a build makes, or NoRefs
  Sound,     \* the inputs in which the strict-P battery finds nothing
  BP2Allows, \* what BP-2 lets stand on main next to the workbench's own
  MaxMerges, \* bound on the merges of curators; TLC only
  MaxFaults  \* bound on the steps that die; TLC only

ASSUME JobsAssumption ==
  /\ Rendered \in [Input \X Epoch -> Refs]
  /\ FirstEpoch \in Epoch
  /\ Sound \subseteq Input /\ None \notin Input
  /\ BP2Allows \in {{}, {"source_code"}}
  /\ MaxMerges \in Nat /\ MaxFaults \in Nat

VARIABLES
  main,      \* the forge: the revisions of the branch main
  published, \* the forge: SourceCode and the final tags
  pc,        \* the step each job is at
  job,       \* its checkout and what its steps hand on
  merges, faults

vars == <<main, published, pc, job, merges, faults>>

(* by stands for the id of an entry, which no other entry has. *)
Genesis(j)         == [by |-> j, action |-> "genesis"]
Stamped(j, e)      == [by |-> j, action |-> "curation-timestamp", epoch |-> e]
Applied(j, r)      == [by |-> j, action |-> "apply", refs |-> r]
PublishEvent(j, r) == [by |-> j, action |-> "publish-event", refs |-> r]

Candidates == Range(Rendered)

Entry == UNION {{Genesis(j)} \cup {Stamped(j, e) : e \in Epoch}
                \cup {Applied(j, r) : r \in Candidates}
                \cup {PublishEvent(j, r) : r \in Candidates} : j \in Job}

(* source is the input whose trees source_code/ holds, None without it. *)
Revision == [input : Input, epoch : Epoch, source : Input \cup {None},
             journal : Seq(Entry)]

Ended == {"green", "red"}
Steps == {"source", "build", "journal", "validate", "publish"}

(* base: the revision of main that the job's own main has. *)
NewJob == [base |-> 1, tree |-> main[1], candidate |-> NoRefs, supersede |-> FALSE]

Init ==
  /\ \E i \in Input :
       main = <<[input |-> i, epoch |-> FirstEpoch, source |-> None,
                 journal |-> <<>>]>>
  /\ published = NoRefs
  /\ pc = [j \in Job |-> "idle"]
  /\ job = [j \in Job |-> NewJob]
  /\ merges = 0 /\ faults = 0

Goto(j, step) == pc' = [pc EXCEPT ![j] = step]
Red(j)        == Goto(j, "red")
Fault         == faults < MaxFaults /\ faults' = faults + 1

-----------------------------------------------------------------------------
(* A curator merges a pull request: other archives, another CSV or epoch. *)
Merge(i, e) ==
  /\ merges < MaxMerges /\ merges' = merges + 1
  /\ <<i, e>> # <<Last(main).input, Last(main).epoch>>
  /\ main' = Append(main, [Last(main) EXCEPT !.input = i, !.epoch = e])
  /\ UNCHANGED <<published, pc, job, faults>>

(***************************************************************************)
(* A maintainer dispatches the workflow, which checks main out and makes   *)
(* the trees of the recipe anew (build_source_tree.py).                    *)
(***************************************************************************)
Start(j, supersede) ==
  /\ pc[j] = "idle"
  /\ job' = [job EXCEPT ![j] =
       [NewJob EXCEPT !.base = Len(main), !.supersede = supersede,
                      !.tree = [Last(main) EXCEPT !.source = Last(main).input]]]
  /\ Goto(j, "source")
  /\ UNCHANGED <<main, published, merges, faults>>

(* Mutated form of UpToDate: the push of the template, git push -f. *)
AlwaysUpToDate(j) == TRUE

(* The forge takes the job's main only if it is a fast-forward. *)
UpToDate(j) == job[j].base = Len(main)

(* Mutated form of PushMain: the base is counted on without a commit. *)
PushMainCounting(j, committed, step) ==
  IF UpToDate(j)
    THEN /\ main' = IF committed THEN Append(main, job[j].tree) ELSE main
         /\ job' = [job EXCEPT ![j].base = @ + 1]
         /\ Goto(j, step)
    ELSE Red(j) /\ UNCHANGED <<main, job>>

(***************************************************************************)
(* The step pushes its main with the commit it made, if it made one; when  *)
(* the push is refused, git fails and the job with it.                     *)
(***************************************************************************)
PushMain(j, committed, step) ==
  IF UpToDate(j)
    THEN /\ main' = IF committed THEN Append(main, job[j].tree) ELSE main
         /\ job' = [job EXCEPT ![j].base = Len(main')]
         /\ Goto(j, step)
    ELSE Red(j) /\ UNCHANGED <<main, job>>

Checkout(j) == main[job[j].base]

PushSource(j) ==
  /\ pc[j] = "source"
  /\ PushMain(j, job[j].tree.source # Checkout(j).source, "build")
  /\ UNCHANGED <<published, merges, faults>>

-----------------------------------------------------------------------------
(* swhap build --apply, in the pipe of the step with tee. *)
Timestamps(journal) ==
  {journal[k].epoch : k \in {n \in 1..Len(journal) :
                               journal[n].action = "curation-timestamp"}}

Candidate(j) == Rendered[job[j].tree.input, job[j].tree.epoch]

(* Mutated form of Refused: another epoch than the recorded one is taken. *)
RefusedUnreadable(j) == Candidate(j) = NoRefs

(* An input that cannot be rendered, or an epoch that is not on record. *)
Refused(j) ==
  \/ Candidate(j) = NoRefs
  \/ ~(Timestamps(job[j].tree.journal) \subseteq {job[j].tree.epoch})

(* Mutated form of Additions: the timestamp is written at every build. *)
AdditionsAlwaysStamped(j) ==
  (IF job[j].tree.journal = <<>> THEN <<Genesis(j)>> ELSE <<>>)
    \o <<Stamped(j, job[j].tree.epoch), Applied(j, Candidate(j))>>

(* Mutated form of Additions: no second apply entry for the same objects. *)
AdditionsOnce(j) ==
  (IF job[j].tree.journal = <<>> THEN <<Genesis(j)>> ELSE <<>>)
    \o (IF Timestamps(job[j].tree.journal) = {}
          THEN <<Stamped(j, job[j].tree.epoch)>> ELSE <<>>)
    \o (IF \E k \in Job : Applied(k, Candidate(j)) \in ToSet(job[j].tree.journal)
          THEN <<>> ELSE <<Applied(j, Candidate(j))>>)

(* What a build appends to the journal, in this order. *)
Additions(j) ==
  (IF job[j].tree.journal = <<>> THEN <<Genesis(j)>> ELSE <<>>)
    \o (IF Timestamps(job[j].tree.journal) = {}
          THEN <<Stamped(j, job[j].tree.epoch)>> ELSE <<>>)
    \o <<Applied(j, Candidate(j))>>

Journaled(j, entries, candidate) ==
  job' = [job EXCEPT ![j].tree.journal = @ \o entries, ![j].candidate = candidate]

Build(j) ==
  /\ pc[j] = "build" /\ ~Refused(j)
  /\ Journaled(j, Additions(j), Candidate(j))
  /\ Goto(j, "journal")
  /\ UNCHANGED <<main, published, merges, faults>>

(* The status of the pipe is that of tee: the step goes on without output. *)
BuildRefuses(j) ==
  /\ pc[j] = "build" /\ Refused(j)
  /\ Goto(j, "journal")
  /\ UNCHANGED <<main, published, job, merges, faults>>

BuildDies(j) ==
  /\ pc[j] = "build" /\ ~Refused(j) /\ Fault
  /\ \E n \in 0..Len(Additions(j)) :
       Journaled(j, SubSeq(Additions(j), 1, n), NoRefs)
  /\ Goto(j, "journal")
  /\ UNCHANGED <<main, published, merges>>

(* Mutated form of PushJournal: the step ignores a push that is refused. *)
PushJournalUnchecked(j) ==
  /\ pc[j] = "journal"
  /\ IF job[j].tree.journal = Checkout(j).journal
       THEN Red(j) /\ UNCHANGED <<main, job>>
     ELSE IF UpToDate(j) THEN PushMain(j, TRUE, "validate")
     ELSE Goto(j, "validate") /\ UNCHANGED <<main, job>>
  /\ UNCHANGED <<published, merges, faults>>

(* git commit fails when the build left nothing to commit. *)
PushJournal(j) ==
  /\ pc[j] = "journal"
  /\ IF job[j].tree.journal = Checkout(j).journal
       THEN Red(j) /\ UNCHANGED <<main, job>>
       ELSE PushMain(j, TRUE, "validate")
  /\ UNCHANGED <<published, merges, faults>>

(* Mutated form of Validate: a red report does not end the job. *)
ValidateOnly(j) ==
  /\ pc[j] = "validate"
  /\ IF job[j].candidate = NoRefs THEN Red(j) ELSE Goto(j, "publish")
  /\ UNCHANGED <<main, published, job, merges, faults>>

(* Every object of these refs is named by an apply entry (JC-1a). *)
Covered(refs, journal) ==
  LET applied == {journal[k].refs : k \in {n \in 1..Len(journal) :
                                            journal[n].action = "apply"}}
  IN /\ refs.branch = None \/ \E r \in applied : r.branch = refs.branch
     /\ \A t \in Tag : refs.tag[t] = None \/ \E r \in applied : r.tag[t] = refs.tag[t]

(***************************************************************************)
(* The refs of the candidate become those of the checkout, where git fails *)
(* on the empty name of a lost candidate, and swhap-validate runs over it  *)
(* under strict-P.  Without --published-remote it skips DV-1.              *)
(***************************************************************************)
Validate(j) ==
  LET tree == job[j].tree
  IN /\ pc[j] = "validate"
     /\ IF /\ job[j].candidate # NoRefs
           /\ tree.input \in Sound
           /\ Covered(job[j].candidate, tree.journal)
           /\ tree.source = None \/ "source_code" \in BP2Allows
          THEN Goto(j, "publish") ELSE Red(j)
     /\ UNCHANGED <<main, published, job, merges, faults>>

-----------------------------------------------------------------------------
(* swhap publish.  git push is not --atomic: each ref is for itself. *)
Takes(t, new) == new.tag[t] # None /\ TagAccepted(published.tag[t], new.tag[t], FALSE)

Accepted(new) ==
  /\ BranchAccepted(published.branch, new.branch, FALSE)
  /\ \A t \in Tag : new.tag[t] # None => Takes(t, new)

Pushed(new) ==
  [branch |-> IF BranchAccepted(published.branch, new.branch, FALSE)
                THEN new.branch ELSE published.branch,
   tag |-> [t \in Tag |-> IF Takes(t, new) THEN new.tag[t] ELSE published.tag[t]]]

(* The publish-event is written to the checkout, and no step commits it. *)
Publish(j) ==
  /\ pc[j] = "publish" /\ ~job[j].supersede
  /\ published' = Pushed(job[j].candidate)
  /\ IF Accepted(job[j].candidate)
       THEN /\ Journaled(j, <<PublishEvent(j, job[j].candidate)>>, job[j].candidate)
            /\ Goto(j, "green")
       ELSE Red(j) /\ UNCHANGED job
  /\ UNCHANGED <<main, merges, faults>>

(* --supersede without --save-code-now and a curator is a usage error. *)
PublishSuperseding(j) ==
  /\ pc[j] = "publish" /\ job[j].supersede
  /\ Red(j)
  /\ UNCHANGED <<main, published, job, merges, faults>>

(* The connection breaks when the forge has moved its refs. *)
PublishBroken(j) ==
  /\ pc[j] = "publish" /\ ~job[j].supersede /\ Fault
  /\ published' = Pushed(job[j].candidate)
  /\ Red(j)
  /\ UNCHANGED <<main, job, merges>>

(* The runner is lost, a tool fails, or the job is cancelled. *)
StepFails(j) ==
  /\ pc[j] \in Steps /\ Fault
  /\ Red(j)
  /\ UNCHANGED <<main, published, job, merges>>

RunStep(j) ==
  \/ PushSource(j) \/ Build(j) \/ BuildRefuses(j) \/ PushJournal(j)
  \/ Validate(j) \/ Publish(j) \/ PublishSuperseding(j)

Next ==
  \/ \E i \in Input, e \in Epoch : Merge(i, e)
  \/ \E j \in Job : \/ \E supersede \in BOOLEAN : Start(j, supersede)
                    \/ RunStep(j) \/ BuildDies(j) \/ PublishBroken(j) \/ StepFails(j)

(* The forge runs the steps of a job that was started one after the other. *)
Spec == Init /\ [][Next]_vars /\ \A j \in Job : WF_vars(RunStep(j))

-----------------------------------------------------------------------------
(* The type invariant of the forge and the jobs. *)
TypeOK ==
  /\ \A k \in 1..Len(main) : main[k] \in Revision
  /\ published \in Refs
  /\ pc \in [Job -> {"idle"} \cup Steps \cup Ended]
  /\ \A j \in Job : /\ job[j].base \in 1..Len(main) /\ job[j].tree \in Revision
                    /\ job[j].candidate \in Refs /\ job[j].supersede \in BOOLEAN
  /\ merges \in 0..MaxMerges /\ faults \in 0..MaxFaults

(***************************************************************************)
(* No job and no merge takes an entry off the journal on main, whatever    *)
(* other jobs push between its checkout and its own push.                  *)
(***************************************************************************)
JournalOnMainGrows ==
  [][IsPrefix(Last(main).journal, Last(main').journal)]_main

(***************************************************************************)
(* "At most one per acquisition" (build.py:41), which two builders in one  *)
(* directory can break (Build.tla), holds on main with any number of jobs. *)
(***************************************************************************)
OneTimestampOnMain ==
  LET journal == Last(main).journal
  IN \A m, n \in 1..Len(journal) :
       journal[m].action = "curation-timestamp" /\ journal[n].action = "curation-timestamp"
         => m = n

(***************************************************************************)
(* What is public is accounted for: every published object is named by an  *)
(* apply entry of the journal that main has, also when the job that        *)
(* published it died, or was refused in part.                              *)
(***************************************************************************)
PublishedIsCovered == Covered(published, Last(main).journal)

(* A revision of main says how this ref was made, and passes the battery. *)
Explains(rev, refs, ref(_)) ==
  /\ rev.source = rev.input /\ rev.input \in Sound
  /\ ref(Rendered[rev.input, rev.epoch]) = ref(refs)

(***************************************************************************)
(* "RED FAILS, nothing publishes": every published ref is what a revision  *)
(* of main renders to whose source_code/ is the extraction of its own      *)
(* archives and in which the battery finds nothing.                        *)
(***************************************************************************)
PublishedIsOnMain ==
  LET explained(ref(_)) ==
        ref(published) = None
          \/ \E k \in 1..Len(main) : Explains(main[k], published, ref)
  IN /\ explained(LAMBDA r : r.branch)
     /\ \A t \in Tag : explained(LAMBDA r : r.tag[t])

(***************************************************************************)
(* Everything that is public was built with one epoch, the recorded one,   *)
(* although each job takes it from the file of its own checkout.           *)
(***************************************************************************)
OneEpochPublished ==
  published # NoRefs =>
    \E e \in Timestamps(Last(main).journal) :
      LET made == {Rendered[i, e] : i \in Input}
      IN /\ \E r \in made : r.branch = published.branch \/ published.branch = None
         /\ \A t \in Tag : \E r \in made :
              r.tag[t] = published.tag[t] \/ published.tag[t] = None

(***************************************************************************)
(* The workflow publishes (chassis/README.md: "engine build --apply to a   *)
(* candidate ref -> re-validate -> swhap publish").  A job that starts     *)
(* from main as it stands, when curators and faults are done and no other  *)
(* job is under way, with a sound input, the recorded epoch and a history  *)
(* that extends what is public, publishes its candidate, whatever earlier  *)
(* jobs have left behind.                                                  *)
(***************************************************************************)
Undisturbed(j) ==
  /\ merges = MaxMerges /\ faults = MaxFaults
  /\ \A k \in Job \ {j} : pc[k] \in Ended
  /\ job[j].base = Len(main)

Publishable(j) ==
  /\ job[j].tree.input \in Sound /\ ~job[j].supersede
  /\ ~Refused(j) /\ Accepted(Candidate(j))

SoundReleaseIsPublished ==
  \A j \in Job :
    pc[j] = "source" /\ Undisturbed(j) /\ Publishable(j)
      ~> Pushed(Candidate(j)) = published
=============================================================================
