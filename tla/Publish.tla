------------------------------- MODULE Publish -------------------------------
(***************************************************************************)
(* swhap publish (swhap_core/publish.py): do_publish and                   *)
(* do_publish_supersede, run by any number of clones of one workbench that *)
(* share a published remote and the Software Heritage archive.  A command  *)
(* is a sequence of effects on four stores that share no transaction: the  *)
(* refs of the clone, its ledger, the remote, and the archive.  It can die *)
(* between any two effects and raise at every one that leaves the machine; *)
(* no effect is undone.                                                    *)
(*                                                                         *)
(* The candidates are built before; Ledger.tla models how one entry gets   *)
(* into the file, here appending an entry is one step.                     *)
(***************************************************************************)
EXTENDS PublishedRefs, Integers, Sequences

CONSTANTS
  Clone,      \* clones of the workbench, one command at a time in each
  Run,        \* candidate runs: refs/heads/candidate/<model>/<run>
  Tip,        \* [Run -> Commit]: the candidate branch
  TagsOf,     \* [Run -> [Tag -> Maybe]]: refs/tags/candidate/<model>/<run>/<tag>
  Nested,     \* tag names with a slash, which the ref policy refuses
  MaxLedger,  \* bound on the entries of one ledger; TLC only
  MaxFaults   \* bound on crashes and failed exchanges; TLC only

ASSUME PublishAssumption ==
  /\ Tip \in [Run -> Commit]
  /\ TagsOf \in [Run -> [Tag -> Maybe]]
  /\ Nested \subseteq Tag
  /\ MaxLedger \in Nat
  /\ MaxFaults \in Nat

VARIABLES
  local,    \* [Clone -> Refs]: SourceCode and the final tags in each clone
  ledger,   \* [Clone -> Seq(Entry)]: the entries that concern publication
  remote,   \* Refs: the published remote
  archive,  \* the snapshots Software Heritage holds
  visiting, \* a requested visit of the remote has not happened yet
  pc,       \* where each clone is in its command
  job,      \* the arguments and local variables of that command
  faults,   \* how many crashes and failed exchanges there have been
  landed    \* history: every state the refs of the remote have been in

vars == <<local, ledger, remote, archive, visiting, pc, job, faults, landed>>

Label == {"idle", "save prior", "sign off", "refs", "executed", "push", "save",
          "journal"}

(***************************************************************************)
(* rewrite-event/sign-off carries snp, rewrite-event/executed cites the    *)
(* position of its sign-off and the old and new branch tips, publish-event *)
(* carries snp and the tip it published.                                   *)
(***************************************************************************)
Entry == [kind : {"sign-off", "executed", "publish-event"}, snp : Refs,
          signOff : Nat, old : Maybe, new : Maybe]

Job == [run : Run \cup {None}, supersede : BOOLEAN, save : BOOLEAN,
        force : BOOLEAN, prior : Refs, signOff : Nat]

NoJob == [run |-> None, supersede |-> FALSE, save |-> FALSE, force |-> FALSE,
          prior |-> NoRefs, signOff |-> 0]

CandidateTags(r) == {t \in Tag : TagsOf[r][t] # None}

(* Mutated form of CandidateSnapshot: a table of another shape. *)
CandidateTable(r) ==
  [branch |-> Tip[r], tag |-> [t \in CandidateTags(r) |-> TagsOf[r][t]]]

(* The snapshot do_publish computes: SourceCode and the candidate's tags. *)
CandidateSnapshot(r) == Snapshot([branch |-> Tip[r], tag |-> TagsOf[r]])

-----------------------------------------------------------------------------
Init ==
  /\ local = [p \in Clone |-> NoRefs]
  /\ ledger = [p \in Clone |-> <<>>]
  /\ remote = NoRefs
  /\ archive = {}
  /\ visiting = FALSE
  /\ pc = [p \in Clone |-> "idle"]
  /\ job = [p \in Clone |-> NoJob]
  /\ faults = 0
  /\ landed = {NoRefs}

outside == <<remote, archive, visiting, landed>>

Goto(p, label) == pc' = [pc EXCEPT ![p] = label]

(* Raise, or return: the command is over and its local variables are gone. *)
Leave(p) == Goto(p, "idle") /\ job' = [job EXCEPT ![p] = NoJob]

Fault == faults < MaxFaults /\ faults' = faults + 1

Record(p, entry) == ledger' = [ledger EXCEPT ![p] = Append(@, entry)]

-----------------------------------------------------------------------------
(* Mutated form of StartPublish: refused once the clone has a SourceCode. *)
StartPublishOnce(p, r, save) ==
  /\ pc[p] = "idle"
  /\ local[p].branch = None
  /\ CandidateTags(r) # {}
  /\ Len(ledger[p]) < MaxLedger
  /\ job' = [job EXCEPT ![p] = [NoJob EXCEPT !.run = r, !.save = save]]
  /\ Goto(p, "refs")
  /\ UNCHANGED <<local, ledger, outside, faults>>

(* Mutated form of StartPublish: every push is forced. *)
StartPublishForced(p, r, save) ==
  /\ pc[p] = "idle"
  /\ CandidateTags(r) # {}
  /\ Len(ledger[p]) < MaxLedger
  /\ job' = [job EXCEPT ![p] = [NoJob EXCEPT !.run = r, !.save = save, !.force = TRUE]]
  /\ Goto(p, "refs")
  /\ UNCHANGED <<local, ledger, outside, faults>>

(* do_publish: the candidate must exist and have release tags. *)
StartPublish(p, r, save) ==
  /\ pc[p] = "idle"
  /\ CandidateTags(r) # {}
  /\ Len(ledger[p]) < MaxLedger
  /\ job' = [job EXCEPT ![p] = [NoJob EXCEPT !.run = r, !.save = save]]
  /\ Goto(p, "refs")
  /\ UNCHANGED <<local, ledger, outside, faults>>

(***************************************************************************)
(* do_publish_supersede (i): what is superseded is what the clone's own    *)
(* SourceCode and final tags name now; the remote is not asked.            *)
(***************************************************************************)
StartSupersede(p, r) ==
  /\ pc[p] = "idle"
  /\ local[p].branch # None
  /\ Len(ledger[p]) + 2 < MaxLedger
  /\ job' = [job EXCEPT ![p] = [NoJob EXCEPT !.run = r, !.supersede = TRUE,
                                             !.save = TRUE,
                                             !.prior = Snapshot(local[p])]]
  /\ Goto(p, "save prior")
  /\ UNCHANGED <<local, ledger, outside, faults>>

(* Mutated form of SavePrior: whatever was archived will do. *)
SavePriorUnchecked(p) ==
  /\ pc[p] = "save prior"
  /\ archive' = archive \cup {Snapshot(remote)}
  /\ Goto(p, "sign off")
  /\ UNCHANGED <<local, ledger, remote, visiting, landed, job, faults>>

(***************************************************************************)
(* (ii) archiver.save(): Software Heritage visits the remote and reports   *)
(* the snapshot it archived.  One that is not the prior snapshot raises    *)
(* PB-SNAPSHOT-MISMATCH.                                                   *)
(***************************************************************************)
SavePrior(p) ==
  /\ pc[p] = "save prior"
  /\ archive' = archive \cup {Snapshot(remote)}
  /\ IF Snapshot(remote) = job[p].prior
       THEN Goto(p, "sign off") /\ UNCHANGED job
       ELSE Leave(p)
  /\ UNCHANGED <<local, ledger, remote, visiting, landed, faults>>

(* Mutated form of SavePriorUnanswered: a queued request counts as done. *)
SavePriorOptimistic(p, queued) ==
  /\ pc[p] = "save prior"
  /\ Fault
  /\ visiting' = (visiting \/ queued)
  /\ IF queued THEN Goto(p, "sign off") /\ UNCHANGED job ELSE Leave(p)
  /\ UNCHANGED <<local, ledger, remote, archive, landed>>

(***************************************************************************)
(* The request is queued (PB-PRIOR-UNARCHIVED: no snapshot to compare yet) *)
(* or fails; the visit of a queued request happens later or never.         *)
(***************************************************************************)
SavePriorUnanswered(p, queued) ==
  /\ pc[p] = "save prior"
  /\ Fault
  /\ visiting' = (visiting \/ queued)
  /\ Leave(p)
  /\ UNCHANGED <<local, ledger, remote, archive, landed>>

Visit ==
  /\ visiting
  /\ visiting' = FALSE
  /\ archive' = archive \cup {Snapshot(remote)}
  /\ UNCHANGED <<local, ledger, remote, pc, job, faults, landed>>

(* The new candidate is resolved, then (iii) the curator's sign-off. *)
SignOff(p) ==
  /\ pc[p] = "sign off"
  /\ CandidateTags(job[p].run) # {}
  /\ Record(p, [kind |-> "sign-off", snp |-> job[p].prior, signOff |-> 0,
                old |-> None, new |-> None])
  /\ job' = [job EXCEPT ![p].signOff = Len(ledger[p]) + 1]
  /\ Goto(p, "refs")
  /\ UNCHANGED <<local, outside, faults>>

(* PB-NO-CANDIDATE: the candidate of a supersede is resolved only now. *)
RefuseUntagged(p) ==
  /\ pc[p] = "sign off"
  /\ CandidateTags(job[p].run) = {}
  /\ Leave(p)
  /\ UNCHANGED <<local, ledger, outside, faults>>

(***************************************************************************)
(* (iv), and _materialize_published_refs: the refs of the clone move first,*)
(* the branch and then one tag after the other.                            *)
(***************************************************************************)
Moved(p, tags) ==
  LET r == job[p].run
  IN [local EXCEPT ![p] = [branch |-> Tip[r],
        tag |-> [t \in Tag |-> IF t \in tags THEN TagsOf[r][t] ELSE @.tag[t]]]]

MoveRefs(p) ==
  /\ pc[p] = "refs"
  /\ CandidateTags(job[p].run) \cap Nested = {}
  /\ local' = Moved(p, CandidateTags(job[p].run))
  /\ Goto(p, IF job[p].supersede THEN "executed" ELSE "push")
  /\ UNCHANGED <<ledger, outside, job, faults>>

(* update_ref raises HB-REF-POLICY on refs/tags/<a>/<b>, after some tags. *)
RefuseTag(p, tags) ==
  /\ pc[p] = "refs"
  /\ CandidateTags(job[p].run) \cap Nested # {}
  /\ tags \subseteq CandidateTags(job[p].run) \ Nested
  /\ local' = Moved(p, tags)
  /\ Leave(p)
  /\ UNCHANGED <<ledger, outside, faults>>

(* The process dies after the branch and some of the tags have moved. *)
CrashInRefs(p, tags) ==
  /\ pc[p] = "refs"
  /\ tags \subseteq CandidateTags(job[p].run) \ Nested
  /\ Fault
  /\ local' = Moved(p, tags)
  /\ Leave(p)
  /\ UNCHANGED <<ledger, outside>>

(***************************************************************************)
(* The executed entry is appended once the clone's refs have moved and     *)
(* before the remote's have; then do_publish runs with a forcing target.   *)
(***************************************************************************)
Executed(p) ==
  /\ pc[p] = "executed"
  /\ Record(p, [kind |-> "executed", snp |-> NoRefs, signOff |-> job[p].signOff,
                old |-> job[p].prior.branch, new |-> Tip[job[p].run]])
  /\ job' = [job EXCEPT ![p].supersede = FALSE, ![p].force = TRUE]
  /\ Goto(p, "refs")
  /\ UNCHANGED <<local, outside, faults>>

-----------------------------------------------------------------------------
(***************************************************************************)
(* git push of SourceCode and the candidate's tags.  It is not --atomic:   *)
(* the remote takes each ref it accepts, and git fails if it refused one.  *)
(***************************************************************************)
Pushed(p) ==
  LET r == job[p].run
      f == job[p].force
  IN [branch |-> IF BranchAccepted(remote.branch, local[p].branch, f)
                   THEN local[p].branch ELSE remote.branch,
      tag    |-> [t \in Tag |->
                    IF t \in CandidateTags(r)
                         /\ TagAccepted(remote.tag[t], local[p].tag[t], f)
                      THEN local[p].tag[t] ELSE remote.tag[t]]]

AllAccepted(p) ==
  LET f == job[p].force
  IN /\ BranchAccepted(remote.branch, local[p].branch, f)
     /\ \A t \in CandidateTags(job[p].run) :
          TagAccepted(remote.tag[t], local[p].tag[t], f)

RemoteTakes(refs) == remote' = refs /\ landed' = landed \cup {refs}

(* Mutated form of Push: the exit status of git push is ignored. *)
PushUnchecked(p) ==
  /\ pc[p] = "push"
  /\ RemoteTakes(Pushed(p))
  /\ Goto(p, "save")
  /\ UNCHANGED <<local, ledger, archive, visiting, job, faults>>

Push(p) ==
  /\ pc[p] = "push"
  /\ RemoteTakes(Pushed(p))
  /\ IF AllAccepted(p)
       THEN Goto(p, "save") /\ UNCHANGED job
       ELSE Leave(p)
  /\ UNCHANGED <<local, ledger, archive, visiting, faults>>

(* The connection is lost, before or after the remote has moved its refs. *)
PushBroken(p, arrived) ==
  /\ pc[p] = "push"
  /\ Fault
  /\ RemoteTakes(IF arrived THEN Pushed(p) ELSE remote)
  /\ Leave(p)
  /\ UNCHANGED <<local, ledger, archive, visiting>>

(* archiver.save() after the push, if --save-code-now: a visit is queued. *)
Save(p) ==
  /\ pc[p] = "save"
  /\ visiting' = (visiting \/ job[p].save)
  /\ Goto(p, "journal")
  /\ UNCHANGED <<local, ledger, remote, archive, landed, job, faults>>

SaveFails(p) ==
  /\ pc[p] = "save"
  /\ job[p].save
  /\ Fault
  /\ Leave(p)
  /\ UNCHANGED <<local, ledger, outside>>

PublishEvent(p) ==
  /\ pc[p] = "journal"
  /\ Record(p, [kind |-> "publish-event", snp |-> CandidateSnapshot(job[p].run),
                signOff |-> 0, old |-> None, new |-> Tip[job[p].run]])
  /\ Leave(p)
  /\ UNCHANGED <<local, outside, faults>>

Crash(p) ==
  /\ pc[p] # "idle"
  /\ Fault
  /\ Leave(p)
  /\ UNCHANGED <<local, ledger, outside>>

-----------------------------------------------------------------------------
(* The command in progress takes its next step, or breaks off. *)
Advance(p) ==
  \/ SavePrior(p) \/ SignOff(p) \/ RefuseUntagged(p) \/ MoveRefs(p)
  \/ \E tags \in SUBSET Tag : RefuseTag(p, tags)
  \/ Executed(p)
  \/ Push(p) \/ Save(p) \/ PublishEvent(p)

BreakOff(p) ==
  \/ \E queued \in BOOLEAN : SavePriorUnanswered(p, queued)
  \/ \E arrived \in BOOLEAN : PushBroken(p, arrived)
  \/ \E tags \in SUBSET Tag : CrashInRefs(p, tags)
  \/ SaveFails(p) \/ Crash(p)

Next ==
  \/ Visit
  \/ \E p \in Clone :
       \/ \E r \in Run : \E save \in BOOLEAN : StartPublish(p, r, save)
       \/ \E r \in Run : StartSupersede(p, r)
       \/ Advance(p)
       \/ BreakOff(p)

Spec == Init /\ [][Next]_vars

-----------------------------------------------------------------------------
(* DV-1 of the validator, asked in clone p about the remote as it is now. *)

(* Mutated form of RecordedSupersession: the snapshots are not compared. *)
AnySupersession(entries, prior) ==
  \E n \in 1..Len(entries) :
    /\ entries[n].kind = "executed"
    /\ entries[n].signOff \in 1..Len(entries)
    /\ entries[entries[n].signOff].kind = "sign-off"

RecordedSupersession(entries, prior) ==
  \E n \in 1..Len(entries) :
    /\ entries[n].kind = "executed"
    /\ entries[n].signOff \in 1..Len(entries)
    /\ entries[entries[n].signOff].kind = "sign-off"
    /\ entries[entries[n].signOff].snp = prior

Verdict(p) ==
  IF None \in {local[p].branch, remote.branch} THEN "skip"
  ELSE IF FastForward(remote.branch, local[p].branch) THEN "pass"
  ELSE IF RecordedSupersession(ledger[p], Snapshot(remote)) THEN "warn"
  ELSE "fail"

-----------------------------------------------------------------------------
(* The type invariant of the four stores and of the commands in progress. *)
TypeOK ==
  /\ local \in [Clone -> Refs]
  /\ ledger \in [Clone -> Seq(Entry)]
  /\ remote \in Refs
  /\ archive \subseteq Refs
  /\ visiting \in BOOLEAN
  /\ pc \in [Clone -> Label]
  /\ job \in [Clone -> Job]
  /\ faults \in Nat
  /\ landed \subseteq Refs

History == INSTANCE PublishedHistory
             WITH published <- remote, archived <- archive, ever <- landed

(***************************************************************************)
(* The commands, through every crash and broken exchange, do to the remote *)
(* and the archive only what PublishedHistory allows: refs are replaced    *)
(* only when all that they named is archived.                              *)
(***************************************************************************)
HistorySpec == History!Spec

(***************************************************************************)
(* Whatever commit or tag the remote has ever shown is still reachable     *)
(* from it or from a snapshot Software Heritage holds.                     *)
(***************************************************************************)
NothingLost == History!NothingLost

(***************************************************************************)
(* do_publish_supersede: "revised-D3: no un-archived clobber".  A push     *)
(* that drops or changes what the remote names, leaves it archived.        *)
(***************************************************************************)
NoUnarchivedClobber ==
  [][Clobbers(remote, remote') => Snapshot(remote) \in archive]_vars

(***************************************************************************)
(* The remote branch leaves its history only along a rewrite some ledger   *)
(* already records: an executed entry with exactly these two tips, citing  *)
(* a sign-off of exactly the snapshot that is replaced.                    *)
(***************************************************************************)
ReplacementIsRecorded ==
  [][~FastForward(remote.branch, remote'.branch) =>
       \E p \in Clone : \E n \in 1..Len(ledger[p]) :
         LET e == ledger[p][n]
         IN /\ e.kind = "executed"
            /\ <<e.old, e.new>> = <<remote.branch, remote'.branch>>
            /\ ledger[p][e.signOff].kind = "sign-off"
            /\ ledger[p][e.signOff].snp = Snapshot(remote)]_vars

(***************************************************************************)
(* DV-1 tells a reviewer that a divergence is sanctioned because the prior *)
(* snapshot "is archived in Software Heritage".  It never asks the archive *)
(* and trusts the ledger: the snapshot really is there, in every state.    *)
(***************************************************************************)
SanctionedOnlyIfArchived ==
  \A p \in Clone : Verdict(p) = "warn" => Snapshot(remote) \in archive

(***************************************************************************)
(* A publish-event never claims too much: at some time the remote had the  *)
(* branch tip and, at that same time, every tag the entry lists.           *)
(***************************************************************************)
Shows(refs, snp) ==
  /\ refs.branch = snp.branch
  /\ \A t \in Tag : snp.tag[t] \in {None, refs.tag[t]}

PublishEventsHappened ==
  \A p \in Clone : \A n \in 1..Len(ledger[p]) :
    ledger[p][n].kind = "publish-event" =>
      \E refs \in landed : Shows(refs, ledger[p][n].snp)
=============================================================================
