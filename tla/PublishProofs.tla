--------------------------- MODULE PublishProofs ---------------------------
(***************************************************************************)
(* Proofs about Publish, for every history of commits, every set of        *)
(* candidates and every bound; the theorems on what DV-1 and the ledger    *)
(* may claim hold for any number of clones, those on the public refs for   *)
(* one clone (MCPublish_race shows why).                                   *)
(***************************************************************************)
EXTENDS Publish, SequenceTheorems, TLAPS

-----------------------------------------------------------------------------
(* Types *)

(* A command that runs has a candidate. *)
HasRun == \A p \in Clone : pc[p] # "idle" => job[p].run \in Run

TInv == TypeOK /\ HasRun

LEMMA RefsType ==
  /\ NoRefs \in Refs
  /\ \A r \in Run : CandidateSnapshot(r) \in Refs
  /\ NoJob \in Job
BY PublishAssumption DEF Refs, NoRefs, NoJob, Job, CandidateSnapshot, Snapshot, Maybe

LEMMA MovedType ==
  ASSUME TInv, NEW p \in Clone, pc[p] # "idle", NEW tags \in SUBSET Tag
  PROVE  Moved(p, tags) \in [Clone -> Refs]
<1> DEFINE r == job[p].run
           new == [branch |-> Tip[r],
                   tag |-> [t \in Tag |-> IF t \in tags THEN TagsOf[r][t]
                                                        ELSE local[p].tag[t]]]
<1>1. r \in Run /\ local[p] \in Refs
  BY DEF TInv, TypeOK, HasRun
<1>2. Tip[r] \in Maybe /\ TagsOf[r] \in [Tag -> Maybe] /\ local[p].tag \in [Tag -> Maybe]
  BY <1>1, PublishAssumption DEF Refs, Maybe
<1>3. new \in Refs
  BY <1>2 DEF Refs
<1>4. Moved(p, tags) = [local EXCEPT ![p] = new]
  BY DEF Moved
<1> QED
  BY <1>3, <1>4 DEF TInv, TypeOK

LEMMA PushedType ==
  ASSUME TInv, NEW p \in Clone
  PROVE  Pushed(p) \in Refs
<1>1. local[p] \in Refs /\ remote \in Refs
  BY DEF TInv, TypeOK
<1>2. /\ local[p].branch \in Maybe /\ remote.branch \in Maybe
      /\ local[p].tag \in [Tag -> Maybe] /\ remote.tag \in [Tag -> Maybe]
  BY <1>1 DEF Refs
<1> QED
  BY <1>2 DEF Pushed, Refs

LEMMA RecordType ==
  ASSUME TypeOK, NEW p \in Clone, NEW e \in Entry, Record(p, e)
  PROVE  ledger' \in [Clone -> Seq(Entry)]
<1>1. Append(ledger[p], e) \in Seq(Entry)
  BY DEF TypeOK
<1> QED
  BY <1>1 DEF TypeOK, Record

LEMMA InitTInv == Init => TInv
<1> SUFFICES ASSUME Init PROVE TInv
  OBVIOUS
<1>1. <<>> \in Seq(Entry) /\ 0 \in Nat
  OBVIOUS
<1>2. HasRun /\ pc \in [Clone -> Label] /\ ledger \in [Clone -> Seq(Entry)]
  BY <1>1 DEF Init, HasRun, Label
<1>3. local \in [Clone -> Refs] /\ remote \in Refs /\ archive \subseteq Refs
      /\ landed \subseteq Refs /\ job \in [Clone -> Job]
  BY RefsType DEF Init
<1> QED
  BY <1>1, <1>2, <1>3 DEF Init, TInv, TypeOK

LEMMA LeaveType ==
  ASSUME TInv, NEW p \in Clone, Leave(p)
  PROVE  pc' \in [Clone -> Label] /\ job' \in [Clone -> Job] /\ HasRun'
BY RefsType DEF TInv, TypeOK, Leave, Goto, Label, HasRun

LEMMA NextTInv == TInv /\ [Next]_vars => TInv'
<1> SUFFICES ASSUME TInv, [Next]_vars PROVE TInv'
  OBVIOUS
<1> USE DEF outside
<1>1. CASE UNCHANGED vars
  BY <1>1 DEF vars, TInv, TypeOK, HasRun
<1>2. CASE Visit
  BY <1>2 DEF Visit, TInv, TypeOK, HasRun, Snapshot
<1>3. ASSUME NEW p \in Clone, NEW r \in Run, NEW save \in BOOLEAN, StartPublish(p, r, save)
      PROVE  TInv'
  BY <1>3, RefsType DEF StartPublish, Goto, Label, TInv, TypeOK, HasRun, Job, NoJob
<1>4. ASSUME NEW p \in Clone, NEW r \in Run, StartSupersede(p, r)
      PROVE  TInv'
  BY <1>4, RefsType DEF StartSupersede, Goto, Label, TInv, TypeOK, HasRun, Job, NoJob, Snapshot
<1>5. ASSUME NEW p \in Clone, SavePrior(p)
      PROVE  TInv'
  <2>1. CASE Leave(p)
    BY <1>5, <2>1, LeaveType DEF SavePrior, TInv, TypeOK, Snapshot
  <2>2. CASE Goto(p, "sign off") /\ UNCHANGED job
    BY <1>5, <2>2 DEF SavePrior, Goto, Label, TInv, TypeOK, HasRun, Snapshot
  <2> QED
    BY <1>5, <2>1, <2>2 DEF SavePrior
<1>6. ASSUME NEW p \in Clone, SignOff(p)
      PROVE  TInv'
  <2>1. job[p] \in Job /\ ledger[p] \in Seq(Entry)
    BY DEF TInv, TypeOK
  <2>2. [kind |-> "sign-off", snp |-> job[p].prior, signOff |-> 0,
         old |-> None, new |-> None] \in Entry
    BY <2>1 DEF Job, Entry, Maybe
  <2>3. ledger' \in [Clone -> Seq(Entry)]
    BY <1>6, <2>2, RecordType DEF SignOff, TInv
  <2>4. Len(ledger[p]) + 1 \in Nat
    BY <2>1
  <2>5. job' \in [Clone -> Job]
    BY <1>6, <2>1, <2>4 DEF SignOff, TInv, TypeOK, Job
  <2>6. \A q \in Clone : job'[q].run = job[q].run
    BY <1>6, <2>1 DEF SignOff, TInv, TypeOK, Job
  <2>7. HasRun' /\ pc' \in [Clone -> Label]
    BY <1>6, <2>6 DEF SignOff, Goto, Label, TInv, TypeOK, HasRun
  <2> QED
    BY <1>6, <2>3, <2>5, <2>7 DEF SignOff, TInv, TypeOK
<1>7. ASSUME NEW p \in Clone, NEW tags \in SUBSET Tag,
             MoveRefs(p) \/ RefuseTag(p, tags) \/ CrashInRefs(p, tags)
      PROVE  TInv'
  <2>1. pc[p] # "idle" /\ CandidateTags(job[p].run) \in SUBSET Tag
    BY <1>7 DEF MoveRefs, RefuseTag, CrashInRefs, CandidateTags
  <2>2. local' \in [Clone -> Refs]
    BY <1>7, <2>1, MovedType DEF MoveRefs, RefuseTag, CrashInRefs
  <2>3. CASE MoveRefs(p)
    BY <2>2, <2>3 DEF MoveRefs, Goto, Label, TInv, TypeOK, HasRun
  <2>4. CASE RefuseTag(p, tags)
    BY <2>2, <2>4, LeaveType DEF RefuseTag, TInv, TypeOK
  <2>5. CASE CrashInRefs(p, tags)
    BY <2>2, <2>5, LeaveType DEF CrashInRefs, Fault, TInv, TypeOK
  <2> QED
    BY <1>7, <2>3, <2>4, <2>5
<1>8. ASSUME NEW p \in Clone, Executed(p)
      PROVE  TInv'
  <2>1. job[p] \in Job /\ job[p].run \in Run
    BY <1>8 DEF Executed, TInv, TypeOK, HasRun
  <2>2. [kind |-> "executed", snp |-> NoRefs, signOff |-> job[p].signOff,
         old |-> job[p].prior.branch, new |-> Tip[job[p].run]] \in Entry
    BY <2>1, RefsType, PublishAssumption DEF Job, Entry, Refs, Maybe
  <2>3. ledger' \in [Clone -> Seq(Entry)]
    BY <1>8, <2>2, RecordType DEF Executed, TInv
  <2>4. job' \in [Clone -> Job]
    BY <1>8, <2>1 DEF Executed, TInv, TypeOK, Job
  <2>5. \A q \in Clone : job'[q].run = job[q].run
    BY <1>8, <2>1 DEF Executed, TInv, TypeOK, Job
  <2>6. HasRun' /\ pc' \in [Clone -> Label]
    BY <1>8, <2>5 DEF Executed, Goto, Label, TInv, TypeOK, HasRun
  <2> QED
    BY <1>8, <2>3, <2>4, <2>6 DEF Executed, TInv, TypeOK
<1>9. ASSUME NEW p \in Clone, NEW arrived \in BOOLEAN, Push(p) \/ PushBroken(p, arrived)
      PROVE  TInv'
  <2>1. remote' \in Refs /\ landed' \subseteq Refs
    BY <1>9, PushedType DEF Push, PushBroken, RemoteTakes, TInv, TypeOK
  <2>2. CASE Goto(p, "save") /\ UNCHANGED job /\ Push(p)
    BY <2>1, <2>2 DEF Push, Goto, Label, TInv, TypeOK, HasRun
  <2>3. CASE Leave(p)
    BY <1>9, <2>1, <2>3, LeaveType DEF Push, PushBroken, Fault, TInv, TypeOK
  <2> QED
    BY <1>9, <2>2, <2>3 DEF Push, PushBroken
<1>10. ASSUME NEW p \in Clone, Save(p)
       PROVE  TInv'
  BY <1>10 DEF Save, Goto, Label, TInv, TypeOK, HasRun, Job
<1>11. ASSUME NEW p \in Clone, PublishEvent(p)
       PROVE  TInv'
  <2>1. job[p].run \in Run
    BY <1>11 DEF PublishEvent, TInv, HasRun
  <2>2. [kind |-> "publish-event", snp |-> CandidateSnapshot(job[p].run),
         signOff |-> 0, old |-> None, new |-> Tip[job[p].run]] \in Entry
    BY <2>1, RefsType, PublishAssumption DEF Entry, Maybe
  <2> QED
    BY <1>11, <2>2, RecordType, LeaveType DEF PublishEvent, TInv, TypeOK
<1>12. ASSUME NEW p \in Clone, NEW queued \in BOOLEAN,
              RefuseUntagged(p) \/ SavePriorUnanswered(p, queued) \/ SaveFails(p) \/ Crash(p)
       PROVE  TInv'
  <2>1. pc' \in [Clone -> Label] /\ job' \in [Clone -> Job] /\ HasRun'
    BY <1>12, LeaveType DEF RefuseUntagged, SavePriorUnanswered, SaveFails, Crash
  <2>2. visiting' \in BOOLEAN
    <3>1. visiting \in BOOLEAN /\ (visiting \/ queued) \in BOOLEAN
      BY DEF TInv, TypeOK
    <3>2. ASSUME SavePriorUnanswered(p, queued) PROVE visiting' = (visiting \/ queued)
      BY <3>2, Zenon DEF SavePriorUnanswered
    <3>3. ASSUME RefuseUntagged(p) \/ SaveFails(p) \/ Crash(p) PROVE visiting' \in BOOLEAN
      BY <3>1, <3>3 DEF RefuseUntagged, SaveFails, Crash
    <3>4. ASSUME SavePriorUnanswered(p, queued) PROVE visiting' \in BOOLEAN
      BY <3>1, <3>2, <3>4, Zenon
    <3> QED
      BY <1>12, <3>3, <3>4, Zenon
  <2>3. faults' \in Nat
    <3>1. faults \in Nat /\ (Fault => faults' \in Nat)
      BY DEF Fault, TInv, TypeOK
    <3>2. RefuseUntagged(p) => faults' \in Nat
      BY <3>1 DEF RefuseUntagged
    <3>3. SavePriorUnanswered(p, queued) \/ SaveFails(p) \/ Crash(p) => Fault
      BY DEF SavePriorUnanswered, SaveFails, Crash
    <3> QED
      BY <1>12, <3>1, <3>2, <3>3
  <2> QED
    BY <1>12, <2>1, <2>2, <2>3 DEF RefuseUntagged, SavePriorUnanswered, SaveFails, Crash,
       TInv, TypeOK
<1> QED
  BY <1>1, <1>2, <1>3, <1>4, <1>5, <1>6, <1>7, <1>8, <1>9, <1>10, <1>11, <1>12
     DEF Next, Advance, BreakOff

(* The four stores and every command keep their types. *)
THEOREM TypeCorrect == Spec => []TypeOK
<1>1. Spec => []TInv
  BY InitTInv, NextTInv, PTL DEF Spec
<1>2. TInv => TypeOK
  BY DEF TInv
<1> QED
  BY <1>1, <1>2, PTL

-----------------------------------------------------------------------------
(* What the steps do to a ledger, to the archive and to landed *)

LEMMA RecordEntries ==
  ASSUME TypeOK, NEW p \in Clone, NEW e, Record(p, e)
  PROVE  \A q \in Clone : \A n \in 1..Len(ledger'[q]) :
           \/ n \in 1..Len(ledger[q]) /\ ledger'[q][n] = ledger[q][n]
           \/ q = p /\ ledger'[q][n] = e
<1> SUFFICES ASSUME NEW q \in Clone, NEW n \in 1..Len(ledger'[q])
             PROVE  \/ n \in 1..Len(ledger[q]) /\ ledger'[q][n] = ledger[q][n]
                    \/ q = p /\ ledger'[q][n] = e
  OBVIOUS
<1>1. ledger[p] \in Seq(Entry) /\ ledger[q] \in Seq(Entry)
  BY DEF TypeOK
<1>2. CASE q # p
  <2>1. ledger'[q] = ledger[q]
    BY <1>2 DEF Record, TypeOK
  <2> QED
    BY <2>1
<1>3. CASE q = p
  <2>1. ledger'[q] = Append(ledger[p], e)
    BY <1>3 DEF Record, TypeOK
  <2> QED
    BY <1>1, <1>3, <2>1
<1> QED
  BY <1>2, <1>3

(* The entries of a step are those there were, and at most the one entry   *)
(* of a sign-off, an executed rewrite or a publication.                    *)
Old(q, n) == n \in 1..Len(ledger[q]) /\ ledger'[q][n] = ledger[q][n]

Accounted(q, n) ==
  \/ Old(q, n)
  \/ /\ SignOff(q)
     /\ ledger'[q][n].kind = "sign-off"
     /\ ledger'[q][n].snp = job[q].prior
  \/ Executed(q) /\ ledger'[q][n].kind = "executed"
  \/ /\ PublishEvent(q)
     /\ ledger'[q][n].kind = "publish-event"
     /\ ledger'[q][n].snp = CandidateSnapshot(job[q].run)

LEMMA NewEntries ==
  ASSUME TypeOK, [Next]_vars
  PROVE  \A q \in Clone : \A n \in 1..Len(ledger'[q]) : Accounted(q, n)
<1>1. CASE UNCHANGED ledger
  BY <1>1 DEF Accounted, Old
<1>2. ASSUME NEW p \in Clone, NEW e, Record(p, e)
      PROVE  \A q \in Clone : \A n \in 1..Len(ledger'[q]) :
               Old(q, n) \/ (q = p /\ ledger'[q][n] = e)
  BY <1>2, RecordEntries DEF Old
<1>3. ASSUME NEW p \in Clone, SignOff(p)
      PROVE  \A q \in Clone : \A n \in 1..Len(ledger'[q]) : Accounted(q, n)
  <2> DEFINE e == [kind |-> "sign-off", snp |-> job[p].prior, signOff |-> 0,
                   old |-> None, new |-> None]
  <2>1. e.kind = "sign-off" /\ e.snp = job[p].prior /\ Record(p, e)
    BY <1>3 DEF SignOff
  <2> HIDE DEF e
  <2> QED
    BY <1>2, <1>3, <2>1 DEF Accounted
<1>4. ASSUME NEW p \in Clone, Executed(p)
      PROVE  \A q \in Clone : \A n \in 1..Len(ledger'[q]) : Accounted(q, n)
  <2> DEFINE e == [kind |-> "executed", snp |-> NoRefs, signOff |-> job[p].signOff,
                   old |-> job[p].prior.branch, new |-> Tip[job[p].run]]
  <2>1. e.kind = "executed" /\ Record(p, e)
    BY <1>4 DEF Executed
  <2> HIDE DEF e
  <2> QED
    BY <1>2, <1>4, <2>1 DEF Accounted
<1>5. ASSUME NEW p \in Clone, PublishEvent(p)
      PROVE  \A q \in Clone : \A n \in 1..Len(ledger'[q]) : Accounted(q, n)
  <2> DEFINE e == [kind |-> "publish-event", snp |-> CandidateSnapshot(job[p].run),
                   signOff |-> 0, old |-> None, new |-> Tip[job[p].run]]
  <2>1. e.kind = "publish-event" /\ e.snp = CandidateSnapshot(job[p].run) /\ Record(p, e)
    BY <1>5, SMTT(40) DEF PublishEvent
  <2> HIDE DEF e
  <2> QED
    BY <1>2, <1>5, <2>1 DEF Accounted
<1>6. UNCHANGED ledger \/ \E p \in Clone : SignOff(p) \/ Executed(p) \/ PublishEvent(p)
  BY DEF vars, Next, Advance, BreakOff, Visit, StartPublish, StartSupersede, SavePrior,
     RefuseUntagged, MoveRefs, RefuseTag, Push, Save, SavePriorUnanswered, PushBroken,
     CrashInRefs, SaveFails, Crash
<1> QED
  BY <1>1, <1>3, <1>4, <1>5, <1>6

(* Nothing leaves the archive, and no state of the remote is forgotten.    *)
LEMMA Monotone == [Next]_vars => archive \subseteq archive' /\ landed \subseteq landed'
BY DEF vars, outside, Next, Advance, BreakOff, Visit, StartPublish, StartSupersede,
   SavePrior, SignOff, RefuseUntagged, MoveRefs, RefuseTag, Executed, Push, RemoteTakes,
   Save, PublishEvent, SavePriorUnanswered, PushBroken, CrashInRefs, SaveFails, Crash

(* A command of another clone leaves this one where it is.                 *)
Idle(q) == local'[q] = local[q] /\ pc'[q] = pc[q] /\ job'[q] = job[q]

LEMMA OthersIdle ==
  ASSUME TypeOK, NEW p \in Clone, NEW q \in Clone, q # p,
         \/ \E r \in Run : \E save \in BOOLEAN : StartPublish(p, r, save)
         \/ \E r \in Run : StartSupersede(p, r)
         \/ Advance(p)
         \/ BreakOff(p)
  PROVE  Idle(q)
BY DEF Idle, TypeOK, outside, Advance, BreakOff, StartPublish, StartSupersede, SavePrior,
   SignOff, RefuseUntagged, MoveRefs, RefuseTag, Executed, Push, Save, PublishEvent,
   SavePriorUnanswered, PushBroken, CrashInRefs, SaveFails, Crash, Moved, Goto, Leave

-----------------------------------------------------------------------------
(***************************************************************************)
(* SanctionedOnlyIfArchived: a sign-off is written only after the archive  *)
(* has answered, and the archive forgets nothing.                          *)
(***************************************************************************)
SignOffsArchived ==
  \A p \in Clone : \A n \in 1..Len(ledger[p]) :
    ledger[p][n].kind = "sign-off" => ledger[p][n].snp \in archive

ReadyToSign == \A p \in Clone : pc[p] = "sign off" => job[p].prior \in archive

SInv == TInv /\ SignOffsArchived /\ ReadyToSign

(* Only the answer of the archive takes a command to its sign-off.         *)
LEMMA ReachSignOff ==
  ASSUME TInv, [Next]_vars, NEW p \in Clone, pc'[p] = "sign off"
  PROVE  \/ Idle(p)
         \/ /\ SavePrior(p) /\ Snapshot(remote) = job[p].prior /\ job' = job
            /\ Snapshot(remote) \in archive'
<1>1. CASE UNCHANGED vars \/ Visit
  BY <1>1 DEF vars, Visit, Idle
<1>2. ASSUME NEW q \in Clone,
             \/ \E r \in Run : \E save \in BOOLEAN : StartPublish(q, r, save)
             \/ \E r \in Run : StartSupersede(q, r)
             \/ Advance(q)
             \/ BreakOff(q)
      PROVE  \/ Idle(p)
             \/ /\ SavePrior(p) /\ Snapshot(remote) = job[p].prior /\ job' = job
                /\ Snapshot(remote) \in archive'
  <2>1. CASE q # p
    BY <1>2, <2>1, OthersIdle DEF TInv
  <2>2. CASE q = p
    <3>1. SavePrior(p)
      BY <1>2, <2>2 DEF TInv, TypeOK, Advance, BreakOff, StartPublish, StartSupersede,
         SignOff, RefuseUntagged, MoveRefs, RefuseTag, Executed, Push, Save, PublishEvent,
         SavePriorUnanswered, PushBroken, CrashInRefs, SaveFails, Crash, Goto, Leave
    <3> QED
      BY <3>1 DEF SavePrior, Leave, Goto, TInv, TypeOK
  <2> QED
    BY <2>1, <2>2
<1> QED
  BY <1>1, <1>2 DEF Next

(***************************************************************************)
(* Whatever any number of clones do, DV-1 accepts a divergence only from a *)
(* snapshot that Software Heritage holds.                                  *)
(***************************************************************************)
THEOREM SanctionsAreArchived == Spec => []SanctionedOnlyIfArchived
<1>1. Init => SInv
  <2> SUFFICES ASSUME Init PROVE SignOffsArchived /\ ReadyToSign
    BY InitTInv DEF SInv
  <2>1. \A p \in Clone : 1..Len(ledger[p]) = {} /\ pc[p] = "idle"
    BY DEF Init
  <2> QED
    BY <2>1 DEF SignOffsArchived, ReadyToSign
<1>2. ASSUME SInv, [Next]_vars
      PROVE  SInv'
  <2>1. TInv'
    BY <1>2, NextTInv DEF SInv
  <2>2. ASSUME NEW p \in Clone, NEW n \in 1..Len(ledger'[p]), ledger'[p][n].kind = "sign-off"
        PROVE  ledger'[p][n].snp \in archive'
    <3>1. \/ Old(p, n)
          \/ SignOff(p) /\ ledger'[p][n].snp = job[p].prior
      BY <1>2, <2>2, NewEntries DEF SInv, TInv, Accounted
    <3>2. CASE Old(p, n)
      BY <1>2, <2>2, <3>2, Monotone DEF Old, SInv, SignOffsArchived
    <3>3. CASE SignOff(p) /\ ledger'[p][n].snp = job[p].prior
      BY <1>2, <3>3, Monotone DEF SignOff, SInv, ReadyToSign
    <3> QED
      BY <3>1, <3>2, <3>3
  <2>3. ASSUME NEW p \in Clone, pc'[p] = "sign off"
        PROVE  job'[p].prior \in archive'
    <3>1. CASE Idle(p)
      BY <1>2, <2>3, <3>1, Monotone DEF Idle, SInv, ReadyToSign
    <3>2. CASE ~Idle(p)
      BY <1>2, <2>3, <3>2, ReachSignOff DEF SInv
    <3> QED
      BY <3>1, <3>2
  <2> QED
    BY <2>1, <2>2, <2>3 DEF SInv, SignOffsArchived, ReadyToSign
<1>3. SInv => SanctionedOnlyIfArchived
  BY DEF SInv, SignOffsArchived, SanctionedOnlyIfArchived, Verdict, RecordedSupersession
<1> QED
  BY <1>1, <1>2, <1>3, PTL DEF Spec

-----------------------------------------------------------------------------
(***************************************************************************)
(* PublishEventsHappened: what is pushed is the candidate, and what git    *)
(* reports as accepted is what the remote then shows.                      *)
(***************************************************************************)
CandidateLocal ==
  \A p \in Clone : pc[p] \in {"executed", "push"} =>
    Shows(local[p], CandidateSnapshot(job[p].run))

CandidateLanded ==
  \A p \in Clone : pc[p] \in {"save", "journal"} =>
    \E refs \in landed : Shows(refs, CandidateSnapshot(job[p].run))

EInv == TInv /\ CandidateLocal /\ CandidateLanded /\ PublishEventsHappened

(* MoveRefs leaves the clone showing all of the candidate.                 *)
LEMMA MovedShows ==
  ASSUME TInv, NEW p \in Clone, MoveRefs(p)
  PROVE  Shows(local'[p], CandidateSnapshot(job[p].run))
<1> DEFINE r == job[p].run
           new == [branch |-> Tip[r],
                   tag |-> [t \in Tag |-> IF t \in CandidateTags(r) THEN TagsOf[r][t]
                                          ELSE local[p].tag[t]]]
<1>1. local'[p] = new
  BY DEF MoveRefs, Moved, TInv, TypeOK
<1>2. \A t \in Tag : TagsOf[r][t] \in {None, new.tag[t]}
  BY DEF CandidateTags
<1>3. new.branch = Tip[r]
  OBVIOUS
<1> QED
  BY <1>1, <1>2, <1>3 DEF Shows, CandidateSnapshot, Snapshot

(* A push that is accepted whole leaves the remote showing the candidate.  *)
LEMMA PushShows ==
  ASSUME TInv, NEW p \in Clone, AllAccepted(p),
         Shows(local[p], CandidateSnapshot(job[p].run))
  PROVE  Shows(Pushed(p), CandidateSnapshot(job[p].run))
<1> DEFINE r == job[p].run
<1>1. Pushed(p).branch = local[p].branch
  BY DEF Pushed, AllAccepted
<1>2. \A t \in CandidateTags(r) : Pushed(p).tag[t] = local[p].tag[t]
  BY DEF Pushed, AllAccepted, CandidateTags
<1>3. \A t \in Tag : t \notin CandidateTags(r) => TagsOf[r][t] = None
  BY DEF CandidateTags
<1> QED
  BY <1>1, <1>2, <1>3 DEF Shows, CandidateSnapshot, Snapshot

(* How a command gets to the labels the invariant speaks of.               *)
LEMMA ReachLabels ==
  ASSUME TInv, [Next]_vars, NEW p \in Clone, ~Idle(p)
  PROVE  /\ pc'[p] \in {"executed", "push"} => MoveRefs(p)
         /\ pc'[p] = "save" => Push(p) /\ AllAccepted(p)
         /\ pc'[p] = "journal" => Save(p)
<1>1. PICK q \in Clone :
         \/ \E r \in Run : \E save \in BOOLEAN : StartPublish(q, r, save)
         \/ \E r \in Run : StartSupersede(q, r)
         \/ Advance(q)
         \/ BreakOff(q)
  BY DEF Next, vars, Visit, Idle
<1>2. q = p
  BY <1>1, OthersIdle DEF TInv
<1> QED
  BY <1>1, <1>2 DEF TInv, TypeOK, Advance, BreakOff, StartPublish, StartSupersede,
     SavePrior, SignOff, RefuseUntagged, MoveRefs, RefuseTag, Executed, Push, Save,
     PublishEvent, SavePriorUnanswered, PushBroken, CrashInRefs, SaveFails, Crash,
     Goto, Leave

(***************************************************************************)
(* For any number of clones: a publish-event in a ledger lists refs that   *)
(* the remote showed together at some time.                                *)
(***************************************************************************)
THEOREM PublishEventsAreTrue == Spec => []PublishEventsHappened
<1>1. Init => EInv
  <2> SUFFICES ASSUME Init
               PROVE  CandidateLocal /\ CandidateLanded /\ PublishEventsHappened
    BY InitTInv DEF EInv
  <2>1. \A p \in Clone : 1..Len(ledger[p]) = {} /\ pc[p] = "idle"
    BY DEF Init
  <2> QED
    BY <2>1 DEF CandidateLocal, CandidateLanded, PublishEventsHappened
<1>2. ASSUME EInv, [Next]_vars
      PROVE  EInv'
  <2>1. TInv /\ TInv' /\ landed \subseteq landed'
    BY <1>2, NextTInv, Monotone DEF EInv
  <2>2. ASSUME NEW p \in Clone, pc'[p] \in {"executed", "push"}
        PROVE  Shows(local'[p], CandidateSnapshot(job'[p].run))
    <3>1. CASE Idle(p)
      BY <1>2, <2>2, <3>1 DEF Idle, EInv, CandidateLocal
    <3>2. CASE ~Idle(p)
      <4>1. MoveRefs(p)
        BY <1>2, <2>1, <2>2, <3>2, ReachLabels
      <4>2. job' = job
        BY <4>1 DEF MoveRefs
      <4> QED
        BY <2>1, <4>1, <4>2, MovedShows
    <3> QED
      BY <3>1, <3>2
  <2>3. ASSUME NEW p \in Clone, pc'[p] \in {"save", "journal"}
        PROVE  \E refs \in landed' : Shows(refs, CandidateSnapshot(job'[p].run))
    <3>1. CASE Idle(p)
      BY <1>2, <2>1, <2>3, <3>1 DEF Idle, EInv, CandidateLanded
    <3>2. CASE ~Idle(p) /\ pc'[p] = "save"
      <4>1. Push(p) /\ AllAccepted(p)
        BY <1>2, <2>1, <3>2, ReachLabels
      <4>2. job' = job /\ Pushed(p) \in landed' /\ pc[p] = "push"
        BY <4>1 DEF Push, RemoteTakes
      <4>3. Shows(Pushed(p), CandidateSnapshot(job[p].run))
        BY <1>2, <2>1, <4>1, <4>2, PushShows DEF EInv, CandidateLocal
      <4> QED
        BY <4>2, <4>3
    <3>3. CASE ~Idle(p) /\ pc'[p] = "journal"
      <4>1. Save(p)
        BY <1>2, <2>1, <3>3, ReachLabels
      <4>2. job' = job /\ pc[p] = "save"
        BY <4>1 DEF Save
      <4> QED
        BY <1>2, <2>1, <4>2 DEF EInv, CandidateLanded
    <3> QED
      BY <2>3, <3>1, <3>2, <3>3
  <2>4. ASSUME NEW p \in Clone, NEW n \in 1..Len(ledger'[p]),
               ledger'[p][n].kind = "publish-event"
        PROVE  \E refs \in landed' : Shows(refs, ledger'[p][n].snp)
    <3>1. \/ Old(p, n)
          \/ PublishEvent(p) /\ ledger'[p][n].snp = CandidateSnapshot(job[p].run)
      BY <1>2, <2>1, <2>4, NewEntries DEF TInv, Accounted
    <3>2. CASE Old(p, n)
      BY <1>2, <2>1, <2>4, <3>2 DEF Old, EInv, PublishEventsHappened
    <3>3. CASE PublishEvent(p) /\ ledger'[p][n].snp = CandidateSnapshot(job[p].run)
      BY <1>2, <2>1, <3>3 DEF PublishEvent, EInv, CandidateLanded
    <3> QED
      BY <3>1, <3>2, <3>3
  <2> QED
    BY <2>1, <2>2, <2>3, <2>4 DEF EInv, CandidateLocal, CandidateLanded,
       PublishEventsHappened
<1>3. EInv => PublishEventsHappened
  BY DEF EInv
<1> QED
  BY <1>1, <1>2, <1>3, PTL DEF Spec

-----------------------------------------------------------------------------
(***************************************************************************)
(* One clone.  From the answer of the archive to the push, the remote is   *)
(* still what the archive holds: no other clone moves it.                  *)
(***************************************************************************)
Sanctioned(p) ==
  \/ pc[p] \in {"sign off", "executed"}
  \/ pc[p] \in {"refs", "push"} /\ (job[p].supersede \/ job[p].force)

PriorIsRemote ==
  \A p \in Clone : Sanctioned(p) => remote = job[p].prior /\ remote \in archive

OInv == TInv /\ PriorIsRemote

(* An unforced push clobbers nothing: git refuses, ref by ref.             *)
LEMMA UnforcedPush ==
  ASSUME TInv, NEW p \in Clone, ~job[p].force
  PROVE  ~Clobbers(remote, Pushed(p))
<1>1. remote \in Refs /\ remote.branch \in Maybe
  BY DEF TInv, TypeOK, Refs
<1>2. FastForward(remote.branch, Pushed(p).branch)
  BY <1>1, AncestorAssumption DEF Pushed, BranchAccepted, FastForward, Maybe
<1>3. \A t \in Tag : TagAccepted(remote.tag[t], Pushed(p).tag[t], FALSE)
  BY DEF Pushed, TagAccepted
<1> QED
  BY <1>2, <1>3 DEF Clobbers

(* Nor does a push that never arrived.                                     *)
LEMMA NoPush ==
  ASSUME TInv
  PROVE  ~Clobbers(remote, remote)
<1>1. remote.branch \in Maybe
  BY DEF TInv, TypeOK, Refs
<1> QED
  BY <1>1, AncestorAssumption DEF Clobbers, FastForward, TagAccepted, Maybe

LEMMA NextOInv ==
  ASSUME NEW c \in Clone, Clone = {c}, OInv, [Next]_vars
  PROVE  OInv'
<1>1. TInv /\ TInv' /\ archive \subseteq archive'
  BY NextTInv, Monotone DEF OInv
<1>2. job[c] \in Job /\ job \in [Clone -> Job] /\ pc \in [Clone -> Label]
  BY <1>1 DEF TInv, TypeOK
<1> SUFFICES ASSUME Sanctioned(c)'
             PROVE  remote' = job'[c].prior /\ remote' \in archive'
  BY <1>1 DEF OInv, PriorIsRemote
<1>3. CASE UNCHANGED vars \/ Visit
  BY <1>1, <1>3 DEF vars, Visit, OInv, PriorIsRemote, Sanctioned
<1>4. CASE SavePrior(c)
  BY <1>2, <1>4 DEF SavePrior, Snapshot, Goto, Leave, Sanctioned, NoJob
<1>5. CASE SignOff(c)
  <2>1. job'[c].prior = job[c].prior
    BY <1>2, <1>5 DEF SignOff, Job
  <2> QED
    BY <1>2, <1>5, <2>1 DEF SignOff, outside, OInv, PriorIsRemote, Sanctioned
<1>6. CASE MoveRefs(c)
  BY <1>2, <1>6 DEF MoveRefs, Goto, outside, OInv, PriorIsRemote, Sanctioned
<1>7. CASE Executed(c)
  <2>1. job'[c].prior = job[c].prior
    BY <1>2, <1>7 DEF Executed, Job
  <2> QED
    BY <1>2, <1>7, <2>1 DEF Executed, outside, OInv, PriorIsRemote, Sanctioned
<1>8. CASE \E r \in Run : \E save \in BOOLEAN : StartPublish(c, r, save)
  BY <1>2, <1>8 DEF StartPublish, NoJob, Goto, Sanctioned
<1>9. CASE \E r \in Run : StartSupersede(c, r)
  BY <1>2, <1>9 DEF StartSupersede, Goto, Sanctioned
<1>10. ASSUME Advance(c) \/ BreakOff(c), ~SavePrior(c), ~SignOff(c), ~MoveRefs(c), ~Executed(c)
       PROVE  pc'[c] \in {"idle", "save", "journal"}
  BY <1>2, <1>10 DEF Advance, BreakOff, RefuseUntagged, RefuseTag, Push, Save, PublishEvent,
     SavePriorUnanswered, PushBroken, CrashInRefs, SaveFails, Crash, Goto, Leave
<1>11. pc'[c] \notin {"idle", "save", "journal"}
  BY DEF Sanctioned
<1> QED
  BY <1>3, <1>4, <1>5, <1>6, <1>7, <1>8, <1>9, <1>10, <1>11 DEF Next

(***************************************************************************)
(* The commands of one clone, crashes and broken exchanges included,       *)
(* implement PublishedHistory.                                             *)
(***************************************************************************)
THEOREM SoleCloneRefines ==
  ASSUME NEW c \in Clone, Clone = {c}
  PROVE  Spec => HistorySpec
<1>1. Init => OInv
  BY InitTInv DEF OInv, PriorIsRemote, Sanctioned, Init
<1>2. OInv /\ [Next]_vars => OInv'
  BY NextOInv
<1>3. Init => History!Init
  BY DEF Init, NoRefs, History!Init, History!NoRefs
<1>4. ASSUME OInv, [Next]_vars
      PROVE  [History!Next]_(History!vars)
  <2>1. TInv /\ TInv'
    BY <1>4, NextTInv DEF OInv
  <2>2. ASSUME SavePrior(c) \/ Visit
        PROVE  History!Archive
    BY <2>2 DEF SavePrior, Visit, Snapshot, History!Archive, History!Snapshot
  <2>3. ASSUME NEW arrived \in BOOLEAN, Push(c) \/ PushBroken(c, arrived)
        PROVE  History!Extend \/ History!Supersede
    <3>1. /\ remote' = Pushed(c) \/ remote' = remote
          /\ landed' = landed \cup {remote'}
          /\ UNCHANGED archive
          /\ pc[c] = "push"
      BY <2>3 DEF Push, PushBroken, RemoteTakes
    <3>2. History!Become
      BY <2>1, <3>1 DEF TInv, TypeOK, Refs, Maybe, History!Become, History!Refs, History!Maybe
    <3>3. CASE job[c].force
      <4>1. remote \in archive
        BY <1>4, <3>1, <3>3 DEF OInv, PriorIsRemote, Sanctioned
      <4> QED
        BY <3>1, <3>2, <4>1 DEF History!Supersede, History!Snapshot
    <3>4. CASE ~job[c].force
      <4>1. ~Clobbers(remote, remote')
        BY <2>1, <3>1, <3>4, UnforcedPush, NoPush
      <4>2. ~History!Clobbers(remote, remote')
        BY <4>1 DEF Clobbers, FastForward, TagAccepted,
           History!Clobbers, History!FastForward, History!TagAccepted
      <4> QED
        BY <3>1, <3>2, <4>2 DEF History!Extend
    <3> QED
      BY <3>3, <3>4
  <2>4. \/ SavePrior(c) \/ Visit
        \/ \E arrived \in BOOLEAN : Push(c) \/ PushBroken(c, arrived)
        \/ UNCHANGED <<remote, archive, landed>>
    <3>1. ASSUME Advance(c)
          PROVE  \/ SavePrior(c) \/ Push(c)
                 \/ UNCHANGED <<remote, archive, landed>>
      BY <3>1 DEF outside, Advance, SignOff, RefuseUntagged, MoveRefs, RefuseTag,
         Executed, Save, PublishEvent
    <3>2. ASSUME BreakOff(c)
          PROVE  \/ \E arrived \in BOOLEAN : PushBroken(c, arrived)
                 \/ UNCHANGED <<remote, archive, landed>>
      BY <3>2 DEF outside, BreakOff, SavePriorUnanswered, CrashInRefs, SaveFails, Crash
    <3>3. ASSUME NEW r \in Run, NEW save \in BOOLEAN,
                 StartPublish(c, r, save) \/ StartSupersede(c, r)
          PROVE  UNCHANGED <<remote, archive, landed>>
      BY <3>3 DEF outside, StartPublish, StartSupersede
    <3>4. \/ UNCHANGED vars \/ Visit \/ Advance(c) \/ BreakOff(c)
          \/ \E r \in Run : \E save \in BOOLEAN :
               StartPublish(c, r, save) \/ StartSupersede(c, r)
      BY <1>4 DEF Next
    <3> QED
      BY <3>1, <3>2, <3>3, <3>4 DEF vars
  <2> QED
    BY <2>2, <2>3, <2>4 DEF History!Next, History!vars
<1> QED
  BY <1>1, <1>2, <1>3, <1>4, PTL DEF Spec, HistorySpec, History!Spec

-----------------------------------------------------------------------------
(***************************************************************************)
(* What PublishedHistory promises, of whatever moves the remote, the       *)
(* archive and what has landed as it allows.                               *)
(***************************************************************************)
(* Going forward composes. *)
LEMMA HistoryForward ==
  ASSUME NEW a \in History!Maybe, NEW b \in History!Maybe, NEW d \in History!Maybe,
         History!FastForward(a, b), History!FastForward(b, d)
  PROVE  History!FastForward(a, d)
<1>1. CASE a = None
  BY <1>1 DEF History!FastForward
<1>2. CASE a # None
  <2>1. a \in Commit /\ b \in Commit /\ d \in Commit
    BY <1>2 DEF History!FastForward, History!Maybe
  <2> QED
    BY <1>2, <2>1, AncestorAssumption DEF History!FastForward
<1> QED
  BY <1>1, <1>2

HistoryTypes ==
  /\ remote \in History!Refs
  /\ archive \subseteq History!Refs
  /\ landed \subseteq History!Refs

(* Nothing is lost, and what the remote shows now is among what landed.    *)
HInv == HistoryTypes /\ History!NothingLost /\ remote \in landed

(* What was kept stays kept when the refs move and clobber nothing, or     *)
(* when what they leave behind is archived.                                *)
LEMMA KeptStays ==
  ASSUME HistoryTypes, remote' \in History!Refs, archive \subseteq archive',
         ~History!Clobbers(remote, remote') \/ remote \in archive,
         NEW refs \in History!Refs, History!Kept(refs)
  PROVE  History!Kept(refs)'
<1>1. CASE remote \in archive
  BY <1>1 DEF History!Kept
<1>2. CASE ~History!Clobbers(remote, remote')
  <2>1. /\ History!FastForward(remote.branch, remote'.branch)
        /\ \A t \in Tag : remote.tag[t] \in {None, remote'.tag[t]}
    BY <1>2 DEF History!Clobbers, History!TagAccepted
  <2>2. \E s \in archive' \cup {remote'} : History!FastForward(refs.branch, s.branch)
    <3>1. PICK s \in archive \cup {remote} : History!FastForward(refs.branch, s.branch)
      BY DEF History!Kept
    <3>2. CASE s \in archive
      BY <3>1, <3>2
    <3>3. CASE s = remote
      <4>1. {refs.branch, remote.branch, remote'.branch} \subseteq History!Maybe
        BY DEF HistoryTypes, History!Refs
      <4>2. History!FastForward(refs.branch, remote'.branch)
        BY <2>1, <3>1, <3>3, <4>1, HistoryForward
      <4> QED
        BY <4>2
    <3> QED
      BY <3>1, <3>2, <3>3
  <2>3. ASSUME NEW t \in Tag
        PROVE  \E s \in archive' \cup {remote'} : refs.tag[t] \in {None, s.tag[t]}
    <3>1. PICK s \in archive \cup {remote} : refs.tag[t] \in {None, s.tag[t]}
      BY DEF History!Kept
    <3>2. CASE s \in archive
      BY <3>1, <3>2
    <3>3. CASE s = remote
      BY <2>1, <3>1, <3>3
    <3> QED
      BY <3>1, <3>2, <3>3
  <2> QED
    BY <2>2, <2>3 DEF History!Kept
<1> QED
  BY <1>1, <1>2

(* What the remote shows is kept.                                          *)
LEMMA PublishedIsKept ==
  ASSUME remote \in History!Refs
  PROVE  History!Kept(remote)
<1>1. remote.branch \in History!Maybe
  BY DEF History!Refs
<1>2. History!FastForward(remote.branch, remote.branch)
  BY <1>1, AncestorAssumption DEF History!FastForward, History!Maybe
<1> QED
  BY <1>2 DEF History!Kept

LEMMA PublishedWillBeKept ==
  ASSUME remote' \in History!Refs
  PROVE  History!Kept(remote)'
<1>1. remote'.branch \in History!Maybe
  BY DEF History!Refs
<1>2. History!FastForward(remote'.branch, remote'.branch)
  BY <1>1, AncestorAssumption DEF History!FastForward, History!Maybe
<1> QED
  BY <1>2 DEF History!Kept

(***************************************************************************)
(* Every branch tip and tag ever published can be found again, from what   *)
(* is published or from what is archived.                                  *)
(***************************************************************************)
THEOREM NothingIsLost == HistorySpec => []NothingLost
<1>1. History!Init => HInv
  <2> SUFFICES ASSUME History!Init PROVE HInv
    OBVIOUS
  <2>1. History!NoRefs \in History!Refs
    BY DEF History!NoRefs, History!Refs, History!Maybe
  <2>2. HistoryTypes /\ remote \in landed /\ landed = {remote}
    BY <2>1 DEF History!Init, HistoryTypes
  <2> QED
    BY <2>2, PublishedIsKept DEF HInv, History!NothingLost, HistoryTypes
<1>2. ASSUME HInv, [History!Next]_(History!vars)
      PROVE  HInv'
  <2>1. CASE UNCHANGED History!vars
    BY <1>2, <2>1 DEF History!vars, HInv, HistoryTypes, History!NothingLost, History!Kept
  <2>2. CASE History!Archive
    <3>1. archive \subseteq archive' /\ remote' = remote /\ landed' = landed
      BY <2>2 DEF History!Archive
    <3> QED
      BY <1>2, <2>2, <3>1 DEF History!Archive, History!Snapshot, HInv, HistoryTypes,
         History!NothingLost, History!Kept
  <2>3. CASE History!Extend \/ History!Supersede
    <3>1. /\ remote' \in History!Refs /\ landed' = landed \cup {remote'}
          /\ archive' = archive
          /\ ~History!Clobbers(remote, remote') \/ remote \in archive
      BY <2>3 DEF History!Extend, History!Supersede, History!Become, History!Snapshot
    <3>2. HistoryTypes' /\ remote' \in landed'
      BY <1>2, <3>1 DEF HInv, HistoryTypes
    <3>3. \A refs \in landed : History!Kept(refs)'
      BY <1>2, <3>1, KeptStays DEF HInv, HistoryTypes, History!NothingLost
    <3>4. History!Kept(remote)'
      BY <3>1, PublishedWillBeKept
    <3> QED
      BY <3>1, <3>2, <3>3, <3>4 DEF HInv, History!NothingLost
  <2> QED
    BY <1>2, <2>1, <2>2, <2>3 DEF History!Next
<1>3. HInv => History!NothingLost
  BY DEF HInv
<1> QED
  BY <1>1, <1>2, <1>3, PTL DEF HistorySpec, History!Spec, NothingLost

(***************************************************************************)
(* With one clone nothing that was ever public is lost, by crash, retry or *)
(* supersession.                                                           *)
(***************************************************************************)
THEOREM SoleCloneLosesNothing ==
  ASSUME NEW c \in Clone, Clone = {c}
  PROVE  Spec => []NothingLost
  BY SoleCloneRefines, NothingIsLost, PTL

-----------------------------------------------------------------------------
(***************************************************************************)
(* ReplacementIsRecorded: a clone that is about to force a push has an     *)
(* executed entry with the tip it replaces and the tip it pushes, and the  *)
(* entry cites the sign-off of the snapshot that it replaces.              *)
(***************************************************************************)
IsSignOff(entries, n, snp) ==
  n \in 1..Len(entries) /\ entries[n].kind = "sign-off" /\ entries[n].snp = snp

IsExecuted(entries, prior, tip) ==
  \E n \in 1..Len(entries) :
    /\ entries[n].kind = "executed" /\ entries[n].old = prior.branch /\ entries[n].new = tip
    /\ IsSignOff(entries, entries[n].signOff, prior)

Superseding(p) == pc[p] = "executed" \/ (pc[p] = "refs" /\ job[p].supersede)
Forcing(p) == pc[p] \in {"refs", "push"} /\ job[p].force

Documented(p) ==
  /\ pc[p] \in {"save prior", "sign off"} \/ Superseding(p) => ~job[p].force
  /\ Superseding(p) => IsSignOff(ledger[p], job[p].signOff, job[p].prior)
  /\ Forcing(p) => IsExecuted(ledger[p], job[p].prior, Tip[job[p].run])
  /\ pc[p] = "push" => local[p].branch = Tip[job[p].run]

LEMMA RecordAppends ==
  ASSUME TypeOK, NEW p \in Clone, NEW e, Record(p, e)
  PROVE  LET N == Len(ledger[p]) IN
         /\ N \in Nat /\ Len(ledger'[p]) = N + 1 /\ ledger'[p][N + 1] = e
         /\ \A n \in 1..N : n \in 1..(N + 1) /\ ledger'[p][n] = ledger[p][n]
         /\ N + 1 \in 1..(N + 1)
<1>1. ledger'[p] = Append(ledger[p], e) /\ ledger[p] \in Seq(Entry)
  BY DEF Record, TypeOK
<1> QED
  BY <1>1

LEMMA NextDocumented ==
  ASSUME NEW c \in Clone, Clone = {c}, TInv, Documented(c), [Next]_vars
  PROVE  Documented(c)'
<1>1. /\ job[c] \in Job /\ job \in [Clone -> Job] /\ pc \in [Clone -> Label]
      /\ local \in [Clone -> Refs] /\ TypeOK
  BY DEF TInv, TypeOK
<1>2. CASE UNCHANGED vars \/ Visit
  BY <1>2 DEF vars, Visit, Documented, Superseding, Forcing
<1>3. CASE SavePrior(c)
  BY <1>1, <1>3 DEF SavePrior, Goto, Leave, Documented, Superseding, Forcing
<1>4. CASE SignOff(c)
  <2> DEFINE e == [kind |-> "sign-off", snp |-> job[c].prior, signOff |-> 0, old |-> None, new |-> None]
             N == Len(ledger[c])
  <2>1. /\ pc[c] = "sign off" /\ Record(c, e) /\ pc'[c] = "refs"
        /\ job' = [job EXCEPT ![c].signOff = N + 1]
    BY <1>1, <1>4 DEF SignOff, Goto
  <2>2. /\ job'[c].signOff = N + 1 /\ job'[c].prior = job[c].prior
        /\ job'[c].force = job[c].force
    BY <1>1, <2>1 DEF Job
  <2>3. e.kind = "sign-off" /\ e.snp = job[c].prior
    OBVIOUS
  <2> HIDE DEF e
  <2>4. Len(ledger'[c]) = N + 1 /\ ledger'[c][N + 1] = e /\ N + 1 \in 1..(N + 1)
    BY <1>1, <2>1, RecordAppends
  <2>5. ~job'[c].force
    BY <2>1, <2>2 DEF Documented
  <2>6. IsSignOff(ledger'[c], job'[c].signOff, job'[c].prior)
    BY <2>2, <2>3, <2>4 DEF IsSignOff
  <2> QED
    BY <2>1, <2>5, <2>6 DEF Documented, Superseding, Forcing
<1>5. CASE MoveRefs(c)
  <2>1. /\ pc[c] = "refs" /\ job' = job /\ ledger' = ledger
        /\ pc'[c] = IF job[c].supersede THEN "executed" ELSE "push"
    BY <1>1, <1>5 DEF MoveRefs, Goto
  <2>2. local'[c].branch = Tip[job[c].run]
    BY <1>1, <1>5 DEF MoveRefs, Moved
  <2> QED
    BY <2>1, <2>2 DEF Documented, Superseding, Forcing
<1>6. CASE Executed(c)
  <2> DEFINE e == [kind |-> "executed", snp |-> NoRefs, signOff |-> job[c].signOff,
                   old |-> job[c].prior.branch, new |-> Tip[job[c].run]]
             N == Len(ledger[c])
             s == job[c].signOff
  <2>1. /\ pc[c] = "executed" /\ Record(c, e) /\ pc'[c] = "refs"
        /\ job' = [job EXCEPT ![c].supersede = FALSE, ![c].force = TRUE]
    BY <1>1, <1>6 DEF Executed, Goto
  <2>2. job'[c].run = job[c].run /\ job'[c].prior = job[c].prior /\ ~job'[c].supersede
    BY <1>1, <2>1 DEF Job
  <2>3. /\ e.kind = "executed" /\ e.signOff = s
        /\ e.old = job[c].prior.branch /\ e.new = Tip[job[c].run]
    OBVIOUS
  <2> HIDE DEF e
  <2>4. /\ Len(ledger'[c]) = N + 1 /\ ledger'[c][N + 1] = e /\ N + 1 \in 1..(N + 1)
        /\ \A n \in 1..N : n \in 1..(N + 1) /\ ledger'[c][n] = ledger[c][n]
    BY <1>1, <2>1, RecordAppends
  <2>5. IsSignOff(ledger[c], s, job[c].prior)
    BY <2>1 DEF Documented, Superseding
  <2>6. IsSignOff(ledger'[c], s, job[c].prior)
    BY <2>4, <2>5 DEF IsSignOff
  <2>7. IsExecuted(ledger'[c], job[c].prior, Tip[job[c].run])
    BY <2>3, <2>4, <2>6 DEF IsExecuted
  <2> QED
    BY <2>1, <2>2, <2>7 DEF Documented, Superseding, Forcing
<1>7. CASE \E r \in Run : \E save \in BOOLEAN : StartPublish(c, r, save)
  BY <1>1, <1>7 DEF StartPublish, NoJob, Goto, Documented, Superseding, Forcing
<1>8. CASE \E r \in Run : StartSupersede(c, r)
  BY <1>1, <1>8 DEF StartSupersede, NoJob, Goto, Documented, Superseding, Forcing
<1>9. ASSUME Advance(c) \/ BreakOff(c), ~SavePrior(c), ~SignOff(c), ~MoveRefs(c), ~Executed(c)
      PROVE  pc'[c] \in {"idle", "save", "journal"}
  BY <1>1, <1>9 DEF Advance, BreakOff, RefuseUntagged, RefuseTag, Push, Save, PublishEvent,
     SavePriorUnanswered, PushBroken, CrashInRefs, SaveFails, Crash, Goto, Leave
<1>10. pc'[c] \in {"idle", "save", "journal"} => Documented(c)'
  BY DEF Documented, Superseding, Forcing
<1> QED
  BY <1>2, <1>3, <1>4, <1>5, <1>6, <1>7, <1>8, <1>9, <1>10 DEF Next

(***************************************************************************)
(* With one clone, the remote branch leaves its history only along a       *)
(* rewrite that the ledger records, with the sign-off of exactly the       *)
(* snapshot that is replaced.                                              *)
(***************************************************************************)
THEOREM SoleCloneRecordsReplacements ==
  ASSUME NEW c \in Clone, Clone = {c}
  PROVE  Spec => ReplacementIsRecorded
<1> DEFINE Recorded ==
             \E p \in Clone : \E n \in 1..Len(ledger[p]) :
               LET e == ledger[p][n]
               IN /\ e.kind = "executed"
                  /\ <<e.old, e.new>> = <<remote.branch, remote'.branch>>
                  /\ ledger[p][e.signOff].kind = "sign-off"
                  /\ ledger[p][e.signOff].snp = Snapshot(remote)
<1>1. Init => OInv /\ Documented(c)
  BY InitTInv DEF OInv, PriorIsRemote, Sanctioned, Init, Documented, Superseding, Forcing
<1>2. OInv /\ Documented(c) /\ [Next]_vars => (OInv /\ Documented(c))'
  BY NextOInv, NextDocumented DEF OInv
<1>3. ASSUME OInv, Documented(c), [Next]_vars, ~FastForward(remote.branch, remote'.branch)
      PROVE  Recorded
  <2>1. TInv /\ remote \in Refs /\ remote.branch \in Maybe
    BY <1>3 DEF OInv, TInv, TypeOK, Refs
  <2>2. remote' # remote
    BY <1>3, <2>1, AncestorAssumption DEF FastForward, Maybe
  <2>3. pc[c] = "push" /\ remote' = Pushed(c)
    <3>1. Push(c) \/ \E arrived \in BOOLEAN : PushBroken(c, arrived)
      BY <1>3, <2>2 DEF Next, vars, outside, Visit, Advance, BreakOff, StartPublish, StartSupersede,
         SavePrior, SignOff, RefuseUntagged, MoveRefs, RefuseTag, Executed, Save, PublishEvent,
         SavePriorUnanswered, CrashInRefs, SaveFails, Crash
    <3> QED
      BY <2>2, <3>1 DEF Push, PushBroken, RemoteTakes
  <2>4. job[c].force
    BY <1>3, <2>1, <2>3, UnforcedPush DEF Clobbers
  <2>5. Pushed(c).branch = Tip[job[c].run]
    <3>1. Pushed(c).branch \in {local[c].branch, remote.branch}
      BY DEF Pushed
    <3>2. Pushed(c).branch # remote.branch
      BY <1>3, <2>1, <2>3, AncestorAssumption DEF FastForward, Maybe
    <3> QED
      BY <1>3, <2>3, <3>1, <3>2 DEF Documented
  <2>6. remote = job[c].prior
    BY <1>3, <2>3, <2>4 DEF OInv, PriorIsRemote, Sanctioned
  <2>7. IsExecuted(ledger[c], remote, remote'.branch)
    BY <1>3, <2>3, <2>4, <2>5, <2>6 DEF Documented, Forcing
  <2>8. Snapshot(remote) = remote
    BY DEF Snapshot
  <2> QED
    BY <2>7, <2>8 DEF IsExecuted, IsSignOff
<1>4. OInv /\ Documented(c) /\ [Next]_vars
        => [~FastForward(remote.branch, remote'.branch) => Recorded]_vars
  BY <1>3
<1> QED
  BY <1>1, <1>2, <1>4, PTL DEF Spec, ReplacementIsRecorded
=============================================================================
