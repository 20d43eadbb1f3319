------------------------- MODULE ReleaseJobsProofs -------------------------
(***************************************************************************)
(* Proofs about ReleaseJobs, for any number of jobs, inputs and epochs,    *)
(* any commit graph, either rule BP-2 and every bound.                     *)
(***************************************************************************)
EXTENDS ReleaseJobs, SequenceTheorems, TLAPS

-----------------------------------------------------------------------------
(* Journals.  Extends is IsPrefix, entry by entry.                         *)

Extends(s, t) == Len(s) <= Len(t) /\ \A n \in 1..Len(s) : s[n] = t[n]

LEMMA ExtendsIsPrefix ==
  ASSUME NEW S, NEW s \in Seq(S), NEW t \in Seq(S), Extends(s, t)
  PROVE  IsPrefix(s, t)
<1>1. Len(s) \in Nat /\ Len(t) \in Nat /\ Len(s) <= Len(t)
  BY DEF Extends
<1>2. \A i \in 1..Len(s) : s[i] \in S /\ t[i] = s[i]
  BY ElementOfSeq DEF Extends
<1>3. SubSeq(t, 1, Len(s)) \in Seq(S) /\ Len(SubSeq(t, 1, Len(s))) = Len(s)
      /\ \A i \in 1..Len(s) : SubSeq(t, 1, Len(s))[i] = s[i]
  BY <1>1, <1>2, SubSeqProperties
<1>4. SubSeq(s, 1, Len(s)) = s
  BY SubSeqFull
<1>5. SubSeq(t, 1, Len(s)) = s
  BY <1>3, SeqEqual
<1> QED
  BY <1>1, <1>4, <1>5 DEF IsPrefix

LEMMA ExtendsTransitive ==
  ASSUME NEW S, NEW s \in Seq(S), NEW t \in Seq(S), NEW u \in Seq(S),
         Extends(s, t), Extends(t, u)
  PROVE  Extends(s, u)
<1>1. Len(s) \in Nat /\ Len(t) \in Nat /\ Len(u) \in Nat
  OBVIOUS
<1> QED
  BY <1>1 DEF Extends

LEMMA ConcatExtends ==
  ASSUME NEW S, NEW s \in Seq(S), NEW t \in Seq(S)
  PROVE  /\ s \o t \in Seq(S) /\ Extends(s, s \o t) /\ Len(s \o t) = Len(s) + Len(t)
         /\ \A n \in 1..Len(s) : (s \o t)[n] = s[n]
         /\ \A n \in 1..Len(t) : (s \o t)[Len(s) + n] = t[n]
         /\ \A n \in 1..Len(s \o t) :
              n \in 1..Len(s) \/ \E k \in 1..Len(t) : n = Len(s) + k
<1>1. Len(s) \in Nat /\ Len(t) \in Nat
  OBVIOUS
<1>2. /\ s \o t \in Seq(S) /\ Len(s \o t) = Len(s) + Len(t)
      /\ \A n \in 1..Len(s) : (s \o t)[n] = s[n]
      /\ \A n \in 1..Len(t) : (s \o t)[Len(s) + n] = t[n]
  BY <1>1, ConcatProperties
<1>3. \A n \in 1..Len(s \o t) : n \in 1..Len(s) \/ n - Len(s) \in 1..Len(t)
  BY <1>1, <1>2
<1>4. \A n \in 1..Len(s \o t) : n = Len(s) + (n - Len(s))
  BY <1>1, <1>2
<1>5. Extends(s, s \o t)
  BY <1>1, <1>2 DEF Extends
<1>6. \A n \in 1..Len(s \o t) : n \in 1..Len(s) \/ \E k \in 1..Len(t) : n = Len(s) + k
  BY <1>3, <1>4
<1> QED
  BY <1>2, <1>5, <1>6

-----------------------------------------------------------------------------
(* Types *)

Record == [base : Nat, tree : Revision, candidate : Refs, supersede : BOOLEAN]

LEMMA RenderedType ==
  ASSUME NEW i \in Input, NEW e \in Epoch
  PROVE  Rendered[i, e] \in Candidates /\ Rendered[i, e] \in Refs
BY JobsAssumption DEF Candidates, Range

LEMMA CandidatesAreRefs == Candidates \subseteq Refs
BY JobsAssumption DEF Candidates, Range

LEMMA NoRefsType == NoRefs \in Refs
BY DEF NoRefs, Refs, Maybe

LEMMA EntryType ==
  ASSUME NEW j \in Job, NEW e \in Epoch, NEW r \in Candidates
  PROVE  /\ Genesis(j) \in Entry /\ Stamped(j, e) \in Entry
         /\ Applied(j, r) \in Entry /\ PublishEvent(j, r) \in Entry
BY DEF Entry

(* The history of main and the jobs; a job publishes what it has rendered. *)
TInv ==
  /\ main \in Seq(Revision) /\ main # <<>>
  /\ published \in Refs
  /\ pc \in [Job -> {"idle"} \cup Steps \cup Ended]
  /\ job \in [Job -> Record]
  /\ \A j \in Job : job[j].base \in 1..Len(main)
  /\ \A j \in Job : pc[j] = "publish" => job[j].candidate \in Candidates
  /\ \A j \in Job : job[j].candidate \in Candidates \cup {NoRefs}
  /\ merges \in 0..MaxMerges /\ faults \in 0..MaxFaults

LEMMA TInvType == TInv => TypeOK
<1> SUFFICES ASSUME TInv PROVE TypeOK
  OBVIOUS
<1>1. \A k \in 1..Len(main) : main[k] \in Revision
  BY ElementOfSeq DEF TInv
<1> QED
  BY <1>1 DEF TInv, TypeOK, Record

LEMMA MainTypes ==
  ASSUME TInv
  PROVE  /\ Len(main) \in Nat \ {0} /\ Len(main) \in 1..Len(main)
         /\ Last(main) = main[Len(main)] /\ Last(main) \in Revision
         /\ \A k \in 1..Len(main) : main[k] \in Revision
         /\ \A j \in Job : Checkout(j) \in Revision
<1>1. Len(main) \in Nat /\ Len(main) # 0
  BY EmptySeq DEF TInv
<1>2. \A k \in 1..Len(main) : main[k] \in Revision
  BY ElementOfSeq DEF TInv
<1> QED
  BY <1>1, <1>2 DEF Last, Checkout, TInv

LEMMA JobTypes ==
  ASSUME TInv, NEW j \in Job
  PROVE  /\ job[j] \in Record /\ job[j].tree \in Revision
         /\ job[j].tree.input \in Input /\ job[j].tree.epoch \in Epoch
         /\ job[j].tree.journal \in Seq(Entry)
         /\ Candidate(j) \in Candidates /\ Candidate(j) \in Refs
         /\ \A r \in Revision : r.journal \in Seq(Entry) /\ r.input \in Input /\ r.epoch \in Epoch
<1>1. job[j] \in Record
  BY DEF TInv
<1>2. job[j].tree \in Revision
  BY <1>1 DEF Record
<1>3. \A r \in Revision : r.journal \in Seq(Entry) /\ r.input \in Input /\ r.epoch \in Epoch
  BY DEF Revision
<1>4. job[j].tree.input \in Input /\ job[j].tree.epoch \in Epoch
  BY <1>2, <1>3
<1> QED
  BY <1>1, <1>2, <1>3, <1>4, RenderedType DEF Candidate

-----------------------------------------------------------------------------
(* What a build appends *)

LEMMA Pair ==
  ASSUME NEW S, NEW a \in S, NEW b \in S
  PROVE  <<a>> \o <<b>> = <<a, b>>
<1>1. /\ <<a>> \in Seq(S) /\ Len(<<a>>) = 1 /\ <<b>> \in Seq(S) /\ Len(<<b>>) = 1
      /\ <<a, b>> \in Seq(S) /\ Len(<<a, b>>) = 2
  OBVIOUS
<1>2. /\ <<a>> \o <<b>> \in Seq(S) /\ Len(<<a>> \o <<b>>) = 2
      /\ (<<a>> \o <<b>>)[1] = a /\ (<<a>> \o <<b>>)[2] = b
  BY <1>1, ConcatProperties
<1>3. \A i \in 1..2 : (<<a>> \o <<b>>)[i] = <<a, b>>[i]
  BY <1>2
<1> QED
  BY <1>1, <1>2, <1>3, SeqEqual

LEMMA Triple ==
  ASSUME NEW S, NEW a \in S, NEW b \in S, NEW c \in S
  PROVE  (<<a>> \o <<b>>) \o <<c>> = <<a, b, c>>
<1> DEFINE s == <<a>> \o <<b>>
<1>1. s = <<a, b>>
  BY Pair
<1>2. /\ s \in Seq(S) /\ Len(s) = 2 /\ s[1] = a /\ s[2] = b
      /\ <<c>> \in Seq(S) /\ Len(<<c>>) = 1
      /\ <<a, b, c>> \in Seq(S) /\ Len(<<a, b, c>>) = 3
  BY <1>1
<1> HIDE DEF s
<1>3. /\ s \o <<c>> \in Seq(S) /\ Len(s \o <<c>>) = 3
      /\ (s \o <<c>>)[1] = a /\ (s \o <<c>>)[2] = b /\ (s \o <<c>>)[3] = c
  BY <1>2, ConcatProperties
<1>4. \A i \in 1..3 : (s \o <<c>>)[i] = <<a, b, c>>[i]
  BY <1>3
<1>5. s \o <<c>> = <<a, b, c>>
  BY <1>2, <1>3, <1>4, SeqEqual
<1> QED
  BY <1>5 DEF s

LEMMA AdditionsAre ==
  ASSUME TInv, NEW j \in Job
  PROVE  LET J == job[j].tree.journal
             g == Genesis(j)
             s == Stamped(j, job[j].tree.epoch)
             a == Applied(j, Candidate(j))
         IN  IF Timestamps(J) = {}
               THEN Additions(j) \in {<<g, s, a>>, <<s, a>>}
               ELSE Additions(j) \in {<<g, a>>, <<a>>}
<1> DEFINE J == job[j].tree.journal
           g == Genesis(j)
           s == Stamped(j, job[j].tree.epoch)
           a == Applied(j, Candidate(j))
           first == IF J = <<>> THEN <<g>> ELSE <<>>
           second == IF Timestamps(J) = {} THEN <<s>> ELSE <<>>
<1>1. Additions(j) = (first \o second) \o <<a>>
  BY DEF Additions
<1>2. g \in Entry /\ s \in Entry /\ a \in Entry
  BY JobTypes, EntryType
<1>3. <<g>> \in Seq(Entry) /\ <<s>> \in Seq(Entry) /\ <<a>> \in Seq(Entry) /\ <<>> \in Seq(Entry)
  BY <1>2
<1>4. /\ first \in {<<g>>, <<>>}
      /\ second = IF Timestamps(J) = {} THEN <<s>> ELSE <<>>
  OBVIOUS
<1>5. <<g>> \o <<>> = <<g>> /\ <<>> \o <<s>> = <<s>> /\ <<>> \o <<a>> = <<a>> /\ <<>> \o <<>> = <<>>
  BY <1>3, ConcatEmptySeq
<1>6. /\ (<<g>> \o <<s>>) \o <<a>> = <<g, s, a>>
      /\ <<s>> \o <<a>> = <<s, a>> /\ <<g>> \o <<a>> = <<g, a>>
  BY <1>2, Pair, Triple
<1> HIDE DEF J, g, s, a, first, second
<1>7. CASE Timestamps(J) = {}
  BY <1>1, <1>4, <1>5, <1>6, <1>7 DEF J, g, s, a
<1>8. CASE Timestamps(J) # {}
  BY <1>1, <1>4, <1>5, <1>6, <1>8 DEF J, g, s, a
<1> QED
  BY <1>7, <1>8

(***************************************************************************)
(* Entries that a build of j may append to its journal: its own, with at   *)
(* most one timestamp, and none when there is one already; the timestamp   *)
(* comes before the apply entry.                                           *)
(***************************************************************************)
Fresh(j, B) ==
  LET s == Stamped(j, job[j].tree.epoch)
  IN /\ B \in Seq(Entry)
     /\ \A n \in 1..Len(B) : B[n] \in {Genesis(j), s, Applied(j, Candidate(j))}
     /\ \A m, n \in 1..Len(B) : B[m] = s /\ B[n] = s => m = n
     /\ Timestamps(job[j].tree.journal) # {} => \A n \in 1..Len(B) : B[n] # s
     /\ Timestamps(job[j].tree.journal) = {} =>
          \A n \in 1..Len(B) : B[n] = Applied(j, Candidate(j)) => \E m \in 1..n : B[m] = s

LEMMA AdditionsFresh ==
  ASSUME TInv, NEW j \in Job
  PROVE  Fresh(j, Additions(j)) /\ Len(Additions(j)) \in Nat
<1> DEFINE J == job[j].tree.journal
           g == Genesis(j)
           s == Stamped(j, job[j].tree.epoch)
           a == Applied(j, Candidate(j))
           A == Additions(j)
<1>1. g \in Entry /\ s \in Entry /\ a \in Entry
  BY JobTypes, EntryType
<1>2. g # s /\ s # a /\ g # a
  <2>1. g.action = "genesis" /\ s.action = "curation-timestamp" /\ a.action = "apply"
    BY DEF Genesis, Stamped, Applied
  <2> QED
    BY <2>1
<1>3. IF Timestamps(J) = {} THEN A \in {<<g, s, a>>, <<s, a>>} ELSE A \in {<<g, a>>, <<a>>}
  BY AdditionsAre
<1> HIDE DEF J, g, s, a, A
<1> SUFFICES /\ A \in Seq(Entry) /\ Len(A) \in Nat
             /\ \A n \in 1..Len(A) : A[n] \in {g, s, a}
             /\ \A m, n \in 1..Len(A) : A[m] = s /\ A[n] = s => m = n
             /\ Timestamps(J) # {} => \A n \in 1..Len(A) : A[n] # s
             /\ Timestamps(J) = {} =>
                  \A n \in 1..Len(A) : A[n] = a => \E m \in 1..n : A[m] = s
  BY DEF Fresh, J, g, s, a, A
<1>4. CASE A = <<g, s, a>>
  <2>1. A \in Seq(Entry) /\ Len(A) = 3 /\ A[1] = g /\ A[2] = s /\ A[3] = a
    BY <1>1, <1>4
  <2>2. Timestamps(J) = {}
    BY <1>2, <1>3, <2>1, <1>4
  <2> QED
    BY <1>2, <2>1, <2>2
<1>5. CASE A = <<s, a>>
  <2>1. A \in Seq(Entry) /\ Len(A) = 2 /\ A[1] = s /\ A[2] = a
    BY <1>1, <1>5
  <2>2. Timestamps(J) = {}
    BY <1>2, <1>3, <2>1, <1>5
  <2> QED
    BY <1>2, <2>1, <2>2
<1>6. CASE A = <<g, a>>
  <2>1. A \in Seq(Entry) /\ Len(A) = 2 /\ A[1] = g /\ A[2] = a
    BY <1>1, <1>6
  <2>2. Timestamps(J) # {}
    BY <1>2, <1>3, <2>1, <1>6
  <2> QED
    BY <1>2, <2>1, <2>2
<1>7. CASE A = <<a>>
  <2>1. A \in Seq(Entry) /\ Len(A) = 1 /\ A[1] = a
    BY <1>1, <1>7
  <2>2. Timestamps(J) # {}
    BY <1>2, <1>3, <2>1, <1>7
  <2> QED
    BY <1>2, <2>1, <2>2
<1> QED
  BY <1>3, <1>4, <1>5, <1>6, <1>7

(* A build that dies has appended the first entries of what it would have. *)
LEMMA CutFresh ==
  ASSUME NEW j \in Job, NEW B, Fresh(j, B), Len(B) \in Nat, NEW k \in 0..Len(B)
  PROVE  Fresh(j, SubSeq(B, 1, k))
<1> DEFINE C == SubSeq(B, 1, k)
<1>1. B \in Seq(Entry)
  BY DEF Fresh
<1>2. \A n \in 1..Len(B) : B[n] \in Entry
  BY <1>1, ElementOfSeq
<1>3. C \in Seq(Entry) /\ Len(C) = k /\ \A n \in 1..k : C[n] = B[n]
  BY <1>1, <1>2, SubSeqProperties
<1>4. 1..Len(C) \subseteq 1..Len(B) /\ \A n \in 1..Len(C) : 1..n \subseteq 1..Len(C)
  BY <1>3
<1> HIDE DEF C
<1> SUFFICES Fresh(j, C)
  BY DEF C
<1> QED
  BY <1>3, <1>4 DEF Fresh

-----------------------------------------------------------------------------
(***************************************************************************)
(* A good journal has at most one timestamp, and each of its apply entries *)
(* names what an input renders to with that epoch.                         *)
(***************************************************************************)
OneStamp(J) ==
  \A m, n \in 1..Len(J) :
    J[m].action = "curation-timestamp" /\ J[n].action = "curation-timestamp" => m = n

Accounted(J) ==
  \A n \in 1..Len(J) :
    J[n].action = "apply" =>
      \E i \in Input, e \in Timestamps(J) : J[n].refs = Rendered[i, e]

Good(J) == OneStamp(J) /\ Accounted(J)

LEMMA TimestampsGrow ==
  ASSUME NEW s \in Seq(Entry), NEW t \in Seq(Entry), Extends(s, t)
  PROVE  Timestamps(s) \subseteq Timestamps(t)
<1>1. Len(s) \in Nat /\ Len(t) \in Nat
  OBVIOUS
<1> QED
  BY <1>1 DEF Extends, Timestamps

LEMMA CoveredGrows ==
  ASSUME NEW r, NEW s \in Seq(Entry), NEW t \in Seq(Entry), Extends(s, t), Covered(r, s)
  PROVE  Covered(r, t)
<1> DEFINE applied(u) == {u[k].refs : k \in {n \in 1..Len(u) : u[n].action = "apply"}}
<1>1. Len(s) \in Nat /\ Len(t) \in Nat
  OBVIOUS
<1>2. applied(s) \subseteq applied(t)
  BY <1>1 DEF Extends
<1>3. \A u : Covered(r, u) <=>
        /\ r.branch = None \/ \E q \in applied(u) : q.branch = r.branch
        /\ \A x \in Tag : r.tag[x] = None \/ \E q \in applied(u) : q.tag[x] = r.tag[x]
  BY DEF Covered
<1> HIDE DEF applied
<1> QED
  BY <1>2, <1>3

(* What a build appends, whole or in part, leaves the journal good. *)
LEMMA GoodAppended ==
  ASSUME TInv, NEW j \in Job, ~Refused(j), Good(job[j].tree.journal), NEW B, Fresh(j, B)
  PROVE  Good(job[j].tree.journal \o B)
<1> DEFINE J == job[j].tree.journal
           E == job[j].tree.epoch
           K == J \o B
           c == Candidate(j)
<1>1. J \in Seq(Entry) /\ B \in Seq(Entry)
  BY JobTypes DEF Fresh
<1>2. Len(J) \in Nat /\ Len(B) \in Nat
  BY <1>1
<1> HIDE DEF J
<1>3. /\ K \in Seq(Entry) /\ Extends(J, K) /\ Len(K) = Len(J) + Len(B)
      /\ \A n \in 1..Len(J) : K[n] = J[n]
      /\ \A n \in 1..Len(B) : K[Len(J) + n] = B[n]
      /\ \A n \in 1..Len(K) : n \in 1..Len(J) \/ \E k \in 1..Len(B) : n = Len(J) + k
  BY <1>1, ConcatExtends, ZenonT(60)
<1>4. Timestamps(J) \subseteq {E}
  BY DEF Refused, J
<1>5. Timestamps(J) \subseteq Timestamps(K)
  BY <1>1, <1>3, TimestampsGrow
<1>6. /\ Genesis(j).action = "genesis"
      /\ Stamped(j, E).action = "curation-timestamp" /\ Stamped(j, E).epoch = E
      /\ Applied(j, c).action = "apply" /\ Applied(j, c).refs = c
  BY DEF Genesis, Stamped, Applied
<1>7. /\ \A n \in 1..Len(B) : B[n] \in {Genesis(j), Stamped(j, E), Applied(j, c)}
      /\ \A m, n \in 1..Len(B) : B[m] = Stamped(j, E) /\ B[n] = Stamped(j, E) => m = n
      /\ Timestamps(J) # {} => \A n \in 1..Len(B) : B[n] # Stamped(j, E)
      /\ Timestamps(J) = {} =>
           \A n \in 1..Len(B) : B[n] = Applied(j, c) => \E m \in 1..n : B[m] = Stamped(j, E)
  BY DEF Fresh, J
<1>8. /\ \A n \in 1..Len(B) : B[n].action = "curation-timestamp" => B[n] = Stamped(j, E)
      /\ \A n \in 1..Len(B) : B[n].action = "apply" => B[n] = Applied(j, c)
  BY <1>6, <1>7
<1>9. \A n \in 1..Len(J) : J[n].action = "curation-timestamp" => J[n].epoch \in Timestamps(J)
  BY DEF Timestamps
<1>10. \A n \in 1..Len(K) : K[n].action = "curation-timestamp" => K[n].epoch \in Timestamps(K)
  BY DEF Timestamps
<1>11. \E i \in Input : c = Rendered[i, E]
  BY JobTypes DEF Candidate
<1>12. OneStamp(J) /\ Accounted(J)
  BY DEF Good, J
<1> HIDE DEF E, K, c
<1>13. OneStamp(K)
  <2> SUFFICES ASSUME NEW m \in 1..Len(K), NEW n \in 1..Len(K),
                      K[m].action = "curation-timestamp", K[n].action = "curation-timestamp"
               PROVE  m = n
    BY DEF OneStamp
  <2>1. CASE m \in 1..Len(J) /\ n \in 1..Len(J)
    BY <2>1, <1>3, <1>12 DEF OneStamp
  <2>2. CASE m \in 1..Len(J) /\ n \notin 1..Len(J)
    <3>1. PICK k \in 1..Len(B) : n = Len(J) + k
      BY <2>2, <1>3
    <3>2. B[k] = Stamped(j, E)
      BY <3>1, <1>3, <1>8
    <3>3. Timestamps(J) # {}
      BY <2>2, <1>3, <1>9
    <3> QED
      BY <3>2, <3>3, <1>7
  <2>3. CASE m \notin 1..Len(J) /\ n \in 1..Len(J)
    <3>1. PICK k \in 1..Len(B) : m = Len(J) + k
      BY <2>3, <1>3
    <3>2. B[k] = Stamped(j, E)
      BY <3>1, <1>3, <1>8
    <3>3. Timestamps(J) # {}
      BY <2>3, <1>3, <1>9
    <3> QED
      BY <3>2, <3>3, <1>7
  <2>4. CASE m \notin 1..Len(J) /\ n \notin 1..Len(J)
    <3>1. PICK k \in 1..Len(B), l \in 1..Len(B) : m = Len(J) + k /\ n = Len(J) + l
      BY <2>4, <1>3
    <3>2. B[k] = Stamped(j, E) /\ B[l] = Stamped(j, E)
      BY <3>1, <1>3, <1>8
    <3>3. k = l
      BY <3>2, <1>7
    <3> QED
      BY <3>1, <3>3
  <2> QED
    BY <2>1, <2>2, <2>3, <2>4
<1>14. Accounted(K)
  <2> SUFFICES ASSUME NEW n \in 1..Len(K), K[n].action = "apply"
               PROVE  \E i \in Input, e \in Timestamps(K) : K[n].refs = Rendered[i, e]
    BY DEF Accounted
  <2>1. CASE n \in 1..Len(J)
    BY <2>1, <1>3, <1>5, <1>12 DEF Accounted
  <2>2. CASE n \notin 1..Len(J)
    <3>1. PICK k \in 1..Len(B) : n = Len(J) + k
      BY <2>2, <1>3
    <3>2. K[n] = B[k] /\ B[k] = Applied(j, c) /\ K[n].refs = c
      BY <3>1, <1>3, <1>6, <1>8
    <3>3. E \in Timestamps(K)
      <4>1. CASE Timestamps(J) = {}
        <5>1. PICK l \in 1..k : B[l] = Stamped(j, E)
          BY <4>1, <3>2, <1>7
        <5>2. l \in 1..Len(B) /\ Len(J) + l \in 1..Len(K)
          BY <1>2, <1>3
        <5>3. K[Len(J) + l] = Stamped(j, E)
          BY <5>1, <5>2, <1>3
        <5> QED
          BY <5>2, <5>3, <1>6, <1>10
      <4>2. CASE Timestamps(J) # {}
        BY <4>2, <1>4, <1>5
      <4> QED
        BY <4>1, <4>2
    <3> QED
      BY <3>2, <3>3, <1>11
  <2> QED
    BY <2>1, <2>2
<1> QED
  BY <1>13, <1>14 DEF Good, J, K

(* ... and so does the event of a publication. *)
LEMMA GoodAnnounced ==
  ASSUME NEW j \in Job, NEW r \in Candidates, NEW J \in Seq(Entry), Good(J)
  PROVE  Good(J \o <<PublishEvent(j, r)>>)
<1> DEFINE p == PublishEvent(j, r)
           B == <<p>>
           K == J \o B
<1>1. p \in Entry /\ p.action = "publish-event"
  <2>1. p \in UNION {{Genesis(k)} \cup {Stamped(k, e) : e \in Epoch}
                \cup {Applied(k, q) : q \in Candidates}
                \cup {PublishEvent(k, q) : q \in Candidates} : k \in Job}
    OBVIOUS
  <2> QED
    BY <2>1 DEF Entry, PublishEvent
<1>2. B \in Seq(Entry) /\ Len(B) = 1 /\ B[1] = p
  BY <1>1
<1> HIDE DEF p, B
<1>3. /\ K \in Seq(Entry) /\ Extends(J, K) /\ Len(K) = Len(J) + Len(B)
      /\ \A n \in 1..Len(J) : K[n] = J[n]
      /\ \A n \in 1..Len(B) : K[Len(J) + n] = B[n]
      /\ \A n \in 1..Len(K) : n \in 1..Len(J) \/ \E k \in 1..Len(B) : n = Len(J) + k
  BY <1>2, ConcatExtends, ZenonT(60)
<1>4. Timestamps(J) \subseteq Timestamps(K)
  BY <1>3, TimestampsGrow
<1> HIDE DEF K
<1>5. \A n \in 1..Len(K) : K[n] = p \/ (n \in 1..Len(J) /\ K[n] = J[n])
  BY <1>2, <1>3
<1>6. OneStamp(K)
  BY <1>1, <1>5 DEF Good, OneStamp
<1>7. Accounted(K)
  BY <1>1, <1>4, <1>5 DEF Good, Accounted
<1> QED
  BY <1>6, <1>7 DEF Good, K, B, p

-----------------------------------------------------------------------------
(***************************************************************************)
(* What holds of the revisions m of main, and of a job with record r that  *)
(* is at the step label.  Every journal of main is a beginning of the last *)
(* one, and of that of every checkout made from it: this is what a push    *)
(* that is refused behind main preserves, and a push with -f would not.    *)
(***************************************************************************)
MainOK(m) ==
  \A k \in 1..Len(m) : Good(m[k].journal) /\ Extends(m[k].journal, m[Len(m)].journal)

JobOK(r, label, m) ==
  /\ Good(r.tree.journal) /\ Extends(m[r.base].journal, r.tree.journal)
  /\ label \in Steps => r.tree.source = r.tree.input
  /\ label \in {"source", "build"} => r.candidate = NoRefs
  /\ label \in {"journal", "validate", "publish"} =>
       r.candidate \in {NoRefs, Rendered[r.tree.input, r.tree.epoch]}
  /\ label \in {"validate", "publish"} => r.tree = m[r.base]
  /\ label = "publish" =>
       r.tree.input \in Sound /\ r.candidate # NoRefs /\ Covered(r.candidate, r.tree.journal)

JInv ==
  /\ TInv
  /\ MainOK(main)
  /\ \A j \in Job : JobOK(job[j], pc[j], main)

Labels == {"idle"} \cup Steps \cup Ended

Moves(j, r, label) ==
  /\ r \in Record /\ r.candidate \in Candidates \cup {NoRefs}
  /\ label \in Labels /\ (label = "publish" => r.candidate \in Candidates)
  /\ job' = [job EXCEPT ![j] = r] /\ pc' = [pc EXCEPT ![j] = label]

(* What an action does to the rest of the forge, as far as types go. *)
ForgeTypes ==
  /\ main' \in Seq(Revision) /\ main' # <<>>
  /\ Len(main) <= Len(main') /\ \A k \in 1..Len(main) : main'[k] = main[k]
  /\ published' \in Refs /\ merges' \in 0..MaxMerges /\ faults' \in 0..MaxFaults

LEMMA MoveKeepsTypes ==
  ASSUME TInv, ForgeTypes, NEW j \in Job, NEW r, NEW label, Moves(j, r, label),
         r.base \in 1..Len(main')
  PROVE  TInv'
<1>1. Len(main) \in Nat /\ Len(main') \in Nat
  BY DEF TInv, ForgeTypes
<1>2. /\ job \in [Job -> Record] /\ pc \in [Job -> Labels]
      /\ \A k \in Job : job[k].base \in 1..Len(main)
  BY DEF TInv, Labels
<1>3. \A k \in Job : /\ job'[k] = IF k = j THEN r ELSE job[k]
                     /\ pc'[k] = IF k = j THEN label ELSE pc[k]
  BY <1>2 DEF Moves
<1>4. job' \in [Job -> Record] /\ pc' \in [Job -> Labels]
  BY <1>2 DEF Moves
<1>5. \A k \in Job : job'[k].base \in 1..Len(main')
  BY <1>1, <1>2, <1>3 DEF ForgeTypes
<1>6. \A k \in Job : pc'[k] = "publish" => job'[k].candidate \in Candidates
  BY <1>3 DEF Moves, TInv
<1>7. \A k \in Job : job'[k].candidate \in Candidates \cup {NoRefs}
  BY <1>3 DEF Moves, TInv
<1> QED
  BY <1>4, <1>5, <1>6, <1>7 DEF TInv, ForgeTypes, Labels

LEMMA MoveKeepsJobs ==
  ASSUME JInv, ForgeTypes, NEW j \in Job, NEW r, NEW label, Moves(j, r, label),
         JobOK(r, label, main')
  PROVE  \A k \in Job : JobOK(job'[k], pc'[k], main')
<1> SUFFICES ASSUME NEW k \in Job, k # j PROVE JobOK(job'[k], pc'[k], main')
  BY DEF JInv, TInv, Moves
<1>1. job'[k] = job[k] /\ pc'[k] = pc[k]
  BY DEF JInv, TInv, Moves
<1>2. main'[job[k].base] = main[job[k].base]
  BY DEF JInv, TInv, ForgeTypes
<1>3. JobOK(job[k], pc[k], main)
  BY DEF JInv
<1> QED
  BY <1>1, <1>2, <1>3 DEF JobOK

(* An action of a job that leaves main alone. *)
LEMMA MoveKeeps ==
  ASSUME JInv, ForgeTypes, main' = main, NEW j \in Job, NEW r, NEW label,
         Moves(j, r, label), r.base \in 1..Len(main), JobOK(r, label, main)
  PROVE  JInv'
<1>1. TInv
  BY DEF JInv
<1>2. TInv'
  BY <1>1, MoveKeepsTypes
<1>3. JobOK(r, label, main')
  OBVIOUS
<1>4. \A k \in Job : JobOK(job'[k], pc'[k], main')
  BY <1>3, MoveKeepsJobs
<1>5. MainOK(main)
  BY DEF JInv
<1> QED
  BY <1>2, <1>4, <1>5 DEF JInv

LEMMA MainAppends ==
  ASSUME TInv, NEW rev \in Revision, main' = Append(main, rev)
  PROVE  /\ main' \in Seq(Revision) /\ main' # <<>> /\ Len(main') = Len(main) + 1
         /\ Len(main) <= Len(main') /\ \A k \in 1..Len(main) : main'[k] = main[k]
         /\ main'[Len(main')] = rev /\ Last(main') = rev
<1>1. main \in Seq(Revision) /\ Len(main) \in Nat
  BY DEF TInv
<1>2. /\ main' \in Seq(Revision) /\ Len(main') = Len(main) + 1
      /\ \A k \in 1..Len(main) : main'[k] = main[k] /\ main'[Len(main) + 1] = rev
  BY <1>1, AppendProperties
<1>3. main'[Len(main) + 1] = rev
  BY <1>1, AppendProperties
<1>4. main' # <<>>
  BY <1>1, <1>2
<1> QED
  BY <1>1, <1>2, <1>3, <1>4 DEF Last

(* A revision whose journal begins with that of main may be appended. *)
LEMMA AppendKeepsMain ==
  ASSUME TInv, MainOK(main), NEW rev \in Revision, main' = Append(main, rev),
         Good(rev.journal), Extends(Last(main).journal, rev.journal)
  PROVE  MainOK(main')
<1>1. /\ Len(main') = Len(main) + 1 /\ main'[Len(main')] = rev
      /\ \A k \in 1..Len(main) : main'[k] = main[k]
  BY MainAppends
<1>2. /\ Len(main) \in Nat /\ Last(main) = main[Len(main)] /\ Last(main) \in Revision
      /\ \A k \in 1..Len(main) : main[k] \in Revision
  BY MainTypes
<1>3. \A r \in Revision : r.journal \in Seq(Entry)
  BY DEF Revision
<1> SUFFICES ASSUME NEW k \in 1..Len(main')
             PROVE  Good(main'[k].journal) /\ Extends(main'[k].journal, rev.journal)
  BY <1>1 DEF MainOK
<1>4. CASE k \in 1..Len(main)
  <2>1. /\ main[k].journal \in Seq(Entry) /\ Last(main).journal \in Seq(Entry)
        /\ rev.journal \in Seq(Entry)
    BY <1>2, <1>3, <1>4
  <2>2. Good(main[k].journal) /\ Extends(main[k].journal, Last(main).journal)
    BY <1>2, <1>4 DEF MainOK
  <2>3. Extends(main[k].journal, rev.journal)
    BY <2>1, <2>2, ExtendsTransitive
  <2> QED
    BY <1>1, <1>4, <2>2, <2>3
<1>5. CASE k = Len(main')
  <2>1. Len(rev.journal) \in Nat
    BY <1>3
  <2> QED
    BY <1>1, <1>5, <2>1 DEF Extends
<1> QED
  BY <1>1, <1>2, <1>4, <1>5

-----------------------------------------------------------------------------
(* The actions *)

(* What the forge keeps besides main and the jobs has its type. *)
RestTypes == published' \in Refs /\ merges' \in 0..MaxMerges /\ faults' \in 0..MaxFaults

LEMMA RestUnchanged ==
  ASSUME TInv, UNCHANGED <<published, merges, faults>>
  PROVE  RestTypes
BY DEF TInv, RestTypes

LEMMA FaultTypes ==
  ASSUME TInv, Fault
  PROVE  faults' \in 0..MaxFaults
BY JobsAssumption DEF TInv, Fault

LEMMA JobFacts ==
  ASSUME JInv, NEW j \in Job
  PROVE  /\ TInv /\ MainOK(main) /\ JobOK(job[j], pc[j], main)
         /\ job \in [Job -> Record] /\ job[j] \in Record /\ job[j].base \in 1..Len(main)
         /\ job[j].candidate \in Candidates \cup {NoRefs}
         /\ job = [job EXCEPT ![j] = job[j]]
BY DEF JInv, TInv

(* The job goes to another step, or ends, and hands nothing new on. *)
LEMMA StayKeeps ==
  ASSUME JInv, RestTypes, UNCHANGED <<main, job>>, NEW j \in Job, NEW label \in Labels,
         Goto(j, label), JobOK(job[j], label, main)
  PROVE  JInv'
<1>1. /\ job[j] \in Record /\ job[j].base \in 1..Len(main)
      /\ job[j].candidate \in Candidates \cup {NoRefs} /\ job = [job EXCEPT ![j] = job[j]]
  BY JobFacts
<1>2. label = "publish" => job[j].candidate \in Candidates
  BY <1>1 DEF JobOK
<1>3. Moves(j, job[j], label)
  BY <1>1, <1>2 DEF Moves, Goto
<1>4. ForgeTypes
  BY DEF JInv, TInv, ForgeTypes, RestTypes
<1> QED
  BY <1>1, <1>3, <1>4, MoveKeeps

LEMMA RedKeeps ==
  ASSUME JInv, RestTypes, UNCHANGED <<main, job>>, NEW j \in Job, Red(j)
  PROVE  JInv'
<1>1. JobOK(job[j], "red", main)
  BY JobFacts DEF JobOK, Steps
<1> QED
  BY <1>1, StayKeeps DEF Red, Labels, Ended

LEMMA PushKeeps ==
  ASSUME JInv, RestTypes, NEW j \in Job, NEW committed \in BOOLEAN, NEW step,
         PushMain(j, committed, step), pc[j] \in Steps,
         \/ step = "build" /\ pc[j] = "source"
         \/ step = "validate" /\ pc[j] = "journal" /\ committed
  PROVE  JInv' /\ Extends(Last(main).journal, Last(main').journal)
<1> DEFINE r == job[j]
           tree == job[j].tree
<1>1. /\ TInv /\ MainOK(main) /\ JobOK(r, pc[j], main)
      /\ job \in [Job -> Record] /\ r \in Record /\ r.base \in 1..Len(main)
      /\ r.candidate \in Candidates \cup {NoRefs}
  BY JobFacts
<1>2. /\ Len(main) \in Nat \ {0} /\ Len(main) \in 1..Len(main)
      /\ Last(main) = main[Len(main)] /\ Last(main) \in Revision
  BY <1>1, MainTypes
<1>3. tree \in Revision /\ \A v \in Revision : v.journal \in Seq(Entry)
  BY <1>1, JobTypes
<1>4. \A s \in Seq(Entry) : Extends(s, s)
  BY DEF Extends
<1>5. CASE ~UpToDate(j)
  <2>1. Red(j) /\ UNCHANGED <<main, job>>
    BY <1>5 DEF PushMain
  <2> QED
    BY <2>1, <1>2, <1>3, <1>4, RedKeeps
<1>6. CASE UpToDate(j)
  <2> DEFINE q == [r EXCEPT !.base = Len(main')]
  <2>1. /\ main' = IF committed THEN Append(main, tree) ELSE main
        /\ job' = [job EXCEPT ![j].base = Len(main')]
        /\ pc' = [pc EXCEPT ![j] = step]
    BY <1>6 DEF PushMain, Goto
  <2>2. job' = [job EXCEPT ![j] = q]
    BY <2>1, <1>1
  <2>3. main[r.base] = Last(main) /\ Extends(Last(main).journal, tree.journal)
        /\ Good(tree.journal)
    BY <1>1, <1>2, <1>6 DEF UpToDate, JobOK
  <2>4. /\ main' \in Seq(Revision) /\ main' # <<>> /\ Len(main) <= Len(main')
        /\ \A k \in 1..Len(main) : main'[k] = main[k]
        /\ Len(main') \in Nat \ {0}
    <3>1. CASE committed
      BY <3>1, <2>1, <1>1, <1>2, <1>3, MainAppends
    <3>2. CASE ~committed
      BY <3>2, <2>1, <1>1, <1>2 DEF TInv
    <3> QED
      BY <3>1, <3>2
  <2>5. ForgeTypes
    BY <2>4 DEF ForgeTypes, RestTypes
  <2>6. /\ q \in Record /\ q.base = Len(main') /\ q.tree = tree
        /\ q.candidate = r.candidate
    BY <1>1, <2>4 DEF Record
  <2>7. MainOK(main')
    <3>1. CASE committed
      BY <3>1, <2>1, <2>3, <1>1, <1>3, AppendKeepsMain
    <3>2. CASE ~committed
      BY <3>2, <2>1, <1>1
    <3> QED
      BY <3>1, <3>2
  <2>8. /\ committed => main'[Len(main')] = tree /\ Last(main') = tree
        /\ ~committed => main'[Len(main')] = Last(main) /\ Last(main') = Last(main)
    <3>1. CASE committed
      BY <3>1, <2>1, <1>1, <1>3, MainAppends
    <3>2. CASE ~committed
      BY <3>2, <2>1, <1>2
    <3> QED
      BY <3>1, <3>2
  <2> HIDE DEF q
  <2>9. Extends(main'[q.base].journal, tree.journal)
    BY <1>3, <1>4, <2>3, <2>6, <2>8
  <2>10. step = "validate" => /\ tree = main'[q.base]
                             /\ r.candidate \in {NoRefs, Rendered[tree.input, tree.epoch]}
    BY <1>1, <2>6, <2>8 DEF JobOK
  <2>11. tree.source = tree.input /\ (step = "build" => r.candidate = NoRefs)
    BY <1>1 DEF JobOK
  <2>12. JobOK(q, step, main')
    BY <2>3, <2>6, <2>9, <2>10, <2>11 DEF JobOK
  <2>13. Moves(j, q, step)
    BY <1>1, <2>1, <2>2, <2>6 DEF Moves, Labels, Steps
  <2>14. TInv'
    BY <1>1, <2>4, <2>5, <2>6, <2>13, MoveKeepsTypes
  <2>15. \A k \in Job : JobOK(job'[k], pc'[k], main')
    BY <2>5, <2>12, <2>13, MoveKeepsJobs
  <2>16. Extends(Last(main).journal, Last(main').journal)
    BY <2>3, <2>8, <1>2, <1>3, <1>4
  <2> QED
    BY <2>7, <2>14, <2>15, <2>16 DEF JInv
<1> QED
  BY <1>5, <1>6

(* A build, or what is left of one, in a checkout. *)
LEMMA JournaledKeeps ==
  ASSUME JInv, RestTypes, UNCHANGED main, NEW j \in Job, NEW B, NEW c,
         pc[j] = "build", ~Refused(j), Fresh(j, B), Goto(j, "journal"),
         c \in {NoRefs, Candidate(j)}, Journaled(j, B, c)
  PROVE  JInv'
<1> DEFINE r == job[j]
           J == r.tree.journal \o B
           tree == [r.tree EXCEPT !.journal = J]
           q == [r EXCEPT !.tree = tree, !.candidate = c]
<1>1. /\ TInv /\ JobOK(r, pc[j], main)
      /\ job \in [Job -> Record] /\ r \in Record /\ r.base \in 1..Len(main)
  BY JobFacts
<1>2. r.tree \in Revision /\ r.tree.journal \in Seq(Entry) /\ B \in Seq(Entry)
  BY <1>1, JobTypes DEF Fresh
<1>3. J \in Seq(Entry) /\ Extends(r.tree.journal, J)
  BY <1>2, ConcatExtends
<1>4. Good(J)
  BY <1>1, GoodAppended DEF JobOK
<1>5. c \in Candidates \cup {NoRefs} /\ c \in Refs
  BY <1>1, JobTypes, NoRefsType
<1>6. Candidate(j) = Rendered[r.tree.input, r.tree.epoch]
  BY DEF Candidate
<1>7. job' = [job EXCEPT ![j] = q]
  BY <1>1, <1>2 DEF Journaled, Record
<1>8. main[r.base].journal \in Seq(Entry) /\ Extends(main[r.base].journal, r.tree.journal)
  BY <1>1, MainTypes, JobTypes DEF JobOK
<1>9. Extends(main[r.base].journal, J)
  BY <1>2, <1>3, <1>8, ExtendsTransitive
<1>10. r.tree.source = r.tree.input
  BY <1>1 DEF JobOK, Steps
<1> HIDE DEF J
<1>11. /\ tree \in Revision /\ tree.journal = J /\ tree.source = r.tree.source
       /\ tree.input = r.tree.input /\ tree.epoch = r.tree.epoch
  BY <1>2, <1>3 DEF Revision
<1> HIDE DEF tree
<1>12. q \in Record /\ q.base = r.base /\ q.tree = tree /\ q.candidate = c
  BY <1>1, <1>5, <1>11 DEF Record
<1> HIDE DEF q
<1>13. JobOK(q, "journal", main)
  BY <1>4, <1>6, <1>9, <1>10, <1>11, <1>12 DEF JobOK
<1>14. Moves(j, q, "journal")
  BY <1>5, <1>7, <1>12 DEF Moves, Goto, Labels, Steps
<1>15. ForgeTypes
  BY <1>1 DEF TInv, ForgeTypes, RestTypes
<1> QED
  BY <1>1, <1>12, <1>13, <1>14, <1>15, MoveKeeps

LEMMA BuildKeeps ==
  ASSUME JInv, NEW j \in Job, Build(j) \/ BuildDies(j) \/ BuildRefuses(j)
  PROVE  JInv'
<1>1. TInv /\ JobOK(job[j], pc[j], main)
  BY JobFacts
<1>2. Fresh(j, Additions(j)) /\ Len(Additions(j)) \in Nat
  BY <1>1, AdditionsFresh
<1>3. CASE Build(j)
  <2>1. RestTypes
    BY <1>1, <1>3, RestUnchanged DEF Build
  <2> QED
    BY <1>2, <1>3, <2>1, JournaledKeeps DEF Build
<1>4. CASE BuildDies(j)
  <2>1. RestTypes
    BY <1>1, <1>4, FaultTypes DEF BuildDies, RestTypes, TInv
  <2>2. PICK n \in 0..Len(Additions(j)) : Journaled(j, SubSeq(Additions(j), 1, n), NoRefs)
    BY <1>4 DEF BuildDies
  <2>3. Fresh(j, SubSeq(Additions(j), 1, n))
    BY <1>2, CutFresh
  <2> QED
    BY <1>4, <2>1, <2>2, <2>3, JournaledKeeps DEF BuildDies
<1>5. CASE BuildRefuses(j)
  <2>1. RestTypes
    BY <1>1, <1>5, RestUnchanged DEF BuildRefuses
  <2>2. /\ UNCHANGED <<main, job>> /\ Goto(j, "journal") /\ pc[j] = "build"
    BY <1>5 DEF BuildRefuses
  <2>3. JobOK(job[j], "journal", main)
    BY <1>1, <2>2 DEF JobOK, Steps
  <2> QED
    BY <2>1, <2>2, <2>3, StayKeeps DEF Labels, Steps
<1> QED
  BY <1>3, <1>4, <1>5

LEMMA MergeKeeps ==
  ASSUME JInv, NEW i \in Input, NEW e \in Epoch, Merge(i, e)
  PROVE  JInv' /\ Extends(Last(main).journal, Last(main').journal)
<1> DEFINE L == Last(main)
           rev == [L EXCEPT !.input = i, !.epoch = e]
<1>1. TInv /\ MainOK(main)
  BY DEF JInv
<1>2. /\ Len(main) \in Nat \ {0} /\ Len(main) \in 1..Len(main)
      /\ L = main[Len(main)] /\ L \in Revision
  BY <1>1, MainTypes
<1>3. main' = Append(main, rev) /\ UNCHANGED <<published, pc, job, faults>>
  BY DEF Merge
<1>4. merges' \in 0..MaxMerges
  BY <1>1, JobsAssumption DEF Merge, TInv
<1>5. Good(L.journal) /\ L.journal \in Seq(Entry) /\ Extends(L.journal, L.journal)
  BY <1>1, <1>2 DEF MainOK, Revision, Extends
<1> HIDE DEF L
<1>6. rev \in Revision /\ rev.journal = L.journal
  BY <1>2 DEF Revision
<1> HIDE DEF rev
<1>7. /\ main' \in Seq(Revision) /\ main' # <<>> /\ Len(main') = Len(main) + 1
      /\ \A k \in 1..Len(main) : main'[k] = main[k]
      /\ Last(main') = rev
  BY <1>1, <1>3, <1>6, MainAppends
<1>8. MainOK(main')
  <2>1. Good(rev.journal) /\ Extends(Last(main).journal, rev.journal)
    BY <1>5, <1>6 DEF L
  <2> QED
    BY <1>1, <1>3, <1>6, <2>1, AppendKeepsMain
<1>9. \A k \in Job : job[k].base \in 1..Len(main')
  BY <1>1, <1>2, <1>7 DEF TInv
<1>10. \A k \in Job : JobOK(job[k], pc[k], main')
  <2> SUFFICES ASSUME NEW k \in Job PROVE JobOK(job[k], pc[k], main')
    OBVIOUS
  <2>1. JobOK(job[k], pc[k], main) /\ main'[job[k].base] = main[job[k].base]
    BY <1>1, <1>7 DEF JInv, TInv
  <2> QED
    BY <2>1 DEF JobOK
<1>11. TInv'
  BY <1>1, <1>3, <1>4, <1>7, <1>9 DEF TInv
<1>12. JInv'
  BY <1>3, <1>8, <1>10, <1>11 DEF JInv
<1> QED
  BY <1>5, <1>6, <1>7, <1>12 DEF L

LEMMA StartKeeps ==
  ASSUME JInv, NEW j \in Job, NEW supersede \in BOOLEAN, Start(j, supersede)
  PROVE  JInv'
<1> DEFINE L == Last(main)
           tree == [L EXCEPT !.source = L.input]
           q == [NewJob EXCEPT !.base = Len(main), !.supersede = supersede, !.tree = tree]
<1>1. TInv /\ MainOK(main)
  BY DEF JInv
<1>2. /\ Len(main) \in Nat \ {0} /\ Len(main) \in 1..Len(main)
      /\ L = main[Len(main)] /\ L \in Revision
  BY <1>1, MainTypes
<1>3. /\ job' = [job EXCEPT ![j] = q] /\ Goto(j, "source")
      /\ UNCHANGED <<main, published, merges, faults>>
  BY DEF Start
<1>4. Good(L.journal) /\ L.journal \in Seq(Entry) /\ Extends(L.journal, L.journal)
  BY <1>1, <1>2 DEF MainOK, Revision, Extends
<1>5. main[Len(main)] = L
  BY <1>2
<1> HIDE DEF L
<1>6. tree \in Revision /\ tree.journal = L.journal /\ tree.source = tree.input
  BY <1>2 DEF Revision
<1> HIDE DEF tree
<1>7. NewJob \in Record /\ NewJob.candidate = NoRefs
  <2>1. 1 \in 1..Len(main)
    BY <1>2
  <2>2. main[1] \in Revision
    BY <1>1, <2>1, MainTypes
  <2> QED
    BY <2>2, NoRefsType DEF NewJob, Record
<1>8. /\ q \in Record /\ q.base = Len(main) /\ q.tree = tree /\ q.candidate = NoRefs
  BY <1>2, <1>6, <1>7 DEF Record
<1> HIDE DEF q
<1>9. JobOK(q, "source", main)
  BY <1>4, <1>5, <1>6, <1>8 DEF JobOK
<1>10. Moves(j, q, "source")
  BY <1>3, <1>8 DEF Moves, Goto, Labels, Steps
<1>11. ForgeTypes
  BY <1>1, <1>3 DEF TInv, ForgeTypes
<1> QED
  BY <1>2, <1>3, <1>8, <1>9, <1>10, <1>11, MoveKeeps

LEMMA PushesKeep ==
  ASSUME JInv, NEW j \in Job, PushSource(j) \/ PushJournal(j)
  PROVE  JInv' /\ Extends(Last(main).journal, Last(main').journal)
<1>1. TInv
  BY DEF JInv
<1>2. RestTypes
  BY <1>1, RestUnchanged DEF PushSource, PushJournal
<1>3. CASE PushSource(j)
  <2>1. pc[j] = "source" /\ PushMain(j, job[j].tree.source # Checkout(j).source, "build")
    BY <1>3 DEF PushSource
  <2>2. (job[j].tree.source # Checkout(j).source) \in BOOLEAN /\ pc[j] \in Steps
    BY <2>1 DEF Steps
  <2> QED
    BY <1>2, <2>1, <2>2, PushKeeps
<1>4. CASE PushJournal(j) /\ job[j].tree.journal = Checkout(j).journal
  <2>1. Red(j) /\ UNCHANGED <<main, job>>
    BY <1>4 DEF PushJournal
  <2>2. Last(main).journal \in Seq(Entry)
    BY <1>1, MainTypes DEF Revision
  <2>3. Extends(Last(main).journal, Last(main).journal)
    BY <2>2 DEF Extends
  <2> QED
    BY <1>2, <2>1, <2>3, RedKeeps
<1>5. CASE PushJournal(j) /\ job[j].tree.journal # Checkout(j).journal
  <2>1. pc[j] = "journal" /\ PushMain(j, TRUE, "validate")
    BY <1>5 DEF PushJournal
  <2>2. TRUE \in BOOLEAN /\ pc[j] \in Steps
    BY <2>1 DEF Steps
  <2> QED
    BY <1>2, <2>1, <2>2, PushKeeps
<1> QED
  BY <1>3, <1>4, <1>5

LEMMA ValidateKeeps ==
  ASSUME JInv, NEW j \in Job, Validate(j)
  PROVE  JInv'
<1>1. TInv /\ JobOK(job[j], pc[j], main)
  BY JobFacts
<1>2. /\ RestTypes /\ UNCHANGED <<main, job>> /\ pc[j] = "validate"
  BY <1>1, RestUnchanged DEF Validate
<1>3. CASE Red(j)
  BY <1>2, <1>3, RedKeeps
<1>4. CASE ~Red(j)
  <2>1. /\ job[j].candidate # NoRefs /\ job[j].tree.input \in Sound
        /\ Covered(job[j].candidate, job[j].tree.journal) /\ Goto(j, "publish")
    BY <1>4 DEF Validate
  <2>2. JobOK(job[j], "publish", main)
    BY <1>1, <1>2, <2>1 DEF JobOK, Steps
  <2> QED
    BY <1>2, <2>1, <2>2, StayKeeps DEF Labels, Steps
<1> QED
  BY <1>3, <1>4

(* A push gives each ref its old value or that of the candidate. *)
LEMMA PushedIsOldOrNew ==
  ASSUME NEW new \in Refs, published \in Refs
  PROVE  /\ Pushed(new) \in Refs
         /\ Pushed(new).branch \in {published.branch, new.branch}
         /\ \A t \in Tag : Pushed(new).tag[t] \in {published.tag[t], new.tag[t]}
BY DEF Pushed, Refs

LEMMA PublishKeeps ==
  ASSUME JInv, NEW j \in Job,
         Publish(j) \/ PublishSuperseding(j) \/ PublishBroken(j) \/ StepFails(j)
  PROVE  JInv'
<1> DEFINE r == job[j]
           c == job[j].candidate
<1>1. /\ TInv /\ JobOK(r, pc[j], main)
      /\ job \in [Job -> Record] /\ r \in Record /\ r.base \in 1..Len(main)
  BY JobFacts
<1>2. Publish(j) \/ PublishBroken(j) => Pushed(c) \in Refs
  BY <1>1, PushedIsOldOrNew, CandidatesAreRefs DEF TInv, Publish, PublishBroken
<1>3. RestTypes /\ UNCHANGED main
  <2>1. TInv /\ (Fault => faults' \in 0..MaxFaults)
    BY <1>1, FaultTypes
  <2> QED
    BY <1>2, <2>1 DEF RestTypes, TInv, Publish, PublishSuperseding, PublishBroken, StepFails
<1>4. CASE Red(j) /\ UNCHANGED job
  BY <1>3, <1>4, RedKeeps
<1>5. CASE ~(Red(j) /\ UNCHANGED job)
  <2> DEFINE B == <<PublishEvent(j, c)>>
             J == r.tree.journal \o B
             tree == [r.tree EXCEPT !.journal = J]
             q == [r EXCEPT !.tree = tree, !.candidate = c]
  <2>1. pc[j] = "publish" /\ Journaled(j, B, c) /\ Goto(j, "green")
    BY <1>5 DEF Publish, PublishSuperseding, PublishBroken, StepFails
  <2>2. c \in Candidates
    BY <1>1, <2>1 DEF TInv
  <2>3. r.tree \in Revision /\ r.tree.journal \in Seq(Entry) /\ PublishEvent(j, c) \in Entry
    BY <1>1, <2>2, JobTypes DEF Entry
  <2>4. B \in Seq(Entry)
    BY <2>3
  <2>5. J \in Seq(Entry) /\ Extends(r.tree.journal, J)
    BY <2>3, <2>4, ConcatExtends
  <2>6. Good(J)
    BY <1>1, <2>2, <2>3, GoodAnnounced DEF JobOK
  <2>7. main[r.base].journal \in Seq(Entry) /\ Extends(main[r.base].journal, r.tree.journal)
    BY <1>1, MainTypes, JobTypes DEF JobOK
  <2>8. Extends(main[r.base].journal, J)
    BY <2>3, <2>5, <2>7, ExtendsTransitive
  <2>9. job' = [job EXCEPT ![j] = q]
    BY <1>1, <2>1, <2>3 DEF Journaled, Record
  <2> HIDE DEF J
  <2>10. tree \in Revision /\ tree.journal = J
    BY <2>3, <2>5 DEF Revision
  <2> HIDE DEF tree
  <2>11. q \in Record /\ q.base = r.base /\ q.tree = tree /\ q.candidate = c
    BY <1>1, <2>10 DEF Record
  <2> HIDE DEF q
  <2>12. JobOK(q, "green", main)
    BY <2>6, <2>8, <2>10, <2>11 DEF JobOK, Steps
  <2>13. Moves(j, q, "green")
    BY <2>1, <2>2, <2>9, <2>11 DEF Moves, Goto, Labels, Ended
  <2>14. ForgeTypes
    BY <1>1, <1>3 DEF TInv, ForgeTypes, RestTypes
  <2> QED
    BY <1>1, <1>3, <2>11, <2>12, <2>13, <2>14, MoveKeeps
<1> QED
  BY <1>4, <1>5

-----------------------------------------------------------------------------
(* The behaviours *)

LEMMA InitJobs == Init => JInv
<1> SUFFICES ASSUME Init PROVE JInv
  OBVIOUS
<1>1. PICK i \in Input :
        main = <<[input |-> i, epoch |-> FirstEpoch, source |-> None, journal |-> <<>>]>>
  BY DEF Init
<1> DEFINE rev == [input |-> i, epoch |-> FirstEpoch, source |-> None, journal |-> <<>>]
<1>2. rev \in Revision /\ rev.journal = <<>>
  BY JobsAssumption DEF Revision
<1> HIDE DEF rev
<1>3. main = <<rev>>
  BY <1>1 DEF rev
<1>4. main \in Seq(Revision) /\ main # <<>> /\ Len(main) = 1 /\ main[1] = rev
  BY <1>2, <1>3
<1>5. NewJob \in Record /\ NewJob.candidate = NoRefs /\ NewJob.base = 1 /\ NewJob.tree = rev
  BY <1>2, <1>4, NoRefsType DEF NewJob, Record
<1>6. /\ job \in [Job -> Record] /\ pc \in [Job -> {"idle"} \cup Steps \cup Ended]
      /\ \A j \in Job : job[j] = NewJob /\ pc[j] = "idle"
  BY <1>5 DEF Init
<1>7. TInv
  BY <1>4, <1>5, <1>6, NoRefsType, JobsAssumption DEF TInv, Init
<1>8. Good(<<>>) /\ Extends(<<>>, <<>>)
  BY DEF Good, OneStamp, Accounted, Extends
<1>9. MainOK(main)
  BY <1>2, <1>4, <1>8 DEF MainOK
<1>10. \A j \in Job : JobOK(job[j], pc[j], main)
  BY <1>2, <1>4, <1>5, <1>6, <1>8 DEF JobOK, Steps
<1> QED
  BY <1>7, <1>9, <1>10 DEF JInv

(* The job j moves published refs, from a candidate that it has validated. *)
Publishes(j) ==
  /\ pc[j] = "publish" /\ published' = Pushed(job[j].candidate) /\ UNCHANGED main

LEMMA StepOfJobs ==
  ASSUME JInv, [Next]_vars
  PROVE  /\ JInv' /\ Extends(Last(main).journal, Last(main').journal)
         /\ UNCHANGED published \/ \E j \in Job : Publishes(j)
<1>1. TInv
  BY DEF JInv
<1>2. Last(main).journal \in Seq(Entry)
  BY <1>1, MainTypes DEF Revision
<1>3. main' = main => Extends(Last(main).journal, Last(main').journal)
  BY <1>2 DEF Extends
<1>4. CASE UNCHANGED vars
  BY <1>3, <1>4 DEF vars, JInv, TInv
<1>5. ASSUME NEW i \in Input, NEW e \in Epoch, Merge(i, e)
      PROVE  /\ JInv' /\ Extends(Last(main).journal, Last(main').journal)
             /\ UNCHANGED published
  BY <1>5, MergeKeeps DEF Merge
<1>6. ASSUME NEW j \in Job, NEW supersede \in BOOLEAN, Start(j, supersede)
      PROVE  /\ JInv' /\ Extends(Last(main).journal, Last(main').journal)
             /\ UNCHANGED published
  BY <1>3, <1>6, StartKeeps DEF Start
<1>7. ASSUME NEW j \in Job,
             \/ PushSource(j) \/ PushJournal(j)
      PROVE  /\ JInv' /\ Extends(Last(main).journal, Last(main').journal)
             /\ UNCHANGED published
  BY <1>7, PushesKeep DEF PushSource, PushJournal
<1>8. ASSUME NEW j \in Job, Build(j) \/ BuildDies(j) \/ BuildRefuses(j)
      PROVE  /\ JInv' /\ Extends(Last(main).journal, Last(main').journal)
             /\ UNCHANGED published
  BY <1>3, <1>8, BuildKeeps DEF Build, BuildDies, BuildRefuses
<1>9. ASSUME NEW j \in Job, Validate(j)
      PROVE  /\ JInv' /\ Extends(Last(main).journal, Last(main').journal)
             /\ UNCHANGED published
  BY <1>3, <1>9, ValidateKeeps DEF Validate
<1>10. ASSUME NEW j \in Job, PublishSuperseding(j) \/ StepFails(j)
      PROVE  /\ JInv' /\ Extends(Last(main).journal, Last(main').journal)
             /\ UNCHANGED published
  BY <1>3, <1>10, PublishKeeps DEF PublishSuperseding, StepFails
<1>11. ASSUME NEW j \in Job, Publish(j) \/ PublishBroken(j)
       PROVE  JInv' /\ Extends(Last(main).journal, Last(main').journal) /\ Publishes(j)
  BY <1>3, <1>11, PublishKeeps DEF Publish, PublishBroken, Publishes
<1> QED
  BY <1>4, <1>5, <1>6, <1>7, <1>8, <1>9, <1>10, <1>11 DEF Next, RunStep

(* The revisions of main stay: nothing pushes with -f. *)
LEMMA RevisionsStay ==
  ASSUME JInv, [Next]_vars
  PROVE  /\ Len(main) \in Nat /\ Len(main') \in Nat /\ Len(main) <= Len(main')
         /\ \A k \in 1..Len(main) : main'[k] = main[k]
<1>1. TInv /\ Len(main) \in Nat
  BY MainTypes DEF JInv
<1> DEFINE Stay == /\ Len(main') \in Nat /\ Len(main) <= Len(main')
                   /\ \A k \in 1..Len(main) : main'[k] = main[k]
<1>2. main' = main => Stay
  BY <1>1
<1>3. ASSUME NEW rev \in Revision, main' = Append(main, rev) PROVE Stay
  BY <1>1, <1>3, MainAppends
<1> HIDE DEF Stay
<1>4. ASSUME NEW i \in Input, NEW e \in Epoch, Merge(i, e) PROVE Stay
  <2> DEFINE L == Last(main)
  <2>1. L \in Revision
    BY <1>1, MainTypes
  <2> HIDE DEF L
  <2>2. [L EXCEPT !.input = i, !.epoch = e] \in Revision
    BY <2>1 DEF Revision
  <2>3. main' = Append(main, [L EXCEPT !.input = i, !.epoch = e])
    BY <1>4 DEF Merge, L
  <2> QED
    BY <1>3, <2>2, <2>3
<1>5. ASSUME NEW j \in Job, PushSource(j) \/ PushJournal(j) PROVE Stay
  <2>1. main' = main \/ main' = Append(main, job[j].tree)
    BY <1>5 DEF PushSource, PushJournal, PushMain
  <2>2. job[j].tree \in Revision
    BY <1>1, JobTypes
  <2> QED
    BY <1>2, <1>3, <2>1, <2>2
<1>6. ASSUME NEW j \in Job, NEW supersede \in BOOLEAN,
             \/ Start(j, supersede) \/ Build(j) \/ BuildRefuses(j) \/ BuildDies(j)
             \/ Validate(j) \/ Publish(j) \/ PublishSuperseding(j) \/ PublishBroken(j)
             \/ StepFails(j)
      PROVE  Stay
  BY <1>2, <1>6 DEF Start, Build, BuildRefuses, BuildDies, Validate, Publish,
                    PublishSuperseding, PublishBroken, StepFails
<1>7. UNCHANGED vars => Stay
  BY <1>2 DEF vars
<1>8. Stay
  BY <1>4, <1>5, <1>6, <1>7 DEF Next, RunStep
<1> QED
  BY <1>1, <1>8 DEF Stay

LEMMA JobsInvariant == Spec => []JInv
<1>1. Init => JInv
  BY InitJobs
<1>2. JInv /\ [Next]_vars => JInv'
  BY StepOfJobs
<1> QED
  BY <1>1, <1>2, PTL DEF Spec

(***************************************************************************)
(* The forge and the jobs keep their types.                                *)
(***************************************************************************)
THEOREM TypeCorrect == Spec => []TypeOK
<1>1. JInv => TypeOK
  BY TInvType DEF JInv
<1> QED
  BY <1>1, JobsInvariant, PTL

(***************************************************************************)
(* The push of main that the forge refuses when main has moved is enough   *)
(* for the journal of main to have one timestamp at most, with any number  *)
(* of jobs and merges.                                                     *)
(***************************************************************************)
THEOREM OneTimestamp == Spec => []OneTimestampOnMain
<1>1. JInv => OneTimestampOnMain
  <2> SUFFICES ASSUME JInv PROVE OneTimestampOnMain
    OBVIOUS
  <2>1. Len(main) \in 1..Len(main) /\ Last(main) = main[Len(main)]
    BY MainTypes DEF JInv
  <2>2. OneStamp(Last(main).journal)
    BY <2>1 DEF JInv, MainOK, Good
  <2> QED
    BY <2>2 DEF OneTimestampOnMain, OneStamp
<1> QED
  BY <1>1, JobsInvariant, PTL

(***************************************************************************)
(* No push and no merge takes an entry off the journal of main.            *)
(***************************************************************************)
THEOREM JournalGrows == Spec => JournalOnMainGrows
<1>1. ASSUME JInv, JInv', [Next]_vars
      PROVE  [IsPrefix(Last(main).journal, Last(main').journal)]_main
  <2>1. Extends(Last(main).journal, Last(main').journal)
    BY <1>1, StepOfJobs
  <2>2. Last(main).journal \in Seq(Entry)
    BY <1>1, MainTypes DEF JInv, Revision
  <2>3. main' \in Seq(Revision) /\ main' # <<>>
    BY <1>1 DEF JInv, TInv
  <2>4. Len(main') \in 1..Len(main') /\ Last(main') = main'[Len(main')]
    BY <2>3, EmptySeq DEF Last
  <2>5. Last(main') \in Revision
    BY <2>3, <2>4, ElementOfSeq
  <2>6. Last(main').journal \in Seq(Entry)
    BY <2>5 DEF Revision
  <2>7. IsPrefix(Last(main).journal, Last(main').journal)
    BY <2>1, <2>2, <2>6, ExtendsIsPrefix
  <2> QED
    BY <2>7
<1> QED
  BY <1>1, JobsInvariant, PTL DEF Spec, JournalOnMainGrows

-----------------------------------------------------------------------------
(* What is public *)

(* What a job pushes to the published refs, as the forge knows it. *)
LEMMA PublishedCandidate ==
  ASSUME JInv, NEW j \in Job, Publishes(j)
  PROVE  LET c == job[j].candidate
             rev == main[job[j].base]
         IN  /\ c \in Refs /\ rev \in Revision /\ rev.source = rev.input
             /\ rev.input \in Sound /\ c = Rendered[rev.input, rev.epoch]
             /\ Covered(c, Last(main).journal)
<1> DEFINE c == job[j].candidate
           rev == main[job[j].base]
<1>1. /\ TInv /\ MainOK(main) /\ JobOK(job[j], "publish", main)
      /\ job[j].base \in 1..Len(main) /\ c \in Refs
  BY JobFacts DEF Publishes, Record
<1>2. rev \in Revision /\ Last(main) \in Revision /\ Last(main) = main[Len(main)]
  BY <1>1, MainTypes
<1>3. /\ rev = job[j].tree /\ rev.source = rev.input /\ rev.input \in Sound
      /\ c = Rendered[rev.input, rev.epoch] /\ Covered(c, rev.journal)
  BY <1>1 DEF JobOK, Steps
<1>4. Extends(rev.journal, Last(main).journal)
  BY <1>1, <1>2 DEF MainOK
<1>5. rev.journal \in Seq(Entry) /\ Last(main).journal \in Seq(Entry)
  BY <1>2 DEF Revision
<1>6. Covered(c, Last(main).journal)
  BY <1>3, <1>4, <1>5, CoveredGrows
<1> QED
  BY <1>1, <1>2, <1>3, <1>6

LEMMA PushedIsCovered ==
  ASSUME NEW new \in Refs, published \in Refs, NEW J, Covered(published, J), Covered(new, J)
  PROVE  Covered(Pushed(new), J)
<1> DEFINE applied == {J[k].refs : k \in {n \in 1..Len(J) : J[n].action = "apply"}}
           named(r) == /\ r.branch = None \/ \E q \in applied : q.branch = r.branch
                       /\ \A t \in Tag : r.tag[t] = None \/ \E q \in applied : q.tag[t] = r.tag[t]
<1>1. \A r : Covered(r, J) <=> named(r)
  BY DEF Covered
<1>2. /\ Pushed(new).branch \in {published.branch, new.branch}
      /\ \A t \in Tag : Pushed(new).tag[t] \in {published.tag[t], new.tag[t]}
  BY PushedIsOldOrNew
<1>3. named(published) /\ named(new)
  BY <1>1
<1> HIDE DEF applied
<1>4. named(Pushed(new))
  BY <1>2, <1>3
<1> QED
  BY <1>1, <1>4

(***************************************************************************)
(* Every published object is named by an apply entry of the journal that   *)
(* main has: a job publishes only what the journal of its own main covers, *)
(* and that journal is a beginning of the last one.                        *)
(***************************************************************************)
THEOREM Coverage == Spec => []PublishedIsCovered
<1>1. Init => PublishedIsCovered
  BY DEF Init, PublishedIsCovered, Covered, NoRefs
<1>2. ASSUME JInv, JInv', PublishedIsCovered, [Next]_vars
      PROVE  PublishedIsCovered'
  <2> DEFINE L == Last(main).journal
             M == Last(main').journal
  <2>1. Extends(L, M) /\ (UNCHANGED published \/ \E j \in Job : Publishes(j))
    BY <1>2, StepOfJobs
  <2>2. L \in Seq(Entry)
    BY <1>2, MainTypes DEF JInv, Revision
  <2>3. main' \in Seq(Revision) /\ main' # <<>>
    BY <1>2 DEF JInv, TInv
  <2>4. Len(main') \in 1..Len(main') /\ Last(main') = main'[Len(main')]
    BY <2>3, EmptySeq DEF Last
  <2>5. Last(main') \in Revision
    BY <2>3, <2>4, ElementOfSeq
  <2>6. M \in Seq(Entry)
    BY <2>5 DEF Revision
  <2>7. Covered(published, L) /\ published \in Refs
    BY <1>2 DEF PublishedIsCovered, JInv, TInv
  <2>8. Covered(published, M)
    BY <2>1, <2>2, <2>6, <2>7, CoveredGrows
  <2>9. ASSUME NEW j \in Job, Publishes(j)
        PROVE  Covered(published', M)
    <3>1. /\ job[j].candidate \in Refs /\ Covered(job[j].candidate, L) /\ M = L
          /\ published' = Pushed(job[j].candidate)
      BY <1>2, <2>9, PublishedCandidate DEF Publishes
    <3> QED
      BY <2>7, <3>1, PushedIsCovered
  <2> QED
    BY <2>1, <2>8, <2>9 DEF PublishedIsCovered
<1> QED
  BY <1>1, <1>2, JobsInvariant, PTL DEF Spec

(* A revision explains a branch, or the tag t, that is public. *)
Renders(rev, b) ==
  rev.source = rev.input /\ rev.input \in Sound /\ Rendered[rev.input, rev.epoch].branch = b

RendersTag(rev, t, o) ==
  rev.source = rev.input /\ rev.input \in Sound /\ Rendered[rev.input, rev.epoch].tag[t] = o

OnMain(m, refs) ==
  /\ refs.branch = None \/ \E k \in 1..Len(m) : Renders(m[k], refs.branch)
  /\ \A t \in Tag : refs.tag[t] = None \/ \E k \in 1..Len(m) : RendersTag(m[k], t, refs.tag[t])

LEMMA OnMainIs == PublishedIsOnMain <=> OnMain(main, published)
BY DEF OnMain, PublishedIsOnMain, Explains, Renders, RendersTag

(***************************************************************************)
(* RED FAILS, nothing publishes: every published ref is what a revision of *)
(* main renders to whose source_code/ is its own and in which the battery  *)
(* finds nothing.                                                          *)
(***************************************************************************)
THEOREM RedPublishesNothing == Spec => []PublishedIsOnMain
<1>1. Init => OnMain(main, published)
  BY DEF Init, NoRefs, OnMain
<1>2. ASSUME JInv, JInv', OnMain(main, published), [Next]_vars
      PROVE  OnMain(main, published)'
  <2>1. UNCHANGED published \/ \E j \in Job : Publishes(j)
    BY <1>2, StepOfJobs
  <2>2. /\ Len(main) \in Nat /\ Len(main') \in Nat /\ Len(main) <= Len(main')
        /\ \A k \in 1..Len(main) : main'[k] = main[k]
    BY <1>2, RevisionsStay
  <2>3. published \in Refs
    BY <1>2 DEF JInv, TInv
  <2>4. OnMain(main', published)
    BY <1>2, <2>2 DEF OnMain
  <2>5. ASSUME NEW j \in Job, Publishes(j)
        PROVE  OnMain(main', published')
    <3> DEFINE c == job[j].candidate
               b == job[j].base
    <3>1. /\ c \in Refs /\ main[b].source = main[b].input /\ main[b].input \in Sound
          /\ c = Rendered[main[b].input, main[b].epoch]
          /\ published' = Pushed(c) /\ main' = main /\ b \in 1..Len(main)
      BY <1>2, <2>5, PublishedCandidate, ZenonT(60) DEF Publishes, JInv, TInv
    <3>2. /\ Pushed(c).branch \in {published.branch, c.branch}
          /\ \A t \in Tag : Pushed(c).tag[t] \in {published.tag[t], c.tag[t]}
      BY <2>3, <3>1, PushedIsOldOrNew
    <3> HIDE DEF b, c
    <3>3. Renders(main[b], c.branch) /\ \A t \in Tag : RendersTag(main[b], t, c.tag[t])
      BY <3>1 DEF Renders, RendersTag
    <3> QED
      BY <1>2, <3>1, <3>2, <3>3 DEF OnMain
  <2> QED
    BY <2>1, <2>4, <2>5 DEF OnMain
<1>3. OnMain(main, published) => PublishedIsOnMain
  BY OnMainIs
<1> QED
  BY <1>1, <1>2, <1>3, JobsInvariant, PTL DEF Spec

(***************************************************************************)
(* Everything public was built with one epoch, the one that the journal of *)
(* main records: this follows from the coverage, since the timestamp of    *)
(* that journal is unique.                                                 *)
(***************************************************************************)
THEOREM OneEpoch == Spec => []OneEpochPublished
<1>1. ASSUME JInv, PublishedIsCovered PROVE OneEpochPublished
  <2> DEFINE L == Last(main).journal
             made(e) == {Rendered[i, e] : i \in Input}
  <2>1. /\ OneStamp(L) /\ Accounted(L) /\ Covered(published, L) /\ published \in Refs
    <3>1. Len(main) \in 1..Len(main) /\ Last(main) = main[Len(main)]
      BY <1>1, MainTypes DEF JInv
    <3> QED
      BY <1>1, <3>1 DEF JInv, TInv, MainOK, Good, PublishedIsCovered
  <2>2. SUFFICES ASSUME published # NoRefs
                 PROVE  \E e \in Timestamps(L) :
                          /\ \E r \in made(e) :
                               r.branch = published.branch \/ published.branch = None
                          /\ \A t \in Tag : \E r \in made(e) :
                               r.tag[t] = published.tag[t] \/ published.tag[t] = None
    BY DEF OneEpochPublished
  <2> HIDE DEF L
  <2>3. published.branch # None \/ \E t \in Tag : published.tag[t] # None
    BY <2>1, <2>2 DEF Refs, NoRefs
  <2>4. PICK n \in 1..Len(L) : L[n].action = "apply"
    BY <2>1, <2>3 DEF Covered
  <2>5. PICK i \in Input, e \in Timestamps(L) : L[n].refs = Rendered[i, e]
    BY <2>1, <2>4 DEF Accounted
  <2>6. \A d \in Timestamps(L) : d = e
    BY <2>1 DEF Timestamps, OneStamp
  <2>7. \A k \in 1..Len(L) : L[k].action = "apply" => L[k].refs \in made(e)
    BY <2>1, <2>6 DEF Accounted
  <2>8. made(e) # {}
    OBVIOUS
  <2> HIDE DEF made
  <2>9. \E r \in made(e) : r.branch = published.branch \/ published.branch = None
    BY <2>1, <2>7, <2>8 DEF Covered
  <2>10. \A t \in Tag : \E r \in made(e) :
            r.tag[t] = published.tag[t] \/ published.tag[t] = None
    BY <2>1, <2>7, <2>8 DEF Covered
  <2> QED
    BY <2>9, <2>10
<1> QED
  BY <1>1, JobsInvariant, Coverage, PTL
=============================================================================
