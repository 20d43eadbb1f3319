---------------------------- MODULE LedgerProofs ----------------------------
(***************************************************************************)
(* Proofs about Ledger, for every set of writers, every set of actions and *)
(* every bound.  The inductive invariant IInv adds to the exactness of     *)
(* verify() what makes it inductive: ids are fresh, and what each writer   *)
(* has read is the tip, or, once stale, some earlier line.                 *)
(***************************************************************************)
EXTENDS Ledger, SequenceTheorems, TLAPS

-----------------------------------------------------------------------------
(* Lemmas about lines, their hashes and verify() *)

(* A function on 1..n is a sequence. *)
LEMMA FunctionIsSeq ==
  ASSUME NEW S, NEW n \in Nat, NEW g \in [1..n -> S]
  PROVE  g \in Seq(S)
BY SeqDef

(* The hash of a line is a digest. *)
LEMMA HashType ==
  ASSUME NEW line \in Line
  PROVE  Hash(line) \in Digest
<1>1. Len(line) \in Nat /\ \A i \in 1..Len(line) : line[i] \in Fragment
  BY DEF Line
<1>2. \A i \in 1..Len(line) : <<line[i].entry.id, line[i].whole>> \in Nat \X BOOLEAN
  BY <1>1 DEF Fragment, Entry
<1>3. [i \in 1..Len(line) |-> <<line[i].entry.id, line[i].whole>>]
        \in [1..Len(line) -> Nat \X BOOLEAN]
  BY <1>2
<1> QED
  BY <1>1, <1>3, FunctionIsSeq DEF Hash, Digest

(* So is the tip of a file. *)
LEMMA TipType ==
  ASSUME NEW ls \in Seq(Line)
  PROVE  Tip(ls) \in Digest
<1>1. CASE ls = <<>>
  BY <1>1 DEF Tip, Zero, Digest
<1>2. CASE ls # <<>>
  <2>1. ls[Len(ls)] \in Line
    BY <1>2
  <2> QED
    BY <1>2, <2>1, HashType DEF Tip
<1> QED
  BY <1>1, <1>2

(* A whole new line keeps a file valid iff it is whole, fresh, and follows *)
(* the tip.                                                                *)
LEMMA VerifiedAppend ==
  ASSUME NEW ls \in Seq(Line), NEW f \in Fragment
  PROVE  Verified(Append(ls, <<f>>)) <=>
           /\ Verified(ls)
           /\ f.whole
           /\ (f.entry.action = Genesis) <=> (ls = <<>>)
           /\ \A n \in 1..Len(ls) : EntryOf(ls[n]).id # f.entry.id
           /\ f.entry.prev = Tip(ls)
<1> DEFINE N  == Len(ls)
           ms == Append(ls, <<f>>)
<1>1. /\ N \in Nat
      /\ Len(ms) = N + 1
      /\ ms[N + 1] = <<f>>
      /\ \A n \in 1..N : ms[n] = ls[n]
      /\ ls = <<>> <=> N = 0
  BY DEF Line
<1>2. Parses(<<f>>) <=> f.whole
  BY DEF Parses, Fragment
<1>3. EntryOf(<<f>>) = f.entry
  BY DEF EntryOf
<1>4. Tip(ls) = IF N = 0 THEN Zero ELSE Hash(ls[N])
  BY <1>1 DEF Tip
<1> HIDE DEF ms, N
<1>5. ASSUME Verified(ms)
      PROVE  /\ Verified(ls)
             /\ f.whole
             /\ (f.entry.action = Genesis) <=> (ls = <<>>)
             /\ \A n \in 1..N : EntryOf(ls[n]).id # f.entry.id
             /\ f.entry.prev = Tip(ls)
  <2>1. N + 1 \in 1..Len(ms) /\ \A n \in 1..N : n \in 1..Len(ms) /\ n # N + 1
    BY <1>1
  <2>2. f.whole
    BY <1>1, <1>2, <1>5, <2>1 DEF Verified
  <2>3. (f.entry.action = Genesis) <=> (ls = <<>>)
    <3>1. (EntryOf(ms[N + 1]).action = Genesis) <=> (N + 1 = 1)
      BY <1>5, <2>1 DEF Verified
    <3> QED
      BY <1>1, <1>3, <3>1
  <2>4. \A n \in 1..N : EntryOf(ls[n]).id # f.entry.id
    <3>1. \A n \in 1..N : EntryOf(ms[n]).id # EntryOf(ms[N + 1]).id
      BY <1>5, <2>1 DEF Verified
    <3> QED
      BY <1>1, <1>3, <3>1
  <2>5. f.entry.prev = Tip(ls)
    <3> DEFINE last == N + 1
    <3>1. last \in 1..Len(ms) /\ last - 1 = N /\ (last = 1 <=> N = 0)
      BY <1>1
    <3> HIDE DEF last
    <3>2. EntryOf(ms[last]).prev = IF last = 1 THEN Zero ELSE Hash(ms[last - 1])
      BY <1>5, <3>1 DEF Verified
    <3>3. ms[last] = <<f>> /\ (N # 0 => ms[N] = ls[N])
      BY <1>1 DEF last
    <3> QED
      BY <1>3, <1>4, <3>1, <3>2, <3>3
  <2>6. Verified(ls)
    <3>1. \A n \in 1..N : Parses(ls[n])
      BY <1>1, <1>5, <2>1 DEF Verified
    <3>2. \A n \in 1..N : (EntryOf(ls[n]).action = Genesis) <=> (n = 1)
      BY <1>1, <1>5, <2>1 DEF Verified
    <3>3. \A m, n \in 1..N : m # n => EntryOf(ls[m]).id # EntryOf(ls[n]).id
      BY <1>1, <1>5, <2>1 DEF Verified
    <3>4. \A n \in 1..N :
            EntryOf(ls[n]).prev = IF n = 1 THEN Zero ELSE Hash(ls[n - 1])
      <4> TAKE n \in 1..N
      <4>1. EntryOf(ms[n]).prev = IF n = 1 THEN Zero ELSE Hash(ms[n - 1])
        BY <1>5, <2>1 DEF Verified
      <4>2. n # 1 => n - 1 \in 1..N
        BY <1>1
      <4> QED
        BY <1>1, <4>1, <4>2
    <3> QED
      BY <3>1, <3>2, <3>3, <3>4 DEF Verified, N
  <2> QED
    BY <2>2, <2>3, <2>4, <2>5, <2>6
<1>6. ASSUME Verified(ls), f.whole,
             (f.entry.action = Genesis) <=> (ls = <<>>),
             \A n \in 1..N : EntryOf(ls[n]).id # f.entry.id,
             f.entry.prev = Tip(ls)
      PROVE  Verified(ms)
  <2>1. \A n \in 1..Len(ms) : n \in 1..N \/ n = N + 1
    BY <1>1
  <2>2. \A n \in 1..Len(ms) : Parses(ms[n])
    BY <1>1, <1>2, <1>6, <2>1 DEF Verified, N
  <2>3. \A n \in 1..Len(ms) : (EntryOf(ms[n]).action = Genesis) <=> (n = 1)
    <3>1. \A n \in 1..N : (EntryOf(ms[n]).action = Genesis) <=> (n = 1)
      BY <1>1, <1>6 DEF Verified, N
    <3>2. (EntryOf(ms[N + 1]).action = Genesis) <=> (N + 1 = 1)
      BY <1>1, <1>3, <1>6
    <3> QED
      BY <2>1, <3>1, <3>2
  <2>4. \A m, n \in 1..Len(ms) : m # n => EntryOf(ms[m]).id # EntryOf(ms[n]).id
    <3>1. \A m, n \in 1..N : m # n => EntryOf(ms[m]).id # EntryOf(ms[n]).id
      BY <1>1, <1>6 DEF Verified, N
    <3>2. \A n \in 1..N : EntryOf(ms[n]).id # EntryOf(ms[N + 1]).id
      BY <1>1, <1>3, <1>6
    <3> QED
      BY <2>1, <3>1, <3>2
  <2>5. \A n \in 1..Len(ms) :
          EntryOf(ms[n]).prev = IF n = 1 THEN Zero ELSE Hash(ms[n - 1])
    <3> TAKE n \in 1..Len(ms)
    <3>1. CASE n \in 1..N
      <4>1. EntryOf(ls[n]).prev = IF n = 1 THEN Zero ELSE Hash(ls[n - 1])
        BY <1>6, <3>1 DEF Verified, N
      <4>2. n # 1 => n - 1 \in 1..N
        BY <1>1, <3>1
      <4> QED
        BY <1>1, <3>1, <4>1, <4>2
    <3>2. CASE n = N + 1
      <4>1. n - 1 = N /\ (n = 1 <=> N = 0) /\ (N # 0 => N \in 1..N)
        BY <1>1, <3>2
      <4> QED
        BY <1>1, <1>3, <1>4, <1>6, <3>2, <4>1, SMTT(40)
    <3> QED
      BY <2>1, <3>1, <3>2
  <2> QED
    BY <2>2, <2>3, <2>4, <2>5 DEF Verified
<1> QED
  BY <1>5, <1>6 DEF ms, N

(* A fragment glued to an unterminated line never leaves a valid file. *)
LEMMA VerifiedGlue ==
  ASSUME NEW ls \in Seq(Line), NEW f \in Fragment, ls # <<>>,
         Len(ls[Len(ls)]) >= 1
  PROVE  ~Verified([ls EXCEPT ![Len(ls)] = Append(@, f)])
<1> DEFINE N  == Len(ls)
           ms == [ls EXCEPT ![N] = Append(@, f)]
<1>1. N \in 1..N /\ ls[N] \in Line
  OBVIOUS
<1>2. Append(ls[N], f) \in Line /\ Len(Append(ls[N], f)) = Len(ls[N]) + 1
  BY <1>1 DEF Line
<1>3. Len(ms) = N /\ ms[N] = Append(ls[N], f)
  BY <1>1, <1>2
<1>4. Len(ls[N]) \in Nat
  BY <1>1 DEF Line
<1>5. ~Parses(ms[N])
  BY <1>2, <1>3, <1>4 DEF Parses
<1> QED
  BY <1>1, <1>3, <1>5 DEF Verified

-----------------------------------------------------------------------------
(* The inductive invariant *)

Busy(w) == pc[w] # "idle"

(* Ids are minted once: no two drafts share one, and none is in the file.  *)
FreshIds ==
  /\ \A n \in 1..Len(lines) : \A i \in 1..Len(lines[n]) :
       lines[n][i].entry.id <= minted
  /\ \A w \in Writer : Busy(w) =>
       /\ draft[w].id <= minted
       /\ \A v \in Writer : Busy(v) /\ v # w => draft[v].id # draft[w].id
       /\ \A n \in 1..Len(lines) : \A i \in 1..Len(lines[n]) :
            lines[n][i].entry.id # draft[w].id

FileShape ==
  /\ \A n \in 1..Len(lines) : Len(lines[n]) >= 1
  /\ lines = <<>> => terminated

(* A genesis draft is only ever computed from an empty file. *)
GenesisDraft(w) ==
  draft[w].action = Genesis =>
    /\ draft[w].prev = Zero
    /\ stale[w] <=> lines # <<>>

(* Any other draft names the tip it read: the last line of the file, or,   *)
(* once another write has landed, a line that is no longer the last.       *)
ChainedDraft(w) ==
  draft[w].action # Genesis =>
    /\ lines # <<>>
    /\ ~stale[w] => draft[w].prev = Tip(lines)
    /\ stale[w] /\ Verified(lines) =>
         \E n \in 1..Len(lines) - 1 : draft[w].prev = Hash(lines[n])

DraftShape ==
  \A w \in Writer :
    /\ pc[w] = "genesis" => draft[w].action = Genesis /\ draft[w].prev = Zero
    /\ pc[w] = "tip" => draft[w].action # Genesis /\ lines # <<>>
    /\ pc[w] = "write" => GenesisDraft(w) /\ ChainedDraft(w)

IInv ==
  /\ TypeOK
  /\ FreshIds
  /\ FileShape
  /\ DraftShape
  /\ VerdictTracksHistory

-----------------------------------------------------------------------------
(* What one write does to the file *)

(* The file keeps its shape and holds the old fragments and the new one.   *)
LEMMA ExtendedShape ==
  ASSUME TypeOK, FileShape, NEW f \in Fragment
  PROVE  /\ Extended(f) \in Seq(Line)
         /\ Extended(f) # <<>>
         /\ \A n \in 1..Len(Extended(f)) :
              /\ Len(Extended(f)[n]) >= 1
              /\ \A i \in 1..Len(Extended(f)[n]) :
                   \/ Extended(f)[n][i] = f
                   \/ \E m \in 1..Len(lines) : \E j \in 1..Len(lines[m]) :
                        Extended(f)[n][i] = lines[m][j]
<1> DEFINE N == Len(lines)
<1>1. lines \in Seq(Line) /\ N \in Nat /\ \A n \in 1..N : lines[n] \in Line
  BY DEF TypeOK
<1>2. CASE terminated
  <2> DEFINE ms == Append(lines, <<f>>)
  <2>1. <<f>> \in Line /\ Len(<<f>>) = 1 /\ <<f>>[1] = f
    BY DEF Line
  <2>2. /\ ms \in Seq(Line) /\ Len(ms) = N + 1 /\ ms[N + 1] = <<f>>
        /\ Len(ms[N + 1]) = 1
        /\ \A n \in 1..N : ms[n] = lines[n]
    BY <1>1, <2>1
  <2>3. \A n \in 1..Len(ms) : n \in 1..N \/ n = N + 1
    BY <1>1, <2>2
  <2> HIDE DEF ms
  <2>4. ASSUME NEW n \in 1..Len(ms)
        PROVE  Len(ms[n]) >= 1
    <3>1. CASE n \in 1..N
      BY <2>2, <3>1 DEF FileShape
    <3>2. CASE n = N + 1
      <4>1. Len(ms[N + 1]) = 1
        BY <2>2
      <4> QED
        BY <3>2, <4>1
    <3> QED
      BY <2>3, <3>1, <3>2
  <2>5. ASSUME NEW n \in 1..Len(ms), NEW i \in 1..Len(ms[n])
        PROVE  \/ ms[n][i] = f
               \/ \E m \in 1..N : \E j \in 1..Len(lines[m]) : ms[n][i] = lines[m][j]
    <3>1. CASE n \in 1..N
      BY <2>2, <3>1
    <3>2. CASE n = N + 1
      BY <2>1, <2>2, <3>2
    <3> QED
      BY <2>3, <3>1, <3>2
  <2>6. Extended(f) = ms
    BY <1>2 DEF Extended, ms
  <2>7. ms # <<>>
    BY <1>1, <2>2
  <2> QED
    BY <2>2, <2>4, <2>5, <2>6, <2>7
<1>3. CASE ~terminated
  <2> DEFINE line == Append(lines[N], f)
             ms   == [lines EXCEPT ![N] = line]
  <2>1. N \in 1..N /\ lines # <<>>
    BY <1>1, <1>3 DEF FileShape
  <2>2. /\ line \in Line /\ Len(line) = Len(lines[N]) + 1 /\ Len(lines[N]) \in Nat
        /\ line[Len(lines[N]) + 1] = f
        /\ \A i \in 1..Len(lines[N]) : line[i] = lines[N][i]
    BY <1>1, <2>1 DEF Line
  <2> HIDE DEF line
  <2>3. /\ ms \in Seq(Line) /\ Len(ms) = N /\ ms[N] = line
        /\ \A n \in 1..N : n # N => ms[n] = lines[n]
    BY <1>1, <2>1, <2>2
  <2> HIDE DEF ms
  <2>4. ASSUME NEW n \in 1..Len(ms)
        PROVE  Len(ms[n]) >= 1
    <3>1. CASE n # N
      BY <2>3, <3>1 DEF FileShape
    <3>2. CASE n = N
      BY <2>2, <2>3, <3>2
    <3> QED
      BY <3>1, <3>2
  <2>5. ASSUME NEW n \in 1..Len(ms), NEW i \in 1..Len(ms[n])
        PROVE  \/ ms[n][i] = f
               \/ \E m \in 1..N : \E j \in 1..Len(lines[m]) : ms[n][i] = lines[m][j]
    <3>1. CASE n # N
      BY <2>3, <3>1
    <3>2. CASE n = N
      <4>1. i \in 1..Len(lines[N]) \/ i = Len(lines[N]) + 1
        BY <2>2, <2>3, <3>2
      <4> QED
        BY <2>1, <2>2, <2>3, <3>2, <4>1
    <3> QED
      BY <3>1, <3>2
  <2>6. Extended(f) = ms
    BY <1>3 DEF Extended, ms, line
  <2>7. ms # <<>>
    BY <2>1, <2>3
  <2> QED
    BY <2>3, <2>4, <2>5, <2>6, <2>7
<1> QED
  BY <1>2, <1>3

(* The fragment a writer is about to leave is a fragment. *)
LEMMA FragmentType ==
  ASSUME TypeOK, NEW w \in Writer, NEW whole \in BOOLEAN
  PROVE  [entry |-> draft[w], whole |-> whole] \in Fragment
BY DEF TypeOK, Fragment

(* Where a writer's draft no longer follows the tip, its write is refused  *)
(* by verify(), and where it does, verify() accepts it.                    *)
LEMMA WriteVerdict ==
  ASSUME IInv, NEW w \in Writer, NEW whole \in BOOLEAN, pc[w] = "write"
  PROVE  Verified(Extended([entry |-> draft[w], whole |-> whole])) <=>
           Verified(lines) /\ terminated /\ whole /\ ~stale[w]
<1> DEFINE f == [entry |-> draft[w], whole |-> whole]
           N == Len(lines)
<1>1. /\ lines \in Seq(Line) /\ N \in Nat /\ f \in Fragment
      /\ stale[w] \in BOOLEAN /\ terminated \in BOOLEAN
  BY FragmentType DEF IInv, TypeOK
<1>2. f.entry = draft[w] /\ f.whole = whole
  OBVIOUS
<1>3. CASE ~terminated
  <2>1. lines # <<>> /\ N \in 1..N /\ Len(lines[N]) >= 1
    BY <1>1, <1>3 DEF IInv, FileShape
  <2> QED
    BY <1>1, <1>3, <2>1, VerifiedGlue DEF Extended
<1>4. CASE terminated
  <2>1. Extended(f) = Append(lines, <<f>>)
    BY <1>4 DEF Extended
  <2>2. GenesisDraft(w) /\ ChainedDraft(w)
    BY DEF IInv, DraftShape
  <2>3. ASSUME NEW n \in 1..N, Verified(lines)
        PROVE  EntryOf(lines[n]).id # draft[w].id /\ Len(lines[n]) = 1
    <3>1. Len(lines[n]) = 1 /\ 1 \in 1..Len(lines[n])
      BY <2>3 DEF Verified, Parses
    <3> QED
      BY <3>1 DEF IInv, FreshIds, Busy, EntryOf
  <2> HIDE DEF f
  <2>4. Verified(Append(lines, <<f>>)) <=>
          /\ Verified(lines)
          /\ whole
          /\ (draft[w].action = Genesis) <=> (lines = <<>>)
          /\ \A n \in 1..N : EntryOf(lines[n]).id # draft[w].id
          /\ draft[w].prev = Tip(lines)
    BY <1>1, <1>2, VerifiedAppend
  <2>5. CASE draft[w].action = Genesis
    BY <1>1, <1>4, <2>1, <2>2, <2>3, <2>4, <2>5 DEF GenesisDraft, Tip, f
  <2>6. CASE draft[w].action # Genesis
    <3>1. lines # <<>>
      BY <2>2, <2>6 DEF ChainedDraft
    <3>2. CASE ~stale[w]
      <4>1. draft[w].prev = Tip(lines)
        BY <2>2, <2>6, <3>2 DEF ChainedDraft
      <4> QED
        BY <1>1, <1>4, <2>1, <2>3, <2>4, <2>6, <3>1, <3>2, <4>1 DEF f
    <3>3. CASE stale[w]
      <4>1. ASSUME Verified(lines)
            PROVE  draft[w].prev # Tip(lines)
        <5>1. PICK n \in 1..N - 1 : draft[w].prev = Hash(lines[n])
          BY <2>2, <2>6, <3>3, <4>1 DEF ChainedDraft
        <5>2. n \in 1..N /\ N \in 1..N /\ n # N
          BY <1>1, <3>1
        <5>3. Len(lines[n]) = 1 /\ Len(lines[N]) = 1
          BY <2>3, <4>1, <5>2
        <5>4. EntryOf(lines[n]).id # EntryOf(lines[N]).id
          BY <4>1, <5>2 DEF Verified
        <5>5. Hash(lines[n])[1] = <<EntryOf(lines[n]).id, lines[n][1].whole>>
          BY <5>3 DEF Hash, EntryOf
        <5>6. Hash(lines[N])[1] = <<EntryOf(lines[N]).id, lines[N][1].whole>>
          BY <5>3 DEF Hash, EntryOf
        <5>7. Hash(lines[n]) # Hash(lines[N])
          BY <5>4, <5>5, <5>6
        <5> QED
          BY <3>1, <5>1, <5>7 DEF Tip
      <4> QED
        BY <1>1, <2>1, <2>4, <3>3, <4>1 DEF f
    <3> QED
      BY <3>2, <3>3
  <2> QED
    BY <2>5, <2>6
<1> QED
  BY <1>3, <1>4

-----------------------------------------------------------------------------
(* The invariant holds initially *)
LEMMA InitIInv == Init => IInv
<1> SUFFICES ASSUME Init PROVE IInv
  OBVIOUS
<1>1. lines \in Seq(Line) /\ Len(lines) = 0
  BY DEF Init
<1>2. NoDraft \in Entry
  BY DEF NoDraft, Entry, Zero, Digest
<1>3. TypeOK
  BY <1>1, <1>2 DEF Init, TypeOK
<1>4. Verified(lines)
  BY <1>1 DEF Verified
<1> QED
  BY <1>1, <1>3, <1>4
  DEF Init, IInv, FreshIds, FileShape, DraftShape, VerdictTracksHistory, Busy

-----------------------------------------------------------------------------
(* ... and every step preserves it *)

(* A step that leaves the file alone and moves one writer only has to keep *)
(* that writer's draft well formed.                                        *)
LEMMA QuietStep ==
  ASSUME IInv, NEW w \in Writer, UNCHANGED file,
         minted' \in Nat, minted <= minted',
         NEW p \in {"idle", "genesis", "tip", "write"}, NEW d \in Entry,
         NEW s \in BOOLEAN,
         pc' = [pc EXCEPT ![w] = p],
         draft' = [draft EXCEPT ![w] = d],
         stale' = [stale EXCEPT ![w] = s],
         p # "idle" => \/ d.id = draft[w].id /\ pc[w] # "idle"
                       \/ minted' = minted + 1 /\ d.id = minted + 1,
         p = "genesis" => d.action = Genesis /\ d.prev = Zero,
         p = "tip" => d.action # Genesis /\ lines # <<>>,
         p = "write" => (GenesisDraft(w) /\ ChainedDraft(w))'
  PROVE  IInv'
<1>1. /\ lines' = lines /\ terminated' = terminated /\ undisturbed' = undisturbed
      /\ minted \in Nat
      /\ pc \in [Writer -> {"idle", "genesis", "tip", "write"}]
      /\ draft \in [Writer -> Entry] /\ stale \in [Writer -> BOOLEAN]
      /\ lines \in Seq(Line)
  BY DEF file, IInv, TypeOK
<1>2. TypeOK'
  BY <1>1 DEF IInv, TypeOK
<1>3. /\ pc'[w] = p /\ draft'[w] = d /\ stale'[w] = s
      /\ \A v \in Writer : v # w =>
           pc'[v] = pc[v] /\ draft'[v] = draft[v] /\ stale'[v] = stale[v]
  BY <1>1
<1>4. FileShape' /\ VerdictTracksHistory'
  BY <1>1 DEF IInv, FileShape, VerdictTracksHistory
<1>5. FreshIds'
  <2>1. \A n \in 1..Len(lines) : \A i \in 1..Len(lines[n]) :
          lines[n][i].entry.id \in Nat
    <3> TAKE n \in 1..Len(lines)
    <3> TAKE i \in 1..Len(lines[n])
    <3>1. lines[n] \in Seq(Fragment)
      BY <1>1 DEF Line
    <3>2. lines[n][i] \in Fragment
      BY <3>1
    <3> QED
      BY <3>2 DEF Fragment, Entry
  <2>2. \A v \in Writer : draft[v].id \in Nat
    BY <1>1 DEF Entry
  <2>3. \A n \in 1..Len(lines) : \A i \in 1..Len(lines[n]) :
          lines[n][i].entry.id <= minted /\ lines[n][i].entry.id <= minted'
    BY <1>1, <2>1 DEF IInv, FreshIds
  <2>4. ASSUME NEW v \in Writer, Busy(v), v # w
        PROVE  /\ draft[v].id <= minted
               /\ \A n \in 1..Len(lines) : \A i \in 1..Len(lines[n]) :
                    lines[n][i].entry.id # draft[v].id
    BY <2>4 DEF IInv, FreshIds
  <2>5. ASSUME p # "idle"
        PROVE  /\ d.id <= minted'
               /\ \A v \in Writer : Busy(v) /\ v # w => draft[v].id # d.id
               /\ \A n \in 1..Len(lines) : \A i \in 1..Len(lines[n]) :
                    lines[n][i].entry.id # d.id
    <3>1. CASE d.id = draft[w].id /\ pc[w] # "idle"
      BY <1>1, <2>2, <3>1 DEF IInv, FreshIds, Busy
    <3>2. CASE minted' = minted + 1 /\ d.id = minted + 1
      BY <1>1, <2>1, <2>2, <2>3, <2>4, <3>2
    <3> QED
      BY <2>5, <3>1, <3>2
  <2>6. \A v \in Writer : v # w => (Busy(v))' = Busy(v)
    BY <1>3 DEF Busy
  <2>7. (Busy(w))' <=> p # "idle"
    BY <1>3 DEF Busy
  <2>8. \A n \in 1..Len(lines') : \A i \in 1..Len(lines'[n]) :
          lines'[n][i].entry.id <= minted'
    BY <1>1, <2>3
  <2>9. ASSUME NEW u \in Writer, (Busy(u))'
        PROVE  /\ draft'[u].id <= minted'
               /\ \A v \in Writer : (Busy(v))' /\ v # u => draft'[v].id # draft'[u].id
               /\ \A n \in 1..Len(lines') : \A i \in 1..Len(lines'[n]) :
                    lines'[n][i].entry.id # draft'[u].id
    <3>1. CASE u = w
      BY <1>1, <1>3, <2>5, <2>6, <2>7, <2>9, <3>1
    <3>2. CASE u # w
      <4>1. Busy(u) /\ draft'[u] = draft[u]
        BY <1>3, <2>6, <2>9, <3>2
      <4>2. draft'[u].id <= minted'
        BY <1>1, <2>2, <2>4, <3>2, <4>1
      <4>3. ASSUME NEW v \in Writer, (Busy(v))', v # u
            PROVE  draft'[v].id # draft'[u].id
        <5>1. CASE v = w
          BY <1>3, <2>5, <2>7, <3>2, <4>1, <4>3, <5>1
        <5>2. CASE v # w
          BY <1>3, <2>6, <4>1, <4>3, <5>2 DEF IInv, FreshIds
        <5> QED
          BY <5>1, <5>2
      <4>4. \A n \in 1..Len(lines') : \A i \in 1..Len(lines'[n]) :
              lines'[n][i].entry.id # draft'[u].id
        BY <1>1, <2>4, <3>2, <4>1
      <4> QED
        BY <4>2, <4>3, <4>4
    <3> QED
      BY <3>1, <3>2
  <2> QED
    BY <2>8, <2>9 DEF FreshIds
<1>6. DraftShape'
  <2> SUFFICES ASSUME NEW v \in Writer
               PROVE  (/\ pc[v] = "genesis" => draft[v].action = Genesis /\ draft[v].prev = Zero
                       /\ pc[v] = "tip" => draft[v].action # Genesis /\ lines # <<>>
                       /\ pc[v] = "write" => GenesisDraft(v) /\ ChainedDraft(v))'
    BY DEF DraftShape
  <2>1. CASE v = w
    BY <1>1, <1>3, <2>1
  <2>2. CASE v # w
    <3>1. (GenesisDraft(v))' = GenesisDraft(v) /\ (ChainedDraft(v))' = ChainedDraft(v)
      BY <1>1, <1>3, <2>2 DEF GenesisDraft, ChainedDraft
    <3> QED
      BY <1>1, <1>3, <2>2, <3>1 DEF IInv, DraftShape
  <2> QED
    BY <2>1, <2>2
<1> QED
  BY <1>2, <1>4, <1>5, <1>6 DEF IInv

(* A write keeps the invariant: verify() turns false exactly when the      *)
(* history variable does, and every other draft becomes stale.             *)
LEMMA WriteStep ==
  ASSUME IInv, NEW w \in Writer, NEW whole \in BOOLEAN, NEW newline \in BOOLEAN,
         Write(w, whole, newline)
  PROVE  IInv'
<1> DEFINE f == [entry |-> draft[w], whole |-> whole]
<1>1. /\ lines \in Seq(Line) /\ terminated \in BOOLEAN /\ undisturbed \in BOOLEAN
      /\ minted \in Nat
      /\ pc \in [Writer -> {"idle", "genesis", "tip", "write"}]
      /\ draft \in [Writer -> Entry] /\ stale \in [Writer -> BOOLEAN]
  BY DEF IInv, TypeOK
<1>2. f \in Fragment /\ f.entry = draft[w]
  BY FragmentType DEF IInv
<1>3. /\ pc[w] = "write" /\ lines' = Extended(f) /\ terminated' = newline
      /\ undisturbed' = (undisturbed /\ terminated /\ whole /\ ~stale[w])
      /\ stale' = [v \in Writer |-> TRUE] /\ pc' = [pc EXCEPT ![w] = "idle"]
      /\ draft' = [draft EXCEPT ![w] = NoDraft] /\ minted' = minted
  BY DEF Write
<1> HIDE DEF f
<1>4. /\ lines' \in Seq(Line)
      /\ lines' # <<>>
      /\ \A n \in 1..Len(lines') :
           /\ Len(lines'[n]) >= 1
           /\ \A i \in 1..Len(lines'[n]) :
                \/ lines'[n][i] = f
                \/ \E m \in 1..Len(lines) : \E j \in 1..Len(lines[m]) :
                     lines'[n][i] = lines[m][j]
  BY <1>2, <1>3, ExtendedShape DEF IInv
<1>5. Verified(lines') <=> Verified(lines) /\ terminated /\ whole /\ ~stale[w]
  BY <1>3, WriteVerdict DEF f
<1>6. NoDraft \in Entry
  BY DEF NoDraft, Entry, Zero, Digest
<1>7. TypeOK'
  BY <1>1, <1>3, <1>4, <1>6 DEF TypeOK
<1>8. FileShape'
  BY <1>4 DEF FileShape
<1>9. VerdictTracksHistory'
  BY <1>1, <1>3, <1>5 DEF IInv, VerdictTracksHistory
<1>10. /\ pc'[w] = "idle"
       /\ \A v \in Writer : v # w => pc'[v] = pc[v] /\ draft'[v] = draft[v]
       /\ \A v \in Writer : stale'[v] = TRUE
  BY <1>1, <1>3
<1>11. FreshIds'
  <2>1. \A v \in Writer : (Busy(v))' => v # w /\ Busy(v)
    BY <1>10 DEF Busy
  <2>2. Busy(w)
    BY <1>3 DEF Busy
  <2>3. ASSUME NEW n \in 1..Len(lines'), NEW i \in 1..Len(lines'[n])
        PROVE  lines'[n][i].entry.id <= minted'
    <3>1. CASE lines'[n][i] = f
      BY <1>2, <1>3, <2>2, <3>1 DEF IInv, FreshIds
    <3>2. ASSUME NEW m \in 1..Len(lines), NEW j \in 1..Len(lines[m]),
                 lines'[n][i] = lines[m][j]
          PROVE  lines'[n][i].entry.id <= minted'
      BY <1>3, <3>2 DEF IInv, FreshIds
    <3>3. \/ lines'[n][i] = f
          \/ \E m \in 1..Len(lines) : \E j \in 1..Len(lines[m]) :
               lines'[n][i] = lines[m][j]
      BY <1>4
    <3> QED
      BY <3>1, <3>2, <3>3
  <2>4. ASSUME NEW v \in Writer, (Busy(v))'
        PROVE  \A n \in 1..Len(lines') : \A i \in 1..Len(lines'[n]) :
                 lines'[n][i].entry.id # draft'[v].id
    <3>1. v # w /\ Busy(v) /\ draft'[v] = draft[v]
      BY <1>10, <2>1, <2>4
    <3>2. draft[v].id # draft[w].id
      BY <2>2, <3>1 DEF IInv, FreshIds
    <3>3. \A m \in 1..Len(lines) : \A j \in 1..Len(lines[m]) :
             lines[m][j].entry.id # draft[v].id
      BY <3>1 DEF IInv, FreshIds
    <3>4. ASSUME NEW n \in 1..Len(lines'), NEW i \in 1..Len(lines'[n])
          PROVE  lines'[n][i].entry.id # draft[v].id
      <4>1. CASE lines'[n][i] = f
        BY <1>2, <3>2, <4>1
      <4>2. ASSUME NEW m \in 1..Len(lines), NEW j \in 1..Len(lines[m]),
                   lines'[n][i] = lines[m][j]
            PROVE  lines'[n][i].entry.id # draft[v].id
        BY <3>3, <4>2
      <4>3. \/ lines'[n][i] = f
            \/ \E m \in 1..Len(lines) : \E j \in 1..Len(lines[m]) :
                 lines'[n][i] = lines[m][j]
        BY <1>4
      <4> QED
        BY <4>1, <4>2, <4>3
    <3> QED
      BY <3>1, <3>4
  <2>5. ASSUME NEW v \in Writer, (Busy(v))'
        PROVE  /\ draft'[v].id <= minted'
               /\ \A u \in Writer : (Busy(u))' /\ u # v => draft'[u].id # draft'[v].id
    BY <1>3, <1>10, <2>1, <2>5 DEF IInv, FreshIds
  <2> QED
    BY <2>3, <2>4, <2>5 DEF FreshIds
<1>12. DraftShape'
  <2> SUFFICES ASSUME NEW v \in Writer, v # w
               PROVE  (/\ pc[v] = "genesis" => draft[v].action = Genesis /\ draft[v].prev = Zero
                       /\ pc[v] = "tip" => draft[v].action # Genesis /\ lines # <<>>
                       /\ pc[v] = "write" => GenesisDraft(v) /\ ChainedDraft(v))'
    BY <1>10 DEF DraftShape
  <2>1. pc'[v] = pc[v] /\ draft'[v] = draft[v] /\ stale'[v] = TRUE
    BY <1>10
  <2>2. ASSUME pc[v] = "write"
        PROVE  (GenesisDraft(v))'
    BY <1>4, <2>1, <2>2 DEF IInv, DraftShape, GenesisDraft
  <2>3. ASSUME pc[v] = "write", draft[v].action # Genesis, Verified(lines')
        PROVE  \E n \in 1..Len(lines') - 1 : draft[v].prev = Hash(lines'[n])
    <3>1. /\ Verified(lines) /\ terminated /\ ChainedDraft(v)
          /\ stale[v] \in BOOLEAN
      BY <1>1, <1>5, <2>3 DEF IInv, DraftShape
    <3>2. lines # <<>>
      BY <2>3, <3>1 DEF ChainedDraft
    <3>3. lines' = Append(lines, <<f>>)
      BY <1>3, <3>1 DEF Extended
    <3>4. /\ Len(lines) \in Nat /\ Len(lines') = Len(lines) + 1
          /\ \A n \in 1..Len(lines) : lines'[n] = lines[n]
      BY <1>1, <3>3
    <3>5. \E n \in 1..Len(lines) : draft[v].prev = Hash(lines[n])
      <4>1. CASE stale[v]
        <5>1. PICK n \in 1..Len(lines) - 1 : draft[v].prev = Hash(lines[n])
          BY <2>3, <3>1, <4>1 DEF ChainedDraft
        <5> QED
          BY <3>4, <5>1
      <4>2. CASE ~stale[v]
        <5>1. draft[v].prev = Hash(lines[Len(lines)])
          BY <2>3, <3>1, <3>2, <4>2 DEF ChainedDraft, Tip
        <5>2. Len(lines) \in 1..Len(lines)
          BY <1>1, <3>2
        <5> QED
          BY <5>1, <5>2
      <4> QED
        BY <3>1, <4>1, <4>2
    <3> QED
      BY <3>4, <3>5
  <2>4. ASSUME pc[v] = "write"
        PROVE  (ChainedDraft(v))'
    BY <1>4, <2>1, <2>3, <2>4 DEF ChainedDraft
  <2>5. pc[v] = "genesis" => draft[v].action = Genesis /\ draft[v].prev = Zero
    BY DEF IInv, DraftShape
  <2>6. pc[v] = "tip" => draft[v].action # Genesis
    BY DEF IInv, DraftShape
  <2> QED
    BY <1>4, <2>1, <2>2, <2>4, <2>5, <2>6
<1> QED
  BY <1>7, <1>8, <1>9, <1>11, <1>12 DEF IInv

(* Every step, whichever process takes it. *)
LEMMA NextIInv == IInv /\ [Next]_vars => IInv'
<1> SUFFICES ASSUME IInv, [Next]_vars
             PROVE  IInv'
  OBVIOUS
<1>1. CASE UNCHANGED vars
  BY <1>1 DEF vars, IInv, TypeOK, FreshIds, FileShape, DraftShape, Busy,
     GenesisDraft, ChainedDraft, VerdictTracksHistory
<1>2. ASSUME NEW w \in Writer, Step(w)
      PROVE  IInv'
  <2>1. /\ minted \in Nat /\ MaxEntries \in Nat
        /\ pc \in [Writer -> {"idle", "genesis", "tip", "write"}]
        /\ draft \in [Writer -> Entry] /\ stale \in [Writer -> BOOLEAN]
        /\ draft[w] \in Entry /\ stale[w] \in BOOLEAN
        /\ minted <= minted /\ minted <= minted + 1 /\ minted + 1 \in Nat
        /\ stale = [stale EXCEPT ![w] = stale[w]]
        /\ draft = [draft EXCEPT ![w] = draft[w]]
    BY LedgerAssumption DEF IInv, TypeOK
  <2>2. NoDraft \in Entry /\ Zero \in Digest
    BY DEF NoDraft, Entry, Zero, Digest
  <2>3. CASE FindEmpty(w)
    <3> DEFINE d == [id |-> minted + 1, action |-> Genesis, prev |-> Zero]
    <3>1. d \in Entry /\ d.id = minted + 1 /\ d.action = Genesis /\ d.prev = Zero
      BY <2>1, <2>2 DEF Entry
    <3>2. /\ UNCHANGED file /\ minted' = minted + 1
          /\ pc' = [pc EXCEPT ![w] = "genesis"]
          /\ draft' = [draft EXCEPT ![w] = d]
          /\ stale' = [stale EXCEPT ![w] = stale[w]]
      BY <2>1, <2>3 DEF FindEmpty, NewEntry
    <3> HIDE DEF d
    <3> QED
      BY <2>1, <3>1, <3>2, QuietStep
  <2>4. CASE CheckGenesis(w)
    <3>1. /\ UNCHANGED file /\ minted' = minted
          /\ pc' = [pc EXCEPT ![w] = "write"]
          /\ draft' = [draft EXCEPT ![w] = draft[w]]
          /\ stale' = [stale EXCEPT ![w] = FALSE]
          /\ pc[w] = "genesis" /\ lines = <<>>
      BY <2>1, <2>4 DEF CheckGenesis
    <3>2. draft[w].action = Genesis /\ draft[w].prev = Zero
      BY <3>1 DEF IInv, DraftShape
    <3>3. /\ lines' = lines /\ draft'[w] = draft[w] /\ stale'[w] = FALSE
      BY <2>1, <3>1 DEF file
    <3>4. (GenesisDraft(w) /\ ChainedDraft(w))'
      BY <3>1, <3>2, <3>3 DEF GenesisDraft, ChainedDraft
    <3> QED
      BY <2>1, <3>1, <3>4, QuietStep
  <2>5. CASE RefuseGenesis(w)
    <3>1. /\ UNCHANGED file /\ minted' = minted
          /\ pc' = [pc EXCEPT ![w] = "idle"]
          /\ draft' = [draft EXCEPT ![w] = NoDraft]
          /\ stale' = [stale EXCEPT ![w] = stale[w]]
      BY <2>1, <2>5 DEF RefuseGenesis
    <3> QED
      BY <2>1, <2>2, <3>1, QuietStep
  <2>6. ASSUME NEW a \in Action, CheckNotEmpty(w, a)
        PROVE  IInv'
    <3> DEFINE d == [id |-> minted + 1, action |-> a, prev |-> Zero]
    <3>1. /\ d \in Entry /\ d.id = minted + 1 /\ d.action = a
          /\ a # Genesis
      BY <2>1, <2>2, LedgerAssumption DEF Entry, Genesis
    <3>2. /\ UNCHANGED file /\ minted' = minted + 1
          /\ pc' = [pc EXCEPT ![w] = "tip"]
          /\ draft' = [draft EXCEPT ![w] = d]
          /\ stale' = [stale EXCEPT ![w] = stale[w]]
          /\ lines # <<>>
      BY <2>1, <2>6 DEF CheckNotEmpty, NewEntry
    <3> HIDE DEF d
    <3> QED
      BY <2>1, <3>1, <3>2, QuietStep
  <2>7. CASE ReadTip(w)
    <3> DEFINE d == [draft[w] EXCEPT !.prev = Tip(lines)]
    <3>1. /\ d \in Entry /\ d.id = draft[w].id /\ d.action = draft[w].action
          /\ d.prev = Tip(lines)
      BY <2>1, TipType DEF Entry, IInv, TypeOK
    <3>2. /\ UNCHANGED file /\ minted' = minted
          /\ pc' = [pc EXCEPT ![w] = "write"]
          /\ draft' = [draft EXCEPT ![w] = d]
          /\ stale' = [stale EXCEPT ![w] = FALSE]
          /\ pc[w] = "tip"
      BY <2>7 DEF ReadTip
    <3> HIDE DEF d
    <3>3. draft[w].action # Genesis /\ lines # <<>>
      BY <3>2 DEF IInv, DraftShape
    <3>4. lines' = lines /\ draft'[w] = d /\ stale'[w] = FALSE
      BY <2>1, <3>2 DEF file
    <3>5. (GenesisDraft(w) /\ ChainedDraft(w))'
      BY <3>1, <3>3, <3>4 DEF GenesisDraft, ChainedDraft
    <3> QED
      BY <2>1, <3>1, <3>2, <3>5, QuietStep
  <2>8. ASSUME NEW whole \in BOOLEAN, NEW newline \in BOOLEAN, Write(w, whole, newline)
        PROVE  IInv'
    BY <2>8, WriteStep
  <2>9. CASE Crash(w)
    <3>1. /\ UNCHANGED file /\ minted' = minted
          /\ pc' = [pc EXCEPT ![w] = "idle"]
          /\ draft' = [draft EXCEPT ![w] = NoDraft]
          /\ stale' = [stale EXCEPT ![w] = stale[w]]
      BY <2>1, <2>9 DEF Crash
    <3> QED
      BY <2>1, <2>2, <3>1, QuietStep
  <2> QED
    BY <1>2, <2>3, <2>4, <2>5, <2>6, <2>7, <2>8, <2>9 DEF Step
<1> QED
  BY <1>1, <1>2 DEF Next

-----------------------------------------------------------------------------
(* Every reachable state satisfies the inductive invariant. *)
THEOREM Invariance == Spec => []IInv
BY InitIInv, NextIInv, PTL DEF Spec

(* The variables of Ledger keep their types, whatever the writers do. *)
THEOREM TypeCorrect == Spec => []TypeOK
<1>1. IInv => TypeOK
  BY DEF IInv
<1> QED
  BY <1>1, Invariance, PTL

(***************************************************************************)
(* For any number of writers and any interleaving, crash or cut write,     *)
(* verify() accepts the file iff every write was whole, terminated and     *)
(* computed from the tip it landed on.                                     *)
(***************************************************************************)
THEOREM VerifyIsExact == Spec => []VerdictTracksHistory
<1>1. IInv => VerdictTracksHistory
  BY DEF IInv
<1> QED
  BY <1>1, Invariance, PTL

-----------------------------------------------------------------------------
(* What a step may never do *)

(***************************************************************************)
(* A ledger verify() has refused is refused for ever after: no append by   *)
(* any process can repair it or make the damage pass.                      *)
(***************************************************************************)
THEOREM DamageIsPermanent == Spec => NeverHealed
<1>1. ASSUME IInv, IInv', [Next]_vars
      PROVE  ~Verified(lines) => ~Verified(lines')
  <2>1. undisturbed' => undisturbed
    BY <1>1 DEF vars, file, Next, Step, FindEmpty, CheckGenesis, RefuseGenesis,
       CheckNotEmpty, ReadTip, Write, Crash
  <2> QED
    BY <1>1, <2>1 DEF IInv, VerdictTracksHistory
<1> QED
  BY <1>1, Invariance, PTL DEF NeverHealed, Spec

(* No step shortens the file or changes a byte that is already in it.      *)
THEOREM AppendsOnly == Spec => AppendOnly
<1> DEFINE Kept ==
      /\ Len(lines) <= Len(lines')
      /\ \A n \in 1..Len(lines) :
           IF n < Len(lines) \/ terminated
             THEN lines'[n] = lines[n]
             ELSE /\ Len(lines[n]) <= Len(lines'[n])
                  /\ \A i \in 1..Len(lines[n]) : lines'[n][i] = lines[n][i]
<1>1. ASSUME TypeOK, UNCHANGED lines
      PROVE  Kept
  <2>1. lines \in Seq(Line) /\ Len(lines) \in Nat
    BY <1>1 DEF TypeOK
  <2>2. \A n \in 1..Len(lines) : Len(lines[n]) \in Nat
    BY <2>1 DEF Line
  <2> QED
    BY <1>1, <2>1, <2>2
<1>2. ASSUME TypeOK, FileShape, NEW f \in Fragment, lines' = Extended(f)
      PROVE  Kept
  <2>1. lines \in Seq(Line) /\ Len(lines) \in Nat /\ terminated \in BOOLEAN
    BY <1>2 DEF TypeOK
  <2>2. CASE terminated
    <3>1. lines' = Append(lines, <<f>>)
      BY <1>2, <2>2 DEF Extended
    <3>2. Len(lines') = Len(lines) + 1 /\ \A n \in 1..Len(lines) : lines'[n] = lines[n]
      BY <2>1, <3>1
    <3> QED
      BY <2>1, <2>2, <3>2
  <2>3. CASE ~terminated
    <3> DEFINE N == Len(lines)
    <3>1. lines' = [lines EXCEPT ![N] = Append(lines[N], f)]
      BY <1>2, <2>3 DEF Extended
    <3>2. N \in 1..N /\ lines[N] \in Seq(Fragment)
      BY <1>2, <2>1, <2>3 DEF FileShape, Line
    <3>3. /\ Len(lines') = N /\ lines'[N] = Append(lines[N], f)
          /\ \A n \in 1..N : n # N => lines'[n] = lines[n]
      BY <2>1, <3>1, <3>2
    <3>4. /\ Len(lines[N]) \in Nat
          /\ Len(lines'[N]) = Len(lines[N]) + 1
          /\ \A i \in 1..Len(lines[N]) : lines'[N][i] = lines[N][i]
      BY <3>2, <3>3
    <3>5. N \in Nat
      BY <2>1
    <3>6. ASSUME NEW n \in 1..N, n < N \/ terminated
          PROVE  lines'[n] = lines[n]
      BY <2>3, <3>3, <3>5, <3>6
    <3>7. ASSUME NEW n \in 1..N, ~(n < N \/ terminated)
          PROVE  n = N
      BY <3>5, <3>7
    <3>8. Len(lines) <= Len(lines')
      BY <3>3, <3>5
    <3>9. Len(lines[N]) <= Len(lines'[N])
      BY <3>4
    <3> QED
      BY <3>4, <3>6, <3>7, <3>8, <3>9
  <2> QED
    BY <2>1, <2>2, <2>3
<1>3. ASSUME IInv, [Next]_vars
      PROVE  Kept
  <2>1. TypeOK /\ FileShape
    BY <1>3 DEF IInv
  <2>2. ASSUME NEW w \in Writer, NEW whole \in BOOLEAN, NEW newline \in BOOLEAN,
               Write(w, whole, newline)
        PROVE  Kept
    <3>1. [entry |-> draft[w], whole |-> whole] \in Fragment
      BY <2>1, FragmentType
    <3>2. lines' = Extended([entry |-> draft[w], whole |-> whole])
      BY <2>2 DEF Write
    <3> QED
      BY <1>2, <2>1, <3>1, <3>2
  <2>3. UNCHANGED lines \/ \E w \in Writer : \E whole, newline \in BOOLEAN : Write(w, whole, newline)
    BY <1>3 DEF vars, file, Next, Step, FindEmpty, CheckGenesis, RefuseGenesis,
       CheckNotEmpty, ReadTip, Crash
  <2> QED
    BY <1>1, <2>1, <2>2, <2>3
<1> QED
  BY <1>3, Invariance, PTL DEF AppendOnly, Spec

(***************************************************************************)
(* A single process whose writes are not cut keeps a valid ledger, through *)
(* any number of crashes between its steps.                                *)
(***************************************************************************)
THEOREM SequentialLedgerVerifies ==
  ASSUME NEW w \in Writer, Writer = {w}, ~Tearing
  PROVE  Spec => [](Verified(lines))
<1> DEFINE Calm == undisturbed /\ terminated /\ (pc[w] = "write" => ~stale[w])
<1>1. Init => Calm
  BY DEF Init
<1>2. ASSUME IInv, Calm, [Next]_vars
      PROVE  Calm'
  <2>1. pc \in [Writer -> {"idle", "genesis", "tip", "write"}] /\ stale \in [Writer -> BOOLEAN]
    BY <1>2 DEF IInv, TypeOK
  <2>2. CASE UNCHANGED vars
    BY <1>2, <2>2 DEF vars
  <2>3. ASSUME NEW v \in Writer, Step(v)
        PROVE  Calm'
    <3>1. v = w
      OBVIOUS
    <3>2. CASE FindEmpty(w) \/ RefuseGenesis(w) \/ Crash(w)
               \/ \E a \in Action : CheckNotEmpty(w, a)
      BY <1>2, <2>1, <3>2 DEF FindEmpty, RefuseGenesis, Crash, CheckNotEmpty, file
    <3>3. CASE CheckGenesis(w) \/ ReadTip(w)
      BY <1>2, <2>1, <3>3 DEF CheckGenesis, ReadTip, file
    <3>4. ASSUME NEW whole \in BOOLEAN, NEW newline \in BOOLEAN, Write(w, whole, newline)
          PROVE  Calm'
      BY <1>2, <2>1, <3>4 DEF Write
    <3> QED
      BY <2>3, <3>1, <3>2, <3>3, <3>4 DEF Step
  <2> QED
    BY <1>2, <2>2, <2>3 DEF Next
<1>3. IInv /\ Calm => Verified(lines)
  BY DEF IInv, VerdictTracksHistory
<1> QED
  BY <1>1, <1>2, <1>3, Invariance, PTL DEF Spec
=============================================================================
