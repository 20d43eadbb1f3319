-------------------------- MODULE ReleaseTreeProofs --------------------------
(***************************************************************************)
(* Proofs about ReleaseTree, for any names, recipes, trees and budgets.    *)
(*                                                                         *)
(* ReleaseInv says what each stage has from the one before it, and that    *)
(* every tree on the way is one.  Merged adds how the sources came to lie  *)
(* one over the other.  A release from one archive without a finding is    *)
(* then followed back: the blobs that the checks saw are the members of    *)
(* the archive (Passed), the members are the nodes of the unpacked tree    *)
(* without its wrapper (Viewed), and no blob was hidden from the checks,   *)
(* because there are as many of them as there are members (NoTwo).         *)
(***************************************************************************)
EXTENDS ReleaseTree, FiniteSetTheorems, SequenceTheorems, WellFoundedInduction, TLAPS

-----------------------------------------------------------------------------
(* Numbers and finite sets *)

(* A set of numbers with a member has a least one. *)
LEMMA FirstExists ==
  ASSUME NEW S \in SUBSET Nat, S # {}
  PROVE  \E n \in S : \A m \in S : n <= m
<1> DEFINE R == OpToRel(<, Nat)
<1>1. R = {p \in Nat \X Nat : p[1] < p[2]}
  BY DEF OpToRel
<1>2. PICK n \in S : \A m \in S : <<m, n>> \notin R
  BY NatLessThanWellFounded, WFMin
<1>3. \A m \in S : m \in Nat /\ n \in Nat /\ ~(m < n)
  BY <1>1, <1>2
<1> QED
  BY <1>3

(* A set of numbers that has 0 and the successor of each of its members    *)
(* below n has all of them.                                                *)
LEMMA Upwards ==
  ASSUME NEW n \in Nat, NEW S, 0 \in S, \A k \in 0..(n - 1) : k \in S => k + 1 \in S
  PROVE  \A k \in 0..n : k \in S
<1> DEFINE B == {k \in 0..n : k \notin S}
<1>1. SUFFICES ASSUME B # {} PROVE FALSE
  OBVIOUS
<1>2. B \in SUBSET Nat
  OBVIOUS
<1>3. PICK k \in B : \A m \in B : k <= m
  BY <1>1, <1>2, FirstExists
<1>4. k # 0 /\ k \in Nat /\ k <= n
  BY <1>3
<1>5. k - 1 \in 0..(n - 1) /\ (k - 1) + 1 = k /\ k - 1 \notin B
  BY <1>3, <1>4
<1> QED
  BY <1>3, <1>5

(* The image of a finite set. *)
LEMMA ImageFinite ==
  ASSUME NEW f, IsFiniteSet(DOMAIN f), f = [x \in DOMAIN f |-> f[x]]
  PROVE  IsFiniteSet({f[x] : x \in DOMAIN f})
<1> DEFINE T == {f[x] : x \in DOMAIN f}
<1>1. f \in Surjection(DOMAIN f, T)
  BY DEF Surjection
<1> QED
  BY <1>1, FS_Surjection

(* A finite set of numbers is bounded. *)
LEMMA FiniteIsBounded ==
  ASSUME NEW S \in SUBSET Nat, IsFiniteSet(S)
  PROVE  \E b \in Nat : \A n \in S : n <= b
<1>1. PICK m \in Nat : ExistsSurjection(1..m, S)
  BY FS_NatSurjection
<1>2. PICK f \in [1..m -> S] : \A n \in S : \E k \in 1..m : f[k] = n
  BY <1>1 DEF ExistsSurjection, Surjection
<1> DEFINE G == {k \in 0..m : \E b \in Nat : \A j \in 1..k : f[j] <= b}
<1>3. 0 \in G
  OBVIOUS
<1>4. ASSUME NEW k \in 0..(m - 1), k \in G
      PROVE  k + 1 \in G
  <2>1. PICK b \in Nat : \A j \in 1..k : f[j] <= b
    BY <1>4
  <2>2. k + 1 \in 1..m /\ f[k + 1] \in Nat
    <3>1. k + 1 \in 1..m
      OBVIOUS
    <3>2. f[k + 1] \in S
      BY <1>2, <3>1
    <3> QED
      BY <3>1, <3>2
  <2>3. b + f[k + 1] \in Nat /\ \A j \in 1..(k + 1) : f[j] <= b + f[k + 1]
    <3>1. \A j \in 1..(k + 1) : j = k + 1 \/ j \in 1..k
      OBVIOUS
    <3>2. \A j \in 1..k : f[j] \in Nat
      <4>1. \A j \in 1..k : j \in 1..m
        OBVIOUS
      <4>2. \A j \in 1..k : f[j] \in S
        BY <1>2, <4>1
      <4> QED
        BY <4>2
    <3> QED
      BY <2>1, <2>2, <3>1, <3>2
  <2> QED
    BY <2>2, <2>3
<1>5. m \in G
  <2> HIDE DEF G
  <2>1. \A k \in 0..m : k \in G
    BY <1>3, <1>4, Upwards
  <2> QED
    BY <2>1
<1> QED
  BY <1>2, <1>5

(* A bounded set of numbers with a member has a greatest one. *)
LEMMA LastExists ==
  ASSUME NEW S \in SUBSET Nat, S # {}, NEW b \in Nat, \A n \in S : n <= b
  PROVE  \E n \in S : \A m \in S : m <= n
<1> DEFINE T == {b - n : n \in S}
<1>1. T \in SUBSET Nat /\ T # {}
  <2>1. \A n \in S : b - n \in Nat
    OBVIOUS
  <2> QED
    BY <2>1
<1>2. PICK k \in T : \A m \in T : k <= m
  BY <1>1, FirstExists
<1>3. PICK n \in S : k = b - n
  BY <1>2
<1>4. \A m \in S : b - n <= b - m
  BY <1>2, <1>3
<1>5. \A m \in S : m <= n
  BY <1>4
<1> QED
  BY <1>5

-----------------------------------------------------------------------------
(* Paths *)

LEMMA PrefixIs ==
  ASSUME NEW S, NEW p \in Seq(S), NEW q \in Seq(S)
  PROVE  /\ IsPrefix(p, q) <=> Len(p) <= Len(q) /\ \A i \in 1..Len(p) : p[i] = q[i]
         /\ IsStrictPrefix(p, q) <=> Len(p) < Len(q) /\ \A i \in 1..Len(p) : p[i] = q[i]
<1>1. Len(p) \in Nat /\ Len(q) \in Nat
  OBVIOUS
<1>2. SubSeq(p, 1, Len(p)) = p
  BY SubSeqFull
<1>3. ASSUME Len(p) <= Len(q)
      PROVE  p = SubSeq(q, 1, Len(p)) <=> \A i \in 1..Len(p) : p[i] = q[i]
  <2>1. \A i \in 1..Len(p) : q[i] \in S
    BY <1>1, <1>3, ElementOfSeq
  <2>2. /\ SubSeq(q, 1, Len(p)) \in Seq(S) /\ Len(SubSeq(q, 1, Len(p))) = Len(p)
        /\ \A i \in 1..Len(p) : SubSeq(q, 1, Len(p))[i] = q[i]
    BY <1>1, <2>1, SubSeqProperties
  <2> QED
    BY <2>2, SeqEqual
<1>4. IsPrefix(p, q) <=> Len(p) <= Len(q) /\ \A i \in 1..Len(p) : p[i] = q[i]
  BY <1>2, <1>3 DEF IsPrefix
<1>5. Len(p) = Len(q) /\ (\A i \in 1..Len(p) : p[i] = q[i]) => p = q
  BY SeqEqual
<1> QED
  BY <1>1, <1>4, <1>5 DEF IsStrictPrefix

(* The first n names of a path. *)
LEMMA CutIs ==
  ASSUME NEW S, NEW q \in Seq(S), NEW n \in 0..Len(q)
  PROVE  /\ SubSeq(q, 1, n) \in Seq(S) /\ Len(SubSeq(q, 1, n)) = n
         /\ \A i \in 1..n : SubSeq(q, 1, n)[i] = q[i]
         /\ IsPrefix(SubSeq(q, 1, n), q)
<1>1. Len(q) \in Nat /\ n \in Nat /\ \A i \in 1..n : q[i] \in S
  BY ElementOfSeq
<1>2. /\ SubSeq(q, 1, n) \in Seq(S) /\ Len(SubSeq(q, 1, n)) = n
      /\ \A i \in 1..n : SubSeq(q, 1, n)[i] = q[i]
  BY <1>1, SubSeqProperties
<1>3. n <= Len(q)
  OBVIOUS
<1>4. IsPrefix(SubSeq(q, 1, n), q) <=>
        /\ Len(SubSeq(q, 1, n)) <= Len(q)
        /\ \A i \in 1..Len(SubSeq(q, 1, n)) : SubSeq(q, 1, n)[i] = q[i]
  BY <1>2, PrefixIs
<1> QED
  BY <1>2, <1>3, <1>4

(* A path is its prefix and the rest. *)
LEMMA RestIs ==
  ASSUME NEW S, NEW p \in Seq(S), NEW q \in Seq(S), IsPrefix(p, q)
  PROVE  /\ SubSeq(q, Len(p) + 1, Len(q)) \in Seq(S)
         /\ Len(SubSeq(q, Len(p) + 1, Len(q))) = Len(q) - Len(p)
         /\ q = p \o SubSeq(q, Len(p) + 1, Len(q))
<1> DEFINE r == SubSeq(q, Len(p) + 1, Len(q))
<1>1. /\ Len(p) \in Nat /\ Len(q) \in Nat /\ Len(p) <= Len(q)
      /\ \A i \in 1..Len(p) : p[i] = q[i]
  BY PrefixIs
<1>2. \A i \in (Len(p) + 1)..Len(q) : q[i] \in S
  BY <1>1, ElementOfSeq
<1>3. /\ r \in Seq(S) /\ Len(r) = Len(q) - Len(p)
      /\ \A i \in 1..(Len(q) - Len(p)) : r[i] = q[Len(p) + i]
  <2>1. Len(p) + 1 \in Int /\ Len(q) \in Int
    BY <1>1
  <2>2. /\ r \in Seq(S) /\ Len(r) = IF Len(p) + 1 <= Len(q) THEN Len(q) - (Len(p) + 1) + 1 ELSE 0
        /\ \A i \in 1..(Len(q) - (Len(p) + 1) + 1) : r[i] = q[Len(p) + 1 + i - 1]
    BY <1>2, <2>1, SubSeqProperties
  <2> QED
    BY <1>1, <2>2
<1> HIDE DEF r
<1>4. /\ p \o r \in Seq(S) /\ Len(p \o r) = Len(q)
      /\ \A i \in 1..Len(q) : (p \o r)[i] = IF i <= Len(p) THEN p[i] ELSE r[i - Len(p)]
  BY <1>1, <1>3, ConcatProperties
<1>5. \A i \in 1..Len(q) : (p \o r)[i] = q[i]
  <2>1. ASSUME NEW i \in 1..Len(q), ~(i <= Len(p))
        PROVE  i - Len(p) \in 1..(Len(q) - Len(p)) /\ Len(p) + (i - Len(p)) = i
    BY <1>1, <2>1
  <2> QED
    BY <1>1, <1>3, <1>4, <2>1
<1>6. p \o r = q
  BY <1>4, <1>5, SeqEqual
<1> QED
  BY <1>3, <1>6 DEF r

(* Paths below a directory, and their prefixes. *)
LEMMA JoinIs ==
  ASSUME NEW S, NEW d \in Seq(S), NEW p \in Seq(S)
  PROVE  /\ d \o p \in Seq(S) /\ Len(d \o p) = Len(d) + Len(p)
         /\ \A i \in 1..Len(d) : (d \o p)[i] = d[i]
         /\ \A i \in 1..Len(p) : (d \o p)[Len(d) + i] = p[i]
         /\ IsPrefix(d, d \o p)
         /\ p # <<>> => IsStrictPrefix(d, d \o p)
         /\ SubSeq(d \o p, Len(d) + 1, Len(d \o p)) = p
<1>1. Len(d) \in Nat /\ Len(p) \in Nat
  OBVIOUS
<1>2. /\ d \o p \in Seq(S) /\ Len(d \o p) = Len(d) + Len(p)
      /\ \A i \in 1..(Len(d) + Len(p)) : (d \o p)[i] = IF i <= Len(d) THEN d[i] ELSE p[i - Len(d)]
  BY ConcatProperties
<1>3. \A i \in 1..Len(d) : (d \o p)[i] = d[i]
  BY <1>1, <1>2
<1>4. \A i \in 1..Len(p) : (d \o p)[Len(d) + i] = p[i]
  <2>1. \A i \in 1..Len(p) : Len(d) + i \in 1..(Len(d) + Len(p)) /\ ~(Len(d) + i <= Len(d))
                              /\ (Len(d) + i) - Len(d) = i
    BY <1>1
  <2> QED
    BY <1>2, <2>1
<1>a. /\ IsPrefix(d, d \o p) <=> Len(d) <= Len(d \o p) /\ \A i \in 1..Len(d) : d[i] = (d \o p)[i]
      /\ IsStrictPrefix(d, d \o p) <=> Len(d) < Len(d \o p) /\ \A i \in 1..Len(d) : d[i] = (d \o p)[i]
  BY <1>2, PrefixIs, ZenonT(60)
<1>5. IsPrefix(d, d \o p)
  BY <1>1, <1>2, <1>3, <1>a
<1>6. p # <<>> => IsStrictPrefix(d, d \o p)
  <2>1. p # <<>> => Len(p) > 0
    BY <1>1
  <2> QED
    BY <1>1, <1>2, <1>3, <1>a, <2>1
<1>7. SubSeq(d \o p, Len(d) + 1, Len(d \o p)) = p
  <2>1. d \o p = d \o SubSeq(d \o p, Len(d) + 1, Len(d \o p))
        /\ SubSeq(d \o p, Len(d) + 1, Len(d \o p)) \in Seq(S)
    BY <1>2, <1>5, RestIs
  <2> QED
    BY <2>1, ConcatSimplifications
<1> QED
  BY <1>2, <1>3, <1>4, <1>5, <1>6, <1>7

LEMMA CutOfJoin ==
  ASSUME NEW S, NEW d \in Seq(S), NEW p \in Seq(S), NEW i \in 0..Len(p)
  PROVE  SubSeq(d \o p, 1, Len(d) + i) = d \o SubSeq(p, 1, i)
<1>1. Len(d) \in Nat /\ Len(p) \in Nat
  OBVIOUS
<1>2. /\ d \o p \in Seq(S) /\ Len(d \o p) = Len(d) + Len(p)
      /\ \A j \in 1..Len(d) : (d \o p)[j] = d[j]
      /\ \A j \in 1..Len(p) : (d \o p)[Len(d) + j] = p[j]
  BY JoinIs
<1>3. /\ SubSeq(p, 1, i) \in Seq(S) /\ Len(SubSeq(p, 1, i)) = i
      /\ \A j \in 1..i : SubSeq(p, 1, i)[j] = p[j]
  BY CutIs
<1>4. /\ SubSeq(d \o p, 1, Len(d) + i) \in Seq(S)
      /\ Len(SubSeq(d \o p, 1, Len(d) + i)) = Len(d) + i
      /\ \A j \in 1..(Len(d) + i) : SubSeq(d \o p, 1, Len(d) + i)[j] = (d \o p)[j]
  <2>1. Len(d) + i \in 0..Len(d \o p)
    BY <1>1, <1>2
  <2> QED
    BY <1>2, <2>1, CutIs
<1>5. /\ d \o SubSeq(p, 1, i) \in Seq(S)
      /\ Len(d \o SubSeq(p, 1, i)) = Len(d) + i
      /\ \A j \in 1..(Len(d) + i) : (d \o SubSeq(p, 1, i))[j] =
            IF j <= Len(d) THEN d[j] ELSE SubSeq(p, 1, i)[j - Len(d)]
  BY <1>3, ConcatProperties
<1>6. ASSUME NEW j \in 1..(Len(d) + i)
      PROVE  (d \o p)[j] = (d \o SubSeq(p, 1, i))[j]
  <2>1. CASE j <= Len(d)
    BY <1>1, <1>2, <1>5, <2>1
  <2>2. CASE ~(j <= Len(d))
    <3>1. j - Len(d) \in 1..i /\ j - Len(d) \in 1..Len(p) /\ Len(d) + (j - Len(d)) = j
      BY <1>1, <2>2
    <3> QED
      BY <1>2, <1>3, <1>5, <2>2, <3>1
  <2> QED
    BY <2>1, <2>2
<1> QED
  BY <1>4, <1>5, <1>6, SeqEqual

-----------------------------------------------------------------------------
(* Trees *)

LEMMA NodeIs ==
  ASSUME NEW t, IsTree(t), NEW p \in DOMAIN t
  PROVE  /\ p \in Path /\ p \in Seq(Name) /\ p # <<>> /\ Len(p) \in Nat \ {0}
         /\ t[p].kind \in Kind
         /\ \A i \in 1..(Len(p) - 1) : /\ SubSeq(p, 1, i) \in DOMAIN t
                                       /\ t[SubSeq(p, 1, i)].kind = "dir"
<1>1. /\ p \in Path /\ t[p].kind \in Kind
      /\ \A i \in 1..(Len(p) - 1) : SubSeq(p, 1, i) \in Directories(t)
  BY DEF IsTree
<1>2. p \in Seq(Name) /\ p # <<>>
  BY <1>1 DEF Path
<1>3. Len(p) \in Nat \ {0}
  BY <1>2, EmptySeq
<1> QED
  BY <1>1, <1>2, <1>3 DEF Directories

(* A node has directories above it only. *)
LEMMA AboveIs ==
  ASSUME NEW t, IsTree(t), NEW p \in DOMAIN t, NEW q \in Seq(Name), q # <<>>,
         IsStrictPrefix(q, p)
  PROVE  q \in Directories(t)
<1>1. p \in Seq(Name) /\ \A i \in 1..(Len(p) - 1) : /\ SubSeq(p, 1, i) \in DOMAIN t
                                                    /\ t[SubSeq(p, 1, i)].kind = "dir"
  BY NodeIs
<1>2. Len(q) < Len(p) /\ IsPrefix(q, p) /\ Len(q) \in Nat \ {0} /\ Len(p) \in Nat
  BY <1>1, PrefixIs, EmptySeq DEF IsStrictPrefix
<1>3. SubSeq(p, 1, Len(q)) = q
  BY <1>2, SubSeqFull DEF IsPrefix
<1>4. Len(q) \in 1..(Len(p) - 1)
  BY <1>2
<1> QED
  BY <1>1, <1>3, <1>4 DEF Directories

LEMMA BelowIs ==
  ASSUME NEW t, IsTree(t), NEW d \in Directories(t)
  PROVE  /\ DOMAIN Below(t, d) = {p \in Path : d \o p \in DOMAIN t}
         /\ \A p \in DOMAIN Below(t, d) : Below(t, d)[p] = t[d \o p]
         /\ IsTree(Below(t, d))
<1> DEFINE R == {r \in DOMAIN t : IsStrictPrefix(d, r)}
           rest(q) == SubSeq(q, Len(d) + 1, Len(q))
           B == {rest(q) : q \in R}
<1>1. d \in Seq(Name) /\ Len(d) \in Nat /\ d \in DOMAIN t
  BY NodeIs DEF Directories
<1>2. DOMAIN Below(t, d) = B /\ \A p \in B : Below(t, d)[p] = t[d \o p]
  BY DEF Below
<1>3. ASSUME NEW q \in R
      PROVE  rest(q) \in Path /\ q = d \o rest(q)
  <2>1. q \in Seq(Name) /\ IsPrefix(d, q) /\ Len(d) < Len(q)
    BY <1>1, NodeIs, PrefixIs DEF IsStrictPrefix
  <2>2. rest(q) \in Seq(Name) /\ Len(rest(q)) = Len(q) - Len(d) /\ q = d \o rest(q)
    BY <1>1, <2>1, RestIs
  <2>3. Len(q) \in Nat /\ Len(rest(q)) # 0
    BY <1>1, <2>1, <2>2
  <2>4. rest(q) # <<>>
    BY <2>3, EmptySeq
  <2> QED
    BY <2>2, <2>4 DEF Path
<1>4. ASSUME NEW p \in Path, d \o p \in DOMAIN t
      PROVE  p \in B
  <2>1. IsStrictPrefix(d, d \o p) /\ rest(d \o p) = p
    BY <1>1, JoinIs DEF Path
  <2> QED
    BY <1>4, <2>1
<1>5. B = {p \in Path : d \o p \in DOMAIN t}
  <2>1. \A p \in B : p \in Path /\ d \o p \in DOMAIN t
    BY <1>3
  <2> HIDE DEF B
  <2> QED
    BY <1>4, <2>1
<1>6. IsFiniteSet(B)
  <2> DEFINE f == [q \in R |-> rest(q)]
  <2>1. IsFiniteSet(R)
    BY FS_Subset DEF IsTree
  <2>2. DOMAIN f = R /\ f = [x \in DOMAIN f |-> f[x]] /\ {f[x] : x \in DOMAIN f} = B
    OBVIOUS
  <2> HIDE DEF f
  <2> QED
    BY <2>1, <2>2, ImageFinite
<1> HIDE DEF B
<1>7. ASSUME NEW p \in B, NEW i \in 1..(Len(p) - 1)
      PROVE  SubSeq(p, 1, i) \in B /\ t[d \o SubSeq(p, 1, i)].kind = "dir"
  <2>1. p \in Path /\ p \in Seq(Name) /\ d \o p \in DOMAIN t /\ Len(p) \in Nat
    BY <1>5 DEF Path
  <2>2. /\ Len(d \o p) = Len(d) + Len(p)
        /\ SubSeq(d \o p, 1, Len(d) + i) = d \o SubSeq(p, 1, i)
    <3>1. i \in 0..Len(p)
      BY <2>1
    <3>2. d \in Seq(Name) /\ p \in Seq(Name)
      BY <1>1, <2>1
    <3>3. Len(d \o p) = Len(d) + Len(p)
      BY <3>2, JoinIs
    <3>4. SubSeq(d \o p, 1, Len(d) + i) = d \o SubSeq(p, 1, i)
      BY <3>1, <3>2, CutOfJoin
    <3> QED
      BY <3>1, <3>3, <3>4
  <2>3. Len(d) + i \in 1..(Len(d \o p) - 1)
    BY <1>1, <2>1, <2>2
  <2>4. /\ d \o SubSeq(p, 1, i) \in DOMAIN t
        /\ t[d \o SubSeq(p, 1, i)].kind = "dir"
    BY <2>1, <2>2, <2>3, NodeIs
  <2>5. SubSeq(p, 1, i) \in Path
    <3>1. i \in 0..Len(p) /\ i # 0
      BY <2>1
    <3>2. SubSeq(p, 1, i) \in Seq(Name) /\ Len(SubSeq(p, 1, i)) = i
      BY <2>1, <3>1, CutIs
    <3>3. SubSeq(p, 1, i) # <<>>
      BY <3>1, <3>2, EmptySeq
    <3> QED
      BY <3>2, <3>3 DEF Path
  <2> QED
    BY <1>5, <2>4, <2>5
<1>8. IsTree(Below(t, d))
  <2>1. \A p \in B : p \in Path /\ t[d \o p].kind \in Kind
    BY <1>5, NodeIs
  <2>2. \A p \in B : \A i \in 1..(Len(p) - 1) : SubSeq(p, 1, i) \in Directories(Below(t, d))
    BY <1>2, <1>7 DEF Directories
  <2> QED
    BY <1>2, <1>6, <2>1, <2>2 DEF IsTree
<1> QED
  BY <1>2, <1>5, <1>8

(* A tree with one directory at its top. *)
LEMMA SingleTopIs ==
  ASSUME NEW t, IsTree(t), SingleTop(t)
  PROVE  \E d \in Directories(t) : /\ Len(d) = 1 /\ Tops(t) = {d}
                                   /\ StripOne(t) = Below(t, d)
<1>1. Cardinality(Tops(t)) = 1 /\ Tops(t) \subseteq Directories(t)
  BY DEF SingleTop
<1>2. IsFiniteSet(Tops(t))
  BY FS_Subset DEF Tops, IsTree
<1>3. PICK d : Tops(t) = {d}
  BY <1>1, <1>2, FS_Singleton
<1>4. (CHOOSE e \in Tops(t) : TRUE) = d
  BY <1>3
<1>5. StripOne(t) = Below(t, d)
  BY <1>4 DEF StripOne
<1>6. Len(d) = 1
  BY <1>3 DEF Tops
<1> QED
  BY <1>1, <1>3, <1>5, <1>6

LEMMA StripOneIsTree ==
  ASSUME NEW t, IsTree(t)
  PROVE  IsTree(StripOne(t))
<1>1. CASE SingleTop(t)
  <2>1. PICK d \in Directories(t) : StripOne(t) = Below(t, d)
    BY <1>1, SingleTopIs
  <2> QED
    BY <2>1, BelowIs
<1>2. CASE ~SingleTop(t)
  BY <1>2 DEF StripOne
<1> QED
  BY <1>1, <1>2

(* Stripping n levels is stripping one level n times. *)
IsStaging(s, t, n) == s = [k \in 0..n |-> IF k = 0 THEN t ELSE StripOne(s[k - 1])]

LEMMA StagingExists ==
  ASSUME NEW t, NEW n \in Nat
  PROVE  \E s : IsStaging(s, t, n)
<1> DEFINE Stages(s, m) == /\ s = [k \in 0..m |-> s[k]] /\ s[0] = t
                           /\ \A k \in 1..m : s[k] = StripOne(s[k - 1])
           G == {m \in Nat : \E s : Stages(s, m)}
<1>1. 0 \in G
  <2>1. Stages([k \in 0..0 |-> t], 0)
    OBVIOUS
  <2> QED
    BY <2>1
<1>2. ASSUME NEW m \in 0..(n - 1), m \in G
      PROVE  m + 1 \in G
  <2>1. PICK g : Stages(g, m)
    BY <1>2
  <2> DEFINE h == [k \in 0..(m + 1) |-> IF k = m + 1 THEN StripOne(g[m]) ELSE g[k]]
  <2>2. m \in Nat /\ m + 1 \in Nat
    OBVIOUS
  <2>3. h = [k \in 0..(m + 1) |-> h[k]] /\ h[0] = t
    BY <2>1, <2>2
  <2>4. ASSUME NEW k \in 1..(m + 1)
        PROVE  h[k] = StripOne(h[k - 1])
    <3>1. CASE k = m + 1
      BY <2>2, <3>1
    <3>2. CASE k # m + 1
      <4>1. k \in 1..m /\ k - 1 # m + 1 /\ k \in 0..(m + 1) /\ k - 1 \in 0..(m + 1)
        BY <2>2, <3>2
      <4>2. h[k] = g[k] /\ h[k - 1] = g[k - 1]
        BY <4>1
      <4> QED
        BY <2>1, <4>1, <4>2
    <3> QED
      BY <3>1, <3>2
  <2> HIDE DEF h
  <2>5. Stages(h, m + 1)
    BY <2>3, <2>4
  <2> QED
    BY <2>2, <2>5
<1>3. n \in G
  <2> HIDE DEF G
  <2>1. \A k \in 0..n : k \in G
    BY <1>1, <1>2, Upwards
  <2> QED
    BY <2>1
<1>4. PICK s : Stages(s, n)
  BY <1>3
<1>5. \A k \in 0..n : s[k] = IF k = 0 THEN t ELSE StripOne(s[k - 1])
  <2>1. \A k \in 0..n : k = 0 \/ k \in 1..n
    OBVIOUS
  <2> QED
    BY <1>4, <2>1
<1>6. IsStaging(s, t, n)
  BY <1>4, <1>5 DEF IsStaging
<1> QED
  BY <1>6

LEMMA StageIs ==
  ASSUME NEW t, NEW n \in Nat
  PROVE  \E s : /\ Stage(t, n) = s[n] /\ s[0] = t
               /\ \A k \in 1..n : s[k] = StripOne(s[k - 1])
<1> DEFINE s == CHOOSE g : IsStaging(g, t, n)
<1>1. Stage(t, n) = s[n]
  BY DEF Stage, IsStaging
<1>2. IsStaging(s, t, n)
  BY StagingExists, Zenon
<1> HIDE DEF s
<1>3. \A k \in 0..n : s[k] = IF k = 0 THEN t ELSE StripOne(s[k - 1])
  BY <1>2 DEF IsStaging
<1>4. s[0] = t
  BY <1>3
<1>5. \A k \in 1..n : s[k] = StripOne(s[k - 1])
  <2>1. \A k \in 1..n : k \in 0..n /\ k # 0
    OBVIOUS
  <2> QED
    BY <1>3, <2>1
<1> QED
  BY <1>1, <1>4, <1>5

LEMMA StageIsTree ==
  ASSUME NEW t, IsTree(t), NEW n \in Nat
  PROVE  IsTree(Stage(t, n))
<1>1. PICK s : /\ Stage(t, n) = s[n] /\ s[0] = t
               /\ \A k \in 1..n : s[k] = StripOne(s[k - 1])
  BY StageIs
<1> DEFINE G == {k \in 0..n : IsTree(s[k])}
<1>2. 0 \in G
  BY <1>1
<1>3. ASSUME NEW k \in 0..(n - 1), k \in G
      PROVE  k + 1 \in G
  <2>1. k + 1 \in 1..n /\ k + 1 \in 0..n /\ (k + 1) - 1 = k
    OBVIOUS
  <2>2. s[k + 1] = StripOne(s[k])
    BY <1>1, <2>1
  <2> QED
    BY <1>3, <2>1, <2>2, StripOneIsTree
<1>4. n \in G
  <2> HIDE DEF G
  <2>1. \A k \in 0..n : k \in G
    BY <1>2, <1>3, Upwards
  <2> QED
    BY <2>1
<1> QED
  BY <1>1, <1>4

(* A name at the end of a path. *)
LEMMA ExtendIs ==
  ASSUME NEW S, NEW d \in Seq(S), NEW c \in S
  PROVE  /\ Append(d, c) \in Seq(S) /\ Append(d, c) # <<>> /\ Len(Append(d, c)) = Len(d) + 1
         /\ Front(Append(d, c)) = d /\ Last(Append(d, c)) = c
         /\ \A i \in 0..Len(d) : SubSeq(Append(d, c), 1, i) = SubSeq(d, 1, i)
         /\ SubSeq(Append(d, c), 1, Len(d)) = d
<1> DEFINE p == Append(d, c)
<1>1. /\ p \in Seq(S) /\ p # <<>> /\ Len(p) = Len(d) + 1 /\ Len(d) \in Nat
      /\ \A i \in 1..Len(d) : p[i] = d[i]
      /\ p[Len(d) + 1] = c
  BY AppendProperties
<1> HIDE DEF p
<1>2. ASSUME NEW i \in 0..Len(d)
      PROVE  SubSeq(p, 1, i) = SubSeq(d, 1, i)
  <2>1. i \in 0..Len(p) /\ \A j \in 1..i : j \in 1..Len(d)
    BY <1>1
  <2>2. /\ SubSeq(p, 1, i) \in Seq(S) /\ Len(SubSeq(p, 1, i)) = i
        /\ \A j \in 1..i : SubSeq(p, 1, i)[j] = p[j]
    BY <1>1, <2>1, CutIs
  <2>3. /\ SubSeq(d, 1, i) \in Seq(S) /\ Len(SubSeq(d, 1, i)) = i
        /\ \A j \in 1..i : SubSeq(d, 1, i)[j] = d[j]
    BY CutIs
  <2>4. \A j \in 1..i : SubSeq(p, 1, i)[j] = SubSeq(d, 1, i)[j]
    BY <1>1, <2>1, <2>2, <2>3
  <2> QED
    BY <2>2, <2>3, <2>4, SeqEqual
<1>3. SubSeq(p, 1, Len(d)) = d
  BY <1>1, <1>2, SubSeqFull
<1>4. Front(p) = d /\ Last(p) = c
  BY <1>1, <1>3 DEF Front, Last
<1> QED
  BY <1>1, <1>2, <1>3, <1>4 DEF p

(* A path is its directory and its name. *)
LEMMA FrontIs ==
  ASSUME NEW S, NEW p \in Seq(S), p # <<>>
  PROVE  /\ Front(p) \in Seq(S) /\ Last(p) \in S /\ p = Append(Front(p), Last(p))
         /\ Len(Front(p)) = Len(p) - 1
         /\ \A i \in 1..(Len(p) - 1) : Front(p)[i] = p[i]
<1>1. PICK d \in Seq(S), c \in S : p = Append(d, c)
  BY SequenceEmptyOrAppend
<1>2. Front(p) = d /\ Last(p) = c /\ Len(p) = Len(d) + 1 /\ Len(d) \in Nat
  BY <1>1, ExtendIs
<1>3. \A i \in 1..Len(d) : p[i] = d[i]
  BY <1>1, AppendProperties
<1>4. Len(p) - 1 = Len(d)
  BY <1>2
<1> QED
  BY <1>1, <1>2, <1>3, <1>4

LEMMA OverIs ==
  ASSUME NEW f, NEW g
  PROVE  /\ DOMAIN Over(f, g) = DOMAIN f \cup DOMAIN g
         /\ \A x \in DOMAIN f : Over(f, g)[x] = f[x]
         /\ \A x \in DOMAIN g \ DOMAIN f : Over(f, g)[x] = g[x]
  BY DEF Over

(* The directories that get a marker when they are extracted. *)
Hollow(t) == {d \in Directories(t) \cup {<<>>} : Children(t, d) = {}}
Marks(t)  == {Append(d, Marker) : d \in Hollow(t)}

LEMMA DirectoryIs ==
  ASSUME NEW t, IsTree(t), NEW d \in Directories(t) \cup {<<>>}
  PROVE  d \in Seq(Name) /\ Append(d, Marker) \in Path
<1>1. d \in Seq(Name)
  BY NodeIs, EmptySeq DEF Directories
<1> QED
  BY <1>1, ExtendIs, NameAssumption DEF Path

LEMMA MarkEmptyIs ==
  ASSUME NEW t, IsTree(t)
  PROVE  /\ DOMAIN MarkEmpty(t) = DOMAIN t \cup Marks(t)
         /\ \A p \in DOMAIN t : MarkEmpty(t)[p] = t[p]
         /\ Marks(t) \cap DOMAIN t = {}
         /\ \A p \in Marks(t) : MarkEmpty(t)[p] = [kind |-> "file", data |-> <<>>]
         /\ Directories(MarkEmpty(t)) = Directories(t)
         /\ IsTree(MarkEmpty(t))
<1> DEFINE m == [p \in Marks(t) |-> [kind |-> "file", data |-> <<>>]]
<1>1. MarkEmpty(t) = Over(t, m)
  BY DEF MarkEmpty, Marks, Hollow
<1>2. ASSUME NEW d \in Hollow(t)
      PROVE  /\ d \in Seq(Name) /\ Append(d, Marker) \in Path /\ Append(d, Marker) \notin DOMAIN t
             /\ \A i \in 1..(Len(Append(d, Marker)) - 1) :
                  SubSeq(Append(d, Marker), 1, i) \in Directories(t)
  <2>1. d \in Seq(Name) /\ Append(d, Marker) \in Path /\ Children(t, d) = {} /\ Len(d) \in Nat
    BY DirectoryIs DEF Hollow
  <2>2. /\ Front(Append(d, Marker)) = d /\ Append(d, Marker) # <<>>
        /\ Len(Append(d, Marker)) = Len(d) + 1
        /\ \A i \in 0..Len(d) : SubSeq(Append(d, Marker), 1, i) = SubSeq(d, 1, i)
    BY <2>1, ExtendIs, NameAssumption
  <2>3. Append(d, Marker) \notin DOMAIN t
    BY <2>1, <2>2 DEF Children
  <2>4. ASSUME NEW i \in 1..Len(d)
        PROVE  SubSeq(d, 1, i) \in Directories(t)
    <3>1. d \in Directories(t)
      BY <2>1, <2>4 DEF Hollow
    <3>2. CASE i = Len(d)
      BY <2>1, <3>1, <3>2, SubSeqFull
    <3>3. CASE i # Len(d)
      <4>1. i \in 1..(Len(d) - 1)
        BY <2>1, <3>3
      <4> QED
        BY <3>1, <4>1, NodeIs DEF Directories
    <3> QED
      BY <3>2, <3>3
  <2>5. \A i \in 1..Len(d) : SubSeq(Append(d, Marker), 1, i) \in Directories(t)
    <3>1. \A i \in 1..Len(d) : SubSeq(Append(d, Marker), 1, i) = SubSeq(d, 1, i)
      BY <2>1, <2>2
    <3> QED
      BY <2>4, <3>1
  <2>6. Len(Append(d, Marker)) - 1 = Len(d)
    BY <2>1, <2>2
  <2> QED
    BY <2>1, <2>3, <2>5, <2>6
<1>3. Marks(t) \cap DOMAIN t = {}
  BY <1>2 DEF Marks
<1>4. DOMAIN m = Marks(t) /\ \A p \in Marks(t) : m[p] = [kind |-> "file", data |-> <<>>]
  OBVIOUS
<1> HIDE DEF m
<1>5. /\ DOMAIN MarkEmpty(t) = DOMAIN t \cup Marks(t)
      /\ \A p \in DOMAIN t : MarkEmpty(t)[p] = t[p]
      /\ \A p \in Marks(t) : MarkEmpty(t)[p] = [kind |-> "file", data |-> <<>>]
  <2>1. /\ DOMAIN Over(t, m) = DOMAIN t \cup DOMAIN m
        /\ \A x \in DOMAIN t : Over(t, m)[x] = t[x]
        /\ \A x \in DOMAIN m \ DOMAIN t : Over(t, m)[x] = m[x]
    BY OverIs
  <2>2. \A p \in Marks(t) : p \in DOMAIN m \ DOMAIN t
    BY <1>3, <1>4
  <2>3. \A p \in Marks(t) : Over(t, m)[p] = m[p]
    BY <2>1, <2>2
  <2> QED
    BY <1>1, <1>4, <2>1, <2>3
<1>6. Directories(MarkEmpty(t)) = Directories(t)
  BY <1>5 DEF Directories
<1>7. IsFiniteSet(Marks(t))
  <2> DEFINE f == [d \in Hollow(t) |-> Append(d, Marker)]
  <2>1. IsFiniteSet(Hollow(t))
    <3>1. IsFiniteSet(DOMAIN t \cup {<<>>})
      BY FS_AddElement DEF IsTree
    <3>2. Hollow(t) \in SUBSET (DOMAIN t \cup {<<>>})
      BY DEF Hollow, Directories
    <3> QED
      BY <3>1, <3>2, FS_Subset
  <2>2. DOMAIN f = Hollow(t) /\ f = [x \in DOMAIN f |-> f[x]] /\ {f[x] : x \in DOMAIN f} = Marks(t)
    BY DEF Marks
  <2> HIDE DEF f
  <2> QED
    BY <2>1, <2>2, ImageFinite
<1>8. IsFiniteSet(DOMAIN MarkEmpty(t))
  BY <1>5, <1>7, FS_Union DEF IsTree
<1>9. ASSUME NEW p \in DOMAIN MarkEmpty(t)
      PROVE  /\ p \in Path /\ MarkEmpty(t)[p].kind \in Kind
             /\ \A i \in 1..(Len(p) - 1) : SubSeq(p, 1, i) \in Directories(t)
  <2>1. CASE p \in DOMAIN t
    BY <1>5, <2>1, NodeIs DEF Directories
  <2>2. CASE p \in Marks(t)
    <3>1. PICK d \in Hollow(t) : p = Append(d, Marker)
      BY <2>2 DEF Marks
    <3>2. p \in Path /\ \A i \in 1..(Len(p) - 1) : SubSeq(p, 1, i) \in Directories(t)
      BY <1>2, <3>1
    <3>3. MarkEmpty(t)[p].kind = "file"
      BY <1>5, <2>2
    <3> QED
      BY <3>2, <3>3 DEF Kind
  <2> QED
    BY <1>5, <2>1, <2>2
<1> QED
  BY <1>3, <1>5, <1>6, <1>8, <1>9 DEF IsTree

-----------------------------------------------------------------------------
(* Moving a source into the tree *)

LEMMA LongIs ==
  ASSUME NEW n \in Nat, n # 0, n # 1
  PROVE  n > 1 /\ 1 \in 1..(n - 1) /\ 2 \in 1..n
OBVIOUS

LEMMA LongerIs ==
  ASSUME NEW n \in Nat, n >= 2, n # 2
  PROVE  2 \in 1..(n - 1)
OBVIOUS

Top(c)   == <<c>>
Twice(c) == <<c, c>>

LEMMA TopPathIs ==
  ASSUME NEW c \in Name
  PROVE  /\ Top(c) \in Seq(Name) /\ Top(c) \in Path /\ Len(Top(c)) = 1 /\ Top(c)[1] = c
         /\ Twice(c) \in Seq(Name) /\ Len(Twice(c)) = 2 /\ Twice(c)[1] = c /\ Twice(c)[2] = c
         /\ Top(c) \o Top(c) = Twice(c)
<1>1. /\ <<c>> \in Seq(Name) /\ Len(<<c>>) = 1 /\ <<c>>[1] = c /\ <<c>> # <<>>
      /\ <<c, c>> \in Seq(Name) /\ Len(<<c, c>>) = 2 /\ <<c, c>>[1] = c /\ <<c, c>>[2] = c
  OBVIOUS
<1> DEFINE u == <<c>>
           v == <<c, c>>
<1> HIDE DEF u, v
<1>3. /\ u \in Seq(Name) /\ Len(u) = 1 /\ u[1] = c
      /\ v \in Seq(Name) /\ Len(v) = 2 /\ v[1] = c /\ v[2] = c
  BY <1>1 DEF u, v
<1>4. /\ u \o u \in Seq(Name) /\ Len(u \o u) = Len(u) + Len(u)
      /\ \A i \in 1..(Len(u) + Len(u)) : (u \o u)[i] = IF i <= Len(u) THEN u[i] ELSE u[i - Len(u)]
  BY <1>3, ConcatProperties
<1>5. \A i \in 1..2 : (u \o u)[i] = v[i]
  BY <1>3, <1>4
<1>6. u \o u = v
  BY <1>3, <1>4, <1>5, SeqEqual
<1>2. <<c>> \o <<c>> = <<c, c>>
  BY <1>6 DEF u, v
<1> QED
  BY <1>1, <1>2 DEF Top, Twice, Path

LEMMA FirstIs ==
  ASSUME NEW p \in Path
  PROVE  /\ p \in Seq(Name) /\ Len(p) \in Nat \ {0} /\ p[1] \in Name
         /\ SubSeq(p, 1, 1) = Top(p[1])
         /\ Len(p) = 1 => p = Top(p[1])
<1>1. p \in Seq(Name) /\ Len(p) \in Nat \ {0}
  BY EmptySeq DEF Path
<1>2. p[1] \in Name /\ 1 \in 0..Len(p)
  BY <1>1, ElementOfSeq
<1>3. /\ SubSeq(p, 1, 1) \in Seq(Name) /\ Len(SubSeq(p, 1, 1)) = 1
      /\ \A i \in 1..1 : SubSeq(p, 1, 1)[i] = p[i]
  BY <1>1, <1>2, CutIs
<1>4. Top(p[1]) \in Seq(Name) /\ Len(Top(p[1])) = 1 /\ Top(p[1])[1] = p[1]
  BY <1>2, TopPathIs
<1>5. SubSeq(p, 1, 1) = Top(p[1])
  <2>1. \A i \in 1..1 : SubSeq(p, 1, 1)[i] = Top(p[1])[i]
    BY <1>3, <1>4
  <2> QED
    BY <1>3, <1>4, <2>1, SeqEqual
<1>6. Len(p) = 1 => p = Top(p[1])
  BY <1>1, <1>5, SubSeqFull
<1> QED
  BY <1>1, <1>2, <1>5, <1>6

LEMMA TopIs ==
  ASSUME NEW s, IsTree(s), NEW p \in DOMAIN s
  PROVE  /\ Top(p[1]) \in Tops(s) /\ Top(p[1]) \in DOMAIN s
         /\ Len(p) > 1 => Top(p[1]) \in Directories(s)
<1>1. p \in Path
  BY NodeIs
<1>2. SubSeq(p, 1, 1) = Top(p[1]) /\ Len(p) \in Nat \ {0} /\ Len(Top(p[1])) = 1
      /\ (Len(p) = 1 => p = Top(p[1]))
  BY <1>1, FirstIs, TopPathIs
<1>3. CASE Len(p) = 1
  BY <1>2, <1>3 DEF Tops
<1>4. CASE Len(p) # 1
  <2>1. 1 \in 1..(Len(p) - 1)
    <3>1. Len(p) \in Nat /\ Len(p) # 0 /\ Len(p) # 1
      BY <1>2, <1>4
    <3> QED
      BY <3>1, LongIs
  <2>2. SubSeq(p, 1, 1) \in DOMAIN s /\ s[SubSeq(p, 1, 1)].kind = "dir"
    BY <2>1, NodeIs
  <2> QED
    BY <1>2, <2>2 DEF Tops, Directories
<1> QED
  BY <1>3, <1>4

LEMMA LandingIs ==
  ASSUME NEW t, NEW p \in Path
  PROVE  /\ Landing(t, p) \in Path
         /\ Landing(t, p)[1] = p[1]
         /\ Occupied(t, p) <=> Top(p[1]) \in Directories(t)
         /\ Occupied(t, p) => /\ Landing(t, p) = Top(p[1]) \o p
                              /\ Len(Landing(t, p)) = Len(p) + 1
                              /\ Landing(t, p)[2] = p[1]
         /\ ~Occupied(t, p) => Landing(t, p) = p
<1>1. /\ p \in Seq(Name) /\ Len(p) \in Nat \ {0} /\ p[1] \in Name
      /\ SubSeq(p, 1, 1) = Top(p[1])
  BY FirstIs
<1>2. /\ Occupied(t, p) <=> Top(p[1]) \in Directories(t)
      /\ Landing(t, p) = IF Occupied(t, p) THEN Top(p[1]) \o p ELSE p
  BY <1>1 DEF Occupied, Landing, Top
<1>3. /\ Top(p[1]) \o p \in Seq(Name) /\ Len(Top(p[1]) \o p) = Len(p) + 1
      /\ (Top(p[1]) \o p)[1] = p[1] /\ (Top(p[1]) \o p)[2] = p[1]
  <2>1. Top(p[1]) \in Seq(Name) /\ Len(Top(p[1])) = 1 /\ Top(p[1])[1] = p[1]
    BY <1>1, TopPathIs
  <2>2. /\ Top(p[1]) \o p \in Seq(Name) /\ Len(Top(p[1]) \o p) = 1 + Len(p)
        /\ \A i \in 1..1 : (Top(p[1]) \o p)[i] = Top(p[1])[i]
        /\ \A i \in 1..Len(p) : (Top(p[1]) \o p)[1 + i] = p[i]
    BY <1>1, <2>1, JoinIs, SMTT(40)
  <2>3. 1 \in 1..Len(p) /\ 1 \in 1..1 /\ 1 + 1 = 2
    BY <1>1
  <2>4. (Top(p[1]) \o p)[1 + 1] = p[1]
    BY <2>2, <2>3
  <2> QED
    BY <1>1, <2>1, <2>2, <2>3, <2>4
<1>4. Top(p[1]) \o p # <<>>
  BY <1>1, <1>3, EmptySeq
<1> QED
  BY <1>2, <1>3, <1>4 DEF Path

LEMMA LandingInjective ==
  ASSUME NEW t, NEW p \in Path, NEW q \in Path, Landing(t, p) = Landing(t, q)
  PROVE  p = q
<1>1. p[1] = q[1]
  <2>1. Landing(t, p)[1] = p[1] /\ Landing(t, q)[1] = q[1]
    BY LandingIs
  <2> QED
    BY <2>1
<1>2. Occupied(t, p) <=> Occupied(t, q)
  BY <1>1, LandingIs
<1>3. CASE ~Occupied(t, p)
  BY <1>2, <1>3, LandingIs
<1>4. CASE Occupied(t, p)
  <2>0. Landing(t, p) = Top(p[1]) \o p /\ Landing(t, q) = Top(q[1]) \o q
    BY <1>2, <1>4, LandingIs
  <2>1. Top(p[1]) \o p = Top(p[1]) \o q
    BY <1>1, <2>0
  <2>2. Top(p[1]) \in Seq(Name) /\ p \in Seq(Name) /\ q \in Seq(Name)
    BY FirstIs, TopPathIs
  <2> QED
    BY <2>1, <2>2, ConcatSimplifications, ZenonT(60)
<1> QED
  BY <1>3, <1>4

(* A path that begins with a name twice. *)
LEMMA TwiceIs ==
  ASSUME NEW t, IsTree(t), NEW q \in DOMAIN t, Len(q) >= 2, q[2] = q[1]
  PROVE  Twice(q[1]) \in DOMAIN t /\ Top(q[1]) \in Directories(t) /\ q[1] \in Name
<1> DEFINE a == q[1]
<1>1. q \in Path /\ q \in Seq(Name) /\ Len(q) \in Nat \ {0} /\ a \in Name
  BY NodeIs, FirstIs
<1>2. 2 \in 0..Len(q) /\ Len(q) > 1
  BY <1>1
<1>3. /\ SubSeq(q, 1, 2) \in Seq(Name) /\ Len(SubSeq(q, 1, 2)) = 2
      /\ \A i \in 1..2 : SubSeq(q, 1, 2)[i] = q[i]
  BY <1>1, <1>2, CutIs
<1>4. Twice(a) \in Seq(Name) /\ Len(Twice(a)) = 2 /\ Twice(a)[1] = a /\ Twice(a)[2] = a
  BY <1>1, TopPathIs
<1>5. \A i \in 1..2 : SubSeq(q, 1, 2)[i] = Twice(a)[i]
  <2>1. \A i \in 1..2 : i = 1 \/ i = 2
    OBVIOUS
  <2> QED
    BY <1>3, <1>4, <2>1
<1>6. SubSeq(q, 1, 2) = Twice(a)
  BY <1>3, <1>4, <1>5, SeqEqual
<1>7. Twice(a) \in DOMAIN t
  <2>1. CASE Len(q) = 2
    BY <1>1, <1>6, <2>1, SubSeqFull
  <2>2. CASE Len(q) # 2
    <3>1. 2 \in 1..(Len(q) - 1)
      <4>1. Len(q) \in Nat /\ Len(q) >= 2
        BY <1>1
      <4> QED
        BY <2>2, <4>1, LongerIs
    <3> QED
      BY <1>6, <3>1, NodeIs
  <2> QED
    BY <2>1, <2>2
<1> QED
  BY <1>1, <1>2, <1>7, TopIs

(* What lands inside of a directory is new, and what replaces a node is    *)
(* not a directory, nor is what it replaces.                               *)
LEMMA NoOverlap ==
  ASSUME NEW t, IsTree(t), NEW s, IsTree(s), ~Clash(t, s),
         NEW p \in DOMAIN s, Landing(t, p) \in DOMAIN t
  PROVE  /\ ~Occupied(t, p) /\ Landing(t, p) = p /\ Len(p) = 1
         /\ t[p].kind # "dir" /\ s[p].kind # "dir"
<1>1. /\ p \in Path /\ p[1] \in Name /\ Top(p[1]) \in Tops(s) /\ Top(p[1]) \in Path
      /\ Top(p[1])[1] = p[1] /\ Len(p) \in Nat \ {0}
  BY NodeIs, TopIs, FirstIs, TopPathIs
<1>2. ~Occupied(t, p)
  <2>1. SUFFICES ASSUME Occupied(t, p) PROVE FALSE
    OBVIOUS
  <2> DEFINE a == p[1]
             q == Top(a) \o p
  <2>2. /\ Landing(t, p) = q /\ q \in Path /\ q \in DOMAIN t
        /\ Len(q) = Len(p) + 1 /\ q[1] = a /\ q[2] = a
    <3>1. /\ Landing(t, p) \in Path /\ Landing(t, p)[1] = p[1]
          /\ Landing(t, p) = Top(p[1]) \o p
          /\ Len(Landing(t, p)) = Len(p) + 1 /\ Landing(t, p)[2] = p[1]
      BY <1>1, <2>1, LandingIs
    <3> HIDE DEF a
    <3>2. Landing(t, p) = q
      BY <3>1 DEF a
    <3> QED
      BY <3>1, <3>2 DEF a
  <2>3. Occupied(t, Top(a)) /\ Landing(t, Top(a)) = Top(a) \o Top(a)
    <3>1. Top(a)[1] = a
      BY <1>1
    <3>2. Occupied(t, Top(a))
      BY <1>1, <2>1, <3>1, LandingIs
    <3> QED
      BY <1>1, <3>1, <3>2, LandingIs
  <2>4. Top(a) \o Top(a) = Twice(a)
    BY <1>1, TopPathIs
  <2>5. Twice(a) \notin DOMAIN t
    BY <1>1, <2>3, <2>4 DEF Clash
  <2> HIDE DEF q
  <2>6. Len(q) >= 2
    BY <1>1, <2>2
  <2>7. Twice(q[1]) \in DOMAIN t
    BY <2>2, <2>6, TwiceIs
  <2> QED
    BY <2>2, <2>5, <2>7
<1>3. Landing(t, p) = p /\ Top(p[1]) \notin Directories(t)
  BY <1>1, <1>2, LandingIs
<1>4. Len(p) = 1
  <2>1. p \in DOMAIN t
    BY <1>3
  <2>2. ~(Len(p) > 1)
    BY <1>3, <2>1, TopIs
  <2>3. Len(p) \in Nat /\ Len(p) # 0
    BY <1>1
  <2> QED
    BY <2>2, <2>3, LongIs
<1>5. p = Top(p[1]) /\ p \in Tops(s)
  BY <1>1, <1>4, FirstIs
<1>6. t[p].kind # "dir"
  BY <1>3, <1>5 DEF Directories
<1>7. s[p].kind # "dir"
  BY <1>2, <1>3, <1>5 DEF Clash
<1> QED
  BY <1>2, <1>3, <1>4, <1>6, <1>7

LEMMA MovedIs ==
  ASSUME NEW t, IsTree(t), NEW s, IsTree(s), ~Clash(t, s)
  PROVE  /\ DOMAIN Moved(t, s) = DOMAIN t \cup {Landing(t, p) : p \in DOMAIN s}
         /\ \A p \in DOMAIN s : Moved(t, s)[Landing(t, p)] = s[p]
         /\ \A q \in DOMAIN t : (\A p \in DOMAIN s : Landing(t, p) # q) => Moved(t, s)[q] = t[q]
         /\ \A q \in DOMAIN t : Moved(t, s)[q].kind = "dir" <=> t[q].kind = "dir"
         /\ IsTree(Moved(t, s))
<1> DEFINE L == {Landing(t, p) : p \in DOMAIN s}
           m == [q \in L |-> s[CHOOSE p \in DOMAIN s : Landing(t, p) = q]]
           M == Moved(t, s)
<1>0. \A p \in DOMAIN s : p \in Path
  BY NodeIs
<1>1. M = Over(m, t)
  BY DEF Moved
<1>2. ASSUME NEW p \in DOMAIN s
      PROVE  m[Landing(t, p)] = s[p]
  <2>1. \A q \in DOMAIN s : Landing(t, q) = Landing(t, p) <=> q = p
    BY <1>0, LandingInjective
  <2>2. (CHOOSE q \in DOMAIN s : Landing(t, q) = Landing(t, p)) = p
    BY <2>1
  <2> QED
    BY <2>2
<1>3. DOMAIN m = L
  OBVIOUS
<1> HIDE DEF m
<1>4. /\ DOMAIN M = L \cup DOMAIN t
      /\ \A q \in L : M[q] = m[q]
      /\ \A q \in DOMAIN t \ L : M[q] = t[q]
  BY <1>1, <1>3 DEF Over
<1>5. \A p \in DOMAIN s : M[Landing(t, p)] = s[p]
  BY <1>2, <1>4
<1>6. \A q \in DOMAIN t : (\A p \in DOMAIN s : Landing(t, p) # q) => M[q] = t[q]
  BY <1>4
<1>7. ASSUME NEW q \in DOMAIN t
      PROVE  M[q].kind = "dir" <=> t[q].kind = "dir"
  <2>1. CASE \A p \in DOMAIN s : Landing(t, p) # q
    BY <1>6, <2>1
  <2>2. ASSUME NEW p \in DOMAIN s, Landing(t, p) = q
        PROVE  M[q].kind = "dir" <=> t[q].kind = "dir"
    <3>1. Landing(t, p) = p /\ t[p].kind # "dir" /\ s[p].kind # "dir"
      BY <2>2, NoOverlap
    <3> QED
      BY <1>5, <2>2, <3>1
  <2> QED
    BY <2>1, <2>2
<1>8. Directories(t) \subseteq Directories(M)
  BY <1>4, <1>7 DEF Directories
<1>9. IsFiniteSet(DOMAIN M)
  <2> DEFINE f == [p \in DOMAIN s |-> Landing(t, p)]
  <2>1. DOMAIN f = DOMAIN s /\ f = [x \in DOMAIN f |-> f[x]] /\ {f[x] : x \in DOMAIN f} = L
    OBVIOUS
  <2> HIDE DEF f
  <2>2. IsFiniteSet(DOMAIN s) /\ IsFiniteSet(DOMAIN t)
    BY DEF IsTree
  <2>3. IsFiniteSet(L)
    BY <2>1, <2>2, ImageFinite
  <2> QED
    BY <1>4, <2>2, <2>3, FS_Union
<1>10. ASSUME NEW p \in DOMAIN s, NEW i \in 1..(Len(Landing(t, p)) - 1)
       PROVE  SubSeq(Landing(t, p), 1, i) \in Directories(M)
  <2>1. p \in Path /\ p \in Seq(Name) /\ Len(p) \in Nat \ {0} /\ p[1] \in Name
    BY <1>0, FirstIs
  <2>2. ASSUME NEW j \in 1..(Len(p) - 1)
        PROVE  /\ SubSeq(p, 1, j) \in DOMAIN s /\ s[SubSeq(p, 1, j)].kind = "dir"
               /\ SubSeq(p, 1, j) \in Path /\ SubSeq(p, 1, j)[1] = p[1]
    <3>1. SubSeq(p, 1, j) \in DOMAIN s /\ s[SubSeq(p, 1, j)].kind = "dir"
      BY NodeIs
    <3>2. j \in 0..Len(p) /\ 1 \in 1..j
      BY <2>1
    <3>3. SubSeq(p, 1, j)[1] = p[1]
      BY <2>1, <3>2, CutIs
    <3> QED
      BY <1>0, <3>1, <3>3
  <2>3. CASE ~Occupied(t, p)
    <3>1. Landing(t, p) = p
      BY <2>1, <2>3, LandingIs
    <3>2. i \in 1..(Len(p) - 1)
      BY <3>1
    <3>3. Landing(t, SubSeq(p, 1, i)) = SubSeq(p, 1, i)
      BY <2>1, <2>2, <2>3, <3>2, LandingIs, ZenonT(60)
    <3>4. SubSeq(p, 1, i) \in DOMAIN M /\ M[SubSeq(p, 1, i)].kind = "dir"
      BY <1>4, <1>5, <2>2, <3>2, <3>3, ZenonT(60)
    <3> QED
      BY <3>1, <3>4 DEF Directories
  <2>4. CASE Occupied(t, p)
    <3>1. Landing(t, p) = Top(p[1]) \o p /\ Len(Landing(t, p)) = Len(p) + 1
          /\ Top(p[1]) \in Directories(t) /\ Landing(t, p) \in Path /\ Landing(t, p)[1] = p[1]
      BY <2>1, <2>4, LandingIs
    <3>2. CASE i = 1
      <4>1. SubSeq(Landing(t, p), 1, 1) = Top(p[1])
        BY <3>1, FirstIs
      <4> QED
        BY <1>8, <3>1, <3>2, <4>1
    <3>3. CASE i # 1
      <4>1. i - 1 \in 1..(Len(p) - 1) /\ i - 1 \in 0..Len(p) /\ 1 + (i - 1) = i
        BY <2>1, <3>1, <3>3
      <4>2. Top(p[1]) \in Seq(Name) /\ Len(Top(p[1])) = 1
        BY <2>1, TopPathIs
      <4>3. SubSeq(Top(p[1]) \o p, 1, Len(Top(p[1])) + (i - 1)) = Top(p[1]) \o SubSeq(p, 1, i - 1)
        BY <2>1, <4>1, <4>2, CutOfJoin, ZenonT(60)
      <4>4. SubSeq(Landing(t, p), 1, i) = Top(p[1]) \o SubSeq(p, 1, i - 1)
        BY <3>1, <4>1, <4>2, <4>3
      <4> DEFINE u == SubSeq(p, 1, i - 1)
      <4>5. u \in DOMAIN s /\ s[u].kind = "dir" /\ u \in Path /\ u[1] = p[1]
        BY <2>2, <4>1
      <4> HIDE DEF u
      <4>6. Occupied(t, u)
        BY <2>1, <2>4, <4>5, LandingIs
      <4>7. Landing(t, u) = Top(p[1]) \o u
        BY <4>5, <4>6, LandingIs
      <4>8. Landing(t, u) \in DOMAIN M /\ M[Landing(t, u)].kind = "dir"
        BY <1>4, <1>5, <4>5
      <4> QED
        BY <4>4, <4>7, <4>8 DEF Directories, u
    <3> QED
      BY <3>2, <3>3
  <2> QED
    BY <2>3, <2>4
<1>11. ASSUME NEW q \in DOMAIN M
       PROVE  /\ q \in Path /\ M[q].kind \in Kind
              /\ \A i \in 1..(Len(q) - 1) : SubSeq(q, 1, i) \in Directories(M)
  <2>1. CASE q \in L
    <3>1. PICK p \in DOMAIN s : q = Landing(t, p)
      BY <2>1
    <3>2. q \in Path
      BY <1>0, <3>1, LandingIs
    <3>3. M[q].kind \in Kind
      BY <1>5, <3>1, NodeIs
    <3> QED
      BY <1>10, <3>1, <3>2, <3>3
  <2>2. CASE q \notin L
    <3>1. q \in DOMAIN t /\ M[q] = t[q]
      BY <1>4, <2>2
    <3>2. q \in Path /\ t[q].kind \in Kind
      BY <3>1, NodeIs
    <3>3. \A i \in 1..(Len(q) - 1) : SubSeq(q, 1, i) \in Directories(t)
      BY <3>1, NodeIs DEF Directories
    <3> QED
      BY <1>8, <3>1, <3>2, <3>3
  <2> QED
    BY <2>1, <2>2
<1>12. IsTree(M)
  BY <1>9, <1>11 DEF IsTree
<1> QED
  BY <1>4, <1>5, <1>6, <1>7, <1>12

-----------------------------------------------------------------------------
(* The tree of an archive *)

LEMMA WithinIs ==
  ASSUME NEW S, NEW T, NEW p \in Seq(S), \A i \in 1..Len(p) : p[i] \in T
  PROVE  p \in Seq(T)
<1>1. Len(p) \in Nat /\ p = [i \in 1..Len(p) |-> p[i]]
  BY SeqDef
<1>2. p \in [1..Len(p) -> T]
  BY <1>1
<1> QED
  BY <1>1, <1>2, SeqDef

(* What is so of the members of an archive that inspect accepts. *)
SoundMember(ms, m) ==
  /\ m.path[1] # "/" /\ \A i \in 1..Len(m.path) : m.path[i] # ".."
  /\ m.kind # "special"
  /\ m.kind = "hard" => m.data \in PathsOf(ms)
  /\ m.kind \notin Symlink =>
       \A d \in DOMAIN ms : ms[d].kind \in Symlink => ~IsStrictPrefix(ms[d].path, m.path)

Sound(ms) ==
  /\ IsArchive(ms)
  /\ \A e \in DOMAIN ms : SoundMember(ms, ms[e])
  /\ \A d, e \in DOMAIN ms : ms[d].path = ms[e].path => d = e

LEMMA AcceptedIsSound ==
  ASSUME NEW source, IsSource(source), source.packed, InspectArchive(source).codes = {}
  PROVE  Sound(source.members)
<1> DEFINE ms == source.members
<1>1. IsArchive(ms)
  BY DEF IsSource
<1>2. Rejections(ms, source.size) = {}
  BY DEF InspectArchive
<1>3. \A c \in OfMember : \A e \in DOMAIN ms : ~Breaks(ms, ms[e], c)
  BY <1>2 DEF Rejections
<1>4. ~Exceeds(ms, source.size, "EX-DUP")
  BY <1>2 DEF Rejections, OfArchive
<1>5. \A d, e \in DOMAIN ms : ms[d].path = ms[e].path => d = e
  BY <1>4 DEF Exceeds
<1>6. ASSUME NEW e \in DOMAIN ms
      PROVE  SoundMember(ms, ms[e])
  <2> DEFINE m == ms[e]
  <2>1. IsMember(m) /\ m.path # <<>>
    BY <1>1 DEF IsArchive, IsMember
  <2> HIDE DEF m
  <2>2. m.path[1] # "/"
    <3>1. "EX-ABS" \in OfMember
      BY DEF OfMember, Extraction, OfArchive, Budget
    <3>2. ~Breaks(ms, m, "EX-ABS")
      BY <1>3, <3>1 DEF m
    <3> QED
      BY <2>1, <3>2 DEF Breaks, IsAbsolute
  <2>3. \A i \in 1..Len(m.path) : m.path[i] # ".."
    <3>1. "EX-TRAVERSAL" \in OfMember
      BY DEF OfMember, Extraction, OfArchive, Budget
    <3>2. ~Breaks(ms, m, "EX-TRAVERSAL")
      BY <1>3, <3>1 DEF m
    <3>3. ".." \notin ToSet(m.path)
      BY <3>2 DEF Breaks, HasTraversal
    <3>4. m.path \in Seq(Component)
      BY <2>1 DEF IsMember
    <3>5. DOMAIN m.path = 1..Len(m.path)
      BY <3>4
    <3> QED
      BY <3>3, <3>5 DEF ToSet
  <2>4. m.kind # "special"
    <3>1. "EX-DEVICE" \in OfMember
      BY DEF OfMember, Extraction, OfArchive, Budget
    <3>2. ~Breaks(ms, m, "EX-DEVICE")
      BY <1>3, <3>1 DEF m
    <3> QED
      BY <3>2 DEF Breaks
  <2>5. m.kind = "hard" => m.data \in PathsOf(ms)
    <3>1. "EX-HARDLINK-OUT" \in OfMember
      BY DEF OfMember, Extraction, OfArchive, Budget
    <3>2. ~Breaks(ms, m, "EX-HARDLINK-OUT")
      BY <1>3, <3>1 DEF m
    <3> QED
      BY <3>2 DEF Breaks
  <2>6. m.kind \notin Symlink =>
          \A d \in DOMAIN ms : ms[d].kind \in Symlink => ~IsStrictPrefix(ms[d].path, m.path)
    <3>1. "EX-SYMLINK-ESCAPE" \in OfMember
      BY DEF OfMember, Extraction, OfArchive, Budget
    <3>2. ~Breaks(ms, m, "EX-SYMLINK-ESCAPE")
      BY <1>3, <3>1 DEF m
    <3>3. m.kind \notin Symlink => ~ \E d \in OfKind(ms, Symlink) : IsStrictPrefix(ms[d].path, m.path)
      BY <3>2 DEF Breaks
    <3> QED
      BY <3>3 DEF OfKind
  <2> QED
    BY <2>2, <2>3, <2>4, <2>5, <2>6 DEF SoundMember, m
<1> QED
  BY <1>1, <1>5, <1>6 DEF Sound

LEMMA MemberIs ==
  ASSUME NEW ms, Sound(ms), NEW e \in DOMAIN ms
  PROVE  /\ ms[e].path \in Seq(Component) /\ ms[e].path # <<>> /\ Len(ms[e].path) \in Nat \ {0}
         /\ ms[e].path[1] \in Name \cup {"."}
         /\ \A i \in 2..Len(ms[e].path) : ms[e].path[i] \in Name
         /\ ms[e].path \in PathsOf(ms)
         /\ ms[e].kind \in Kind \cup {"hard"}
         /\ ms[e].kind = "hard" =>
              \E f \in DOMAIN ms : ms[f].path = ms[e].data /\ ms[f].kind \in Kind
<1>1. IsMember(ms[e]) /\ SoundMember(ms, ms[e])
  BY DEF Sound, IsArchive
<1>2. ms[e].path \in Seq(Component) /\ ms[e].path # <<>>
  BY <1>1 DEF IsMember
<1>3. Len(ms[e].path) \in Nat \ {0}
  BY <1>2, EmptySeq
<1>4. \A i \in 1..Len(ms[e].path) : ms[e].path[i] \in Component
  BY <1>2, ElementOfSeq
<1>5. 1 \in 1..Len(ms[e].path) /\ \A i \in 2..Len(ms[e].path) : i \in 1..Len(ms[e].path)
  BY <1>3
<1>6. ms[e].path[1] \in Name \cup {"."}
  BY <1>1, <1>4, <1>5 DEF SoundMember, Component
<1>7. \A i \in 2..Len(ms[e].path) : ms[e].path[i] \in Name
  BY <1>1, <1>4, <1>5 DEF SoundMember, IsMember, Component
<1>8. ms[e].kind \in Kind \cup {"hard"}
  BY <1>1 DEF IsMember, SoundMember, MemberKind, Kind
<1>9. ASSUME ms[e].kind = "hard"
      PROVE  \E f \in DOMAIN ms : ms[f].path = ms[e].data /\ ms[f].kind \in Kind
  <2>1. PICK f \in DOMAIN ms : ms[f].path = ms[e].data
    BY <1>1, <1>9 DEF SoundMember, PathsOf
  <2>2. ms[f].kind \in {"file", "exec"} \cup Symlink
    BY <1>9, <2>1 DEF Sound, IsArchive
  <2> QED
    BY <2>1, <2>2 DEF Kind, Symlink
<1> QED
  BY <1>2, <1>3, <1>6, <1>7, <1>8, <1>9 DEF PathsOf

LEMMA UndottedIs ==
  ASSUME NEW ms, Sound(ms), NEW e \in DOMAIN ms
  PROVE  /\ Undotted(ms[e].path) \in Seq(Name)
         /\ ms[e].path[1] # "." => Undotted(ms[e].path) = ms[e].path /\ ms[e].path \in Path
         /\ ms[e].path[1] = "." => Undotted(ms[e].path) = Tail(ms[e].path)
         /\ Undotted(ms[e].path) = <<>> <=> ms[e].path = <<".">>
<1> DEFINE p == ms[e].path
<1>1. /\ p \in Seq(Component) /\ p # <<>> /\ Len(p) \in Nat \ {0}
      /\ p[1] \in Name \cup {"."} /\ \A i \in 2..Len(p) : p[i] \in Name
  BY MemberIs
<1> HIDE DEF p
<1>2. ASSUME p[1] # "."
      PROVE  Undotted(p) = p /\ p \in Path /\ Undotted(p) \in Seq(Name)
  <2>1. \A i \in 1..Len(p) : i = 1 \/ i \in 2..Len(p)
    BY <1>1
  <2>2. \A i \in 1..Len(p) : p[i] \in Name
    BY <1>1, <1>2, <2>1
  <2>3. p \in Seq(Name)
    BY <1>1, <2>2, WithinIs
  <2> QED
    BY <1>1, <1>2, <2>3 DEF Undotted, Path
<1>3. ASSUME p[1] = "."
      PROVE  /\ Undotted(p) = Tail(p) /\ Undotted(p) \in Seq(Name)
             /\ Undotted(p) = <<>> <=> p = <<".">>
  <2>1. Undotted(p) = Tail(p)
    BY <1>3 DEF Undotted
  <2>2. /\ Tail(p) \in Seq(Component) /\ Len(Tail(p)) = Len(p) - 1
        /\ \A i \in 1..Len(Tail(p)) : Tail(p)[i] = p[i + 1]
    BY <1>1, HeadTailProperties
  <2>3. \A i \in 1..Len(Tail(p)) : i + 1 \in 2..Len(p)
    BY <1>1, <2>2
  <2>4. \A i \in 1..Len(Tail(p)) : Tail(p)[i] \in Name
    BY <1>1, <2>2, <2>3
  <2>5. Tail(p) \in Seq(Name)
    BY <2>2, <2>4, WithinIs
  <2>6. Tail(p) = <<>> <=> Len(p) = 1
    BY <1>1, <2>2, <2>5, EmptySeq
  <2>7. Len(p) = 1 <=> p = <<".">>
    <3> DEFINE u == <<".">>
    <3>1. u \in Seq(Component) /\ Len(u) = 1 /\ u[1] = "."
      BY DEF Component
    <3> HIDE DEF u
    <3>2. Len(p) = 1 => \A i \in 1..Len(p) : p[i] = u[i]
      BY <1>3, <3>1
    <3>3. Len(p) = 1 => p = u
      BY <1>1, <3>1, <3>2, SeqEqual
    <3>4. p = u => Len(p) = 1
      BY <3>1
    <3> QED
      BY <3>3, <3>4 DEF u
  <2> QED
    BY <2>1, <2>5, <2>6, <2>7
<1>4. p = <<".">> => p[1] = "."
  OBVIOUS
<1> QED
  BY <1>1, <1>2, <1>3, <1>4 DEF p

(* The paths of the tree of an archive, and what is at one that has a      *)
(* member of its own.                                                      *)
Listed(ms)  == {Undotted(p) : p \in PathsOf(ms)} \ {<<>>}
Starts(p) == {SubSeq(p, 1, i) : i \in 1..Len(p)}
Inner(ms)   == UNION {Starts(p) : p \in Listed(ms)}
LinkedTo(ms, m) ==
  IF m.kind = "hard" THEN ms[CHOOSE e \in DOMAIN ms : ms[e].path = m.data] ELSE m

LEMMA ListedIs ==
  ASSUME NEW ms, Sound(ms)
  PROVE  /\ Listed(ms) \subseteq Path
         /\ IsFiniteSet(Listed(ms))
         /\ \A p \in Listed(ms) : \E e \in DOMAIN ms : Undotted(ms[e].path) = p
         /\ \A e \in DOMAIN ms : Undotted(ms[e].path) # <<>> => Undotted(ms[e].path) \in Listed(ms)
<1>1. Listed(ms) = {Undotted(ms[e].path) : e \in DOMAIN ms} \ {<<>>}
  BY DEF Listed, PathsOf
<1>2. Listed(ms) \subseteq Path
  BY <1>1, UndottedIs DEF Path
<1>3. IsFiniteSet(Listed(ms))
  <2> DEFINE f == [e \in DOMAIN ms |-> Undotted(ms[e].path)]
  <2>1. /\ DOMAIN f = DOMAIN ms /\ f = [x \in DOMAIN f |-> f[x]]
        /\ {f[x] : x \in DOMAIN f} = {Undotted(ms[e].path) : e \in DOMAIN ms}
    OBVIOUS
  <2> HIDE DEF f
  <2>2. IsFiniteSet(DOMAIN ms)
    BY DEF Sound, IsArchive
  <2>3. IsFiniteSet({f[x] : x \in DOMAIN f})
    BY <2>1, <2>2, ImageFinite
  <2> QED
    BY <1>1, <2>1, <2>3, FS_Subset
<1> QED
  BY <1>1, <1>2, <1>3

LEMMA StartsIs ==
  ASSUME NEW p \in Path
  PROVE  /\ \A q \in Starts(p) : q \in Path /\ IsPrefix(q, p)
         /\ \A q \in Path : IsPrefix(q, p) => q \in Starts(p)
         /\ p \in Starts(p)
         /\ IsFiniteSet(Starts(p))
<1>1. p \in Seq(Name) /\ Len(p) \in Nat \ {0}
  BY FirstIs
<1>2. ASSUME NEW i \in 1..Len(p)
      PROVE  SubSeq(p, 1, i) \in Path /\ IsPrefix(SubSeq(p, 1, i), p)
  <2>1. i \in 0..Len(p) /\ i # 0
    BY <1>1
  <2>2. SubSeq(p, 1, i) \in Seq(Name) /\ Len(SubSeq(p, 1, i)) = i /\ IsPrefix(SubSeq(p, 1, i), p)
    BY <1>1, <2>1, CutIs, SMTT(40)
  <2> QED
    BY <2>1, <2>2, EmptySeq DEF Path
<1>3. ASSUME NEW q \in Path, IsPrefix(q, p)
      PROVE  q \in Starts(p)
  <2>1. q \in Seq(Name) /\ Len(q) \in Nat \ {0}
    BY FirstIs
  <2>2. Len(q) <= Len(p) /\ q = SubSeq(p, 1, Len(q))
    <3>1. SubSeq(q, 1, Len(q)) = q
      BY <2>1, SubSeqFull
    <3> QED
      BY <1>3, <3>1 DEF IsPrefix
  <2>3. Len(q) \in 1..Len(p)
    BY <1>1, <2>1, <2>2, SMTT(40)
  <2> QED
    BY <2>2, <2>3 DEF Starts
<1>4. p \in Starts(p)
  <2>1. Len(p) \in 1..Len(p) /\ SubSeq(p, 1, Len(p)) = p
    BY <1>1, SubSeqFull
  <2> QED
    BY <2>1 DEF Starts
<1>5. IsFiniteSet(Starts(p))
  <2> DEFINE f == [i \in 1..Len(p) |-> SubSeq(p, 1, i)]
  <2>1. /\ DOMAIN f = 1..Len(p) /\ f = [x \in DOMAIN f |-> f[x]]
        /\ {f[x] : x \in DOMAIN f} = Starts(p)
    BY DEF Starts
  <2> HIDE DEF f
  <2>2. IsFiniteSet(1..Len(p))
    BY <1>1, FS_Interval
  <2> QED
    BY <2>1, <2>2, ImageFinite
<1> QED
  BY <1>2, <1>3, <1>4, <1>5 DEF Starts

LEMMA InnerIs ==
  ASSUME NEW ms, Sound(ms)
  PROVE  /\ Inner(ms) \subseteq Path
         /\ IsFiniteSet(Inner(ms))
         /\ Listed(ms) \subseteq Inner(ms)
         /\ \A p \in Inner(ms) : \E q \in Listed(ms) : IsPrefix(p, q)
         /\ \A q \in Listed(ms) : \A p \in Path : IsPrefix(p, q) => p \in Inner(ms)
<1>1. Listed(ms) \subseteq Path /\ IsFiniteSet(Listed(ms))
  BY ListedIs
<1>2. \A q \in Listed(ms) : /\ \A p \in Starts(q) : p \in Path /\ IsPrefix(p, q)
                            /\ \A p \in Path : IsPrefix(p, q) => p \in Starts(q)
                            /\ q \in Starts(q) /\ IsFiniteSet(Starts(q))
  BY <1>1, StartsIs
<1>3. IsFiniteSet(Inner(ms))
  <2> DEFINE f == [p \in Listed(ms) |-> Starts(p)]
  <2>1. /\ DOMAIN f = Listed(ms) /\ f = [x \in DOMAIN f |-> f[x]]
        /\ {f[x] : x \in DOMAIN f} = {Starts(p) : p \in Listed(ms)}
    OBVIOUS
  <2> HIDE DEF f
  <2>2. IsFiniteSet({Starts(p) : p \in Listed(ms)})
    BY <1>1, <2>1, ImageFinite
  <2>3. \A T \in {Starts(p) : p \in Listed(ms)} : IsFiniteSet(T)
    BY <1>2
  <2> QED
    BY <2>2, <2>3, FS_UNION DEF Inner
<1> QED
  BY <1>2, <1>3 DEF Inner

LEMMA TreeOfIs ==
  ASSUME NEW ms, Sound(ms)
  PROVE  /\ DOMAIN TreeOf(ms) = Inner(ms)
         /\ \A e \in DOMAIN ms : Undotted(ms[e].path) # <<>> =>
              /\ TreeOf(ms)[Undotted(ms[e].path)].kind = LinkedTo(ms, ms[e]).kind
              /\ TreeOf(ms)[Undotted(ms[e].path)].data = LinkedTo(ms, ms[e]).data
         /\ \A p \in Inner(ms) \ Listed(ms) : TreeOf(ms)[p].kind = "dir"
         /\ IsTree(TreeOf(ms))
<1> DEFINE At(p) == {e \in DOMAIN ms : Undotted(ms[e].path) = p}
           NodeAt(p) == LinkedTo(ms, ms[CHOOSE e \in At(p) : TRUE])
           T == TreeOf(ms)
<1>1. /\ DOMAIN T = Inner(ms)
      /\ \A p \in Inner(ms) : At(p) = {} => T[p].kind = "dir"
      /\ \A p \in Inner(ms) : At(p) # {} => T[p].kind = NodeAt(p).kind /\ T[p].data = NodeAt(p).data
  BY DEF TreeOf, Inner, Listed, Starts, LinkedTo
<1>2. ASSUME NEW e \in DOMAIN ms
      PROVE  (CHOOSE f \in At(Undotted(ms[e].path)) : TRUE) = e
  <2>1. \A f \in DOMAIN ms : Undotted(ms[f].path) = Undotted(ms[e].path) => f = e
    BY DEF Sound, IsArchive
  <2>2. At(Undotted(ms[e].path)) = {e}
    BY <2>1
  <2> QED
    BY <2>2
<1>3. ASSUME NEW e \in DOMAIN ms, Undotted(ms[e].path) # <<>>
      PROVE  /\ Undotted(ms[e].path) \in Inner(ms)
             /\ T[Undotted(ms[e].path)].kind = LinkedTo(ms, ms[e]).kind
             /\ T[Undotted(ms[e].path)].data = LinkedTo(ms, ms[e]).data
  <2>1. Undotted(ms[e].path) \in Inner(ms)
    BY <1>3, ListedIs, InnerIs
  <2>2. At(Undotted(ms[e].path)) # {} /\ NodeAt(Undotted(ms[e].path)) = LinkedTo(ms, ms[e])
    BY <1>2
  <2> QED
    BY <1>1, <2>1, <2>2
<1>4. ASSUME NEW p \in Inner(ms) \ Listed(ms)
      PROVE  T[p].kind = "dir"
  <2>1. p # <<>>
    BY InnerIs DEF Path
  <2>2. At(p) = {}
    BY <2>1, ListedIs
  <2> QED
    BY <1>1, <2>2
<1> HIDE DEF T
<1>5. ASSUME NEW e \in DOMAIN ms
      PROVE  LinkedTo(ms, ms[e]).kind \in Kind
  <2>1. CASE ms[e].kind = "hard"
    <3>1. PICK f \in DOMAIN ms : ms[f].path = ms[e].data /\ ms[f].kind \in Kind
      BY <2>1, MemberIs
    <3>2. (CHOOSE g \in DOMAIN ms : ms[g].path = ms[e].data) = f
      BY <3>1 DEF Sound
    <3> QED
      BY <2>1, <3>1, <3>2 DEF LinkedTo
  <2>2. CASE ms[e].kind # "hard"
    BY <2>2, MemberIs DEF LinkedTo
  <2> QED
    BY <2>1, <2>2
<1>6. \A p \in Inner(ms) : T[p].kind \in Kind
  <2>1. \A p \in Listed(ms) : \E e \in DOMAIN ms : Undotted(ms[e].path) = p /\ p # <<>>
    BY ListedIs DEF Path
  <2>2. \A p \in Listed(ms) : T[p].kind \in Kind
    BY <1>3, <1>5, <2>1
  <2>3. "dir" \in Kind
    BY DEF Kind
  <2> QED
    BY <1>4, <2>2, <2>3
<1>7. ASSUME NEW p \in Inner(ms), NEW i \in 1..(Len(p) - 1)
      PROVE  SubSeq(p, 1, i) \in Directories(T)
  <2> DEFINE u == SubSeq(p, 1, i)
  <2>1. p \in Path /\ p \in Seq(Name) /\ Len(p) \in Nat \ {0}
    BY InnerIs, FirstIs
  <2>2. i \in 0..Len(p) /\ i # 0 /\ i < Len(p)
    BY <2>1
  <2>3. u \in Seq(Name) /\ Len(u) = i /\ IsPrefix(u, p)
    BY <2>1, <2>2, CutIs
  <2>4. u # <<>> /\ u \in Path
    BY <2>2, <2>3, EmptySeq DEF Path
  <2> HIDE DEF u
  <2>5. PICK q \in Listed(ms) : IsPrefix(p, q)
    BY InnerIs
  <2>6. PICK f \in DOMAIN ms : Undotted(ms[f].path) = q
    BY ListedIs
  <2>7. q \in Seq(Name)
    BY ListedIs DEF Path
  <2>8. IsStrictPrefix(u, q)
    <3>1. Len(p) <= Len(q) /\ (\A j \in 1..Len(p) : p[j] = q[j]) /\ \A j \in 1..Len(u) : u[j] = p[j]
      BY <2>1, <2>3, <2>5, <2>7, PrefixIs
    <3>2. Len(u) < Len(q) /\ \A j \in 1..Len(u) : j \in 1..Len(p)
      BY <2>1, <2>2, <2>3, <2>7, <3>1
    <3>3. \A j \in 1..Len(u) : u[j] = q[j]
      BY <3>1, <3>2
    <3> QED
      BY <2>3, <2>7, <3>2, <3>3, PrefixIs
  <2>9. u \in Inner(ms)
    BY <2>4, <2>8, InnerIs DEF IsStrictPrefix
  <2>10. CASE u \notin Listed(ms)
    BY <1>1, <1>4, <2>9, <2>10 DEF Directories, u
  <2>11. CASE u \in Listed(ms)
    <3>1. PICK e \in DOMAIN ms : Undotted(ms[e].path) = u
      BY <2>11, ListedIs
    <3>2. ms[e].kind = "dir"
      <4>1. \/ ms[e].kind = "dir"
            \/ /\ ms[e].kind \in Symlink /\ ms[f].kind \notin Symlink
               /\ IsStrictPrefix(ms[e].path, ms[f].path)
        BY <2>6, <2>8, <3>1 DEF Sound, IsArchive
      <4> QED
        BY <4>1 DEF Sound, SoundMember
    <3>3. T[u].kind = "dir"
      BY <1>3, <2>4, <3>1, <3>2 DEF LinkedTo
    <3> QED
      BY <1>1, <2>9, <3>3 DEF Directories, u
  <2> QED
    BY <2>10, <2>11 DEF u
<1>8. IsTree(T)
  BY <1>1, <1>6, <1>7, InnerIs DEF IsTree
<1> QED
  BY <1>1, <1>3, <1>4, <1>8, SMTT(40) DEF T

LEMMA StagedIsTree ==
  ASSUME NEW source, IsSource(source), source.packed => InspectArchive(source).codes = {}
  PROVE  IsTree(TreeIn(source)) /\ IsTree(Staged(source))
<1>1. IsTree(TreeIn(source))
  BY AcceptedIsSound, TreeOfIs DEF IsSource, TreeIn
<1>2. source.strip \in Nat
  BY DEF IsSource
<1>3. IsTree(Stage(TreeIn(source), source.strip))
  BY <1>1, <1>2, StageIsTree
<1> QED
  BY <1>1, <1>3, MarkEmptyIs DEF Staged

-----------------------------------------------------------------------------
(* The walk and the git objects *)

LEMMA ModeIs ==
  ASSUME NEW node
  PROVE  /\ ModeOf(node) \in Mode
         /\ ModeOf(node) = "120000" <=> node.kind \in Symlink
  BY DEF ModeOf, Mode, Symlink

ListedAt(lost, d)  == ~ \E u \in lost : IsPrefix(u, d)
ItemsOf(t, lost)   == {p \in DOMAIN t \ Directories(t) : ListedAt(lost, Front(p))}
MarkersOf(t, lost) == {Append(d, Marker) : d \in {b \in Bare(t) : ListedAt(lost, b)}}

LEMMA WalkIs ==
  ASSUME NEW t, IsTree(t), NEW lost
  PROVE  /\ DOMAIN Walk(t, lost) = ItemsOf(t, lost) \cup MarkersOf(t, lost)
         /\ \A p \in ItemsOf(t, lost) : /\ Walk(t, lost)[p].mode = ModeOf(t[p])
                                        /\ Walk(t, lost)[p].data = t[p].data
         /\ \A p \in MarkersOf(t, lost) \ ItemsOf(t, lost) :
              /\ Walk(t, lost)[p].mode = "100644" /\ Walk(t, lost)[p].data = <<>>
         /\ \A p \in DOMAIN Walk(t, lost) : p \in Path /\ Walk(t, lost)[p].mode \in Mode
<1> DEFINE f == [p \in ItemsOf(t, lost) |-> [mode |-> ModeOf(t[p]), data |-> t[p].data]]
           g == [p \in MarkersOf(t, lost) |-> [mode |-> "100644", data |-> <<>>]]
           W == Walk(t, lost)
<1>1. W = Over(f, g)
  BY DEF Walk, ItemsOf, MarkersOf, ListedAt
<1>2. /\ DOMAIN f = ItemsOf(t, lost) /\ DOMAIN g = MarkersOf(t, lost)
      /\ \A p \in ItemsOf(t, lost) : f[p].mode = ModeOf(t[p]) /\ f[p].data = t[p].data
      /\ \A p \in MarkersOf(t, lost) : g[p].mode = "100644" /\ g[p].data = <<>>
  OBVIOUS
<1> HIDE DEF f, g, W
<1>3. /\ DOMAIN W = DOMAIN f \cup DOMAIN g
      /\ \A x \in DOMAIN f : W[x] = f[x]
      /\ \A x \in DOMAIN g \ DOMAIN f : W[x] = g[x]
  <2>1. /\ DOMAIN Over(f, g) = DOMAIN f \cup DOMAIN g
        /\ \A x \in DOMAIN f : Over(f, g)[x] = f[x]
        /\ \A x \in DOMAIN g \ DOMAIN f : Over(f, g)[x] = g[x]
    BY OverIs
  <2> QED
    BY <1>1, <2>1
<1>4. \A p \in MarkersOf(t, lost) : p \in Path
  <2>1. \A d \in Bare(t) : d \in Directories(t)
    BY DEF Bare
  <2> QED
    BY <2>1, DirectoryIs DEF MarkersOf
<1>5. \A p \in ItemsOf(t, lost) : p \in Path
  BY NodeIs DEF ItemsOf
<1>6. \A p \in DOMAIN W : W[p].mode \in Mode
  <2>1. \A p \in DOMAIN f : W[p].mode \in Mode
    BY <1>2, <1>3, ModeIs
  <2>2. \A p \in DOMAIN g \ DOMAIN f : W[p].mode \in Mode
    BY <1>2, <1>3 DEF Mode
  <2> QED
    BY <1>3, <2>1, <2>2
<1> QED
  BY <1>2, <1>3, <1>4, <1>5, <1>6 DEF W

(* The path that git makes of a path. *)
Reading(p)  == [i \in DOMAIN p |-> Unquoted[p[i]]]
Readable(p) == None \notin {Unquoted[p[i]] : i \in DOMAIN p}

LEMMA ReadingIs ==
  ASSUME NEW p \in Path, Readable(p)
  PROVE  /\ Reading(p) \in Path /\ Reading(p) \in Seq(Name) /\ Len(Reading(p)) = Len(p)
         /\ \A i \in 1..Len(p) : Reading(p)[i] = Unquoted[p[i]] /\ Unquoted[p[i]] \in Name
         /\ Last(Reading(p)) = Unquoted[Last(p)]
<1>1. p \in Seq(Name) /\ Len(p) \in Nat \ {0} /\ DOMAIN p = 1..Len(p)
  BY FirstIs
<1>2. \A i \in 1..Len(p) : p[i] \in Name
  BY <1>1, ElementOfSeq
<1>3. \A i \in 1..Len(p) : Unquoted[p[i]] \in Name
  BY <1>1, <1>2, NameAssumption DEF Readable
<1>4. Reading(p) \in [1..Len(p) -> Name]
  BY <1>1, <1>3 DEF Reading
<1>5. Reading(p) \in Seq(Name) /\ Len(Reading(p)) = Len(p)
  <2>1. Reading(p) \in Seq(Name)
    BY <1>1, <1>4, SeqDef
  <2>2. DOMAIN Reading(p) = 1..Len(p)
    BY <1>4
  <2>3. DOMAIN Reading(p) = 1..Len(Reading(p)) /\ Len(Reading(p)) \in Nat
    BY <2>1
  <2>4. Len(Reading(p)) = Len(p)
    BY <1>1, <2>2, <2>3
  <2> QED
    BY <2>1, <2>4
<1>6. \A i \in 1..Len(p) : Reading(p)[i] = Unquoted[p[i]]
  BY <1>1 DEF Reading
<1>7. Last(Reading(p)) = Unquoted[Last(p)]
  <2>1. Len(p) \in 1..Len(p)
    BY <1>1
  <2> QED
    BY <1>5, <1>6, <2>1 DEF Last
<1>8. Reading(p) # <<>>
  BY <1>1, <1>5, EmptySeq
<1> QED
  BY <1>3, <1>5, <1>6, <1>7, <1>8 DEF Path

LEMMA WrittenIs ==
  ASSUME NEW list, \A p \in DOMAIN list : p \in Path, ~Refused(list)
  PROVE  /\ \A p \in DOMAIN list : Readable(p)
         /\ \A g \in Written(list) : \E p \in DOMAIN list :
              g.path = Reading(p) /\ g.mode = list[p].mode /\ g.data = list[p].data
         /\ \A p \in DOMAIN list : \E g \in Written(list) :
              g.path = Reading(p) /\ g.mode = list[p].mode /\ g.data = list[p].data
         /\ \A g \in Written(list) : g.path \in Path
<1>1. \A p \in DOMAIN list : Readable(p)
  BY DEF Refused, Readable
<1>2. Written(list) = {[path |-> Reading(p), mode |-> list[p].mode, data |-> list[p].data] : p \in DOMAIN list}
  BY DEF Written, Reading
<1>3. \A g \in Written(list) : \E p \in DOMAIN list :
              g.path = Reading(p) /\ g.mode = list[p].mode /\ g.data = list[p].data
  BY <1>2
<1>4. ASSUME NEW p \in DOMAIN list
      PROVE  \E g \in Written(list) :
              g.path = Reading(p) /\ g.mode = list[p].mode /\ g.data = list[p].data
  <2> DEFINE g == [path |-> Reading(p), mode |-> list[p].mode, data |-> list[p].data]
  <2>1. g \in Written(list)
    BY <1>2
  <2>2. g.path = Reading(p) /\ g.mode = list[p].mode /\ g.data = list[p].data
    OBVIOUS
  <2> QED
    BY <2>1, <2>2
<1>5. \A g \in Written(list) : g.path \in Path
  BY <1>1, <1>3, ReadingIs
<1> QED
  BY <1>1, <1>3, <1>4, <1>5

-----------------------------------------------------------------------------
(* The invariant *)

(* The reports and the exit code of swhap inspect. *)
Reported ==
  /\ \A i \in DOMAIN reports : reports[i].codes \subseteq Extraction \cup Budget
  /\ exit \in {0, 1, 10, 11}

(* Nothing is extracted that inspect has rejected. *)
Accepted ==
  phase \notin {"inspect", "rejected"} =>
    \A i \in Archives : InspectArchive(recipe[i]).codes = {}

(* The tree of source_code/<dir>, and what the walk lost of it. *)
Rooted ==
  /\ recipe \in Recipe /\ taken \in 0..Len(recipe)
  /\ IsTree(tree)
  /\ unread \subseteq Directories(tree) \cup {<<>>}

(* What each phase has from the one before. *)
Walked ==
  /\ phase \in {"write", "check", "done"} => taken = Len(recipe) /\ entries = Walk(tree, unread)
  /\ phase \in {"check", "done"} => objects = Written(entries) /\ ~Refused(entries)
  /\ phase = "done" /\ Certified =>
       \E view \in Views(objects), man \in Loaded(Manifest(Members)) : findings = TF(view, man)

Listings ==
  /\ \A p \in DOMAIN entries : p \in Path /\ entries[p].mode \in Mode
  /\ \A g \in objects : g.path \in Path /\ g.mode \in Mode
  /\ findings \subseteq {"TF-1", "TF-2", "TF-4", "TF-5"}
  /\ phase \in {"inspect", "rejected", "extract", "write", "check", "done", "failed"}

ReleaseInv == Reported /\ Accepted /\ Rooted /\ Walked /\ Listings

LEMMA RecipeIs ==
  ASSUME NEW r \in Recipe
  PROVE  /\ Len(r) \in Nat \ {0} /\ DOMAIN r = 1..Len(r)
         /\ \A i \in DOMAIN r : IsSource(r[i])
<1>1. r \in Seq(ToSet(r)) /\ r # <<>> /\ \A i \in DOMAIN r : IsSource(r[i])
  BY RecipeAssumption
<1>2. Len(r) \in Nat \ {0} /\ DOMAIN r = 1..Len(r)
  BY <1>1, EmptySeq
<1> QED
  BY <1>1, <1>2

LEMMA ReportIs ==
  ASSUME NEW source
  PROVE  /\ InspectArchive(source).codes \subseteq Extraction \cup Budget
         /\ InspectArchive(source).exit \in {0, 10, 11}
<1>1. Rejections(source.members, source.size) \subseteq Extraction \cup Budget
  BY DEF Rejections, OfMember, OfArchive, Extraction, Budget
<1>2. {"EX-FORMAT"} \subseteq Extraction \cup Budget
  BY DEF Extraction
<1>3. InspectArchive(source).codes \subseteq Extraction \cup Budget
  BY <1>1, <1>2 DEF InspectArchive
<1>4. \A codes : ExitCodeForCodes(codes) \in {0, 10, 11}
  BY DEF ExitCodeForCodes
<1>5. InspectArchive(source).exit \in {0, 10, 11}
  BY <1>4 DEF InspectArchive
<1> QED
  BY <1>3, <1>5

LEMMA WorstIs ==
  ASSUME NEW codes, NEW n \in Nat \ {0}, DOMAIN codes = 1..n, \A i \in 1..n : codes[i] \in {0, 10, 11}
  PROVE  Worst(codes) \in {0, 10, 11}
<1> DEFINE S == ToSet(codes)
<1>1. S = {codes[i] : i \in 1..n}
  BY DEF ToSet
<1>2. S \subseteq {0, 10, 11}
  BY <1>1
<1>3. S # {}
  <2>1. 1 \in 1..n
    OBVIOUS
  <2> QED
    BY <1>1, <2>1
<1> HIDE DEF S
<1>4. S \in SUBSET Nat /\ \A m \in S : m <= 11
  BY <1>2
<1>5. \E x \in S : \A y \in S : y <= x
  BY <1>3, <1>4, LastExists
<1>6. \E x \in S : \A y \in S : x >= y
  BY <1>4, <1>5
<1>7. Max(S) \in S
  BY <1>6 DEF Max
<1> QED
  BY <1>2, <1>7 DEF Worst, S

LEMMA ReleaseInit == Init => ReleaseInv
<1> SUFFICES ASSUME Init PROVE ReleaseInv
  OBVIOUS
<1> DEFINE none == <<>>
<1>0. DOMAIN none = {} /\ IsTree(none)
  <2>1. DOMAIN none = {}
    OBVIOUS
  <2> HIDE DEF none
  <2> QED
    BY <2>1, FS_EmptySet DEF IsTree
<1> HIDE DEF none
<1>1. /\ recipe \in Recipe /\ reports = none /\ exit = 0 /\ taken = 0 /\ phase = "inspect"
      /\ tree = none /\ entries = none /\ unread = {} /\ objects = {} /\ findings = {}
  BY DEF Init, none
<1>2. Reported
  BY <1>0, <1>1 DEF Reported
<1>3. Accepted
  BY <1>1 DEF Accepted
<1>4. Rooted
  <2>1. Len(recipe) \in Nat \ {0}
    BY <1>1, RecipeIs
  <2> QED
    BY <1>0, <1>1, <2>1 DEF Rooted
<1>5. Walked
  BY <1>1 DEF Walked
<1>6. Listings
  BY <1>0, <1>1 DEF Listings
<1> QED
  BY <1>2, <1>3, <1>4, <1>5, <1>6 DEF ReleaseInv

LEMMA ReleaseStutters ==
  ASSUME ReleaseInv, UNCHANGED vars
  PROVE  ReleaseInv'
<1>1. Reported'
  BY DEF ReleaseInv, Reported, vars
<1>2. Accepted'
  BY DEF ReleaseInv, Accepted, Archives, vars
<1>3. Rooted'
  BY DEF ReleaseInv, Rooted, vars
<1>4. Walked'
  BY DEF ReleaseInv, Walked, Certified, Members, vars
<1>5. Listings'
  BY DEF ReleaseInv, Listings, vars
<1> QED
  BY <1>1, <1>2, <1>3, <1>4, <1>5 DEF ReleaseInv

LEMMA InspectKeepsInv ==
  ASSUME ReleaseInv, InspectSources
  PROVE  ReleaseInv'
<1>0. recipe \in Recipe
  BY DEF ReleaseInv, Rooted
<1>1. Len(recipe) \in Nat \ {0} /\ DOMAIN recipe = 1..Len(recipe)
  BY <1>0, RecipeIs
<1>2. UNCHANGED <<recipe, taken, tree, unread, entries, objects, findings>>
  BY DEF InspectSources
<1>3. Reported'
  <2>1. CASE Archives = DOMAIN recipe
    <3>1. /\ reports' = [i \in DOMAIN recipe |-> InspectArchive(recipe[i])]
          /\ exit' = Worst([i \in DOMAIN recipe |-> reports'[i].exit])
      BY <2>1 DEF InspectSources
    <3>2. \A i \in DOMAIN recipe : /\ reports'[i].codes \subseteq Extraction \cup Budget
                                   /\ reports'[i].exit \in {0, 10, 11}
      BY <3>1, ReportIs
    <3> DEFINE c == [i \in DOMAIN recipe |-> reports'[i].exit]
    <3>3. DOMAIN c = 1..Len(recipe) /\ \A i \in 1..Len(recipe) : c[i] \in {0, 10, 11}
      BY <1>1, <3>2
    <3>4. exit' = Worst(c)
      BY <3>1
    <3> HIDE DEF c
    <3>5. exit' \in {0, 10, 11}
      BY <1>1, <3>3, <3>4, WorstIs
    <3> QED
      BY <3>1, <3>2, <3>5 DEF Reported
  <2>2. CASE Archives # DOMAIN recipe
    BY <2>2 DEF ReleaseInv, Reported, InspectSources
  <2> QED
    BY <2>1, <2>2
<1>4. Accepted'
  BY <1>2 DEF InspectSources, Accepted, Archives
<1>5. Rooted'
  BY <1>2 DEF ReleaseInv, Rooted
<1>6. phase' \in {"extract", "rejected"}
  BY DEF InspectSources
<1>7. Walked'
  BY <1>6 DEF Walked
<1>8. Listings'
  BY <1>2, <1>6 DEF ReleaseInv, Listings
<1> QED
  BY <1>3, <1>4, <1>5, <1>7, <1>8 DEF ReleaseInv

(* The sources that are extracted are trees. *)
LEMMA SourcesAreTrees ==
  ASSUME ReleaseInv, phase \notin {"inspect", "rejected"}, NEW i \in DOMAIN recipe
  PROVE  /\ IsSource(recipe[i]) /\ IsTree(Staged(recipe[i]))
         /\ recipe[i].packed => Sound(recipe[i].members) /\ InspectArchive(recipe[i]).codes = {}
<1>1. IsSource(recipe[i])
  BY RecipeIs DEF ReleaseInv, Rooted
<1>2. recipe[i].packed => InspectArchive(recipe[i]).codes = {}
  BY DEF ReleaseInv, Accepted, Archives
<1> QED
  BY <1>1, <1>2, StagedIsTree, AcceptedIsSound

LEMMA ExtractKeepsInv ==
  ASSUME ReleaseInv, Extract
  PROVE  ReleaseInv'
<1>1. /\ phase = "extract" /\ taken < Len(recipe)
      /\ UNCHANGED <<recipe, reports, exit, unread, entries, objects, findings>>
  BY DEF Extract
<1>2. Len(recipe) \in Nat \ {0} /\ DOMAIN recipe = 1..Len(recipe) /\ taken \in 0..Len(recipe)
  BY RecipeIs DEF ReleaseInv, Rooted
<1>3. taken + 1 \in DOMAIN recipe /\ taken + 1 \in 0..Len(recipe)
  BY <1>1, <1>2
<1>4. IsTree(tree) /\ IsTree(Staged(recipe[taken + 1]))
  BY <1>1, <1>3, SourcesAreTrees DEF ReleaseInv, Rooted
<1>5. \/ phase' = "failed" /\ UNCHANGED <<taken, tree>>
      \/ /\ ~Clash(tree, Staged(recipe[taken + 1]))
         /\ tree' = Moved(tree, Staged(recipe[taken + 1])) /\ taken' = taken + 1
         /\ UNCHANGED phase
  BY DEF Extract
<1>6. Reported'
  BY <1>1 DEF ReleaseInv, Reported
<1>7. Accepted'
  BY <1>1 DEF ReleaseInv, Accepted, Archives
<1>8. Rooted'
  <2>1. CASE UNCHANGED <<taken, tree>>
    BY <1>1, <2>1 DEF ReleaseInv, Rooted
  <2>2. CASE /\ ~Clash(tree, Staged(recipe[taken + 1]))
             /\ tree' = Moved(tree, Staged(recipe[taken + 1])) /\ taken' = taken + 1
    <3> DEFINE s == Staged(recipe[taken + 1])
    <3>1. IsTree(Moved(tree, s)) /\ Directories(tree) \subseteq Directories(Moved(tree, s))
      <4> HIDE DEF s
      <4>1. ~Clash(tree, s) /\ IsTree(s) /\ IsTree(tree)
        BY <1>4, <2>2 DEF s
      <4>2. /\ DOMAIN Moved(tree, s) = DOMAIN tree \cup {Landing(tree, p) : p \in DOMAIN s}
            /\ \A q \in DOMAIN tree : Moved(tree, s)[q].kind = "dir" <=> tree[q].kind = "dir"
            /\ IsTree(Moved(tree, s))
        BY <4>1, MovedIs, ZenonT(60)
      <4> QED
        BY <4>2 DEF Directories
    <3> QED
      BY <1>1, <1>3, <2>2, <3>1 DEF ReleaseInv, Rooted
  <2> QED
    BY <1>5, <2>1, <2>2
<1>9. phase' \in {"extract", "failed"}
  BY <1>1, <1>5
<1>10. Walked'
  BY <1>9 DEF Walked
<1>11. Listings'
  BY <1>1, <1>9 DEF ReleaseInv, Listings
<1> QED
  BY <1>6, <1>7, <1>8, <1>10, <1>11 DEF ReleaseInv

LEMMA ReadTreeKeepsInv ==
  ASSUME ReleaseInv, ReadTree
  PROVE  ReleaseInv'
<1>1. /\ phase = "extract" /\ taken = Len(recipe)
      /\ UNCHANGED <<recipe, reports, exit, taken, tree, objects, findings>>
  BY DEF ReadTree
<1>2. PICK lost \in SUBSET (Directories(tree) \cup {<<>>}) :
        /\ unread' = lost /\ entries' = Walk(tree, lost)
        /\ phase' = IF DOMAIN entries' = {} THEN "failed" ELSE "write"
  BY DEF ReadTree
<1>3. IsTree(tree)
  BY DEF ReleaseInv, Rooted
<1>4. \A p \in DOMAIN Walk(tree, lost) : p \in Path /\ Walk(tree, lost)[p].mode \in Mode
  BY <1>3, WalkIs
<1>5. phase' \in {"failed", "write"}
  BY <1>2
<1>6. Reported' /\ Accepted'
  BY <1>1 DEF ReleaseInv, Reported, Accepted, Archives
<1>7. Rooted'
  BY <1>1, <1>2 DEF ReleaseInv, Rooted
<1>8. Walked'
  BY <1>1, <1>2, <1>5 DEF Walked
<1>9. Listings'
  BY <1>1, <1>2, <1>4, <1>5 DEF ReleaseInv, Listings
<1> QED
  BY <1>6, <1>7, <1>8, <1>9 DEF ReleaseInv

LEMMA WriteTreeKeepsInv ==
  ASSUME ReleaseInv, WriteTree
  PROVE  ReleaseInv'
<1>1. /\ phase = "write"
      /\ UNCHANGED <<recipe, reports, exit, taken, tree, unread, entries, findings>>
  BY DEF WriteTree
<1>2. \/ phase' = "failed" /\ UNCHANGED objects
      \/ ~Refused(entries) /\ phase' = "check" /\ objects' = Written(entries)
  BY DEF WriteTree
<1>3. \A p \in DOMAIN entries : p \in Path /\ entries[p].mode \in Mode
  BY DEF ReleaseInv, Listings
<1>4. ~Refused(entries) => \A g \in Written(entries) : g.path \in Path /\ g.mode \in Mode
  BY <1>3, WrittenIs
<1>5. Reported' /\ Accepted'
  BY <1>1 DEF ReleaseInv, Reported, Accepted, Archives
<1>6. Rooted'
  BY <1>1 DEF ReleaseInv, Rooted
<1>7. Walked'
  <2>1. taken = Len(recipe) /\ entries = Walk(tree, unread)
    BY <1>1 DEF ReleaseInv, Walked
  <2>2. Refused(entries)' <=> Refused(entries)
    BY <1>1 DEF Refused, Unplannable
  <2>3. Written(entries)' = Written(entries)
    BY <1>1 DEF Written
  <2> QED
    BY <1>1, <1>2, <2>1, <2>2, <2>3 DEF Walked
<1>8. Listings'
  BY <1>1, <1>2, <1>3, <1>4 DEF ReleaseInv, Listings
<1> QED
  BY <1>5, <1>6, <1>7, <1>8 DEF ReleaseInv

LEMMA CheckKeepsInv ==
  ASSUME ReleaseInv, Check
  PROVE  ReleaseInv'
<1>1. /\ phase = "check" /\ phase' = "done"
      /\ UNCHANGED <<recipe, reports, exit, taken, tree, unread, entries, objects>>
  BY DEF Check
<1>2. IF Certified
        THEN \E view \in Views(objects), man \in Loaded(Manifest(Members)) :
               findings' = TF(view, man)
        ELSE UNCHANGED findings
  BY DEF Check
<1>3. Reported' /\ Accepted'
  BY <1>1 DEF ReleaseInv, Reported, Accepted, Archives
<1>4. Rooted'
  BY <1>1 DEF ReleaseInv, Rooted
<1>5. Walked'
  BY <1>1, <1>2 DEF ReleaseInv, Walked, Certified, Members
<1>6. \A view, man : TF(view, man) \subseteq {"TF-1", "TF-2", "TF-4", "TF-5"}
  BY DEF TF
<1>7. findings' \subseteq {"TF-1", "TF-2", "TF-4", "TF-5"}
  BY <1>2, <1>6, ZenonT(60) DEF ReleaseInv, Listings
<1>8. Listings'
  BY <1>1, <1>7 DEF ReleaseInv, Listings
<1> QED
  BY <1>3, <1>4, <1>5, <1>8 DEF ReleaseInv

(* From the archives to the checks, every stage works on what the stage    *)
(* before it left: nothing is extracted that inspect rejected, the blobs   *)
(* are those of the walk, the findings those of the blobs (ReleaseInv).    *)
THEOREM ReleaseCorrect == Spec => []ReleaseInv
<1>1. Init => ReleaseInv
  BY ReleaseInit
<1>2. ReleaseInv /\ [Next]_vars => ReleaseInv'
  BY ReleaseStutters, InspectKeepsInv, ExtractKeepsInv, ReadTreeKeepsInv, WriteTreeKeepsInv,
     CheckKeepsInv DEF Next
<1> QED
  BY <1>1, <1>2, PTL DEF Spec

LEMMA InvIsTypeOK ==
  ASSUME ReleaseInv
  PROVE  TypeOK
<1>1. \A p \in DOMAIN tree : p \in Path /\ tree[p].kind \in Kind
  BY NodeIs DEF ReleaseInv, Rooted
<1>2. unread \subseteq DOMAIN tree \cup {<<>>}
  BY DEF ReleaseInv, Rooted, Directories
<1> QED
  BY <1>1, <1>2 DEF ReleaseInv, Reported, Rooted, Listings, TypeOK

(* TypeOK, of a release from any recipe.                                   *)
THEOREM TypeCorrect == Spec => []TypeOK
<1>1. ReleaseInv => TypeOK
  BY InvIsTypeOK
<1> QED
  BY <1>1, ReleaseCorrect, PTL

-----------------------------------------------------------------------------
(* The sources one over the other *)

SharedIn(r, n) ==
  \E i, j \in 1..n : i < j /\ \E p \in Tops(Staged(r[j])) : p \in Directories(Staged(r[i]))

ArrivedIn(r, n, t) ==
  /\ DOMAIN t = UNION {DOMAIN Staged(r[i]) : i \in 1..n}
  /\ \A i \in 1..n : \A p \in DOMAIN Staged(r[i]) :
       (\A j \in (i + 1)..n : p \notin DOMAIN Staged(r[j])) => t[p] = Staged(r[i])[p]

(* A path that no source has, below a name that it has twice. *)
IsStray(p, r, n, t) ==
  /\ p \in DOMAIN t /\ Len(p) >= 2 /\ p[2] = p[1]
  /\ \A i \in 1..n : p \notin DOMAIN Staged(r[i])

(* The directories at the top of the tree are those of the sources; when   *)
(* two share one, the later one has left a stray.                          *)
Merged(r, n, t) ==
  /\ \A p \in Directories(t) : Len(p) = 1 => \E i \in 1..n : p \in Directories(Staged(r[i]))
  /\ \A i \in 1..n : \A p \in Directories(Staged(r[i])) : Len(p) = 1 => p \in Directories(t)
  /\ \A i \in 1..n : \A a \in Name : Twice(a) \in DOMAIN Staged(r[i]) => Twice(a) \in DOMAIN t
  /\ ~SharedIn(r, n) => ArrivedIn(r, n, t)
  /\ SharedIn(r, n) => \E p \in DOMAIN t : IsStray(p, r, n, t)

(* Of finitely many paths, one is a longest.                               *)
LEMMA LongestExists ==
  ASSUME NEW Q \in SUBSET Path, IsFiniteSet(Q), Q # {}
  PROVE  \E q \in Q : \A u \in Q : Len(u) <= Len(q)
<1> DEFINE f == [q \in Q |-> Len(q)]
           L == {f[q] : q \in DOMAIN f}
<1>1. DOMAIN f = Q /\ f = [x \in DOMAIN f |-> f[x]] /\ \A q \in Q : f[q] = Len(q)
  OBVIOUS
<1>2. \A q \in Q : Len(q) \in Nat
  BY FirstIs
<1> HIDE DEF f
<1>3. IsFiniteSet(L)
  BY <1>1, ImageFinite
<1>4. L \in SUBSET Nat /\ L # {}
  BY <1>1, <1>2
<1>5. PICK b \in Nat : \A n \in L : n <= b
  BY <1>3, <1>4, FiniteIsBounded
<1>6. PICK n \in L : \A m \in L : m <= n
  BY <1>4, <1>5, LastExists
<1>7. PICK q \in Q : n = Len(q)
  BY <1>1, <1>6
<1>8. \A u \in Q : Len(u) <= Len(q)
  BY <1>1, <1>6, <1>7
<1> QED
  BY <1>8

(* A source with a name at its top that is a directory of the tree already *)
(* leaves a stray.                                                         *)
LEMMA StrayAppears ==
  ASSUME NEW r, NEW n \in Nat, NEW t, IsTree(t), Merged(r, n, t),
         \A i \in 1..(n + 1) : IsTree(Staged(r[i])), ~Clash(t, Staged(r[n + 1])),
         NEW p \in Tops(Staged(r[n + 1])), p \in Directories(t)
  PROVE  \E q : IsStray(q, r, n + 1, Moved(t, Staged(r[n + 1])))
<1> DEFINE s == Staged(r[n + 1])
           M == Moved(t, s)
           a == p[1]
<1>1. n + 1 \in 1..(n + 1) /\ IsTree(s) /\ ~Clash(t, s) /\ p \in DOMAIN s /\ Len(p) = 1 /\ p \in Tops(s)
  BY DEF Tops
<1> HIDE DEF s
<1>2. p \in Path /\ p = Top(a) /\ a \in Name
  BY <1>1, NodeIs, FirstIs
<1>3. Occupied(t, p) /\ Landing(t, p) = Top(a) \o p
  BY <1>2, LandingIs
<1>4. Twice(a) \notin DOMAIN t
  <2>1. Landing(t, p) = Twice(a)
    BY <1>2, <1>3, TopPathIs
  <2> QED
    BY <1>1, <1>3, <2>1 DEF Clash
<1>5. PICK q \in DOMAIN s : q[1] = a /\ \A u \in DOMAIN s : u[1] = a => Len(u) <= Len(q)
  <2> DEFINE Q == {u \in DOMAIN s : u[1] = a}
  <2>1. Q \in SUBSET DOMAIN s /\ Q # {}
    BY <1>1
  <2>2. Q \in SUBSET Path /\ IsFiniteSet(Q)
    BY <1>1, <2>1, NodeIs, FS_Subset DEF IsTree
  <2> HIDE DEF Q
  <2>3. PICK q \in Q : \A u \in Q : Len(u) <= Len(q)
    BY <2>1, <2>2, LongestExists
  <2> QED
    BY <2>3 DEF Q
<1>6. q \in Path /\ Len(q) \in Nat \ {0}
  BY <1>1, NodeIs
<1> DEFINE z == Landing(t, q)
<1>7. Occupied(t, q)
  BY <1>2, <1>5, <1>6, LandingIs
<1>8. z[1] = a /\ z[2] = a /\ Len(z) = Len(q) + 1
  BY <1>5, <1>6, <1>7, LandingIs
<1>9. z \in DOMAIN M
  <2>1. DOMAIN M = DOMAIN t \cup {Landing(t, u) : u \in DOMAIN s}
    BY <1>1, MovedIs
  <2> QED
    BY <2>1
<1> HIDE DEF z
<1>10. z \notin DOMAIN s
  BY <1>5, <1>6, <1>8
<1>11. Len(z) >= 2
  BY <1>6, <1>8
<1>12. ASSUME NEW i \in 1..n
       PROVE  z \notin DOMAIN Staged(r[i])
  <2>1. i \in 1..(n + 1)
    OBVIOUS
  <2>2. IsTree(Staged(r[i]))
    BY <2>1
  <2>3. z \in DOMAIN Staged(r[i]) => Twice(a) \in DOMAIN Staged(r[i])
    BY <1>8, <1>11, <2>2, TwiceIs
  <2> QED
    BY <1>2, <1>4, <2>3 DEF Merged
<1>13. \A i \in 1..(n + 1) : i \in 1..n \/ i = n + 1
  OBVIOUS
<1>14. \A i \in 1..(n + 1) : z \notin DOMAIN Staged(r[i])
  BY <1>10, <1>12, <1>13 DEF s
<1> QED
  BY <1>8, <1>9, <1>11, <1>14 DEF IsStray, s

(* It stays: a later source that has it clashes.                           *)
LEMMA StrayStays ==
  ASSUME NEW r, NEW n \in Nat, NEW t, IsTree(t), NEW z, IsStray(z, r, n, t),
         IsTree(Staged(r[n + 1])), ~Clash(t, Staged(r[n + 1]))
  PROVE  IsStray(z, r, n + 1, Moved(t, Staged(r[n + 1])))
<1> DEFINE s == Staged(r[n + 1])
           a == z[1]
<1> HIDE DEF s
<1>0. IsTree(s) /\ ~Clash(t, s) /\ z \in DOMAIN t /\ Len(z) >= 2 /\ z[2] = z[1]
  BY DEF s, IsStray
<1>1. Twice(a) \in DOMAIN t /\ Top(a) \in Directories(t) /\ a \in Name
  BY <1>0, TwiceIs
<1>2. z \notin DOMAIN s
  <2>1. SUFFICES ASSUME z \in DOMAIN s PROVE FALSE
    OBVIOUS
  <2>2. Top(a) \in Tops(s)
    BY <1>0, <2>1, TopIs
  <2>3. Top(a) \in Path /\ Top(a)[1] = a /\ Top(a) \o Top(a) = Twice(a)
    BY <1>1, TopPathIs
  <2>4. Occupied(t, Top(a)) /\ Landing(t, Top(a)) = Twice(a)
    <3>1. Occupied(t, Top(a))
      BY <1>1, <2>3, LandingIs
    <3>2. Landing(t, Top(a)) = Top(Top(a)[1]) \o Top(a)
      BY <2>3, <3>1, LandingIs
    <3> QED
      BY <2>3, <3>1, <3>2
  <2> QED
    BY <1>0, <1>1, <2>2, <2>4 DEF Clash
<1>3. z \in DOMAIN Moved(t, s)
  <2>1. DOMAIN Moved(t, s) = DOMAIN t \cup {Landing(t, p) : p \in DOMAIN s}
    BY <1>0, MovedIs
  <2> QED
    BY <1>0, <2>1
<1>4. \A i \in 1..(n + 1) : i \in 1..n \/ i = n + 1
  OBVIOUS
<1>5. \A i \in 1..(n + 1) : z \notin DOMAIN Staged(r[i])
  BY <1>2, <1>4 DEF IsStray, s
<1> QED
  BY <1>0, <1>3, <1>5 DEF IsStray, s

LEMMA MergeStep ==
  ASSUME NEW r, NEW n \in Nat, NEW t, IsTree(t), Merged(r, n, t),
         \A i \in 1..(n + 1) : IsTree(Staged(r[i])), ~Clash(t, Staged(r[n + 1]))
  PROVE  Merged(r, n + 1, Moved(t, Staged(r[n + 1])))
<1> DEFINE s == Staged(r[n + 1])
           M == Moved(t, s)
<1>0. n + 1 \in 1..(n + 1) /\ \A i \in 1..n : i \in 1..(n + 1)
  OBVIOUS
<1>1. \A i \in 1..(n + 1) : i \in 1..n \/ i = n + 1
  OBVIOUS
<1>2. IsTree(s) /\ ~Clash(t, s)
  BY <1>0
<1>3. /\ DOMAIN M = DOMAIN t \cup {Landing(t, p) : p \in DOMAIN s}
      /\ \A p \in DOMAIN s : M[Landing(t, p)] = s[p]
      /\ \A q \in DOMAIN t : (\A p \in DOMAIN s : Landing(t, p) # q) => M[q] = t[q]
      /\ \A q \in DOMAIN t : M[q].kind = "dir" <=> t[q].kind = "dir"
      /\ IsTree(M)
  <2> HIDE DEF s
  <2> QED
    BY <1>2, MovedIs
<1>4. \A p \in DOMAIN s : p \in Path /\ Len(p) \in Nat \ {0}
  BY <1>2, NodeIs
<1> HIDE DEF M
<1>5. ASSUME NEW p \in Directories(M), Len(p) = 1
      PROVE  \E i \in 1..(n + 1) : p \in Directories(Staged(r[i]))
  <2>1. CASE p \in DOMAIN t
    <3>1. p \in Directories(t)
      BY <1>3, <1>5, <2>1 DEF Directories
    <3> QED
      BY <1>0, <1>5, <3>1 DEF Merged
  <2>2. CASE p \notin DOMAIN t
    <3>1. PICK u \in DOMAIN s : p = Landing(t, u)
      BY <1>3, <1>5, <2>2 DEF Directories
    <3>2. u \in Path /\ Len(u) \in Nat \ {0}
      BY <1>4
    <3>3. ~Occupied(t, u)
      <4>1. Occupied(t, u) => Len(p) = Len(u) + 1
        BY <3>1, <3>2, LandingIs
      <4> QED
        BY <1>5, <3>2, <4>1
    <3>4. p = u
      BY <3>1, <3>2, <3>3, LandingIs
    <3>5. M[p] = s[p] /\ p \in DOMAIN s
      BY <1>3, <3>1, <3>4
    <3>6. p \in Directories(s)
      BY <1>5, <3>5 DEF Directories
    <3> QED
      BY <1>0, <3>6
  <2> QED
    BY <2>1, <2>2
<1>6. ASSUME NEW i \in 1..(n + 1), NEW p \in Directories(Staged(r[i])), Len(p) = 1
      PROVE  p \in Directories(M)
  <2>1. Directories(t) \subseteq Directories(M)
    BY <1>3 DEF Directories
  <2>2. CASE i \in 1..n
    BY <1>6, <2>1, <2>2 DEF Merged
  <2>3. CASE i = n + 1
    <3>1. p \in Directories(s) /\ p \in DOMAIN s
      BY <2>3 DEF Directories
    <3>2. p \in Path /\ p = Top(p[1])
      BY <1>4, <1>6, <3>1, FirstIs
    <3>3. Occupied(t, p) => p \in Directories(t)
      BY <3>2, LandingIs
    <3>4. ~Occupied(t, p) => M[p] = s[p] /\ p \in DOMAIN M
      <4>1. ~Occupied(t, p) => Landing(t, p) = p
        BY <3>2, LandingIs
      <4> QED
        BY <1>3, <3>1, <4>1
    <3> QED
      BY <2>1, <3>1, <3>3, <3>4 DEF Directories
  <2> QED
    BY <1>1, <2>2, <2>3
<1>7. ASSUME NEW i \in 1..(n + 1), NEW a \in Name, Twice(a) \in DOMAIN Staged(r[i])
      PROVE  Twice(a) \in DOMAIN M
  <2>1. CASE i \in 1..n
    BY <1>3, <1>7, <2>1 DEF Merged
  <2>2. CASE i = n + 1
    <3>1. Twice(a) \in DOMAIN s /\ Len(Twice(a)) > 1 /\ Twice(a)[1] = a /\ Twice(a) \in Path
      BY <1>4, <1>7, <2>2, TopPathIs
    <3>2. Top(a) \in DOMAIN s /\ Top(a) \in Path /\ Top(a)[1] = a /\ Top(a) \o Top(a) = Twice(a)
      <4> HIDE DEF s
      <4>1. Top(Twice(a)[1]) \in DOMAIN s
        BY <1>2, <3>1, TopIs
      <4> QED
        BY <3>1, <4>1, TopPathIs
    <3>3. CASE Occupied(t, Top(a))
      <4>1. Landing(t, Top(a)) = Top(Top(a)[1]) \o Top(a)
        BY <3>2, <3>3, LandingIs
      <4> QED
        BY <1>3, <3>2, <4>1
    <3>4. CASE ~Occupied(t, Top(a))
      <4>1. ~Occupied(t, Twice(a))
        <5>1. Occupied(t, Top(a)) <=> Top(Top(a)[1]) \in Directories(t)
          BY <3>2, LandingIs
        <5>2. Occupied(t, Twice(a)) <=> Top(Twice(a)[1]) \in Directories(t)
          BY <3>1, LandingIs
        <5> QED
          BY <3>1, <3>2, <3>4, <5>1, <5>2
      <4>2. Landing(t, Twice(a)) = Twice(a)
        BY <3>1, <4>1, LandingIs
      <4> QED
        BY <1>3, <3>1, <4>2
    <3> QED
      BY <3>3, <3>4
  <2> QED
    BY <1>1, <2>1, <2>2
<1>8. SharedIn(r, n) => SharedIn(r, n + 1)
  BY <1>0 DEF SharedIn
<1>9. ASSUME ~SharedIn(r, n + 1)
      PROVE  ArrivedIn(r, n + 1, M)
  <2>1. ArrivedIn(r, n, t)
    BY <1>8, <1>9 DEF Merged
  <2>2. ASSUME NEW p \in DOMAIN s
        PROVE  ~Occupied(t, p) /\ Landing(t, p) = p
    <3>1. Top(p[1]) \in Tops(s) /\ p \in Path
      <4> HIDE DEF s
      <4> QED
        BY <1>2, <1>4, TopIs
    <3>2. ASSUME Top(p[1]) \in Directories(t) PROVE FALSE
      <4>1. Len(Top(p[1])) = 1
        BY <3>1, FirstIs, TopPathIs
      <4>2. PICK i \in 1..n : Top(p[1]) \in Directories(Staged(r[i]))
        BY <3>2, <4>1 DEF Merged
      <4>3. i < n + 1 /\ i \in 1..(n + 1)
        OBVIOUS
      <4> QED
        BY <1>0, <1>9, <3>1, <4>2, <4>3 DEF SharedIn
    <3> QED
      BY <3>1, <3>2, LandingIs
  <2>3. {Landing(t, p) : p \in DOMAIN s} = DOMAIN s
    BY <2>2
  <2>4. DOMAIN M = DOMAIN t \cup DOMAIN s
    BY <1>3, <2>3
  <2>5. \A p \in DOMAIN s : M[p] = s[p]
    BY <1>3, <2>2
  <2>6. \A p \in DOMAIN t \ DOMAIN s : M[p] = t[p]
    BY <1>3, <2>2
  <2>7. DOMAIN M = UNION {DOMAIN Staged(r[i]) : i \in 1..(n + 1)}
    <3>1. UNION {DOMAIN Staged(r[i]) : i \in 1..(n + 1)} =
            (UNION {DOMAIN Staged(r[i]) : i \in 1..n}) \cup DOMAIN Staged(r[n + 1])
      BY <1>0, <1>1
    <3> QED
      BY <2>1, <2>4, <3>1 DEF ArrivedIn
  <2>8. ASSUME NEW i \in 1..(n + 1), NEW p \in DOMAIN Staged(r[i]),
               \A j \in (i + 1)..(n + 1) : p \notin DOMAIN Staged(r[j])
        PROVE  M[p] = Staged(r[i])[p]
    <3>1. CASE i = n + 1
      BY <2>5, <3>1
    <3>2. CASE i \in 1..n
      <4>1. n + 1 \in (i + 1)..(n + 1) /\ \A j \in (i + 1)..n : j \in (i + 1)..(n + 1)
        BY <3>2
      <4>2. p \notin DOMAIN s /\ \A j \in (i + 1)..n : p \notin DOMAIN Staged(r[j])
        BY <2>8, <4>1
      <4>3. p \in DOMAIN t /\ t[p] = Staged(r[i])[p]
        BY <2>1, <3>2, <4>2 DEF ArrivedIn
      <4> QED
        BY <2>6, <4>2, <4>3
    <3> QED
      BY <1>1, <3>1, <3>2
  <2> QED
    BY <2>7, <2>8 DEF ArrivedIn
<1>10. ASSUME SharedIn(r, n + 1)
       PROVE  \E p \in DOMAIN M : IsStray(p, r, n + 1, M)
  <2>1. \E p : IsStray(p, r, n + 1, M)
    <3>1. CASE SharedIn(r, n)
      <4>1. PICK z : IsStray(z, r, n, t)
        BY <3>1 DEF Merged
      <4>2. IsStray(z, r, n + 1, M)
        BY <1>2, <4>1, StrayStays DEF M
      <4> QED
        BY <4>2
    <3>2. CASE ~SharedIn(r, n)
      <4>0. PICK i \in 1..(n + 1), j \in 1..(n + 1) :
              i < j /\ \E p \in Tops(Staged(r[j])) : p \in Directories(Staged(r[i]))
        BY <1>10 DEF SharedIn
      <4>1. PICK p \in Tops(Staged(r[j])) : i < j /\ p \in Directories(Staged(r[i]))
        BY <4>0
      <4>2. i \in 1..n
        BY <4>1
      <4>3. j = n + 1
        BY <1>1, <3>2, <4>1, <4>2 DEF SharedIn
      <4>4. p \in Directories(t)
        <5>1. Len(p) = 1
          BY <4>1 DEF Tops
        <5> QED
          BY <4>1, <4>2, <5>1 DEF Merged
      <4>5. \E q : IsStray(q, r, n + 1, Moved(t, Staged(r[n + 1])))
        BY <1>2, <4>1, <4>3, <4>4, StrayAppears
      <4> QED
        BY <4>5 DEF M
    <3> QED
      BY <3>1, <3>2
  <2> QED
    BY <2>1 DEF IsStray
<1> QED
  BY <1>5, <1>6, <1>7, <1>9, <1>10 DEF Merged, M

LEMMA MergedDecides ==
  ASSUME NEW r, NEW n, NEW t, Merged(r, n, t)
  PROVE  ArrivedIn(r, n, t) <=> ~SharedIn(r, n)
<1>1. ~SharedIn(r, n) => ArrivedIn(r, n, t)
  BY DEF Merged
<1>2. ASSUME SharedIn(r, n), ArrivedIn(r, n, t) PROVE FALSE
  <2>1. PICK p \in DOMAIN t : \A i \in 1..n : p \notin DOMAIN Staged(r[i])
    BY <1>2 DEF Merged, IsStray
  <2> QED
    BY <1>2, <2>1 DEF ArrivedIn
<1> QED
  BY <1>1, <1>2

(* However many sources there are, after each of them the tree is theirs,  *)
(* or has a stray node in it: shutil.move does not merge (Merged).  A move *)
(* that fails leaves the tree as it is.                                    *)
THEOREM ReleaseMerges == Spec => [](ReleaseInv /\ Merged(recipe, taken, tree))
<1> DEFINE I == ReleaseInv /\ Merged(recipe, taken, tree)
<1>1. Init => I
  <2> SUFFICES ASSUME Init PROVE Merged(recipe, taken, tree)
    BY ReleaseInit
  <2> DEFINE none == <<>>
  <2>1. DOMAIN none = {}
    OBVIOUS
  <2> HIDE DEF none
  <2>2. tree = none /\ taken = 0 /\ 1..0 = {}
    BY DEF Init, none
  <2>3. Directories(none) = {}
    BY <2>1 DEF Directories
  <2>4. ArrivedIn(recipe, 0, none)
    BY <2>1, <2>2 DEF ArrivedIn
  <2>5. ~SharedIn(recipe, 0)
    BY <2>2 DEF SharedIn
  <2> QED
    BY <2>2, <2>3, <2>4, <2>5 DEF Merged
<1>2. I /\ [Next]_vars => I'
  <2> SUFFICES ASSUME I, [Next]_vars PROVE I'
    OBVIOUS
  <2>1. ReleaseInv'
    BY ReleaseStutters, InspectKeepsInv, ExtractKeepsInv, ReadTreeKeepsInv, WriteTreeKeepsInv,
       CheckKeepsInv DEF Next
  <2>2. CASE Extract
    <3>1. /\ phase = "extract" /\ taken < Len(recipe) /\ UNCHANGED recipe
          /\ \/ UNCHANGED <<taken, tree>>
             \/ /\ ~Clash(tree, Staged(recipe[taken + 1]))
                /\ tree' = Moved(tree, Staged(recipe[taken + 1])) /\ taken' = taken + 1
      BY <2>2 DEF Extract
    <3>2. IsTree(tree) /\ taken \in Nat /\ Len(recipe) \in Nat /\ DOMAIN recipe = 1..Len(recipe)
      BY RecipeIs DEF ReleaseInv, Rooted
    <3>3. \A i \in 1..(taken + 1) : IsTree(Staged(recipe[i]))
      <4>1. \A i \in 1..(taken + 1) : i \in DOMAIN recipe
        BY <3>1, <3>2
      <4> QED
        BY <3>1, <4>1, SourcesAreTrees
    <3>4. CASE UNCHANGED <<taken, tree>>
      BY <2>1, <3>1, <3>4
    <3>5. CASE /\ ~Clash(tree, Staged(recipe[taken + 1]))
               /\ tree' = Moved(tree, Staged(recipe[taken + 1])) /\ taken' = taken + 1
      <4>1. Merged(recipe, taken + 1, Moved(tree, Staged(recipe[taken + 1])))
        BY <3>2, <3>3, <3>5, MergeStep
      <4> QED
        BY <2>1, <3>1, <3>5, <4>1
    <3> QED
      BY <3>1, <3>4, <3>5
  <2>3. CASE UNCHANGED <<recipe, taken, tree>>
    BY <2>1, <2>3
  <2> QED
    BY <2>2, <2>3 DEF Next, InspectSources, ReadTree, WriteTree, Check, vars
<1> QED
  BY <1>1, <1>2, PTL DEF Spec

(* Every source arrives where it says, a later one over an earlier one, if *)
(* and only if no two share a directory at their top (PatchesArrive).      *)
THEOREM SourcesArrive == Spec => []PatchesArrive
<1>1. ReleaseInv /\ Merged(recipe, taken, tree) => PatchesArrive
  <2> SUFFICES ASSUME Merged(recipe, taken, tree) PROVE PatchesArrive
    OBVIOUS
  <2>1. Arrived(tree) <=> ArrivedIn(recipe, taken, tree)
    BY DEF Arrived, ArrivedIn
  <2>2. SharedDirectory <=> SharedIn(recipe, taken)
    BY DEF SharedDirectory, SharedIn
  <2> QED
    BY <2>1, <2>2, MergedDecides DEF PatchesArrive
<1> QED
  BY <1>1, ReleaseMerges, PTL

-----------------------------------------------------------------------------
(* What the manifest says of the members *)

(* A surjection from no more than there are on its right side has no two   *)
(* with one image.                                                         *)
LEMMA NoTwo ==
  ASSUME NEW F, NEW K, NEW P, NEW Q, IsFiniteSet(F), Q \subseteq P,
         NEW a \in Injection(F, Q), NEW k \in Injection(K, F), NEW r \in Surjection(K, P)
  PROVE  r \in Injection(K, P)
<1>1. IsFiniteSet(K) /\ Cardinality(K) <= Cardinality(F)
  BY FS_Injection
<1>2. /\ IsFiniteSet(P) /\ Cardinality(P) <= Cardinality(K)
      /\ Cardinality(P) = Cardinality(K) => r \in Injection(K, P)
  BY <1>1, FS_Surjection
<1>3. IsFiniteSet(Q) /\ Cardinality(Q) <= Cardinality(P)
  BY <1>2, FS_Subset
<1>4. Cardinality(F) <= Cardinality(Q)
  BY <1>3, FS_Injection
<1>5. /\ Cardinality(F) \in Nat /\ Cardinality(K) \in Nat /\ Cardinality(P) \in Nat
      /\ Cardinality(Q) \in Nat
  BY <1>1, <1>2, <1>3, FS_CardinalityType
<1>6. Cardinality(P) = Cardinality(K)
  BY <1>1, <1>2, <1>3, <1>4, <1>5
<1> QED
  BY <1>2, <1>6

(* The member "." and the others. *)
IsDot(p)         == p[1] = "." /\ Len(p) = 1
NormalOf(ms, e)  == Normal(ms[e].path)
NamedAs(ms, e)   == Unwrapped(ms, Normal(ms[e].path))

LEMMA NormalIs ==
  ASSUME NEW ms, Sound(ms), NEW e \in DOMAIN ms
  PROVE  /\ IsDot(ms[e].path) => /\ NormalOf(ms, e) = ms[e].path
                                 /\ Undotted(ms[e].path) = <<>>
                                 /\ Tail(ms[e].path) = <<>>
                                 /\ ms[e].kind = "dir"
         /\ ~IsDot(ms[e].path) => /\ NormalOf(ms, e) = Undotted(ms[e].path)
                                  /\ NormalOf(ms, e) \in Path /\ NormalOf(ms, e)[1] \in Name
                                  /\ NormalOf(ms, e)[1] # "."
<1> DEFINE p == ms[e].path
<1>1. /\ p \in Seq(Component) /\ p # <<>> /\ Len(p) \in Nat \ {0} /\ p[1] \in Name \cup {"."}
  BY MemberIs
<1>2. /\ Undotted(p) \in Seq(Name)
      /\ p[1] # "." => Undotted(p) = p /\ p \in Path
      /\ p[1] = "." => Undotted(p) = Tail(p)
      /\ Undotted(p) = <<>> <=> p = <<".">>
  BY UndottedIs
<1>3. IsDot(p) <=> p = <<".">>
  <2> DEFINE u == <<".">>
  <2>1. u \in Seq(Component) /\ Len(u) = 1 /\ u[1] = "."
    BY DEF Component
  <2> HIDE DEF u
  <2>2. ASSUME IsDot(p) PROVE p = u
    <3>1. Len(p) = 1 /\ p[1] = "."
      BY <2>2 DEF IsDot
    <3>2. \A i \in 1..Len(p) : p[i] = u[i]
      BY <2>1, <3>1
    <3> HIDE DEF p
    <3> QED
      BY <1>1, <2>1, <3>1, <3>2, SeqEqual
  <2>3. p = u => IsDot(p)
    BY <2>1 DEF IsDot
  <2> QED
    BY <2>2, <2>3 DEF u
<1>4. IsMember(ms[e])
  BY DEF Sound, IsArchive
<1> HIDE DEF p
<1>5. ASSUME IsDot(p)
      PROVE  /\ Normal(p) = p /\ Undotted(p) = <<>> /\ Tail(p) = <<>> /\ ms[e].kind = "dir"
  <2>1. Len(p) = 1 /\ p[1] = "."
    BY <1>5 DEF IsDot
  <2>2. Normal(p) = p
    BY <2>1 DEF Normal
  <2>3. ms[e].kind = "dir"
    BY <1>3, <1>4, <1>5 DEF IsMember, p
  <2> QED
    BY <1>2, <1>3, <1>5, <2>1, <2>2, <2>3
<1>6. ASSUME ~IsDot(p)
      PROVE  /\ Normal(p) = Undotted(p) /\ Normal(p) \in Path
  <2>1. Undotted(p) \in Path
    BY <1>2, <1>3, <1>6 DEF Path
  <2>2. CASE p[1] = "."
    <3>1. Len(p) > 1
      BY <1>1, <1>6, <2>2, LongIs DEF IsDot
    <3> QED
      BY <1>2, <2>1, <2>2, <3>1 DEF Normal
  <2>3. CASE p[1] # "."
    BY <1>2, <2>3 DEF Normal
  <2> QED
    BY <2>1, <2>2, <2>3
<1>7. ~IsDot(p) => Normal(p)[1] \in Name /\ Normal(p)[1] # "."
  BY <1>6, FirstIs, InspectAssumption
<1> QED
  BY <1>5, <1>6, <1>7 DEF p, NormalOf

LEMMA NormalInjective ==
  ASSUME NEW ms, Sound(ms), NEW d \in DOMAIN ms, NEW e \in DOMAIN ms,
         NormalOf(ms, d) = NormalOf(ms, e)
  PROVE  d = e
<1>1. CASE IsDot(ms[d].path)
  <2>1. NormalOf(ms, d)[1] = "."
    BY <1>1, NormalIs DEF IsDot
  <2>2. IsDot(ms[e].path)
    BY <2>1, NormalIs
  <2>3. ms[d].path = ms[e].path
    BY <1>1, <2>2, NormalIs
  <2> QED
    BY <2>3 DEF Sound
<1>2. CASE ~IsDot(ms[d].path)
  <2>1. NormalOf(ms, d)[1] # "."
    BY <1>2, NormalIs
  <2>2. ~IsDot(ms[e].path)
    <3>1. IsDot(ms[e].path) => NormalOf(ms, e)[1] = "."
      BY NormalIs DEF IsDot
    <3> QED
      BY <2>1, <3>1
  <2>3. Undotted(ms[d].path) = Undotted(ms[e].path)
    BY <1>2, <2>2, NormalIs
  <2> QED
    BY <2>3 DEF Sound, IsArchive
<1> QED
  BY <1>1, <1>2

(* A path is its first name and the rest. *)
LEMMA HeadIs ==
  ASSUME NEW p \in Path
  PROVE  /\ Tail(p) \in Seq(Name) /\ p = Top(p[1]) \o Tail(p)
         /\ Len(Tail(p)) = Len(p) - 1
         /\ Tail(p) = <<>> <=> Len(p) = 1
<1>1. p \in Seq(Name) /\ Len(p) \in Nat \ {0} /\ p[1] \in Name /\ p # <<>>
  BY FirstIs DEF Path
<1>2. /\ Tail(p) \in Seq(Name) /\ Len(Tail(p)) = Len(p) - 1
      /\ \A i \in 1..Len(Tail(p)) : Tail(p)[i] = p[i + 1]
  BY <1>1, HeadTailProperties
<1>3. Top(p[1]) \in Seq(Name) /\ Len(Top(p[1])) = 1 /\ Top(p[1])[1] = p[1]
  BY <1>1, TopPathIs
<1> DEFINE q == Top(p[1]) \o Tail(p)
<1>4. /\ q \in Seq(Name) /\ Len(q) = Len(Top(p[1])) + Len(Tail(p))
      /\ \A i \in 1..Len(Top(p[1])) : q[i] = Top(p[1])[i]
      /\ \A i \in 1..Len(Tail(p)) : q[Len(Top(p[1])) + i] = Tail(p)[i]
  BY <1>2, <1>3, JoinIs
<1> HIDE DEF q
<1>5. Len(q) = Len(p)
  BY <1>1, <1>2, <1>3, <1>4
<1>6. ASSUME NEW i \in 1..Len(p)
      PROVE  q[i] = p[i]
  <2>1. CASE i = 1
    BY <1>3, <1>4, <2>1
  <2>2. CASE i # 1
    <3>1. i - 1 \in 1..Len(Tail(p)) /\ (i - 1) + 1 = i /\ 1 + (i - 1) = i
      BY <1>1, <1>2, <2>2
    <3>2. q[1 + (i - 1)] = Tail(p)[i - 1]
      BY <1>3, <1>4, <3>1
    <3>3. Tail(p)[i - 1] = p[(i - 1) + 1]
      BY <1>2, <3>1
    <3> QED
      BY <3>1, <3>2, <3>3
  <2> QED
    BY <2>1, <2>2
<1>7. q = p
  BY <1>1, <1>4, <1>5, <1>6, SeqEqual
<1>8. Tail(p) = <<>> <=> Len(p) = 1
  <2>1. Tail(p) = <<>> <=> Len(Tail(p)) = 0
    BY <1>2, EmptySeq
  <2>2. Len(p) - 1 = 0 <=> Len(p) = 1
    BY <1>1
  <2> QED
    BY <1>2, <2>1, <2>2
<1> QED
  BY <1>2, <1>7, <1>8 DEF q

LEMMA JoinPrefix ==
  ASSUME NEW S, NEW d \in Seq(S), NEW p \in Seq(S), NEW q \in Seq(S)
  PROVE  /\ IsPrefix(d \o p, d \o q) <=> IsPrefix(p, q)
         /\ IsStrictPrefix(d \o p, d \o q) <=> IsStrictPrefix(p, q)
<1> DEFINE dp == d \o p
           dq == d \o q
<1>1. Len(d) \in Nat /\ Len(p) \in Nat /\ Len(q) \in Nat
  OBVIOUS
<1>2. /\ dp \in Seq(S) /\ Len(dp) = Len(d) + Len(p)
      /\ \A i \in 1..Len(d) : dp[i] = d[i]
      /\ \A i \in 1..Len(p) : dp[Len(d) + i] = p[i]
  BY JoinIs
<1>3. /\ dq \in Seq(S) /\ Len(dq) = Len(d) + Len(q)
      /\ \A i \in 1..Len(d) : dq[i] = d[i]
      /\ \A i \in 1..Len(q) : dq[Len(d) + i] = q[i]
  BY JoinIs
<1>4. p = q => dp = dq
  OBVIOUS
<1>5. dp = dq => p = q
  BY ConcatSimplifications
<1>6. IsPrefix(dp, dq) <=> Len(dp) <= Len(dq) /\ \A i \in 1..Len(dp) : dp[i] = dq[i]
  <2> HIDE DEF dp, dq
  <2>1. dp \in Seq(S) /\ dq \in Seq(S)
    BY <1>2, <1>3
  <2> QED
    BY <2>1, PrefixIs
<1> HIDE DEF dp, dq
<1>7. IsPrefix(p, q) <=> Len(p) <= Len(q) /\ \A i \in 1..Len(p) : p[i] = q[i]
  BY PrefixIs
<1>8. ASSUME IsPrefix(dp, dq) PROVE IsPrefix(p, q)
  <2>1. Len(p) <= Len(q)
    BY <1>1, <1>2, <1>3, <1>6, <1>8
  <2>2. ASSUME NEW i \in 1..Len(p) PROVE p[i] = q[i]
    <3>1. Len(d) + i \in 1..Len(dp) /\ i \in 1..Len(q)
      BY <1>1, <1>2, <2>1
    <3>2. dp[Len(d) + i] = dq[Len(d) + i]
      BY <1>6, <1>8, <3>1
    <3> QED
      BY <1>2, <1>3, <3>1, <3>2
  <2> QED
    BY <1>7, <2>1, <2>2
<1>9. ASSUME IsPrefix(p, q) PROVE IsPrefix(dp, dq)
  <2>1. Len(p) <= Len(q) /\ \A i \in 1..Len(p) : p[i] = q[i]
    BY <1>7, <1>9
  <2>2. ASSUME NEW i \in 1..Len(dp) PROVE dp[i] = dq[i]
    <3>1. CASE i <= Len(d)
      BY <1>1, <1>2, <1>3, <3>1
    <3>2. CASE ~(i <= Len(d))
      <4>1. i - Len(d) \in 1..Len(p) /\ i - Len(d) \in 1..Len(q) /\ Len(d) + (i - Len(d)) = i
        BY <1>1, <1>2, <2>1, <3>2
      <4> QED
        BY <1>2, <1>3, <2>1, <4>1, ZenonT(60)
    <3> QED
      BY <3>1, <3>2
  <2> QED
    BY <1>1, <1>2, <1>3, <1>6, <2>1, <2>2
<1> QED
  BY <1>4, <1>5, <1>8, <1>9 DEF IsStrictPrefix, dp, dq

(* n levels are stripped as if one directory had been chosen. *)
LEMMA StageBelow ==
  ASSUME NEW t, IsTree(t), NEW n \in Nat
  PROVE  \E d \in Seq(Name) :
           /\ DOMAIN Stage(t, n) = {p \in Path : d \o p \in DOMAIN t}
           /\ \A p \in DOMAIN Stage(t, n) : Stage(t, n)[p] = t[d \o p]
<1> DEFINE Cut(s, d) == /\ IsTree(s) /\ DOMAIN s = {p \in Path : d \o p \in DOMAIN t}
                        /\ \A p \in DOMAIN s : s[p] = t[d \o p]
<1>1. PICK s : /\ Stage(t, n) = s[n] /\ s[0] = t
               /\ \A k \in 1..n : s[k] = StripOne(s[k - 1])
  BY StageIs
<1> DEFINE G == {k \in 0..n : \E d \in Seq(Name) : Cut(s[k], d)}
<1>2. 0 \in G
  <2> DEFINE e == <<>>
  <2>1. e \in Seq(Name) /\ \A p \in Path : e \o p = p
    BY ConcatEmptySeq DEF Path
  <2>2. \A p \in DOMAIN t : p \in Path
    BY NodeIs
  <2> HIDE DEF e
  <2>3. Cut(t, e)
    BY <2>1, <2>2
  <2> HIDE DEF Cut
  <2>4. \E d \in Seq(Name) : Cut(t, d)
    BY <2>1, <2>3
  <2>5. \E d \in Seq(Name) : Cut(s[0], d)
    BY <1>1, <2>4
  <2> QED
    BY <2>5
<1>3. ASSUME NEW k \in 0..(n - 1), k \in G
      PROVE  k + 1 \in G
  <2>1. k + 1 \in 1..n /\ k + 1 \in 0..n /\ (k + 1) - 1 = k
    OBVIOUS
  <2>2. s[k + 1] = StripOne(s[k])
    BY <1>1, <2>1
  <2>3. PICK d \in Seq(Name) : Cut(s[k], d)
    BY <1>3
  <2> DEFINE u == s[k]
  <2>4. IsTree(u) /\ DOMAIN u = {p \in Path : d \o p \in DOMAIN t} /\ \A p \in DOMAIN u : u[p] = t[d \o p]
    BY <2>3
  <2> HIDE DEF u
  <2>5. \E e \in Seq(Name) : Cut(StripOne(u), e)
    <3>1. CASE ~SingleTop(u)
      BY <2>4, <3>1 DEF StripOne
    <3>2. CASE SingleTop(u)
      <4>1. PICK c \in Directories(u) : StripOne(u) = Below(u, c)
        BY <2>4, <3>2, SingleTopIs
      <4>2. c \in Seq(Name) /\ d \o c \in Seq(Name)
        BY <2>4, NodeIs, JoinIs DEF Directories
      <4>3. /\ DOMAIN Below(u, c) = {p \in Path : c \o p \in DOMAIN u}
            /\ \A p \in DOMAIN Below(u, c) : Below(u, c)[p] = u[c \o p]
            /\ IsTree(Below(u, c))
        BY <2>4, BelowIs
      <4>4. \A p \in Path : (d \o c) \o p = d \o (c \o p)
        BY <4>2, ConcatAssociative DEF Path
      <4>5. \A p \in Path : c \o p \in Path
        <5>1. \A p \in Path : p \in Seq(Name) /\ Len(p) \in Nat \ {0}
          BY FirstIs
        <5>2. \A p \in Path : c \o p \in Seq(Name) /\ Len(c \o p) = Len(c) + Len(p) /\ Len(c) \in Nat
          BY <4>2, <5>1, JoinIs
        <5>3. \A p \in Path : Len(c \o p) # 0
          BY <5>1, <5>2
        <5> QED
          BY <5>2, <5>3, EmptySeq DEF Path
      <4>6. Cut(Below(u, c), d \o c)
        BY <2>4, <4>3, <4>4, <4>5
      <4> QED
        BY <4>1, <4>2, <4>6
    <3> QED
      BY <3>1, <3>2
  <2>6. \E e \in Seq(Name) : Cut(s[k + 1], e)
    BY <2>2, <2>5 DEF u
  <2> QED
    BY <2>1, <2>6
<1>4. n \in G
  <2> HIDE DEF G
  <2>1. \A k \in 0..n : k \in G
    BY <1>2, <1>3, Upwards
  <2> QED
    BY <2>1
<1> QED
  BY <1>1, <1>4

Row(p, m, c) == [path |-> p, mode |-> m, data |-> c]

(* The members that are listed with a content or a target. *)
Contents(ms) == OfKind(ms, {"file", "exec"} \cup Symlink)

Hardless(ms) == OfKind(ms, {"hard"}) = {}

LEMMA HardlessIs ==
  ASSUME NEW ms, Sound(ms), Hardless(ms)
  PROVE  /\ \A e \in DOMAIN ms : ms[e].kind \in Kind /\ LinkedTo(ms, ms[e]) = ms[e]
         /\ \A e \in DOMAIN ms : e \in Contents(ms) <=> ms[e].kind # "dir"
<1>1. \A e \in DOMAIN ms : ms[e].kind # "hard"
  BY DEF Hardless, OfKind
<1>2. \A e \in DOMAIN ms : ms[e].kind \in Kind
  BY <1>1, MemberIs
<1>3. \A e \in DOMAIN ms : LinkedTo(ms, ms[e]) = ms[e]
  BY <1>1 DEF LinkedTo
<1>4. \A e \in DOMAIN ms : e \in Contents(ms) <=> ms[e].kind # "dir"
  BY <1>2 DEF Contents, OfKind, Kind, Symlink
<1> QED
  BY <1>2, <1>3, <1>4

LEMMA AttestedIs ==
  ASSUME NEW ms, Sound(ms), Attested(ms)
  PROVE  /\ Hardless(ms)
         /\ \A e \in DOMAIN ms : ms[e].kind \in Kind /\ LinkedTo(ms, ms[e]) = ms[e]
         /\ \A e \in DOMAIN ms : e \in Contents(ms) <=> ms[e].kind # "dir"
         /\ \A e \in DOMAIN ms : NormalOf(ms, e)[1] \in Wrappers(ms)
         /\ \A w \in Wrappers(ms) : \E e \in DOMAIN ms : w = NormalOf(ms, e)[1]
<1>1. Hardless(ms)
  BY DEF Attested, Hardless
<1>2. Wrappers(ms) = {NormalOf(ms, e)[1] : e \in DOMAIN ms}
  BY DEF Attested, PathsOf, NormalOf
<1> QED
  BY <1>1, <1>2, HardlessIs

(* The three kinds of archives that a manifest is right about. *)
Wrapped(ms, w) ==
  /\ w \in Name /\ Wrappers(ms) = {w}
  /\ \A e \in DOMAIN ms : ~IsDot(ms[e].path) /\ NormalOf(ms, e)[1] = w
  /\ Tops(TreeOf(ms)) = {Top(w)} /\ Top(w) \in Directories(TreeOf(ms))
Unwrappable(ms) ==
  /\ \A w : Wrappers(ms) # {w}
  /\ \A e \in DOMAIN ms : ~IsDot(ms[e].path)
  /\ ~SingleTop(TreeOf(ms))
OnlyDot(ms) == \A e \in DOMAIN ms : IsDot(ms[e].path)

EmptyOf(ms) == {d \in OfKind(ms, {"dir"}) :
                  ~ \E e \in DOMAIN ms : IsStrictPrefix(NormalOf(ms, d), NormalOf(ms, e))}

(* A path is displayed as it is when each of its names is. *)
LEMMA TextIs ==
  ASSUME NEW S, NEW p \in Seq(S)
  PROVE  IsText(p) <=> \A i \in 1..Len(p) : p[i] \in Name => Displayed[p[i]] = p[i]
<1>1. DOMAIN p = 1..Len(p) /\ p = [i \in DOMAIN p |-> p[i]]
  OBVIOUS
<1>2. /\ DOMAIN Display(p) = DOMAIN p
      /\ Display(p) = [i \in DOMAIN p |-> Display(p)[i]]
      /\ \A i \in DOMAIN p : Display(p)[i] = IF p[i] \in Name THEN Displayed[p[i]] ELSE p[i]
  BY DEF Display
<1> DEFINE q == Display(p)
<1> HIDE DEF q
<1>3. q = p <=> \A i \in DOMAIN p : q[i] = p[i]
  BY <1>1, <1>2 DEF q
<1> QED
  BY <1>1, <1>2, <1>3 DEF IsText, q

LEMMA TailText ==
  ASSUME NEW S, NEW p \in Seq(S), p # <<>>, IsText(p)
  PROVE  Tail(p) \in Seq(S) /\ IsText(Tail(p))
<1>1. /\ Tail(p) \in Seq(S) /\ Len(Tail(p)) = Len(p) - 1 /\ Len(p) \in Nat
      /\ \A i \in 1..Len(Tail(p)) : Tail(p)[i] = p[i + 1]
  BY HeadTailProperties
<1>2. \A i \in 1..Len(p) : p[i] \in Name => Displayed[p[i]] = p[i]
  BY TextIs
<1>3. \A i \in 1..Len(Tail(p)) : i + 1 \in 1..Len(p)
  BY <1>1
<1>4. \A i \in 1..Len(Tail(p)) : Tail(p)[i] \in Name => Displayed[Tail(p)[i]] = Tail(p)[i]
  BY <1>1, <1>2, <1>3
<1> QED
  BY <1>1, <1>4, TextIs

LEMMA PrefixText ==
  ASSUME NEW S, NEW p \in Seq(S), NEW q \in Seq(S), IsPrefix(p, q), IsText(q)
  PROVE  IsText(p)
<1>1. Len(p) \in Nat /\ Len(q) \in Nat
  OBVIOUS
<1>2. Len(p) <= Len(q) /\ \A i \in 1..Len(p) : p[i] = q[i]
  BY PrefixIs
<1>3. \A i \in 1..Len(q) : q[i] \in Name => Displayed[q[i]] = q[i]
  BY TextIs
<1>4. \A i \in 1..Len(p) : i \in 1..Len(q)
  BY <1>1, <1>2
<1>5. \A i \in 1..Len(p) : p[i] \in Name => Displayed[p[i]] = p[i]
  BY <1>2, <1>3, <1>4
<1> QED
  BY <1>5, TextIs

(* The manifest calls its contents by their names. *)
Shown(ms) == \A e \in Contents(ms) : IsText(NamedAs(ms, e))

LEMMA ShownIs ==
  ASSUME NEW ms, Sound(ms), \A e \in DOMAIN ms : IsText(ms[e].path)
  PROVE  Shown(ms)
<1>1. SUFFICES ASSUME NEW e \in DOMAIN ms PROVE IsText(NamedAs(ms, e))
  BY DEF Shown, Contents, OfKind
<1>2. ms[e].path \in Seq(Component) /\ ms[e].path # <<>> /\ IsText(ms[e].path)
  BY MemberIs
<1> DEFINE p == ms[e].path
           q == Normal(p)
<1> HIDE DEF p
<1>3. p \in Seq(Component) /\ p # <<>> /\ IsText(p)
  BY <1>2 DEF p
<1>4. q \in Seq(Component) /\ q # <<>> /\ IsText(q)
  <2>1. CASE p[1] = "." /\ Len(p) > 1
    <3>1. q = Tail(p) /\ q \in Seq(Component) /\ Len(q) = Len(p) - 1 /\ Len(p) \in Nat
      BY <1>3, <2>1, HeadTailProperties DEF Normal
    <3>2. IsText(q)
      BY <1>3, <3>1, TailText
    <3> HIDE DEF q
    <3>3. Len(q) # 0
      BY <2>1, <3>1
    <3> QED
      BY <3>1, <3>2, <3>3, EmptySeq
  <2>2. CASE ~(p[1] = "." /\ Len(p) > 1)
    BY <1>3, <2>2 DEF Normal
  <2> QED
    BY <2>1, <2>2
<1> HIDE DEF q
<1>5. IsText(Tail(q))
  BY <1>4, TailText
<1>6. IsText(Unwrapped(ms, q))
  BY <1>4, <1>5 DEF Unwrapped
<1> QED
  BY <1>6 DEF NamedAs, p, q

(* Then a loaded manifest has the path of every content, and of each one   *)
(* where a path has only one.                                              *)
LEMMA ManifestIs ==
  ASSUME NEW ms, Shown(ms), NEW man \in Loaded(Manifest(ms))
  PROVE  /\ Paths(man.entries) = {NamedAs(ms, e) : e \in Contents(ms)}
         /\ \A g \in man.entries : \E e \in Contents(ms) :
              g.path = NamedAs(ms, e) /\ g.mode = ModeOf(ms[e]) /\ g.data = ms[e].data
         /\ (\A d, e \in Contents(ms) : NamedAs(ms, d) = NamedAs(ms, e) => d = e) =>
              man.entries = {Row(NamedAs(ms, e), ModeOf(ms[e]), ms[e].data) : e \in Contents(ms)}
         /\ man.emptyDirs = {NamedAs(ms, d) : d \in EmptyOf(ms)}
<1> DEFINE Entry(e) == Row(NamedAs(ms, e), ModeOf(ms[e]), ms[e].data)
           all == Manifest(ms).entries
           distinct == \A d, e \in Contents(ms) : NamedAs(ms, d) = NamedAs(ms, e) => d = e
<1>1. all = {Entry(e) : e \in Contents(ms)}
  <2>1. all = {Row(Display(NamedAs(ms, e)), ModeOf(ms[e]), ms[e].data) : e \in Contents(ms)}
    BY DEF Manifest, Contents, NamedAs, Row
  <2>2. \A e \in Contents(ms) : Display(NamedAs(ms, e)) = NamedAs(ms, e)
    BY DEF Shown, IsText
  <2> QED
    BY <2>1, <2>2
<1>2. \A e : Entry(e).path = NamedAs(ms, e) /\ Entry(e).mode = ModeOf(ms[e]) /\ Entry(e).data = ms[e].data
  BY DEF Row
<1>3. Manifest(ms).emptyDirs = {NamedAs(ms, d) : d \in EmptyOf(ms)}
  <2>1. EmptyOf(ms) = {d \in OfKind(ms, {"dir"}) :
                        ~ \E q \in PathsOf(ms) : IsStrictPrefix(Normal(ms[d].path), Normal(q))}
    BY DEF EmptyOf, NormalOf, PathsOf
  <2> QED
    BY <2>1 DEF Manifest, NamedAs
<1>4. PICK v \in Views(all) : man = [Manifest(ms) EXCEPT !.entries = v]
  BY DEF Loaded
<1>5. man.entries = v /\ man.emptyDirs = Manifest(ms).emptyDirs
  BY <1>4 DEF Manifest
<1> HIDE DEF Entry, all
<1>6. v \subseteq all /\ \A g \in all : \E h \in v : h.path = g.path
  <2>1. v \subseteq all
    BY DEF Views
  <2>2. ASSUME NEW g \in all PROVE \E h \in v : h.path = g.path
    <3> DEFINE V == {h \in v : h.path = g.path}
    <3>1. Cardinality(V) = 1
      BY DEF Views, Paths
    <3> HIDE DEF V
    <3>2. V # {}
      BY ONLY <3>1, FS_EmptySet
    <3> QED
      BY <3>2 DEF V
  <2> QED
    BY <2>1, <2>2
<1>7. Paths(v) = {NamedAs(ms, e) : e \in Contents(ms)}
  <2>1. Paths(v) = Paths(all)
    BY <1>6 DEF Paths
  <2> QED
    BY <1>1, <1>2, <2>1 DEF Paths
<1>8. \A g \in v : \E e \in Contents(ms) : g = Entry(e)
  BY <1>1, <1>6
<1>9. ASSUME distinct, NEW g \in all PROVE g \in v
  <2>1. PICK h \in v : h.path = g.path
    BY <1>6
  <2>2. PICK d \in Contents(ms) : h = Entry(d)
    BY <1>8
  <2>3. PICK e \in Contents(ms) : g = Entry(e)
    BY <1>1
  <2>4. d = e
    BY <1>2, <1>9, <2>1, <2>2, <2>3
  <2> QED
    BY <2>2, <2>3, <2>4
<1>10. distinct => v = {Entry(e) : e \in Contents(ms)}
  BY <1>1, <1>6, <1>9
<1>11. \A g \in v : \E e \in Contents(ms) :
         g.path = NamedAs(ms, e) /\ g.mode = ModeOf(ms[e]) /\ g.data = ms[e].data
  BY <1>2, <1>8
<1> QED
  BY <1>3, <1>5, <1>7, <1>10, <1>11 DEF Entry

LEMMA ShapeIs ==
  ASSUME NEW ms, Sound(ms), Attested(ms),
         \A e \in Contents(ms) : NamedAs(ms, e) # <<>>,
         \A d \in EmptyOf(ms) : NamedAs(ms, d) \in Seq(Name)
  PROVE  OnlyDot(ms) \/ Unwrappable(ms) \/ \E w : Wrapped(ms, w)
<1>1. SUFFICES ASSUME ~OnlyDot(ms)
               PROVE  Unwrappable(ms) \/ \E w : Wrapped(ms, w)
  OBVIOUS
<1>2. \A e \in DOMAIN ms : ~IsDot(ms[e].path)
  <2>1. SUFFICES ASSUME NEW d \in DOMAIN ms, IsDot(ms[d].path) PROVE FALSE
    OBVIOUS
  <2>2. PICK e \in DOMAIN ms : ~IsDot(ms[e].path)
    BY <1>1 DEF OnlyDot
  <2>3. NormalOf(ms, d) = ms[d].path /\ ms[d].path[1] = "." /\ Len(ms[d].path) = 1 /\ ms[d].kind = "dir"
    BY <2>1, NormalIs DEF IsDot
  <2>4. NamedAs(ms, d) = ms[d].path
    <3>1. NormalOf(ms, e)[1] \in Wrappers(ms) /\ NormalOf(ms, e)[1] # "."
      BY <2>2, AttestedIs, NormalIs
    <3>2. Wrappers(ms) # {"."}
      BY <3>1
    <3> QED
      BY <2>3, <3>2 DEF NamedAs, Unwrapped, NormalOf
  <2>5. d \in EmptyOf(ms)
    <3>1. ASSUME NEW f \in DOMAIN ms, IsStrictPrefix(NormalOf(ms, d), NormalOf(ms, f)) PROVE FALSE
      <4>1. ms[d].path \in Seq(Component)
        BY MemberIs
      <4>2. CASE IsDot(ms[f].path)
        <5>1. NormalOf(ms, f) = ms[f].path /\ Len(ms[f].path) = 1 /\ ms[f].path \in Seq(Component)
          BY <4>2, NormalIs, MemberIs DEF IsDot
        <5>2. Len(ms[d].path) < Len(ms[f].path)
          BY <2>3, <3>1, <4>1, <5>1, PrefixIs
        <5> QED
          BY <2>3, <5>1, <5>2
      <4>3. CASE ~IsDot(ms[f].path)
        <5>1. NormalOf(ms, f) \in Path /\ NormalOf(ms, f)[1] # "."
          BY <4>3, NormalIs
        <5>2. NormalOf(ms, f) \in Seq(Component)
          <6>1. NormalOf(ms, f) \in Seq(Name)
            BY <5>1 DEF Path
          <6>2. \A i \in 1..Len(NormalOf(ms, f)) : NormalOf(ms, f)[i] \in Component
            BY <6>1, ElementOfSeq DEF Component
          <6> QED
            BY <6>1, <6>2, WithinIs
        <5>3. \A i \in 1..Len(ms[d].path) : ms[d].path[i] = NormalOf(ms, f)[i]
          BY <2>3, <3>1, <4>1, <5>2, PrefixIs
        <5>4. 1 \in 1..Len(ms[d].path)
          BY <2>3
        <5> QED
          BY <2>3, <5>1, <5>3, <5>4
      <4> QED
        BY <4>2, <4>3
    <3> QED
      BY <2>3, <3>1 DEF EmptyOf, OfKind
  <2>6. ms[d].path \in Seq(Name)
    BY <2>4, <2>5
  <2>7. 1 \in 1..Len(ms[d].path)
    BY <2>3
  <2> QED
    BY <2>3, <2>6, <2>7, ElementOfSeq, InspectAssumption
<1>3. \A e \in DOMAIN ms : NormalOf(ms, e) = Undotted(ms[e].path) /\ NormalOf(ms, e) \in Path
                           /\ NormalOf(ms, e)[1] \in Name
  BY <1>2, NormalIs
<1> DEFINE T == TreeOf(ms)
<1>4. /\ DOMAIN T = Inner(ms) /\ IsTree(T)
      /\ \A e \in DOMAIN ms : T[NormalOf(ms, e)].kind = ms[e].kind
  <2>1. \A e \in DOMAIN ms : Undotted(ms[e].path) # <<>>
    BY <1>3 DEF Path
  <2> QED
    BY <1>3, <2>1, TreeOfIs, AttestedIs
<1>5. \A e \in DOMAIN ms : NormalOf(ms, e) \in DOMAIN T
  BY <1>3, <1>4, ListedIs, InnerIs DEF Path
<1>6. ASSUME NEW p \in DOMAIN T
      PROVE  \E e \in DOMAIN ms : IsPrefix(p, NormalOf(ms, e)) /\ NormalOf(ms, e)[1] = p[1]
  <2>1. PICK q \in Listed(ms) : IsPrefix(p, q)
    BY <1>4, InnerIs
  <2>2. PICK e \in DOMAIN ms : Undotted(ms[e].path) = q
    BY ListedIs
  <2>3. q = NormalOf(ms, e) /\ q \in Seq(Name)
    BY <1>3, <2>2 DEF Path
  <2>4. p \in Seq(Name) /\ Len(p) \in Nat \ {0}
    BY <1>4, NodeIs
  <2>5. \A i \in 1..Len(p) : p[i] = q[i]
    BY <2>1, <2>3, <2>4, PrefixIs
  <2>6. 1 \in 1..Len(p)
    BY <2>4
  <2> QED
    BY <2>1, <2>3, <2>5, <2>6
<1> HIDE DEF T
<1>7. ASSUME NEW w, Wrappers(ms) = {w}
      PROVE  Wrapped(ms, w)
  <2>1. PICK e \in DOMAIN ms : w = NormalOf(ms, e)[1]
    BY <1>7, AttestedIs
  <2>2. w \in Name /\ \A f \in DOMAIN ms : NormalOf(ms, f)[1] = w
    BY <1>3, <1>7, <2>1, AttestedIs
  <2>3. \A p \in Tops(T) : p = Top(w)
    <3>1. \A p \in Tops(T) : p \in DOMAIN T /\ p \in Path /\ Len(p) = 1
      BY <1>4, NodeIs DEF Tops
    <3>2. \A p \in Tops(T) : p[1] = w
      BY <1>6, <2>2, <3>1
    <3> QED
      BY <3>1, <3>2, FirstIs
  <2>4. Top(w) \in Tops(T)
    BY <1>4, <1>5, <2>1, TopIs
  <2>5. Top(w) \in Directories(T)
    <3>1. CASE Len(NormalOf(ms, e)) = 1
      <4>1. NormalOf(ms, e) = Top(w)
        BY <1>3, <2>1, <3>1, FirstIs
      <4>2. NamedAs(ms, e) = Tail(NormalOf(ms, e))
        BY <1>7, <2>1 DEF NamedAs, Unwrapped, NormalOf
      <4>3. NamedAs(ms, e) = <<>>
        BY <1>3, <3>1, <4>2, HeadIs
      <4>4. ms[e].kind = "dir"
        BY <4>3, AttestedIs
      <4> QED
        BY <1>4, <1>5, <4>1, <4>4 DEF Directories
    <3>2. CASE Len(NormalOf(ms, e)) # 1
      <4>1. Len(NormalOf(ms, e)) \in Nat /\ Len(NormalOf(ms, e)) # 0
        BY <1>3, FirstIs
      <4>2. Len(NormalOf(ms, e)) > 1
        BY <3>2, <4>1, LongIs
      <4> QED
        BY <1>4, <1>5, <2>1, <4>2, TopIs
    <3> QED
      BY <3>1, <3>2
  <2> QED
    BY <1>2, <1>7, <2>2, <2>3, <2>4, <2>5 DEF Wrapped, T
<1>8. ASSUME \A w : Wrappers(ms) # {w}
      PROVE  Unwrappable(ms)
  <2>1. ASSUME SingleTop(T) PROVE FALSE
    <3>1. PICK d \in Directories(T) : Tops(T) = {d}
      BY <1>4, <2>1, SingleTopIs
    <3>2. \A e \in DOMAIN ms : Top(NormalOf(ms, e)[1]) = d
      BY <1>4, <1>5, <3>1, TopIs
    <3>3. \A e \in DOMAIN ms : NormalOf(ms, e)[1] = d[1]
      BY <1>3, <3>2, TopPathIs
    <3>4. \E e \in DOMAIN ms : TRUE
      BY <1>6, <3>1 DEF Directories
    <3>5. Wrappers(ms) = {d[1]}
      BY <3>3, <3>4, AttestedIs
    <3> QED
      BY <1>8, <3>5
  <2> QED
    BY <1>2, <1>8, <2>1 DEF Unwrappable, T
<1> QED
  BY <1>7, <1>8

(* The tree that an archive has to deliver, seen from its members. *)
Viewed(ms, s) ==
  /\ \A e \in DOMAIN ms : NamedAs(ms, e) \in DOMAIN s \cup {<<>>}
  /\ \A e \in DOMAIN ms : NamedAs(ms, e) # <<>> =>
       s[NamedAs(ms, e)].kind = ms[e].kind /\ s[NamedAs(ms, e)].data = ms[e].data
  /\ \A z \in DOMAIN s : \E e \in DOMAIN ms : IsPrefix(z, NamedAs(ms, e))
  /\ \A d, e \in DOMAIN ms : IsStrictPrefix(NormalOf(ms, d), NormalOf(ms, e)) <=>
                             IsStrictPrefix(NamedAs(ms, d), NamedAs(ms, e))
  /\ \A d, e \in DOMAIN ms : NamedAs(ms, d) = NamedAs(ms, e) => d = e

(* The member "." alone is the wrapper of a manifest.                      *)
LEMMA DotIsWrapper ==
  ASSUME NEW ms, Sound(ms), NEW d \in DOMAIN ms, IsDot(ms[d].path)
  PROVE  /\ "." \in Wrappers(ms)
         /\ OnlyDot(ms) => Wrappers(ms) = {"."}
<1>1. ms[d].path = <<".">>
  BY MemberIs DEF IsDot
<1>2. Last(ms[d].path) \notin AppleDouble
  <2>1. Last(ms[d].path) = "."
    BY <1>1 DEF Last
  <2> QED
    BY <2>1, InspectAssumption, NameAssumption
<1>3. ms[d].path \in PathsOf(ms)
  BY DEF PathsOf
<1>4. NormalOf(ms, d) = ms[d].path /\ ms[d].path[1] = "."
  BY NormalIs DEF IsDot
<1>5. ms[d].path \in {q \in PathsOf(ms) : Last(q) \notin AppleDouble}
  BY <1>2, <1>3
<1>6. "." \in Wrappers(ms)
  BY <1>4, <1>5 DEF Wrappers, NormalOf
<1>7. ASSUME OnlyDot(ms), NEW x \in Wrappers(ms) PROVE x = "."
  <2>1. PICK q \in PathsOf(ms) : x = Normal(q)[1]
    BY DEF Wrappers
  <2>2. PICK e \in DOMAIN ms : q = ms[e].path
    BY DEF PathsOf
  <2>3. NormalOf(ms, e) = ms[e].path /\ ms[e].path[1] = "."
    BY <1>7, NormalIs DEF OnlyDot, IsDot
  <2> QED
    BY <2>1, <2>2, <2>3 DEF NormalOf
<1> QED
  BY <1>6, <1>7

(* Without a member ".", every member is a node of the tree, and every     *)
(* node is above a member or one.                                          *)
LEMMA NodesAreMembers ==
  ASSUME NEW ms, Sound(ms), Hardless(ms), \A e \in DOMAIN ms : ~IsDot(ms[e].path)
  PROVE  /\ \A e \in DOMAIN ms :
              /\ NormalOf(ms, e) \in DOMAIN TreeOf(ms) /\ NormalOf(ms, e) \in Path
              /\ TreeOf(ms)[NormalOf(ms, e)].kind = ms[e].kind
              /\ TreeOf(ms)[NormalOf(ms, e)].data = ms[e].data
         /\ \A z \in DOMAIN TreeOf(ms) : \E e \in DOMAIN ms : IsPrefix(z, NormalOf(ms, e))
         /\ IsTree(TreeOf(ms))
<1>1. \A e \in DOMAIN ms : NormalOf(ms, e) = Undotted(ms[e].path) /\ NormalOf(ms, e) \in Path
  BY NormalIs
<1>2. \A e \in DOMAIN ms : Undotted(ms[e].path) # <<>>
  BY <1>1 DEF Path
<1>3. DOMAIN TreeOf(ms) = Inner(ms) /\ IsTree(TreeOf(ms))
  BY TreeOfIs
<1>4. \A e \in DOMAIN ms : /\ TreeOf(ms)[Undotted(ms[e].path)].kind = ms[e].kind
                           /\ TreeOf(ms)[Undotted(ms[e].path)].data = ms[e].data
  BY <1>2, TreeOfIs, HardlessIs
<1>5. \A e \in DOMAIN ms : Undotted(ms[e].path) \in DOMAIN TreeOf(ms)
  BY <1>2, <1>3, ListedIs, InnerIs
<1>6. ASSUME NEW z \in DOMAIN TreeOf(ms)
      PROVE  \E e \in DOMAIN ms : IsPrefix(z, NormalOf(ms, e))
  <2>1. PICK q \in Listed(ms) : IsPrefix(z, q)
    BY <1>3, InnerIs
  <2>2. PICK e \in DOMAIN ms : Undotted(ms[e].path) = q
    BY ListedIs
  <2> QED
    BY <1>1, <2>1, <2>2
<1> QED
  BY <1>1, <1>3, <1>4, <1>5, <1>6

LEMMA WrappedIsViewed ==
  ASSUME NEW ms, Sound(ms), Hardless(ms), NEW w, Wrapped(ms, w)
  PROVE  Viewed(ms, StripOne(TreeOf(ms)))
<1> DEFINE T == TreeOf(ms)
           S == StripOne(T)
<1>1. /\ w \in Name /\ Wrappers(ms) = {w} /\ Tops(T) = {Top(w)} /\ Top(w) \in Directories(T)
      /\ \A e \in DOMAIN ms : ~IsDot(ms[e].path) /\ NormalOf(ms, e)[1] = w
  BY DEF Wrapped
<1>2. /\ \A e \in DOMAIN ms : /\ NormalOf(ms, e) \in DOMAIN T /\ NormalOf(ms, e) \in Path
                              /\ T[NormalOf(ms, e)].kind = ms[e].kind
                              /\ T[NormalOf(ms, e)].data = ms[e].data
      /\ \A z \in DOMAIN T : \E e \in DOMAIN ms : IsPrefix(z, NormalOf(ms, e))
      /\ IsTree(T)
  BY <1>1, NodesAreMembers
<1>3. S = Below(T, Top(w))
  <2> HIDE DEF T
  <2>1. SingleTop(T)
    BY <1>1, FS_Singleton DEF SingleTop
  <2>2. PICK d \in Directories(T) : Tops(T) = {d} /\ StripOne(T) = Below(T, d)
    BY <1>2, <2>1, SingleTopIs
  <2>3. d = Top(w)
    BY <1>1, <2>2
  <2> QED
    BY <2>2, <2>3
<1> HIDE DEF T, S
<1>4. /\ DOMAIN S = {p \in Path : Top(w) \o p \in DOMAIN T}
      /\ \A p \in DOMAIN S : S[p] = T[Top(w) \o p]
  <2> DEFINE d == Top(w)
  <2> HIDE DEF d
  <2>1. d \in Directories(T) /\ S = Below(T, d)
    BY <1>1, <1>3 DEF d
  <2>2. /\ DOMAIN Below(T, d) = {p \in Path : d \o p \in DOMAIN T}
        /\ \A p \in DOMAIN Below(T, d) : Below(T, d)[p] = T[d \o p]
    BY <1>2, <2>1, BelowIs
  <2> QED
    BY <2>1, <2>2 DEF d
<1>5. Top(w) \in Seq(Name)
  BY <1>1, TopPathIs
<1>6. ASSUME NEW e \in DOMAIN ms
      PROVE  NamedAs(ms, e) \in Seq(Name) /\ NormalOf(ms, e) = Top(w) \o NamedAs(ms, e)
  <2>1. NamedAs(ms, e) = Tail(NormalOf(ms, e))
    BY <1>1 DEF NamedAs, Unwrapped, NormalOf
  <2>2. /\ Tail(NormalOf(ms, e)) \in Seq(Name)
        /\ NormalOf(ms, e) = Top(NormalOf(ms, e)[1]) \o Tail(NormalOf(ms, e))
    BY <1>2, HeadIs
  <2> QED
    BY <1>1, <2>1, <2>2
<1>7. ASSUME NEW e \in DOMAIN ms, NamedAs(ms, e) # <<>>
      PROVE  /\ NamedAs(ms, e) \in DOMAIN S
             /\ S[NamedAs(ms, e)].kind = ms[e].kind /\ S[NamedAs(ms, e)].data = ms[e].data
  <2>1. NamedAs(ms, e) \in Path /\ Top(w) \o NamedAs(ms, e) = NormalOf(ms, e)
    BY <1>6, <1>7 DEF Path
  <2>2. NamedAs(ms, e) \in DOMAIN S
    BY <1>2, <1>4, <2>1
  <2>3. S[NamedAs(ms, e)] = T[NormalOf(ms, e)]
    BY <1>4, <2>1, <2>2
  <2> QED
    BY <1>2, <2>2, <2>3
<1>8. ASSUME NEW z \in DOMAIN S
      PROVE  \E e \in DOMAIN ms : IsPrefix(z, NamedAs(ms, e))
  <2>1. z \in Path /\ Top(w) \o z \in DOMAIN T
    BY <1>4
  <2>2. PICK e \in DOMAIN ms : IsPrefix(Top(w) \o z, NormalOf(ms, e))
    BY <1>2, <2>1
  <2>3. IsPrefix(Top(w) \o z, Top(w) \o NamedAs(ms, e)) /\ z \in Seq(Name)
    BY <1>6, <2>1, <2>2 DEF Path
  <2> QED
    BY <1>5, <1>6, <2>3, JoinPrefix
<1>9. ASSUME NEW d \in DOMAIN ms, NEW e \in DOMAIN ms
      PROVE  /\ IsStrictPrefix(NormalOf(ms, d), NormalOf(ms, e)) <=>
                IsStrictPrefix(NamedAs(ms, d), NamedAs(ms, e))
             /\ NamedAs(ms, d) = NamedAs(ms, e) => d = e
  <2>1. IsStrictPrefix(Top(w) \o NamedAs(ms, d), Top(w) \o NamedAs(ms, e)) <=>
          IsStrictPrefix(NamedAs(ms, d), NamedAs(ms, e))
    BY <1>5, <1>6, JoinPrefix
  <2>2. NamedAs(ms, d) = NamedAs(ms, e) => NormalOf(ms, d) = NormalOf(ms, e)
    BY <1>6
  <2> QED
    BY <1>6, <2>1, <2>2, NormalInjective
<1> QED
  BY <1>7, <1>8, <1>9 DEF Viewed, S, T

LEMMA ViewIs ==
  ASSUME NEW ms, Sound(ms), Hardless(ms), OnlyDot(ms) \/ Unwrappable(ms) \/ \E w : Wrapped(ms, w)
  PROVE  Viewed(ms, StripOne(TreeOf(ms))) /\ IsTree(StripOne(TreeOf(ms)))
<1> DEFINE T == TreeOf(ms)
<1>1. IsTree(StripOne(T))
  BY TreeOfIs, StripOneIsTree
<1>2. CASE \E w : Wrapped(ms, w)
  BY <1>1, <1>2, WrappedIsViewed
<1>3. CASE Unwrappable(ms)
  <2>1. \A e \in DOMAIN ms : NamedAs(ms, e) = NormalOf(ms, e)
    BY <1>3 DEF Unwrappable, NamedAs, NormalOf, Unwrapped
  <2>2. StripOne(T) = T
    BY <1>3 DEF Unwrappable, StripOne
  <2>3. /\ \A e \in DOMAIN ms : /\ NormalOf(ms, e) \in DOMAIN T /\ NormalOf(ms, e) \in Path
                                /\ T[NormalOf(ms, e)].kind = ms[e].kind
                                /\ T[NormalOf(ms, e)].data = ms[e].data
        /\ \A z \in DOMAIN T : \E e \in DOMAIN ms : IsPrefix(z, NormalOf(ms, e))
    BY <1>3, NodesAreMembers DEF Unwrappable
  <2> HIDE DEF T
  <2>4. Viewed(ms, T)
    BY <2>1, <2>3, NormalInjective DEF Viewed
  <2> QED
    BY <1>1, <2>2, <2>4 DEF T
<1>4. CASE OnlyDot(ms)
  <2>1. \A e \in DOMAIN ms : /\ NormalOf(ms, e) = ms[e].path /\ Undotted(ms[e].path) = <<>>
                             /\ Tail(ms[e].path) = <<>> /\ ms[e].path[1] = "."
    BY <1>4, NormalIs DEF OnlyDot, IsDot
  <2>2. DOMAIN T = {}
    <3>1. \A p \in Listed(ms) : FALSE
      BY <2>1, ListedIs DEF Path
    <3> QED
      BY <3>1, TreeOfIs, InnerIs
  <2>3. DOMAIN StripOne(T) = {}
    <3> HIDE DEF T
    <3>1. ~SingleTop(T)
      <4>1. Tops(T) = {}
        BY <2>2 DEF Tops
      <4> QED
        BY <4>1, FS_EmptySet DEF SingleTop
    <3> QED
      BY <2>2, <3>1 DEF StripOne
  <2>4. \A d, e \in DOMAIN ms : NormalOf(ms, d) = NormalOf(ms, e)
    <3>1. \A e \in DOMAIN ms : ms[e].path = <<".">>
      BY <2>1, UndottedIs
    <3> QED
      BY <2>1, <3>1
  <2>5. \A d, e \in DOMAIN ms : d = e
    BY <2>4, NormalInjective
  <2>6. \A e \in DOMAIN ms : Wrappers(ms) = {"."} /\ NamedAs(ms, e) = <<>>
    <3>1. \A e \in DOMAIN ms : Wrappers(ms) = {"."}
      BY <1>4, DotIsWrapper DEF OnlyDot
    <3> QED
      BY <2>1, <3>1 DEF NamedAs, Unwrapped, NormalOf
  <2> HIDE DEF T
  <2>7. \A d, e \in DOMAIN ms : ~IsStrictPrefix(NormalOf(ms, d), NormalOf(ms, e))
                                /\ ~IsStrictPrefix(NamedAs(ms, d), NamedAs(ms, e))
    BY <2>4, <2>6 DEF IsStrictPrefix
  <2> QED
    BY <1>1, <2>3, <2>5, <2>6, <2>7 DEF Viewed, T
<1> QED
  BY <1>2, <1>3, <1>4

-----------------------------------------------------------------------------
(* A release without findings *)

ItemsIn(blobs) == {g \in blobs : Last(g.path) # Marker}

(* What no finding means: of the paths, and of the contents. *)
PathsPass(ms, blobs, view) ==
  /\ view \subseteq blobs
  /\ \A g \in blobs : g.path \in Path /\ \E v \in view : v.path = g.path
  /\ Paths(ItemsIn(view)) = {NamedAs(ms, e) : e \in Contents(ms)}
  /\ {Front(g.path) : g \in view \ ItemsIn(view)} = {NamedAs(ms, d) : d \in EmptyOf(ms)}
Passed(ms, blobs, view) ==
  /\ PathsPass(ms, blobs, view)
  /\ \A g \in ItemsIn(view), e \in Contents(ms) : g.path = NamedAs(ms, e) =>
       /\ g.mode = "120000" <=> ms[e].kind \in Symlink
       /\ ms[e].kind \notin Symlink => g.data = ms[e].data
  /\ \A g \in ItemsIn(view) : g.mode = "120000" =>
       \E e \in Contents(ms) : g.path = NamedAs(ms, e) /\ g.data = ms[e].data

LEMMA NoFindingIs ==
  ASSUME NEW ms, Shown(ms), NEW blobs, \A g \in blobs : g.path \in Path,
         NEW view \in Views(blobs), NEW man \in Loaded(Manifest(ms)), TF(view, man) = {}
  PROVE  /\ PathsPass(ms, blobs, view)
         /\ (\A d, e \in Contents(ms) : NamedAs(ms, d) = NamedAs(ms, e) => d = e) =>
              Passed(ms, blobs, view)
<1> DEFINE items == ItemsIn(view)
           marked == {Front(g.path) : g \in view \ items}
           distinct == \A d, e \in Contents(ms) : NamedAs(ms, d) = NamedAs(ms, e) => d = e
<1>1. view \subseteq blobs
  BY DEF Views
<1>2. ASSUME NEW g \in blobs
      PROVE  \E v \in view : v.path = g.path
  <2>1. Cardinality({v \in view : v.path = g.path}) = 1
    BY DEF Views, Paths
  <2>2. {v \in view : v.path = g.path} # {}
    BY <2>1, FS_EmptySet
  <2> QED
    BY <2>2
<1>3. {c \in {"TF-1", "TF-2", "TF-4", "TF-5"} :
         CASE c = "TF-1" -> Paths(items) # Paths(man.entries)
           [] c = "TF-2" -> \E g \in items, e \in man.entries :
                              g.path = e.path /\ Mismatch(g, e)
           [] c = "TF-4" -> marked # man.emptyDirs
           [] c = "TF-5" -> Links(items) # Links(man.entries)} = {}
  BY DEF TF, ItemsIn
<1> HIDE DEF items, marked
<1>4. Paths(items) = Paths(man.entries)
  BY <1>3
<1>5. ~ \E g \in items, e \in man.entries : g.path = e.path /\ Mismatch(g, e)
  BY <1>3
<1>6. marked = man.emptyDirs
  BY <1>3
<1>7. Links(items) = Links(man.entries)
  BY <1>3
<1>8. /\ Paths(man.entries) = {NamedAs(ms, e) : e \in Contents(ms)}
      /\ \A g \in man.entries : \E e \in Contents(ms) :
           g.path = NamedAs(ms, e) /\ g.mode = ModeOf(ms[e]) /\ g.data = ms[e].data
      /\ distinct => man.entries = {Row(NamedAs(ms, e), ModeOf(ms[e]), ms[e].data) : e \in Contents(ms)}
      /\ man.emptyDirs = {NamedAs(ms, d) : d \in EmptyOf(ms)}
  BY ManifestIs
<1>9. PathsPass(ms, blobs, view)
  BY <1>1, <1>2, <1>4, <1>6, <1>8 DEF PathsPass, items, marked
<1>10. ASSUME distinct, NEW g \in items, NEW e \in Contents(ms), g.path = NamedAs(ms, e)
       PROVE  /\ g.mode = "120000" <=> ms[e].kind \in Symlink
              /\ ms[e].kind \notin Symlink => g.data = ms[e].data
  <2> DEFINE h == Row(NamedAs(ms, e), ModeOf(ms[e]), ms[e].data)
  <2>1. h \in man.entries
    BY <1>8, <1>10
  <2>2. h.path = g.path /\ h.mode = ModeOf(ms[e]) /\ h.data = ms[e].data
    BY <1>10 DEF Row
  <2> HIDE DEF h
  <2>3. ~Mismatch(g, h)
    BY <1>5, <2>1, <2>2
  <2>4. h.mode = "120000" <=> ms[e].kind \in Symlink
    BY <2>2, ModeIs
  <2> QED
    BY <2>2, <2>3, <2>4 DEF Mismatch
<1>11. ASSUME NEW g \in items, g.mode = "120000"
       PROVE  \E e \in Contents(ms) : g.path = NamedAs(ms, e) /\ g.data = ms[e].data
  <2>1. g \in man.entries
    BY <1>7, <1>11 DEF Links
  <2> QED
    BY <1>8, <2>1
<1>12. distinct => Passed(ms, blobs, view)
  BY <1>9, <1>10, <1>11 DEF Passed, items
<1> QED
  BY <1>9, <1>12

LEMMA PassedIsViewed ==
  ASSUME NEW ms, Sound(ms), Attested(ms), NEW blobs, NEW view, PathsPass(ms, blobs, view)
  PROVE  Viewed(ms, StripOne(TreeOf(ms))) /\ IsTree(StripOne(TreeOf(ms)))
<1>1. /\ view \subseteq blobs /\ \A g \in blobs : g.path \in Path
      /\ Paths(ItemsIn(view)) = {NamedAs(ms, e) : e \in Contents(ms)}
      /\ {Front(g.path) : g \in view \ ItemsIn(view)} = {NamedAs(ms, d) : d \in EmptyOf(ms)}
  BY DEF PathsPass
<1>2. \A g \in view : g.path \in Path /\ g.path # <<>> /\ Front(g.path) \in Seq(Name)
  BY <1>1, FrontIs DEF Path
<1>3. \A e \in Contents(ms) : NamedAs(ms, e) # <<>>
  <2>1. \A q \in Paths(ItemsIn(view)) : q # <<>>
    BY <1>2 DEF Paths, ItemsIn
  <2> QED
    BY <1>1, <2>1
<1>4. \A d \in EmptyOf(ms) : NamedAs(ms, d) \in Seq(Name)
  <2>1. \A q \in {Front(g.path) : g \in view \ ItemsIn(view)} : q \in Seq(Name)
    BY <1>2
  <2> QED
    BY <1>1, <2>1
<1> QED
  BY <1>3, <1>4, ShapeIs, ViewIs, AttestedIs

(* The entry of a blob that is no marker is from a member with a content.  *)
Keys(list) == {p \in DOMAIN list : Last(Reading(p)) # Marker}

LEMMA KeysAreItems ==
  ASSUME NEW t, IsTree(t), NEW lost, NEW p \in Keys(Walk(t, lost)), Readable(p)
  PROVE  p \in DOMAIN t /\ t[p].kind # "dir" /\ Last(p) # Marker
<1>1. /\ p \in ItemsOf(t, lost) \cup MarkersOf(t, lost) /\ p \in Path
      /\ Last(Reading(p)) # Marker
  BY WalkIs DEF Keys
<1>2. Last(Reading(p)) = Unquoted[Last(p)]
  BY <1>1, ReadingIs
<1>3. Last(p) # Marker
  BY <1>1, <1>2, NameAssumption
<1>4. p \notin MarkersOf(t, lost)
  <2>1. ASSUME NEW d \in Bare(t) PROVE Last(Append(d, Marker)) = Marker
    <3>1. d \in Seq(Name)
      BY DirectoryIs DEF Bare
    <3> QED
      BY <3>1, ExtendIs, NameAssumption
  <2> QED
    BY <1>3, <2>1 DEF MarkersOf
<1> QED
  BY <1>1, <1>3, <1>4 DEF ItemsOf, Directories

LEMMA ItemsAreMembers ==
  ASSUME NEW source, IsSource(source), source.packed, Sound(source.members), Attested(source.members)
  PROVE  \E d \in Seq(Name) : \A p \in DOMAIN Staged(source) :
           Staged(source)[p].kind # "dir" /\ Last(p) # Marker =>
             \E e \in Contents(source.members) : Undotted(source.members[e].path) = d \o p
<1> DEFINE ms == source.members
           T == TreeOf(ms)
           s == Stage(T, source.strip)
<1>1. IsTree(T) /\ source.strip \in Nat
  BY TreeOfIs DEF IsSource
<1>2. Staged(source) = MarkEmpty(s)
  BY DEF Staged, TreeIn
<1>3. PICK d \in Seq(Name) : /\ DOMAIN s = {p \in Path : d \o p \in DOMAIN T}
                             /\ \A p \in DOMAIN s : s[p] = T[d \o p]
  BY <1>1, StageBelow
<1>4. IsTree(s)
  BY <1>1, StageIsTree
<1> HIDE DEF s, T
<1>5. /\ DOMAIN MarkEmpty(s) = DOMAIN s \cup Marks(s)
      /\ \A p \in DOMAIN s : MarkEmpty(s)[p] = s[p]
  BY <1>4, MarkEmptyIs
<1>6. ASSUME NEW p \in DOMAIN Staged(source), Staged(source)[p].kind # "dir", Last(p) # Marker
      PROVE  \E e \in Contents(ms) : Undotted(ms[e].path) = d \o p
  <2>1. p \notin Marks(s)
    <3>1. ASSUME NEW c \in Hollow(s) PROVE Last(Append(c, Marker)) = Marker
      <4>1. c \in Seq(Name)
        BY <1>4, DirectoryIs DEF Hollow
      <4> QED
        BY <4>1, ExtendIs, NameAssumption
    <3> QED
      BY <1>6, <3>1 DEF Marks
  <2>2. p \in DOMAIN s /\ s[p].kind # "dir"
    BY <1>2, <1>5, <1>6, <2>1
  <2>3. d \o p \in DOMAIN T /\ T[d \o p].kind # "dir"
    BY <1>3, <2>2
  <2> DEFINE q == d \o p
  <2> HIDE DEF q
  <2>4. q \in Listed(ms)
    <3>1. DOMAIN T = Inner(ms) /\ \A z \in Inner(ms) \ Listed(ms) : T[z].kind = "dir"
      BY TreeOfIs DEF T
    <3> QED
      BY <2>3, <3>1 DEF q
  <2>5. PICK e \in DOMAIN ms : Undotted(ms[e].path) = q
    BY <2>4, ListedIs
  <2>6. T[q].kind = ms[e].kind
    <3>1. Undotted(ms[e].path) # <<>>
      BY <2>4, <2>5, ListedIs DEF Path
    <3>2. T[Undotted(ms[e].path)].kind = LinkedTo(ms, ms[e]).kind
      BY <3>1, TreeOfIs DEF T
    <3> QED
      BY <2>5, <3>2, AttestedIs
  <2>7. e \in Contents(ms)
    BY <2>3, <2>6, AttestedIs DEF q
  <2> QED
    BY <2>5, <2>7 DEF q
<1> QED
  BY <1>6

(* No two blobs have one path, markers left aside: the manifest has as     *)
(* many paths as the archive has contents.                                 *)
LEMMA ItemsAreDistinct ==
  ASSUME NEW source, IsSource(source), source.packed, Sound(source.members),
         Attested(source.members), NEW t, IsTree(t), DOMAIN t = DOMAIN Staged(source),
         \A p \in DOMAIN t : t[p] = Staged(source)[p], NEW lost, ~Refused(Walk(t, lost)),
         NEW view, Passed(source.members, Written(Walk(t, lost)), view)
  PROVE  ItemsIn(Written(Walk(t, lost))) = ItemsIn(view)
<1> DEFINE ms == source.members
           list == Walk(t, lost)
           blobs == Written(list)
           F == Contents(ms)
           K == Keys(list)
           P == Paths(ItemsIn(blobs))
           Q == Paths(ItemsIn(view))
<1>1. \A p \in DOMAIN list : p \in Path
  BY WalkIs
<1>2. /\ \A p \in DOMAIN list : Readable(p)
      /\ \A g \in blobs : \E p \in DOMAIN list :
           g.path = Reading(p) /\ g.mode = list[p].mode /\ g.data = list[p].data
      /\ \A p \in DOMAIN list : \E g \in blobs :
           g.path = Reading(p) /\ g.mode = list[p].mode /\ g.data = list[p].data
  BY <1>1, WrittenIs
<1>3. PICK d \in Seq(Name) : \A p \in DOMAIN Staged(source) :
        Staged(source)[p].kind # "dir" /\ Last(p) # Marker =>
          \E e \in F : Undotted(ms[e].path) = d \o p
  BY ItemsAreMembers
<1>4. \A p \in K : p \in DOMAIN t /\ t[p].kind # "dir" /\ Last(p) # Marker /\ p \in Path
  BY <1>1, <1>2, KeysAreItems DEF Keys
<1>5. \A p \in K : \E e \in F : Undotted(ms[e].path) = d \o p
  BY <1>3, <1>4
<1>6. IsFiniteSet(F)
  <2>1. IsFiniteSet(DOMAIN ms) /\ F \in SUBSET DOMAIN ms
    BY DEF Sound, IsArchive, Contents, OfKind
  <2> QED
    BY <2>1, FS_Subset
<1>7. /\ view \subseteq blobs
      /\ \A g \in blobs : g.path \in Path /\ \E v \in view : v.path = g.path
      /\ Q = {NamedAs(ms, e) : e \in F}
  BY DEF Passed, PathsPass
<1>8. \A x, e \in F : NamedAs(ms, x) = NamedAs(ms, e) => x = e
  <2>1. \A x, e \in DOMAIN ms : NamedAs(ms, x) = NamedAs(ms, e) => x = e
    BY PassedIsViewed DEF Viewed, Passed
  <2> QED
    BY <2>1 DEF Contents, OfKind
<1> DEFINE a == [e \in F |-> NamedAs(ms, e)]
           k == [p \in K |-> CHOOSE e \in F : Undotted(ms[e].path) = d \o p]
           r == [p \in K |-> Reading(p)]
<1> HIDE DEF F, K, P, Q, ms, list, blobs
<1>9. a \in Injection(F, Q)
  BY <1>7, <1>8 DEF Injection, IsInjective
<1>10. k \in Injection(K, F)
  <2>1. \A p \in K : k[p] \in F /\ Undotted(ms[k[p]].path) = d \o p
    BY <1>5, ZenonT(60)
  <2>2. k \in [K -> F]
    BY <2>1
  <2> HIDE DEF k
  <2>3. \A p, q \in K : k[p] = k[q] => p = q
    <3>1. SUFFICES ASSUME NEW p \in K, NEW q \in K, k[p] = k[q] PROVE p = q
      OBVIOUS
    <3>2. d \o p = d \o q
      BY <2>1, <3>1
    <3>3. p \in Seq(Name) /\ q \in Seq(Name)
      BY <1>4 DEF Path
    <3> QED
      BY <3>2, <3>3, ConcatSimplifications
  <2> QED
    BY <2>2, <2>3, SMTT(40) DEF Injection, IsInjective
<1>11. r \in Surjection(K, P)
  <2>1. ASSUME NEW p \in K PROVE Reading(p) \in P
    <3>1. p \in DOMAIN list /\ Last(Reading(p)) # Marker
      BY DEF K, Keys
    <3>2. PICK g \in blobs : g.path = Reading(p)
      BY <1>2, <3>1
    <3> QED
      BY <3>1, <3>2 DEF P, Paths, ItemsIn
  <2>2. ASSUME NEW q \in P PROVE \E p \in K : Reading(p) = q
    <3>1. PICK g \in blobs : g.path = q /\ Last(q) # Marker
      BY DEF P, Paths, ItemsIn
    <3>2. PICK p \in DOMAIN list : q = Reading(p)
      BY <1>2, <3>1
    <3> QED
      BY <3>1, <3>2 DEF K, Keys
  <2> QED
    BY <2>1, <2>2 DEF Surjection
<1>12. Q \subseteq P
  BY <1>7 DEF P, Q, Paths, ItemsIn
<1> HIDE DEF a, k
<1>13. r \in Injection(K, P)
  <2> HIDE DEF r
  <2> QED
    BY <1>6, <1>9, <1>10, <1>11, <1>12, NoTwo
<1>14. ASSUME NEW g \in ItemsIn(blobs)
       PROVE  g \in ItemsIn(view)
  <2>1. g \in blobs /\ Last(g.path) # Marker
    BY DEF ItemsIn
  <2>2. PICK v \in view : v.path = g.path
    BY <1>7, <2>1
  <2>3. \A h \in blobs : h.path = g.path =>
          \E p \in K : h = [path |-> Reading(p), mode |-> list[p].mode, data |-> list[p].data]
                       /\ Reading(p) = g.path
    <3>1. ASSUME NEW h \in blobs, h.path = g.path
          PROVE  \E p \in K : h = [path |-> Reading(p), mode |-> list[p].mode, data |-> list[p].data]
                              /\ Reading(p) = g.path
      <4>1. PICK p \in DOMAIN list : h = [path |-> Reading(p), mode |-> list[p].mode, data |-> list[p].data]
        BY DEF blobs, Written, Reading
      <4>2. Reading(p) = g.path
        BY <3>1, <4>1
      <4>3. p \in K
        BY <2>1, <4>2 DEF K, Keys
      <4> QED
        BY <4>1, <4>2, <4>3
    <3> QED
      BY <3>1
  <2>4. v \in blobs
    BY <1>7
  <2>5. PICK p \in K : g = [path |-> Reading(p), mode |-> list[p].mode, data |-> list[p].data]
                       /\ Reading(p) = g.path
    BY <2>1, <2>3
  <2>6. PICK q \in K : v = [path |-> Reading(q), mode |-> list[q].mode, data |-> list[q].data]
                       /\ Reading(q) = g.path
    BY <2>2, <2>3, <2>4
  <2>7. p = q
    BY <1>13, <2>5, <2>6 DEF Injection, IsInjective
  <2> QED
    BY <2>1, <2>5, <2>6, <2>7 DEF ItemsIn
<1>15. ItemsIn(view) \subseteq ItemsIn(blobs)
  BY <1>7 DEF ItemsIn
<1> QED
  BY <1>14, <1>15 DEF blobs, list

Triple(a, b, c) == <<a, b, c>>

LEMMA ItemsDelivered ==
  ASSUME NEW ms, Sound(ms), Attested(ms), NEW blobs, NEW view, Passed(ms, blobs, view),
         NEW s, IsTree(s), Viewed(ms, s)
  PROVE  {Triple(g.path, g.mode = "120000", g.data) : g \in ItemsIn(view)} =
           {Triple(p, s[p].kind \in Symlink, s[p].data) : p \in DOMAIN s \ Directories(s)}
<1> DEFINE items == ItemsIn(view)
           F == Contents(ms)
<1>1. /\ \A g \in items : g.path \in Path /\ g.path # <<>>
      /\ Paths(items) = {NamedAs(ms, e) : e \in F}
      /\ \A g \in items, e \in F : g.path = NamedAs(ms, e) =>
           /\ g.mode = "120000" <=> ms[e].kind \in Symlink
           /\ ms[e].kind \notin Symlink => g.data = ms[e].data
      /\ \A g \in items : g.mode = "120000" =>
           \E e \in F : g.path = NamedAs(ms, e) /\ g.data = ms[e].data
  BY DEF Passed, PathsPass, ItemsIn, Path
<1>2. \A e \in F : e \in DOMAIN ms /\ ms[e].kind # "dir"
  BY AttestedIs DEF Contents, OfKind
<1>3. \A e \in DOMAIN ms : ms[e].kind # "dir" => e \in F
  BY AttestedIs
<1> HIDE DEF items, F
<1>4. ASSUME NEW g \in items, NEW e \in F, g.path = NamedAs(ms, e)
      PROVE  /\ NamedAs(ms, e) \in DOMAIN s \ Directories(s)
             /\ Triple(g.path, g.mode = "120000", g.data)
                  = Triple(NamedAs(ms, e), s[NamedAs(ms, e)].kind \in Symlink, s[NamedAs(ms, e)].data)
  <2>1. NamedAs(ms, e) \in DOMAIN s /\ s[NamedAs(ms, e)].kind = ms[e].kind
        /\ s[NamedAs(ms, e)].data = ms[e].data
    BY <1>1, <1>2, <1>4 DEF Viewed
  <2>2. g.data = ms[e].data
    <3>1. CASE ms[e].kind \in Symlink
      <4>1. PICK f \in F : g.path = NamedAs(ms, f) /\ g.data = ms[f].data
        BY <1>1, <1>4, <3>1
      <4>2. f = e
        BY <1>2, <1>4, <4>1 DEF Viewed
      <4> QED
        BY <4>1, <4>2
    <3>2. CASE ms[e].kind \notin Symlink
      BY <1>1, <1>4, <3>2
    <3> QED
      BY <3>1, <3>2
  <2>3. (g.mode = "120000") = (s[NamedAs(ms, e)].kind \in Symlink)
    BY <1>1, <1>4, <2>1
  <2>4. NamedAs(ms, e) \notin Directories(s)
    BY <1>2, <2>1 DEF Directories
  <2> QED
    BY <1>4, <2>1, <2>2, <2>3, <2>4
<1>5. ASSUME NEW g \in items PROVE \E e \in F : g.path = NamedAs(ms, e)
  <2>1. g.path \in Paths(items)
    BY DEF Paths
  <2>2. g.path \in {NamedAs(ms, e) : e \in F}
    BY <1>1, <2>1
  <2> QED
    BY <2>2
<1>6. \A e \in F : \E g \in items : g.path = NamedAs(ms, e)
  BY <1>1 DEF Paths
<1>7. ASSUME NEW p \in DOMAIN s \ Directories(s)
      PROVE  \E e \in F : p = NamedAs(ms, e)
  <2>1. PICK e \in DOMAIN ms : IsPrefix(p, NamedAs(ms, e))
    BY DEF Viewed
  <2>2. p \in Seq(Name) /\ p # <<>> /\ Len(p) \in Nat \ {0}
    BY NodeIs
  <2>3. NamedAs(ms, e) \in DOMAIN s
    <3> DEFINE o == <<>>
    <3>1. o \in Seq(Name) /\ Len(o) = 0
      OBVIOUS
    <3> HIDE DEF o
    <3>2. ~IsPrefix(p, o)
      <4>1. IsPrefix(p, o) => Len(p) <= Len(o)
        BY <2>2, <3>1, PrefixIs
      <4> QED
        BY <2>2, <3>1, <4>1
    <3>3. NamedAs(ms, e) # o
      BY <2>1, <3>2
    <3> QED
      BY <3>3 DEF Viewed, o
  <2>4. p = NamedAs(ms, e)
    <3>1. p # NamedAs(ms, e) => p \in Directories(s)
      BY <2>1, <2>2, <2>3, AboveIs DEF IsStrictPrefix
    <3> QED
      BY <3>1
  <2>5. ms[e].kind # "dir"
    BY <2>2, <2>3, <2>4 DEF Viewed, Directories
  <2> QED
    BY <1>3, <2>4, <2>5
<1>8. ASSUME NEW x \in {Triple(g.path, g.mode = "120000", g.data) : g \in items}
      PROVE  x \in {Triple(p, s[p].kind \in Symlink, s[p].data) : p \in DOMAIN s \ Directories(s)}
  <2>1. PICK g \in items : x = Triple(g.path, g.mode = "120000", g.data)
    BY <1>8
  <2>2. PICK e \in F : g.path = NamedAs(ms, e)
    BY <1>5
  <2> QED
    BY <1>4, <2>1, <2>2
<1>9. ASSUME NEW p \in DOMAIN s \ Directories(s)
      PROVE  Triple(p, s[p].kind \in Symlink, s[p].data) \in
               {Triple(g.path, g.mode = "120000", g.data) : g \in items}
  <2>1. PICK e \in F : p = NamedAs(ms, e)
    BY <1>7
  <2>2. PICK g \in items : g.path = NamedAs(ms, e)
    BY <1>6
  <2>3. Triple(g.path, g.mode = "120000", g.data) = Triple(p, s[p].kind \in Symlink, s[p].data)
    BY <1>4, <2>1, <2>2
  <2> QED
    BY <2>3
<1> QED
  BY <1>8, <1>9 DEF items

(* The directories of a checkout without its markers, and those it has to have. *)
Parents(blobs) == UNION {{SubSeq(g.path, 1, i) : i \in 1..(Len(g.path) - 1)} : g \in blobs}

(* Every blob of a view is a member's or marks an empty directory. *)
LEMMA BlobIs ==
  ASSUME NEW ms, Sound(ms), Attested(ms), NEW blobs, NEW view, Passed(ms, blobs, view),
         NEW s, IsTree(s), Viewed(ms, s), NEW g \in blobs
  PROVE  \/ g.path \in DOMAIN s
         \/ /\ Front(g.path) \in Directories(s) \cup {<<>>}
            /\ g.path = Append(Front(g.path), Marker)
<1>1. PICK v \in view : v.path = g.path /\ g.path \in Path
  BY DEF Passed, PathsPass
<1>2. CASE v \in ItemsIn(view)
  <2>1. v.path \in Paths(ItemsIn(view))
    BY <1>2 DEF Paths
  <2>2. v.path \in {NamedAs(ms, e) : e \in Contents(ms)}
    BY <2>1 DEF Passed, PathsPass
  <2>3. PICK e \in Contents(ms) : v.path = NamedAs(ms, e)
    BY <2>2
  <2>4. e \in DOMAIN ms
    BY DEF Contents, OfKind
  <2>5. NamedAs(ms, e) # <<>>
    BY <1>1, <2>3 DEF Path
  <2> QED
    BY <1>1, <2>3, <2>4, <2>5 DEF Viewed
<1>3. CASE v \notin ItemsIn(view)
  <2>1. Last(g.path) = Marker
    BY <1>1, <1>3 DEF ItemsIn
  <2>2. Front(v.path) \in {Front(h.path) : h \in view \ ItemsIn(view)}
    BY <1>1, <1>3
  <2>3. Front(v.path) \in {NamedAs(ms, d) : d \in EmptyOf(ms)}
    BY <2>2 DEF Passed, PathsPass
  <2>4. PICK d \in EmptyOf(ms) : Front(v.path) = NamedAs(ms, d)
    BY <2>3
  <2>5. d \in DOMAIN ms /\ ms[d].kind = "dir"
    BY DEF EmptyOf, OfKind
  <2>6. Front(g.path) \in Directories(s) \cup {<<>>}
    BY <1>1, <2>4, <2>5 DEF Viewed, Directories
  <2>7. g.path = Append(Front(g.path), Last(g.path))
    BY <1>1, FrontIs DEF Path
  <2> QED
    BY <2>1, <2>6, <2>7
<1> QED
  BY <1>2, <1>3

LEMMA PrefixCut ==
  ASSUME NEW S, NEW p \in Seq(S), NEW q \in Seq(S), IsPrefix(p, q)
  PROVE  /\ Len(p) \in 0..Len(q) /\ p = SubSeq(q, 1, Len(p))
         /\ p # q => Len(p) < Len(q)
<1>1. Len(p) <= Len(q) /\ \A i \in 1..Len(p) : p[i] = q[i]
  BY PrefixIs
<1>2. Len(p) \in 0..Len(q)
  BY <1>1
<1>3. /\ SubSeq(q, 1, Len(p)) \in Seq(S) /\ Len(SubSeq(q, 1, Len(p))) = Len(p)
      /\ \A i \in 1..Len(p) : SubSeq(q, 1, Len(p))[i] = q[i]
  BY <1>2, CutIs
<1>4. p = SubSeq(q, 1, Len(p))
  BY <1>1, <1>3
<1>5. Len(p) = Len(q) => p = q
  BY <1>1
<1> QED
  BY <1>1, <1>2, <1>4, <1>5

LEMMA PrefixTransitive ==
  ASSUME NEW S, NEW p \in Seq(S), NEW q \in Seq(S), NEW r \in Seq(S),
         IsPrefix(p, q), IsPrefix(q, r)
  PROVE  IsPrefix(p, r)
<1>1. Len(p) <= Len(q) /\ \A i \in 1..Len(p) : p[i] = q[i]
  BY PrefixIs
<1>2. Len(q) <= Len(r) /\ \A i \in 1..Len(q) : q[i] = r[i]
  BY PrefixIs
<1>3. Len(p) <= Len(r) /\ \A i \in 1..Len(p) : p[i] = r[i]
  BY <1>1, <1>2
<1> QED
  BY <1>3, PrefixIs

(* A node, or a start of it, is not the empty path. *)
LEMMA NamedBelow ==
  ASSUME NEW ms, NEW s, IsTree(s), Viewed(ms, s), NEW z \in Seq(Name), z # <<>>,
         NEW e \in DOMAIN ms, IsPrefix(z, NamedAs(ms, e))
  PROVE  /\ NamedAs(ms, e) \in DOMAIN s /\ NamedAs(ms, e) \in Seq(Name)
         /\ s[NamedAs(ms, e)].kind = ms[e].kind
<1> DEFINE o == <<>>
           w == NamedAs(ms, e)
<1>1. o \in Seq(Name) /\ Len(o) = 0
  OBVIOUS
<1>2. w \in DOMAIN s \/ w = o
  BY DEF Viewed
<1>3. Len(z) \in Nat \ {0}
  OBVIOUS
<1> HIDE DEF o
<1>4. w # o
  <2>1. IsPrefix(z, o) => Len(z) <= Len(o)
    BY <1>1, PrefixIs
  <2>2. ~IsPrefix(z, o)
    BY <1>1, <1>3, <2>1
  <2> QED
    BY <2>2
<1>5. w \in DOMAIN s
  BY <1>2, <1>4
<1>6. w \in Seq(Name)
  BY <1>5, NodeIs
<1> QED
  BY <1>4, <1>5, <1>6 DEF Viewed, o

LEMMA DirsDelivered ==
  ASSUME NEW ms, Sound(ms), Attested(ms), NEW blobs, NEW view, Passed(ms, blobs, view),
         NEW s, IsTree(s), Viewed(ms, s)
  PROVE  Parents(blobs) = Directories(s)
<1>1. ASSUME NEW g \in blobs, NEW i \in 1..(Len(g.path) - 1)
      PROVE  SubSeq(g.path, 1, i) \in Directories(s)
  <2> DEFINE q == g.path
             f == Front(g.path)
  <2>1. q \in Seq(Name) /\ q # <<>> /\ Len(q) \in Nat \ {0}
    BY DEF Passed, PathsPass, Path
  <2>2. f \in Seq(Name) /\ Len(f) = Len(q) - 1
    BY <2>1, FrontIs
  <2>3. CASE q \in DOMAIN s
    <3>1. SubSeq(q, 1, i) \in DOMAIN s /\ s[SubSeq(q, 1, i)].kind = "dir"
      BY <2>3, NodeIs
    <3> QED
      BY <3>1 DEF Directories
  <2>4. CASE f \in Directories(s) \cup {<<>>} /\ q = Append(f, Marker)
    <3>1. i \in 1..Len(f) /\ Len(f) \in Nat
      BY <2>1, <2>2
    <3>2. f # <<>>
      BY <3>1
    <3>3. f \in DOMAIN s /\ f \in Directories(s)
      BY <2>4, <3>2 DEF Directories
    <3>4. Marker \in Name
      BY NameAssumption
    <3> HIDE DEF q, f
    <3>5. SubSeq(Append(f, Marker), 1, i) = SubSeq(f, 1, i)
          /\ SubSeq(Append(f, Marker), 1, Len(f)) = f
      <4>1. /\ \A j \in 0..Len(f) : SubSeq(Append(f, Marker), 1, j) = SubSeq(f, 1, j)
            /\ SubSeq(Append(f, Marker), 1, Len(f)) = f
        BY <2>2, <3>4, ExtendIs
      <4> QED
        BY <3>1, <4>1
    <3>6. CASE i = Len(f)
      BY <2>4, <3>3, <3>5, <3>6 DEF q
    <3>7. CASE i # Len(f)
      <4>1. i \in 1..(Len(f) - 1)
        BY <3>1, <3>7
      <4>2. SubSeq(f, 1, i) \in DOMAIN s /\ s[SubSeq(f, 1, i)].kind = "dir"
        BY <3>3, <4>1, NodeIs
      <4> QED
        BY <2>4, <3>5, <4>2 DEF Directories, q
    <3> QED
      BY <3>6, <3>7
  <2> QED
    BY <2>3, <2>4, BlobIs
<1>2. ASSUME NEW d \in Directories(s)
      PROVE  \E g \in blobs : \E i \in 1..(Len(g.path) - 1) : d = SubSeq(g.path, 1, i)
  <2> DEFINE Q == {z \in DOMAIN s : IsPrefix(d, z)}
  <2>1. d \in DOMAIN s /\ s[d].kind = "dir" /\ d \in Seq(Name) /\ d # <<>> /\ Len(d) \in Nat \ {0}
    BY NodeIs DEF Directories
  <2>2. IsPrefix(d, d)
    BY <2>1, PrefixIs
  <2>3. Q \in SUBSET Path /\ IsFiniteSet(Q) /\ Q # {}
    BY <2>1, <2>2, FS_Subset DEF IsTree
  <2>4. PICK z \in Q : \A u \in Q : Len(u) <= Len(z)
    BY <2>3, LongestExists
  <2>5. z \in DOMAIN s /\ z \in Seq(Name) /\ z # <<>> /\ IsPrefix(d, z) /\ Len(z) \in Nat
    BY NodeIs
  <2>6. ASSUME NEW w \in DOMAIN s, w \in Seq(Name), IsPrefix(z, w)
        PROVE  w = z
    <3>1. IsPrefix(d, w)
      BY <2>1, <2>5, <2>6, PrefixTransitive
    <3>2. Len(w) <= Len(z)
      BY <2>4, <2>6, <3>1
    <3>3. z # w => Len(z) < Len(w)
      BY <2>5, <2>6, PrefixCut
    <3>4. Len(w) \in Nat
      BY <2>6
    <3> QED
      BY <2>5, <3>2, <3>3, <3>4
  <2>7. PICK e \in DOMAIN ms : IsPrefix(z, NamedAs(ms, e))
    BY <2>5 DEF Viewed
  <2>8. NamedAs(ms, e) = z /\ s[z].kind = ms[e].kind
    BY <2>5, <2>6, <2>7, NamedBelow
  <2>9. d = SubSeq(z, 1, Len(d)) /\ Len(d) \in 1..Len(z) /\ (d # z => Len(d) \in 1..(Len(z) - 1))
    <3>1. Len(d) \in 0..Len(z) /\ d = SubSeq(z, 1, Len(d)) /\ (d # z => Len(d) < Len(z))
      BY <2>1, <2>5, PrefixCut, SMTT(40)
    <3> QED
      BY <2>1, <2>5, <3>1
  <2>10. CASE ms[e].kind # "dir"
    <3>1. e \in Contents(ms)
      BY <2>10, AttestedIs
    <3>2. z \in {NamedAs(ms, f) : f \in Contents(ms)}
      BY <2>8, <3>1
    <3>3. z \in Paths(ItemsIn(view))
      BY <3>2 DEF Passed, PathsPass
    <3>4. PICK g \in ItemsIn(view) : g.path = z
      BY <3>3 DEF Paths
    <3>5. g \in blobs
      BY DEF Passed, PathsPass, ItemsIn
    <3>6. d # z
      BY <2>1, <2>8, <2>10, SMTT(40)
    <3> QED
      BY <2>9, <3>4, <3>5, <3>6
  <2>11. CASE ms[e].kind = "dir"
    <3>1. ASSUME NEW f \in DOMAIN ms, IsStrictPrefix(NormalOf(ms, e), NormalOf(ms, f))
          PROVE  FALSE
      <4>1. IsStrictPrefix(z, NamedAs(ms, f))
        BY <2>8, <3>1 DEF Viewed
      <4>2. IsPrefix(z, NamedAs(ms, f)) /\ z # NamedAs(ms, f)
        BY <4>1 DEF IsStrictPrefix
      <4>3. NamedAs(ms, f) \in DOMAIN s /\ NamedAs(ms, f) \in Seq(Name)
        BY <2>5, <4>2, NamedBelow
      <4> QED
        BY <2>6, <4>2, <4>3
    <3>2. e \in EmptyOf(ms)
      BY <2>11, <3>1 DEF EmptyOf, OfKind
    <3>3. z \in {NamedAs(ms, f) : f \in EmptyOf(ms)}
      BY <2>8, <3>2
    <3>4. z \in {Front(g.path) : g \in view \ ItemsIn(view)}
      BY <3>3 DEF Passed, PathsPass
    <3>5. PICK g \in view \ ItemsIn(view) : Front(g.path) = z
      BY <3>4
    <3>6. g \in blobs /\ g.path \in Seq(Name) /\ g.path # <<>>
      BY DEF Passed, PathsPass, Path
    <3>7. /\ Last(g.path) \in Name /\ g.path = Append(z, Last(g.path)) /\ Len(z) = Len(g.path) - 1
      BY <3>5, <3>6, FrontIs
    <3>8. SubSeq(Append(z, Last(g.path)), 1, Len(d)) = SubSeq(z, 1, Len(d))
      <4>1. \A j \in 0..Len(z) : SubSeq(Append(z, Last(g.path)), 1, j) = SubSeq(z, 1, j)
        BY <2>5, <3>7, ExtendIs
      <4>2. Len(d) \in 0..Len(z)
        BY <2>1, <2>5, <2>9
      <4> QED
        BY <4>1, <4>2
    <3>9. d = SubSeq(g.path, 1, Len(d))
      BY <2>9, <3>7, <3>8
    <3>10. Len(d) \in 1..(Len(g.path) - 1)
      BY <2>9, <3>7
    <3> QED
      BY <3>6, <3>9, <3>10
  <2> QED
    BY <2>10, <2>11
<1> DEFINE Of(h) == {SubSeq(h.path, 1, i) : i \in 1..(Len(h.path) - 1)}
<1>3. Parents(blobs) \subseteq Directories(s)
  <2>1. \A h \in blobs : Of(h) \subseteq Directories(s)
    BY <1>1
  <2> HIDE DEF Of
  <2>2. UNION {Of(h) : h \in blobs} \subseteq Directories(s)
    BY <2>1
  <2> QED
    BY <2>2 DEF Parents, Of
<1>4. ASSUME NEW d \in Directories(s) PROVE d \in Parents(blobs)
  <2>1. PICK g \in blobs : \E i \in 1..(Len(g.path) - 1) : d = SubSeq(g.path, 1, i)
    BY <1>2
  <2>2. d \in {SubSeq(g.path, 1, i) : i \in 1..(Len(g.path) - 1)}
    BY <2>1
  <2>3. d \in Of(g)
    BY <2>2
  <2> HIDE DEF Of
  <2>4. d \in UNION {Of(h) : h \in blobs}
    BY <2>3
  <2> QED
    BY <2>4 DEF Parents, Of
<1> QED
  BY <1>3, <1>4

(* A release from one archive is what that archive becomes. *)
LEMMA OneSourceIs ==
  ASSUME NEW r, NEW t, Merged(r, 1, t)
  PROVE  /\ DOMAIN t = DOMAIN Staged(r[1])
         /\ \A p \in DOMAIN t : t[p] = Staged(r[1])[p]
<1>1. ~SharedIn(r, 1)
  BY DEF SharedIn
<1>2. ArrivedIn(r, 1, t)
  BY <1>1 DEF Merged
<1>3. 1..1 = {1} /\ (1 + 1)..1 = {}
  OBVIOUS
<1>4. DOMAIN t = UNION {DOMAIN Staged(r[i]) : i \in {1}}
  BY <1>2, <1>3 DEF ArrivedIn
<1>5. UNION {DOMAIN Staged(r[i]) : i \in {1}} = DOMAIN Staged(r[1])
  OBVIOUS
<1>6. \A i \in {1} : \A p \in DOMAIN Staged(r[i]) :
        (\A j \in (i + 1)..1 : p \notin DOMAIN Staged(r[j])) => t[p] = Staged(r[i])[p]
  BY <1>2, <1>3 DEF ArrivedIn
<1>7. \A p \in DOMAIN Staged(r[1]) : t[p] = Staged(r[1])[p]
  BY <1>3, <1>6
<1> QED
  BY <1>4, <1>5, <1>7

LEMMA GreenArchiveIs ==
  ASSUME NEW ms, Sound(ms), Attested(ms), NEW blobs, NEW view, Passed(ms, blobs, view),
         ItemsIn(blobs) = ItemsIn(view)
  PROVE  LET s == StripOne(TreeOf(ms))
         IN /\ Parents(blobs) = Directories(s)
            /\ {Triple(g.path, g.mode = "120000", g.data) : g \in ItemsIn(blobs)} =
                 {Triple(p, s[p].kind \in Symlink, s[p].data) : p \in DOMAIN s \ Directories(s)}
<1> DEFINE s == StripOne(TreeOf(ms))
<1>1. Viewed(ms, s) /\ IsTree(s)
  BY PassedIsViewed DEF Passed
<1> HIDE DEF s
<1>2. Parents(blobs) = Directories(s)
  BY <1>1, DirsDelivered
<1>3. {Triple(g.path, g.mode = "120000", g.data) : g \in ItemsIn(view)} =
        {Triple(p, s[p].kind \in Symlink, s[p].data) : p \in DOMAIN s \ Directories(s)}
  BY <1>1, ItemsDelivered
<1> QED
  BY <1>2, <1>3 DEF s

LEMMA InvIsFaithful ==
  ASSUME ReleaseInv, Merged(recipe, taken, tree)
  PROVE  GreenIsFaithful
<1>1. SUFFICES ASSUME phase = "done", Certified, findings = {}, Attested(Members)
               PROVE  Restored = Delivered(StripOne(Archive))
  BY DEF GreenIsFaithful
<1>2. /\ taken = Len(recipe) /\ entries = Walk(tree, unread)
      /\ objects = Written(entries) /\ ~Refused(entries)
      /\ \E view \in Views(objects), man \in Loaded(Manifest(Members)) : findings = TF(view, man)
  BY <1>1 DEF ReleaseInv, Walked
<1>3. Len(recipe) = 1 /\ recipe[1].packed /\ recipe \in Recipe /\ IsTree(tree)
      /\ \A g \in objects : g.path \in Path
  BY <1>1 DEF Certified, ReleaseInv, Rooted, Listings
<1>4. 1 \in DOMAIN recipe
  <2>1. DOMAIN recipe = 1..Len(recipe)
    BY <1>3, RecipeIs
  <2> QED
    BY <1>3, <2>1
<1>5. IsSource(recipe[1]) /\ Sound(Members)
  BY <1>1, <1>3, <1>4, SourcesAreTrees DEF Members
<1>6. Merged(recipe, 1, tree)
  BY <1>2, <1>3
<1>7. DOMAIN tree = DOMAIN Staged(recipe[1]) /\ \A p \in DOMAIN tree : tree[p] = Staged(recipe[1])[p]
  BY <1>6, OneSourceIs
<1>8. PICK view \in Views(objects), man \in Loaded(Manifest(Members)) : TF(view, man) = {}
  BY <1>1, <1>2
<1>9. Passed(Members, objects, view)
  <2>1. \A e \in DOMAIN Members : IsText(Members[e].path)
    BY <1>1 DEF Attested, PathsOf
  <2>2. Shown(Members)
    BY <1>5, <2>1, ShownIs
  <2>3. PathsPass(Members, objects, view)
    BY <1>3, <1>8, <2>2, NoFindingIs
  <2>4. Viewed(Members, StripOne(TreeOf(Members)))
    BY <1>1, <1>5, <2>3, PassedIsViewed
  <2>5. \A d, e \in Contents(Members) : NamedAs(Members, d) = NamedAs(Members, e) => d = e
    BY <2>4 DEF Viewed, Contents, OfKind
  <2> QED
    BY <1>3, <1>8, <2>2, <2>5, NoFindingIs
<1>10. ItemsIn(objects) = ItemsIn(view)
  <2> DEFINE source == recipe[1]
  <2>1. source.members = Members
    BY DEF Members
  <2> HIDE DEF source
  <2>2. IsSource(source) /\ source.packed /\ Sound(source.members) /\ Attested(source.members)
        /\ DOMAIN tree = DOMAIN Staged(source) /\ \A p \in DOMAIN tree : tree[p] = Staged(source)[p]
    BY <1>1, <1>3, <1>5, <1>7, <2>1 DEF source
  <2>3. ~Refused(Walk(tree, unread))
        /\ Passed(source.members, Written(Walk(tree, unread)), view)
    BY <1>2, <1>9, <2>1
  <2>4. ItemsIn(Written(Walk(tree, unread))) = ItemsIn(view)
    BY <1>3, <2>2, <2>3, ItemsAreDistinct
  <2> QED
    BY <1>2, <2>4
<1> DEFINE s == StripOne(Archive)
<1>11. /\ Parents(objects) = Directories(s)
       /\ {Triple(g.path, g.mode = "120000", g.data) : g \in ItemsIn(objects)} =
            {Triple(p, s[p].kind \in Symlink, s[p].data) : p \in DOMAIN s \ Directories(s)}
  BY <1>1, <1>5, <1>9, <1>10, GreenArchiveIs DEF Archive
<1> HIDE DEF s
<1>12. Restored.dirs = Parents(objects) /\ Delivered(s).dirs = Directories(s)
  BY DEF Restored, Delivered, Parents
<1>13. Restored.items = {Triple(g.path, g.mode = "120000", g.data) : g \in ItemsIn(objects)}
  BY DEF Restored, ItemsIn, Triple
<1>14. Delivered(s).items =
         {Triple(p, s[p].kind \in Symlink, s[p].data) : p \in DOMAIN s \ Directories(s)}
  BY DEF Delivered, Symlink, Triple
<1>15. Restored = [dirs |-> Restored.dirs, items |-> Restored.items]
       /\ Delivered(s) = [dirs |-> Delivered(s).dirs, items |-> Delivered(s).items]
  BY DEF Restored, Delivered
<1>16. Restored.dirs = Delivered(s).dirs /\ Restored.items = Delivered(s).items
  BY <1>11, <1>12, <1>13, <1>14
<1>17. Restored = Delivered(s)
  BY <1>15, <1>16
<1> QED
  BY <1>17 DEF s

(* A release whose manifest tells of every member of its one archive, and  *)
(* that passes TF-1 to TF-5, is that archive: the same files with the same *)
(* contents, the same links, the same directories (GreenIsFaithful).       *)
THEOREM GreenReleasesAreFaithful == Spec => []GreenIsFaithful
<1>1. ReleaseInv /\ Merged(recipe, taken, tree) => GreenIsFaithful
  BY InvIsFaithful
<1> QED
  BY <1>1, ReleaseMerges, PTL

-----------------------------------------------------------------------------
(* Which releases have no finding *)

(* The directories that get a marker, and all that the walk lists.         *)
Blank(g) == {b \in Directories(g) : \A c \in Children(g, b) : g[c].kind = "dirlink"}
              \cup {b \in {<<>>} : DOMAIN g = {}}
KeysOf(g, lost) == ItemsOf(g, lost) \cup {Append(b, Marker) : b \in {c \in Blank(g) : ListedAt(lost, c)}}

LEMMA RootIsHollow ==
  ASSUME NEW g, IsTree(g), Children(g, <<>>) = {}
  PROVE  DOMAIN g = {}
<1>1. SUFFICES ASSUME NEW p \in DOMAIN g PROVE FALSE
  OBVIOUS
<1>2. Top(p[1]) \in DOMAIN g /\ p \in Path
  BY TopIs, NodeIs
<1>3. p[1] \in Name
  BY <1>2, FirstIs
<1> DEFINE c == Top(p[1])
<1>4. c \in Seq(Name) /\ c # <<>> /\ Len(c) = 1
  BY <1>3, TopPathIs DEF Path
<1>5. Front(c) \in Seq(Name) /\ Len(Front(c)) = 0
  BY <1>4, FrontIs
<1>6. Front(c) = <<>>
  BY <1>5, EmptySeq
<1>7. c \in DOMAIN g
  BY <1>2
<1> HIDE DEF c
<1> QED
  BY <1>4, <1>6, <1>7 DEF Children

(* A tree with its markers is walked as if its blank directories had them. *)
LEMMA WalkOfMarked ==
  ASSUME NEW g, IsTree(g), NEW t, IsTree(t), DOMAIN t = DOMAIN MarkEmpty(g),
         \A p \in DOMAIN t : t[p] = MarkEmpty(g)[p], NEW lost
  PROVE  /\ DOMAIN Walk(t, lost) = KeysOf(g, lost)
         /\ \A p \in ItemsOf(g, lost) : /\ Walk(t, lost)[p].mode = ModeOf(g[p])
                                        /\ Walk(t, lost)[p].data = g[p].data
         /\ Directories(t) = Directories(g)
<1>1. /\ DOMAIN t = DOMAIN g \cup Marks(g)
      /\ \A p \in DOMAIN g : t[p] = g[p]
      /\ Marks(g) \cap DOMAIN g = {}
      /\ \A p \in Marks(g) : t[p] = [kind |-> "file", data |-> <<>>]
      /\ Directories(MarkEmpty(g)) = Directories(g)
  BY MarkEmptyIs
<1>2. \A p \in Marks(g) : t[p].kind # "dir"
  <2>1. \A p \in Marks(g) : t[p].kind = "file"
    BY <1>1
  <2> QED
    BY <2>1
<1>3. Directories(t) = Directories(g)
  BY <1>1, <1>2 DEF Directories
<1>4. /\ DOMAIN Walk(t, lost) = ItemsOf(t, lost) \cup MarkersOf(t, lost)
      /\ \A p \in ItemsOf(t, lost) : /\ Walk(t, lost)[p].mode = ModeOf(t[p])
                                     /\ Walk(t, lost)[p].data = t[p].data
  BY WalkIs, ZenonT(60)
<1>5. \A d \in Directories(g) \cup {<<>>} : /\ d \in Seq(Name) /\ Append(d, Marker) \in Path
                                           /\ Front(Append(d, Marker)) = d
  <2>1. \A d \in Directories(g) \cup {<<>>} : d \in Seq(Name) /\ Append(d, Marker) \in Path
    BY DirectoryIs
  <2> QED
    BY <2>1, ExtendIs, NameAssumption
<1>6. Hollow(g) \subseteq Blank(g)
  BY RootIsHollow DEF Hollow, Blank
<1>7. Bare(t) \subseteq Blank(g)
  BY <1>1, <1>3 DEF Bare, Blank, Children
<1>8. ASSUME NEW b \in Blank(g), b \notin Hollow(g)
      PROVE  b \in Bare(t)
  <2>1. b \in Directories(g) /\ \A c \in Children(g, b) : g[c].kind = "dirlink"
    BY <1>8 DEF Blank, Hollow, Children
  <2>2. \A c \in Children(t, b) : c \in Children(g, b)
    <3>1. SUFFICES ASSUME NEW c \in Children(t, b), c \in Marks(g) PROVE FALSE
      BY <1>1 DEF Children
    <3>2. PICK d \in Hollow(g) : c = Append(d, Marker)
      BY <3>1 DEF Marks
    <3>3. d = b
      BY <1>5, <3>2 DEF Children, Hollow
    <3> QED
      BY <1>8, <3>3
  <2>3. \A c \in Children(g, b) : c \in DOMAIN g
    BY DEF Children
  <2> QED
    BY <1>1, <1>3, <2>1, <2>2, <2>3 DEF Bare
<1>9. ItemsOf(g, lost) \subseteq ItemsOf(t, lost)
  BY <1>1, <1>3 DEF ItemsOf
<1>10. ASSUME NEW p \in ItemsOf(t, lost) PROVE p \in KeysOf(g, lost)
  <2>1. CASE p \in DOMAIN g
    BY <1>3, <2>1 DEF ItemsOf, KeysOf
  <2>2. CASE p \notin DOMAIN g
    <3>1. PICK d \in Hollow(g) : p = Append(d, Marker)
      BY <1>1, <2>2 DEF ItemsOf, Marks
    <3>2. Front(p) = d
      BY <1>5, <3>1 DEF Hollow
    <3> QED
      BY <1>6, <3>1, <3>2 DEF ItemsOf, KeysOf
  <2> QED
    BY <2>1, <2>2
<1>11. ASSUME NEW p \in MarkersOf(t, lost) PROVE p \in KeysOf(g, lost)
  BY <1>7 DEF MarkersOf, KeysOf
<1>12. ASSUME NEW b \in Blank(g), ListedAt(lost, b)
       PROVE  Append(b, Marker) \in ItemsOf(t, lost) \cup MarkersOf(t, lost)
  <2>1. CASE b \in Hollow(g)
    <3>1. Append(b, Marker) \in Marks(g)
      BY <2>1 DEF Marks
    <3>2. Append(b, Marker) \in DOMAIN t \ Directories(t)
      BY <1>1, <1>2, <3>1 DEF Directories
    <3>3. Front(Append(b, Marker)) = b
      BY <1>5, <2>1 DEF Hollow
    <3> QED
      BY <1>12, <3>2, <3>3 DEF ItemsOf
  <2>2. CASE b \notin Hollow(g)
    BY <1>8, <1>12, <2>2 DEF MarkersOf
  <2> QED
    BY <2>1, <2>2
<1>13. DOMAIN Walk(t, lost) = KeysOf(g, lost)
  <2>1. ItemsOf(t, lost) \cup MarkersOf(t, lost) \subseteq KeysOf(g, lost)
    BY <1>10, <1>11
  <2>2. KeysOf(g, lost) \subseteq ItemsOf(t, lost) \cup MarkersOf(t, lost)
    BY <1>9, <1>12 DEF KeysOf
  <2> QED
    BY <1>4, <2>1, <2>2
<1>14. \A p \in ItemsOf(g, lost) : p \in DOMAIN g
  BY DEF ItemsOf
<1> QED
  BY <1>1, <1>3, <1>4, <1>9, <1>13, <1>14

(* What the checks have found equal, said of the list of the walk.         *)
Agreed(ms, K) ==
  /\ \A p \in K : Readable(p)
  /\ \A p \in K : Last(Reading(p)) # Marker =>
       \E e \in Contents(ms) : Reading(p) = NamedAs(ms, e)
  /\ \A p \in K : Last(Reading(p)) = Marker =>
       \E e \in EmptyOf(ms) : Front(Reading(p)) = NamedAs(ms, e)
  /\ \A e \in Contents(ms) : \E p \in K :
       Reading(p) = NamedAs(ms, e) /\ Last(Reading(p)) # Marker
  /\ \A e \in EmptyOf(ms) : \E p \in K :
       Front(Reading(p)) = NamedAs(ms, e) /\ Last(Reading(p)) = Marker

LEMMA PassedIsAgreed ==
  ASSUME NEW ms, NEW list, \A p \in DOMAIN list : p \in Path, ~Refused(list),
         NEW view, PathsPass(ms, Written(list), view)
  PROVE  Agreed(ms, DOMAIN list)
<1> DEFINE blobs == Written(list)
           K == DOMAIN list
           I == {NamedAs(ms, e) : e \in Contents(ms)}
           E == {NamedAs(ms, e) : e \in EmptyOf(ms)}
           Fronts == {Front(g.path) : g \in view \ ItemsIn(view)}
<1>1. /\ \A p \in K : Readable(p)
      /\ \A g \in blobs : \E p \in K : g.path = Reading(p)
      /\ \A p \in K : \E g \in blobs : g.path = Reading(p)
  BY WrittenIs
<1>2. /\ view \subseteq blobs
      /\ \A g \in blobs : \E v \in view : v.path = g.path
      /\ Paths(ItemsIn(view)) = I
      /\ Fronts = E
  BY DEF PathsPass
<1> HIDE DEF blobs, K, I, E, Fronts
<1>3. ASSUME NEW p \in K, Last(Reading(p)) # Marker
      PROVE  Reading(p) \in I
  <2>1. PICK v \in view : v.path = Reading(p)
    BY <1>1, <1>2
  <2> QED
    BY <1>2, <1>3, <2>1 DEF Paths, ItemsIn
<1>4. ASSUME NEW p \in K, Last(Reading(p)) = Marker
      PROVE  Front(Reading(p)) \in E
  <2>1. PICK v \in view : v.path = Reading(p)
    BY <1>1, <1>2
  <2>2. v \in view \ ItemsIn(view)
    BY <1>4, <2>1 DEF ItemsIn
  <2>3. Front(v.path) \in Fronts
    BY <2>2 DEF Fronts
  <2> QED
    BY <1>2, <2>1, <2>3
<1>5. ASSUME NEW q \in I
      PROVE  \E p \in K : Reading(p) = q /\ Last(Reading(p)) # Marker
  <2>1. PICK v \in ItemsIn(view) : v.path = q
    BY <1>2 DEF Paths
  <2>2. v \in blobs /\ Last(q) # Marker
    BY <1>2, <2>1 DEF ItemsIn
  <2> QED
    BY <1>1, <2>1, <2>2
<1>6. ASSUME NEW q \in E
      PROVE  \E p \in K : Front(Reading(p)) = q /\ Last(Reading(p)) = Marker
  <2>1. PICK v \in view \ ItemsIn(view) : Front(v.path) = q
    BY <1>2 DEF Fronts
  <2>2. v \in blobs /\ Last(v.path) = Marker
    BY <1>2, <2>1 DEF ItemsIn
  <2> QED
    BY <1>1, <2>1, <2>2
<1>7. /\ \A e \in Contents(ms) : NamedAs(ms, e) \in I
      /\ \A q \in I : \E e \in Contents(ms) : q = NamedAs(ms, e)
      /\ \A e \in EmptyOf(ms) : NamedAs(ms, e) \in E
      /\ \A q \in E : \E e \in EmptyOf(ms) : q = NamedAs(ms, e)
  BY DEF I, E
<1> QED
  BY <1>1, <1>3, <1>4, <1>5, <1>6, <1>7 DEF Agreed, K

(* No finite set of numbers goes up, or down, for ever.                    *)
Rising(X, len, k)  == \A x \in X : \E y \in X : len[y] = len[x] + k
Falling(X, len, k) == \A x \in X : \E y \in X : len[x] = len[y] + k

LEMMA NoShift ==
  ASSUME NEW X, IsFiniteSet(X), NEW len \in [X -> Nat], NEW k \in Nat \ {0},
         Rising(X, len, k) \/ Falling(X, len, k)
  PROVE  X = {}
<1> DEFINE L == {len[x] : x \in X}
<1>1. SUFFICES ASSUME X # {} PROVE FALSE
  OBVIOUS
<1>2. L \in SUBSET Nat /\ L # {}
  BY <1>1
<1>3. IsFiniteSet(L)
  <2>1. DOMAIN len = X /\ len = [x \in DOMAIN len |-> len[x]]
    OBVIOUS
  <2>2. IsFiniteSet({len[x] : x \in DOMAIN len})
    BY <2>1, ImageFinite
  <2> QED
    BY <2>1, <2>2
<1>4. \A x \in X : len[x] \in L
  OBVIOUS
<1>5. \A n \in L : \E x \in X : len[x] = n
  OBVIOUS
<1> HIDE DEF L
<1>6. PICK low \in L : \A n \in L : low <= n
  BY <1>2, FirstExists
<1>7. PICK high \in L : \A n \in L : n <= high
  <2>1. PICK b \in Nat : \A n \in L : n <= b
    BY <1>2, <1>3, FiniteIsBounded
  <2> QED
    BY <1>2, <2>1, LastExists
<1>8. low \in Nat /\ high \in Nat
  BY <1>2
<1>9. CASE Rising(X, len, k)
  <2>1. PICK x \in X : len[x] = high
    BY <1>5
  <2>2. PICK y \in X : len[y] = high + k
    BY <1>9, <2>1 DEF Rising
  <2>3. high + k <= high
    BY <1>4, <1>7, <2>2
  <2> QED
    BY <1>8, <2>3
<1>10. CASE Falling(X, len, k)
  <2>1. PICK x \in X : len[x] = low
    BY <1>5
  <2>2. PICK y \in X : low = len[y] + k
    BY <1>10, <2>1 DEF Falling
  <2>3. low <= len[y] /\ len[y] \in Nat
    BY <1>4, <1>6, <2>2
  <2> QED
    BY <1>8, <2>2, <2>3
<1> QED
  BY <1>9, <1>10

(* Every member is above a file, a link or an empty directory, or is one.  *)
Hards(ms)  == OfKind(ms, {"hard"})
Leaves(ms) == Contents(ms) \cup Hards(ms) \cup EmptyOf(ms)

LEMMA LeafIs ==
  ASSUME NEW ms, Sound(ms), NEW e \in DOMAIN ms, ~IsDot(ms[e].path)
  PROVE  \E f \in Leaves(ms) : /\ f \in DOMAIN ms /\ IsPrefix(NormalOf(ms, e), NormalOf(ms, f))
                               /\ ~IsDot(ms[f].path) /\ NormalOf(ms, f)[1] = NormalOf(ms, e)[1]
<1> DEFINE D == {f \in DOMAIN ms : ~IsDot(ms[f].path) /\ IsPrefix(NormalOf(ms, e), NormalOf(ms, f))}
           Q == {NormalOf(ms, f) : f \in D}
<1>1. \A f \in DOMAIN ms : ~IsDot(ms[f].path) =>
        /\ NormalOf(ms, f) \in Path /\ NormalOf(ms, f) \in Seq(Name) /\ NormalOf(ms, f) # <<>>
        /\ Len(NormalOf(ms, f)) \in Nat \ {0}
  <2>1. \A f \in DOMAIN ms : ~IsDot(ms[f].path) => NormalOf(ms, f) \in Path
    BY NormalIs
  <2> QED
    BY <2>1, FirstIs DEF Path
<1>2. e \in D
  BY <1>1, PrefixIs
<1>3. Q \in SUBSET Path /\ Q # {}
  BY <1>1, <1>2
<1>4. IsFiniteSet(Q)
  <2>1. IsFiniteSet(DOMAIN ms)
    BY DEF Sound, IsArchive
  <2>2. IsFiniteSet(D)
    BY <2>1, FS_Subset
  <2> DEFINE h == [f \in D |-> NormalOf(ms, f)]
  <2>3. DOMAIN h = D /\ h = [x \in DOMAIN h |-> h[x]] /\ \A x \in D : h[x] = NormalOf(ms, x)
    OBVIOUS
  <2> HIDE DEF h, D
  <2>4. IsFiniteSet({h[x] : x \in DOMAIN h})
    BY <2>2, <2>3, ImageFinite
  <2>5. {h[x] : x \in DOMAIN h} = {NormalOf(ms, x) : x \in D}
    BY <2>3
  <2> QED
    BY <2>4, <2>5
<1>5. \A f \in D : NormalOf(ms, f) \in Q
  OBVIOUS
<1>6. \A q \in Q : \E f \in D : q = NormalOf(ms, f)
  OBVIOUS
<1> HIDE DEF Q
<1>7. PICK q \in Q : \A u \in Q : Len(u) <= Len(q)
  BY <1>3, <1>4, LongestExists
<1>8. PICK f \in D : q = NormalOf(ms, f)
  BY <1>6
<1>9. /\ f \in DOMAIN ms /\ ~IsDot(ms[f].path) /\ IsPrefix(NormalOf(ms, e), NormalOf(ms, f))
  OBVIOUS
<1>10. \A u \in D : Len(NormalOf(ms, u)) <= Len(NormalOf(ms, f))
  BY <1>5, <1>7, <1>8
<1>11. NormalOf(ms, f)[1] = NormalOf(ms, e)[1]
  <2>1. \A i \in 1..Len(NormalOf(ms, e)) : NormalOf(ms, e)[i] = NormalOf(ms, f)[i]
    BY <1>1, <1>9, PrefixIs
  <2>2. 1 \in 1..Len(NormalOf(ms, e))
    BY <1>1
  <2> QED
    BY <2>1, <2>2
<1>12. ASSUME NEW u \in DOMAIN ms, IsStrictPrefix(NormalOf(ms, f), NormalOf(ms, u)) PROVE FALSE
  <2>1. CASE IsDot(ms[u].path)
    <3>1. NormalOf(ms, u) = ms[u].path /\ ms[u].path[1] = "." /\ Len(ms[u].path) = 1
          /\ ms[u].path \in Seq(Component)
      BY <2>1, NormalIs, MemberIs DEF IsDot
    <3>2. NormalOf(ms, f) \in Seq(Component)
      <4>1. \A i \in 1..Len(NormalOf(ms, f)) : NormalOf(ms, f)[i] \in Component
        BY <1>1, <1>9, ElementOfSeq DEF Component
      <4> QED
        BY <1>1, <1>9, <4>1, WithinIs
    <3>3. Len(NormalOf(ms, f)) < Len(NormalOf(ms, u))
      BY <1>12, <3>1, <3>2, PrefixIs
    <3> QED
      BY <1>1, <1>9, <3>1, <3>3
  <2>2. CASE ~IsDot(ms[u].path)
    <3>1. IsPrefix(NormalOf(ms, f), NormalOf(ms, u)) /\ NormalOf(ms, f) # NormalOf(ms, u)
      BY <1>12 DEF IsStrictPrefix
    <3>2. IsPrefix(NormalOf(ms, e), NormalOf(ms, u))
      BY <1>1, <1>9, <2>2, <3>1, PrefixTransitive
    <3>3. u \in D
      BY <2>2, <3>2
    <3>4. Len(NormalOf(ms, f)) < Len(NormalOf(ms, u))
      BY <1>1, <1>9, <2>2, <3>1, PrefixCut
    <3> QED
      BY <1>1, <1>9, <1>10, <2>2, <3>3, <3>4
  <2> QED
    BY <2>1, <2>2
<1>13. f \in Leaves(ms)
  <2>1. ms[f].kind \in Kind \cup {"hard"}
    BY <1>9, MemberIs
  <2>2. CASE ms[f].kind = "dir"
    BY <1>9, <1>12, <2>2 DEF Leaves, EmptyOf, OfKind
  <2>3. CASE ms[f].kind # "dir"
    BY <1>9, <2>1, <2>3 DEF Leaves, Contents, Hards, OfKind, Kind, Symlink
  <2> QED
    BY <2>2, <2>3
<1> QED
  BY <1>9, <1>11, <1>13

(* What is left of t when d, which is one directory at the top after the   *)
(* other, is stripped.                                                     *)
Cut(t, s, d) ==
  /\ d \in Directories(t) \cup {<<>>}
  /\ DOMAIN s = {p \in Path : d \o p \in DOMAIN t}
  /\ \A p \in DOMAIN s : s[p] = t[d \o p]
  /\ \A z \in DOMAIN t : IsPrefix(z, d) \/ \E p \in DOMAIN s : z = d \o p
  /\ d = <<>> => s = t
  /\ d # <<>> => SingleTop(t)
  /\ Len(d) = 1 => s = StripOne(t)

LEMMA NothingCut ==
  ASSUME NEW t, IsTree(t)
  PROVE  Cut(t, t, <<>>)
<1> DEFINE e == <<>>
<1>1. e \in Seq(Name) /\ \A p \in Path : e \o p = p
  BY ConcatEmptySeq DEF Path
<1>2. \A p \in DOMAIN t : p \in Path
  BY NodeIs
<1>3. Len(e) = 0 /\ e = <<>>
  OBVIOUS
<1> HIDE DEF e
<1>4. DOMAIN t = {p \in Path : e \o p \in DOMAIN t} /\ \A p \in DOMAIN t : t[p] = t[e \o p]
  BY <1>1, <1>2
<1>5. \A z \in DOMAIN t : \E p \in DOMAIN t : z = e \o p
  BY <1>1, <1>2
<1>6. Len(e) # 1
  BY <1>3
<1>7. Cut(t, t, e)
  <2>1. e \in Directories(t) \cup {<<>>}
    BY <1>3
  <2>2. /\ e = <<>> => t = t
        /\ e # <<>> => SingleTop(t)
        /\ Len(e) = 1 => t = StripOne(t)
    BY <1>3, <1>6, SMTT(40)
  <2>3. DOMAIN t = {p \in Path : e \o p \in DOMAIN t}
    BY <1>4, ZenonT(60)
  <2>4. \A p \in DOMAIN t : t[p] = t[e \o p]
    BY <1>4
  <2>5. \A z \in DOMAIN t : IsPrefix(z, e) \/ \E p \in DOMAIN t : z = e \o p
    BY <1>5
  <2>6. e # <<>> => SingleTop(t)
    BY <2>2
  <2>7. Len(e) = 1 => t = StripOne(t)
    BY <2>2
  <2> QED
    BY <2>1, <2>3, <2>4, <2>5, <2>6, <2>7 DEF Cut
<1> QED
  BY <1>3, <1>7

LEMMA CutFurther ==
  ASSUME NEW t, IsTree(t), NEW u, IsTree(u), NEW d, Cut(t, u, d), SingleTop(u)
  PROVE  \E e : Cut(t, StripOne(u), e)
<1>1. /\ d \in Directories(t) \cup {<<>>}
      /\ DOMAIN u = {p \in Path : d \o p \in DOMAIN t}
      /\ \A p \in DOMAIN u : u[p] = t[d \o p]
      /\ \A z \in DOMAIN t : IsPrefix(z, d) \/ \E p \in DOMAIN u : z = d \o p
      /\ d = <<>> => u = t
      /\ d # <<>> => SingleTop(t)
  BY DEF Cut
<1>2. d \in Seq(Name)
  BY <1>1, DirectoryIs
<1>3. PICK c \in Directories(u) : Len(c) = 1 /\ Tops(u) = {c} /\ StripOne(u) = Below(u, c)
  BY SingleTopIs
<1>4. c \in DOMAIN u /\ c \in Seq(Name) /\ c \in Path /\ u[c].kind = "dir"
  BY <1>3, NodeIs DEF Directories
<1> DEFINE e == d \o c
           v == Below(u, c)
<1>5. e \in Seq(Name) /\ Len(e) = Len(d) + 1 /\ Len(d) \in Nat
  BY <1>2, <1>3, <1>4, JoinIs
<1>6. e \in Directories(t)
  BY <1>1, <1>4 DEF Directories
<1>7. /\ DOMAIN v = {p \in Path : c \o p \in DOMAIN u}
      /\ \A p \in DOMAIN v : v[p] = u[c \o p]
  BY <1>3, BelowIs
<1>8. \A p \in Path : e \o p = d \o (c \o p)
  BY <1>2, <1>4, ConcatAssociative DEF Path
<1>9. \A p \in Path : c \o p \in Path
  <2>1. \A p \in Path : p \in Seq(Name) /\ Len(p) \in Nat \ {0}
    BY FirstIs
  <2>2. \A p \in Path : c \o p \in Seq(Name) /\ Len(c \o p) = Len(c) + Len(p)
    BY <1>4, <2>1, JoinIs
  <2>3. \A p \in Path : Len(c \o p) # 0
    BY <1>3, <2>1, <2>2
  <2> QED
    BY <2>2, <2>3, EmptySeq DEF Path
<1> HIDE DEF e, v
<1>10. DOMAIN v = {p \in Path : e \o p \in DOMAIN t} /\ \A p \in DOMAIN v : v[p] = t[e \o p]
  BY <1>1, <1>7, <1>8, <1>9, ZenonT(60)
<1>11. ASSUME NEW z \in DOMAIN t PROVE IsPrefix(z, e) \/ \E p \in DOMAIN v : z = e \o p
  <2>0. z \in Seq(Name)
    BY NodeIs
  <2>1. CASE IsPrefix(z, d)
    <3>1. IsPrefix(d, e)
      BY <1>2, <1>4, JoinIs DEF e
    <3> QED
      BY <1>2, <1>5, <2>0, <2>1, <3>1, PrefixTransitive
  <2>2. CASE ~IsPrefix(z, d)
    <3>1. PICK p \in DOMAIN u : z = d \o p
      BY <1>1, <2>2
    <3>2. p \in Path /\ Top(p[1]) = c
      BY <1>1, <1>3, TopIs
    <3>3. Tail(p) \in Seq(Name) /\ p = c \o Tail(p) /\ (Tail(p) = <<>> <=> Len(p) = 1)
      BY <3>2, HeadIs
    <3>4. CASE Len(p) = 1
      <4>1. p = c
        BY <3>2, <3>4, FirstIs
      <4>2. z = e
        BY <3>1, <4>1 DEF e
      <4>3. IsPrefix(e, e)
        <5>1. IsPrefix(e, e) <=> Len(e) <= Len(e) /\ \A i \in 1..Len(e) : e[i] = e[i]
          BY <1>5, PrefixIs
        <5> QED
          BY <1>5, <5>1
      <4> QED
        BY <4>2, <4>3
    <3>5. CASE Len(p) # 1
      <4> DEFINE q == Tail(p)
      <4>1. q \in Path /\ p = c \o q
        BY <3>3, <3>5 DEF Path
      <4> HIDE DEF q
      <4>2. q \in DOMAIN v
        BY <1>7, <3>1, <4>1
      <4>3. z = e \o q
        BY <1>8, <3>1, <4>1
      <4> QED
        BY <4>2, <4>3
    <3> QED
      BY <3>4, <3>5
  <2> QED
    BY <2>1, <2>2
<1>12. e # <<>>
  <2>1. Len(e) # 0
    BY <1>5
  <2> QED
    BY <1>5, <2>1, EmptySeq
<1>13. SingleTop(t)
  BY <1>1
<1>14. Len(e) = 1 => v = StripOne(t)
  <2>1. SUFFICES ASSUME Len(e) = 1 PROVE v = StripOne(t)
    OBVIOUS
  <2> DEFINE m == Len(d)
  <2>2. m \in Nat /\ 1 = m + 1
    BY <1>5, <2>1
  <2> HIDE DEF m
  <2>4. m = 0
    BY <2>2
  <2>5. Len(d) = 0
    BY <2>4 DEF m
  <2>3. d = <<>>
    BY <1>2, <2>5, EmptySeq
  <2> QED
    BY <1>1, <1>3, <2>3 DEF v
<1>15. Cut(t, v, e)
  BY <1>6, <1>10, <1>11, <1>12, <1>13, <1>14 DEF Cut
<1> QED
  BY <1>3, <1>15 DEF v

LEMMA StageIsCut ==
  ASSUME NEW t, IsTree(t), NEW n \in Nat
  PROVE  \E d : Cut(t, Stage(t, n), d)
<1>1. PICK s : /\ Stage(t, n) = s[n] /\ s[0] = t
               /\ \A k \in 1..n : s[k] = StripOne(s[k - 1])
  BY StageIs
<1> DEFINE G == {k \in 0..n : IsTree(s[k]) /\ \E d : Cut(t, s[k], d)}
<1>2. 0 \in G
  BY <1>1, NothingCut
<1>3. ASSUME NEW k \in 0..(n - 1), k \in G
      PROVE  k + 1 \in G
  <2>1. k + 1 \in 1..n /\ k + 1 \in 0..n /\ (k + 1) - 1 = k
    OBVIOUS
  <2>2. s[k + 1] = StripOne(s[k])
    BY <1>1, <2>1
  <2> DEFINE u == s[k]
  <2>3. IsTree(u) /\ \E d : Cut(t, u, d)
    BY <1>3
  <2> HIDE DEF u
  <2>4. PICK d : Cut(t, u, d)
    BY <2>3
  <2>5. IsTree(StripOne(u)) /\ \E e : Cut(t, StripOne(u), e)
    <3>1. CASE ~SingleTop(u)
      BY <2>3, <3>1 DEF StripOne
    <3>2. CASE SingleTop(u)
      BY <2>3, <2>4, <3>2, CutFurther, StripOneIsTree
    <3> QED
      BY <3>1, <3>2
  <2>6. IsTree(s[k + 1]) /\ \E e : Cut(t, s[k + 1], e)
    BY <2>2, <2>5 DEF u
  <2> QED
    BY <2>1, <2>6
<1>4. n \in G
  <2> HIDE DEF G
  <2>1. \A k \in 0..n : k \in G
    BY <1>2, <1>3, Upwards
  <2> QED
    BY <2>1
<1> QED
  BY <1>1, <1>4

(* What is strictly below a node is below one of its children.             *)
LEMMA ChildIs ==
  ASSUME NEW t, IsTree(t), NEW z \in Seq(Name)
  PROVE  /\ \A c \in Children(t, z) : /\ c \in DOMAIN t /\ c \in Seq(Name) /\ c # <<>>
                                      /\ IsStrictPrefix(z, c)
         /\ \A q \in DOMAIN t : IsStrictPrefix(z, q) =>
              \E c \in Children(t, z) : IsPrefix(c, q)
<1>1. ASSUME NEW c \in Children(t, z)
      PROVE  c \in DOMAIN t /\ c \in Seq(Name) /\ c # <<>> /\ IsStrictPrefix(z, c)
  <2>1. c \in DOMAIN t /\ c # <<>> /\ Front(c) = z
    BY DEF Children
  <2>2. c \in Seq(Name) /\ Len(c) \in Nat
    BY <2>1, NodeIs
  <2>3. Len(z) = Len(c) - 1 /\ \A i \in 1..(Len(c) - 1) : z[i] = c[i]
    BY <2>1, <2>2, FrontIs
  <2> QED
    BY <2>1, <2>2, <2>3, PrefixIs
<1>2. ASSUME NEW q \in DOMAIN t, IsStrictPrefix(z, q)
      PROVE  \E c \in Children(t, z) : IsPrefix(c, q)
  <2>1. q \in Seq(Name) /\ Len(q) \in Nat \ {0} /\ Len(z) \in Nat
        /\ \A i \in 1..(Len(q) - 1) : SubSeq(q, 1, i) \in DOMAIN t
    BY NodeIs
  <2>2. Len(z) < Len(q) /\ \A i \in 1..Len(z) : z[i] = q[i]
    BY <1>2, <2>1, PrefixIs
  <2> DEFINE n == Len(z) + 1
             c == SubSeq(q, 1, n)
  <2>3. n \in 1..Len(q) /\ n \in 0..Len(q)
    BY <2>1, <2>2
  <2> HIDE DEF n
  <2>4. c \in Seq(Name) /\ Len(c) = n /\ IsPrefix(c, q) /\ \A i \in 1..n : c[i] = q[i]
    BY <2>1, <2>3, CutIs
  <2>5. c \in DOMAIN t
    <3>1. CASE n = Len(q)
      BY <2>1, <3>1, SubSeqFull
    <3>2. CASE n # Len(q)
      <4>1. n \in 1..(Len(q) - 1)
        BY <2>1, <2>3, <3>2
      <4> QED
        BY <2>1, <4>1
    <3> QED
      BY <3>1, <3>2
  <2> HIDE DEF c
  <2>6. n # 0
    BY <2>1 DEF n
  <2>7. c # <<>>
    BY <2>4, <2>6, EmptySeq
  <2>8. Front(c) \in Seq(Name) /\ Len(Front(c)) = n - 1
        /\ \A i \in 1..(n - 1) : Front(c)[i] = c[i]
    BY <2>4, <2>7, FrontIs
  <2>9. n - 1 = Len(z)
    BY <2>1 DEF n
  <2>10. \A i \in 1..Len(z) : i \in 1..n /\ i \in 1..(n - 1)
    BY <2>1, <2>9 DEF n
  <2>11. \A i \in 1..Len(z) : Front(c)[i] = z[i]
    BY <2>2, <2>4, <2>8, <2>10
  <2>12. Front(c) = z
    BY <2>8, <2>9, <2>11, SeqEqual
  <2>13. c \in Children(t, z)
    BY <2>5, <2>7, <2>12 DEF Children
  <2> QED
    BY <2>4, <2>13
<1> QED
  BY <1>1, <1>2

(* A hard link is to a file or a link. *)
LEMMA HardIs ==
  ASSUME NEW ms, Sound(ms), NEW e \in DOMAIN ms, ms[e].kind = "hard"
  PROVE  /\ LinkedTo(ms, ms[e]).kind # "dir"
         /\ Contents(ms) # {}
<1>1. ms[e].data \in PathsOf(ms) /\ IsArchive(ms)
  BY DEF Sound, SoundMember
<1>2. \A f \in DOMAIN ms : ms[f].path = ms[e].data => ms[f].kind \in {"file", "exec"} \cup Symlink
  BY <1>1 DEF IsArchive
<1>3. \E f \in DOMAIN ms : ms[f].path = ms[e].data
  BY <1>1 DEF PathsOf
<1> DEFINE c == CHOOSE f \in DOMAIN ms : ms[f].path = ms[e].data
<1>4. c \in DOMAIN ms /\ ms[c].path = ms[e].data
  BY <1>3
<1>5. LinkedTo(ms, ms[e]) = ms[c]
  BY DEF LinkedTo
<1> HIDE DEF c
<1>6. ms[c].kind \in {"file", "exec"} \cup Symlink
  BY <1>2, <1>4
<1>7. c \in Contents(ms)
  BY <1>4, <1>6 DEF Contents, OfKind
<1>8. ms[c].kind # "dir"
  BY <1>6 DEF Symlink
<1> QED
  BY <1>5, <1>7, <1>8

(* What the nodes of the tree are among the members. *)
LEMMA ArchiveNodes ==
  ASSUME NEW ms, Sound(ms)
  PROVE  /\ IsTree(TreeOf(ms))
         /\ \A e \in DOMAIN ms : ~IsDot(ms[e].path) =>
              /\ NormalOf(ms, e) \in DOMAIN TreeOf(ms) /\ NormalOf(ms, e) \in Path
              /\ TreeOf(ms)[NormalOf(ms, e)].kind = "dir" <=> ms[e].kind = "dir"
         /\ \A z \in DOMAIN TreeOf(ms) : \E e \in DOMAIN ms :
              /\ ~IsDot(ms[e].path) /\ IsPrefix(z, NormalOf(ms, e)) /\ NormalOf(ms, e)[1] = z[1]
         /\ \A z \in DOMAIN TreeOf(ms) : TreeOf(ms)[z].kind # "dir" => \E e \in DOMAIN ms :
              /\ ~IsDot(ms[e].path) /\ z = NormalOf(ms, e) /\ ms[e].kind # "dir"
         /\ \A z \in Directories(TreeOf(ms)) : Children(TreeOf(ms), z) = {} =>
              \E e \in EmptyOf(ms) : z = NormalOf(ms, e)
<1> DEFINE T == TreeOf(ms)
<1>1. /\ DOMAIN T = Inner(ms) /\ IsTree(T)
      /\ \A e \in DOMAIN ms : Undotted(ms[e].path) # <<>> =>
           T[Undotted(ms[e].path)].kind = LinkedTo(ms, ms[e]).kind
  BY TreeOfIs
<1> HIDE DEF T
<1>2. ASSUME NEW e \in DOMAIN ms, ~IsDot(ms[e].path)
      PROVE  /\ NormalOf(ms, e) \in DOMAIN T /\ NormalOf(ms, e) \in Path
             /\ T[NormalOf(ms, e)].kind = "dir" <=> ms[e].kind = "dir"
  <2>1. NormalOf(ms, e) = Undotted(ms[e].path) /\ NormalOf(ms, e) \in Path
    BY <1>2, NormalIs
  <2>2. Undotted(ms[e].path) # <<>>
    BY <2>1 DEF Path
  <2>3. NormalOf(ms, e) \in DOMAIN T
    BY <1>1, <2>1, <2>2, ListedIs, InnerIs
  <2>4. LinkedTo(ms, ms[e]).kind = "dir" <=> ms[e].kind = "dir"
    <3>1. CASE ms[e].kind = "hard"
      BY <3>1, HardIs
    <3>2. CASE ms[e].kind # "hard"
      BY <3>2 DEF LinkedTo
    <3> QED
      BY <3>1, <3>2
  <2> QED
    BY <1>1, <2>1, <2>2, <2>3, <2>4
<1>3. ASSUME NEW z \in DOMAIN T
      PROVE  \E e \in DOMAIN ms : ~IsDot(ms[e].path) /\ IsPrefix(z, NormalOf(ms, e))
                                  /\ NormalOf(ms, e)[1] = z[1]
  <2>1. PICK q \in Listed(ms) : IsPrefix(z, q)
    BY <1>1, InnerIs
  <2>2. PICK e \in DOMAIN ms : Undotted(ms[e].path) = q
    BY ListedIs
  <2>3. q # <<>> /\ q \in Seq(Name)
    BY ListedIs DEF Path
  <2>4. ~IsDot(ms[e].path) /\ q = NormalOf(ms, e)
    BY <2>2, <2>3, NormalIs
  <2>5. z \in Seq(Name) /\ Len(z) \in Nat \ {0}
    BY <1>1, NodeIs
  <2>6. \A i \in 1..Len(z) : z[i] = q[i]
    BY <2>1, <2>3, <2>5, PrefixIs
  <2>7. 1 \in 1..Len(z)
    BY <2>5
  <2> QED
    BY <2>1, <2>4, <2>6, <2>7
<1>4. ASSUME NEW z \in DOMAIN T, T[z].kind # "dir"
      PROVE  \E e \in DOMAIN ms : ~IsDot(ms[e].path) /\ z = NormalOf(ms, e) /\ ms[e].kind # "dir"
  <2>1. PICK e \in DOMAIN ms : ~IsDot(ms[e].path) /\ IsPrefix(z, NormalOf(ms, e))
    BY <1>3
  <2>2. NormalOf(ms, e) \in DOMAIN T /\ (T[NormalOf(ms, e)].kind = "dir" <=> ms[e].kind = "dir")
    BY <1>2, <2>1
  <2>3. z = NormalOf(ms, e)
    <3>1. SUFFICES ASSUME z # NormalOf(ms, e) PROVE FALSE
      OBVIOUS
    <3>2. IsStrictPrefix(z, NormalOf(ms, e)) /\ z \in Seq(Name) /\ z # <<>>
      BY <1>1, <2>1, <3>1, NodeIs DEF IsStrictPrefix
    <3>3. z \in Directories(T)
      BY <1>1, <2>2, <3>2, AboveIs
    <3> QED
      BY <1>4, <3>3 DEF Directories
  <2> QED
    BY <1>4, <2>1, <2>2, <2>3
<1>5. ASSUME NEW z \in Directories(T), Children(T, z) = {}
      PROVE  \E e \in EmptyOf(ms) : z = NormalOf(ms, e)
  <2>1. z \in DOMAIN T /\ T[z].kind = "dir" /\ z \in Seq(Name) /\ z # <<>> /\ z \in Path
    BY <1>1, NodeIs DEF Directories
  <2>2. \A q \in DOMAIN T : ~IsStrictPrefix(z, q)
    BY <1>1, <1>5, <2>1, ChildIs
  <2>3. PICK e \in DOMAIN ms : ~IsDot(ms[e].path) /\ IsPrefix(z, NormalOf(ms, e))
    BY <1>3, <2>1
  <2>4. z = NormalOf(ms, e)
    BY <1>2, <2>2, <2>3 DEF IsStrictPrefix
  <2>5. ms[e].kind = "dir"
    BY <1>2, <2>1, <2>3, <2>4
  <2>6. ASSUME NEW f \in DOMAIN ms, IsStrictPrefix(NormalOf(ms, e), NormalOf(ms, f)) PROVE FALSE
    <3>1. CASE ~IsDot(ms[f].path)
      BY <1>2, <2>2, <2>4, <2>6, <3>1
    <3>2. CASE IsDot(ms[f].path)
      <4>1. /\ NormalOf(ms, f) = ms[f].path /\ Len(ms[f].path) = 1 /\ ms[f].path[1] = "."
            /\ ms[f].path \in Seq(Component)
        BY <3>2, NormalIs, MemberIs DEF IsDot
      <4> DEFINE q == ms[f].path
      <4>2. z[1] \in Name /\ Len(z) \in Nat \ {0}
        BY <2>1, FirstIs
      <4>3. \A i \in 1..Len(z) : z[i] \in Component
        BY <2>1, ElementOfSeq DEF Component
      <4>4. z \in Seq(Component)
        BY <2>1, <4>3, WithinIs
      <4>5. q \in Seq(Component) /\ Len(q) = 1 /\ IsStrictPrefix(z, q)
        BY <2>4, <2>6, <4>1
      <4> HIDE DEF q
      <4>6. Len(z) < Len(q)
        BY <4>4, <4>5, PrefixIs
      <4> QED
        BY <4>2, <4>5, <4>6
    <3> QED
      BY <3>1, <3>2
  <2> QED
    BY <2>4, <2>5, <2>6 DEF EmptyOf, OfKind
<1> QED
  BY <1>1, <1>2, <1>3, <1>4, <1>5 DEF T

(* A member "." is an empty directory, which the manifest either takes for *)
(* the wrapper or lists under a name that is none of the tree.             *)
LEMMA DotIsEmpty ==
  ASSUME NEW ms, Sound(ms), NEW d \in DOMAIN ms, IsDot(ms[d].path)
  PROVE  /\ d \in EmptyOf(ms)
         /\ Wrappers(ms) = {"."} => NamedAs(ms, d) = <<>>
         /\ Wrappers(ms) # {"."} => NamedAs(ms, d) \notin Seq(Name)
<1>1. /\ NormalOf(ms, d) = ms[d].path /\ ms[d].path[1] = "." /\ Len(ms[d].path) = 1
      /\ ms[d].kind = "dir" /\ ms[d].path \in Seq(Component) /\ Tail(ms[d].path) = <<>>
  BY NormalIs, MemberIs DEF IsDot
<1>2. d \in EmptyOf(ms)
  <2>1. ASSUME NEW f \in DOMAIN ms, IsStrictPrefix(NormalOf(ms, d), NormalOf(ms, f)) PROVE FALSE
    <3>1. CASE IsDot(ms[f].path)
      <4>1. NormalOf(ms, f) = ms[f].path /\ Len(ms[f].path) = 1 /\ ms[f].path \in Seq(Component)
        BY <3>1, NormalIs, MemberIs DEF IsDot
      <4>2. Len(ms[d].path) < Len(ms[f].path)
        BY <1>1, <2>1, <4>1, PrefixIs
      <4> QED
        BY <1>1, <4>1, <4>2
    <3>2. CASE ~IsDot(ms[f].path)
      <4>1. NormalOf(ms, f) \in Path /\ NormalOf(ms, f)[1] # "."
        BY <3>2, NormalIs
      <4>2. NormalOf(ms, f) \in Seq(Component)
        <5>1. NormalOf(ms, f) \in Seq(Name)
          BY <4>1 DEF Path
        <5>2. \A i \in 1..Len(NormalOf(ms, f)) : NormalOf(ms, f)[i] \in Component
          BY <5>1, ElementOfSeq DEF Component
        <5> QED
          BY <5>1, <5>2, WithinIs
      <4>3. \A i \in 1..Len(ms[d].path) : ms[d].path[i] = NormalOf(ms, f)[i]
        BY <1>1, <2>1, <4>2, PrefixIs
      <4>4. 1 \in 1..Len(ms[d].path)
        BY <1>1
      <4> QED
        BY <1>1, <4>1, <4>3, <4>4
    <3> QED
      BY <3>1, <3>2
  <2> QED
    BY <1>1, <2>1 DEF EmptyOf, OfKind
<1>3. NamedAs(ms, d) = IF Wrappers(ms) = {"."} THEN Tail(ms[d].path) ELSE ms[d].path
  BY <1>1 DEF NamedAs, Unwrapped, NormalOf
<1>4. ms[d].path \notin Seq(Name)
  <2>1. 1 \in 1..Len(ms[d].path)
    BY <1>1
  <2> QED
    BY <1>1, <2>1, ElementOfSeq, InspectAssumption
<1> QED
  BY <1>1, <1>2, <1>3, <1>4

(* Where the manifest finds a wrapper. *)
LEMMA WrappersAre ==
  ASSUME NEW ms, Sound(ms)
  PROVE  /\ \A w \in Wrappers(ms) : \E e \in DOMAIN ms : w = NormalOf(ms, e)[1]
         /\ \A e \in DOMAIN ms : Last(ms[e].path) \notin AppleDouble => NormalOf(ms, e)[1] \in Wrappers(ms)
         /\ \A e \in DOMAIN ms : NamedAs(ms, e) = IF Wrappers(ms) = {NormalOf(ms, e)[1]}
                                                    THEN Tail(NormalOf(ms, e)) ELSE NormalOf(ms, e)
<1>1. Wrappers(ms) = {Normal(p)[1] : p \in {q \in PathsOf(ms) : Last(q) \notin AppleDouble}}
  BY DEF Wrappers
<1>2. \A w \in Wrappers(ms) : \E e \in DOMAIN ms : w = NormalOf(ms, e)[1]
  BY <1>1 DEF PathsOf, NormalOf
<1>3. \A e \in DOMAIN ms : ms[e].path \in PathsOf(ms)
  BY DEF PathsOf
<1>4. \A e \in DOMAIN ms : Last(ms[e].path) \notin AppleDouble => NormalOf(ms, e)[1] \in Wrappers(ms)
  BY <1>1, <1>3 DEF NormalOf
<1> QED
  BY <1>2, <1>4 DEF NamedAs, Unwrapped, NormalOf

(* What the walk lists is a node that is no directory, or the marker of a  *)
(* directory without any other child that counts.                          *)
LEMMA KeyIs ==
  ASSUME NEW g, IsTree(g), NEW lost, NEW p \in KeysOf(g, lost)
  PROVE  /\ p \in Path /\ Len(p) \in Nat \ {0} /\ p # <<>> /\ Front(p) \in Seq(Name)
         /\ ListedAt(lost, Front(p))
         /\ \/ p \in DOMAIN g /\ g[p].kind # "dir"
            \/ Front(p) \in Blank(g) /\ p = Append(Front(p), Marker) /\ Last(p) = Marker
<1>1. CASE p \in ItemsOf(g, lost)
  <2>1. p \in DOMAIN g /\ g[p].kind # "dir" /\ ListedAt(lost, Front(p))
    BY <1>1 DEF ItemsOf, Directories
  <2>2. p \in Path /\ p \in Seq(Name) /\ Len(p) \in Nat \ {0} /\ p # <<>>
    BY <2>1, NodeIs
  <2> QED
    BY <2>1, <2>2, FrontIs
<1>2. CASE p \notin ItemsOf(g, lost)
  <2>1. PICK b \in Blank(g) : p = Append(b, Marker) /\ ListedAt(lost, b)
    BY <1>2 DEF KeysOf
  <2>2. b \in Directories(g) \cup {<<>>}
    BY DEF Blank
  <2>3. b \in Seq(Name) /\ p \in Path
    BY <2>1, <2>2, DirectoryIs
  <2>4. Front(p) = b /\ Last(p) = Marker
    BY <2>1, <2>3, ExtendIs, NameAssumption
  <2> QED
    BY <2>1, <2>3, <2>4, FirstIs DEF Path
<1> QED
  BY <1>1, <1>2

LEMMA BlankIs ==
  ASSUME NEW g, IsTree(g), NEW b \in Blank(g)
  PROVE  /\ b \in Seq(Name)
         /\ b # <<>> => b \in Directories(g)
         /\ b = <<>> => DOMAIN g = {}
         /\ \A c \in Children(g, b) : g[c].kind = "dirlink"
<1>1. b \in Directories(g) \cup {<<>>}
  BY DEF Blank
<1>2. \A q \in DOMAIN g : q # <<>>
  BY NodeIs
<1> QED
  BY <1>1, <1>2, DirectoryIs DEF Blank, Children, Directories

(* A content is compared with a node that is no directory, an empty        *)
(* directory with a marker.                                                *)
LEMMA ComparedIs ==
  ASSUME NEW ms, NEW g, IsTree(g), NEW lost, Agreed(ms, KeysOf(g, lost))
  PROVE  /\ \A e \in Contents(ms) :
              /\ NamedAs(ms, e) \in Path /\ Last(NamedAs(ms, e)) # Marker
              /\ \E p \in KeysOf(g, lost) : /\ p \in DOMAIN g /\ g[p].kind # "dir"
                                            /\ Reading(p) = NamedAs(ms, e)
                                            /\ Len(p) = Len(NamedAs(ms, e))
         /\ \A e \in EmptyOf(ms) : NamedAs(ms, e) \in Seq(Name)
         /\ \A e \in EmptyOf(ms) : \E p \in KeysOf(g, lost) :
              /\ NamedAs(ms, e) = Front(Reading(p)) /\ Last(Reading(p)) = Marker
              /\ Len(NamedAs(ms, e)) = Len(Front(p))
         /\ \A p \in KeysOf(g, lost) : DOMAIN ms # {}
<1> DEFINE K == KeysOf(g, lost)
<1>1. \A p \in K : Readable(p) /\ p \in Path
  BY KeyIs DEF Agreed
<1>2. ASSUME NEW e \in Contents(ms)
      PROVE  /\ NamedAs(ms, e) \in Path /\ Last(NamedAs(ms, e)) # Marker
             /\ \E p \in K : /\ p \in DOMAIN g /\ g[p].kind # "dir"
                             /\ Reading(p) = NamedAs(ms, e) /\ Len(p) = Len(NamedAs(ms, e))
  <2>1. PICK p \in K : Reading(p) = NamedAs(ms, e) /\ Last(Reading(p)) # Marker
    BY DEF Agreed
  <2>2. Reading(p) \in Path /\ Len(Reading(p)) = Len(p) /\ Last(Reading(p)) = Unquoted[Last(p)]
    BY <1>1, ReadingIs
  <2>3. Last(p) # Marker
    BY <2>1, <2>2, NameAssumption
  <2>4. p \in DOMAIN g /\ g[p].kind # "dir"
    BY <2>3, KeyIs
  <2> QED
    BY <2>1, <2>2, <2>4
<1>3. ASSUME NEW e \in EmptyOf(ms)
      PROVE  /\ NamedAs(ms, e) \in Seq(Name)
             /\ \E p \in K : /\ NamedAs(ms, e) = Front(Reading(p)) /\ Last(Reading(p)) = Marker
                             /\ Len(NamedAs(ms, e)) = Len(Front(p))
  <2>1. PICK p \in K : Front(Reading(p)) = NamedAs(ms, e) /\ Last(Reading(p)) = Marker
    BY DEF Agreed
  <2>2. Reading(p) \in Seq(Name) /\ Reading(p) # <<>> /\ Len(Reading(p)) = Len(p)
    BY <1>1, ReadingIs DEF Path
  <2>3. Front(Reading(p)) \in Seq(Name) /\ Len(Front(Reading(p))) = Len(Reading(p)) - 1
    BY <2>2, FrontIs
  <2>4. p \in Seq(Name) /\ p # <<>>
    BY <1>1 DEF Path
  <2>5. Len(Front(p)) = Len(p) - 1
    BY <2>4, FrontIs
  <2> QED
    BY <2>1, <2>2, <2>3, <2>5
<1>4. ASSUME NEW p \in K PROVE DOMAIN ms # {}
  <2>1. (\E e \in Contents(ms) : TRUE) \/ (\E e \in EmptyOf(ms) : TRUE)
    BY DEF Agreed
  <2>2. Contents(ms) \subseteq DOMAIN ms /\ EmptyOf(ms) \subseteq DOMAIN ms
    BY DEF Contents, EmptyOf, OfKind
  <2> QED
    BY <2>1, <2>2
<1> QED
  BY <1>2, <1>3, <1>4

(* The last component of a name, with and without its beginning. *)
LEMMA LastOfJoin ==
  ASSUME NEW S, NEW d \in Seq(S), NEW p \in Seq(S), p # <<>>
  PROVE  Last(d \o p) = Last(p) /\ Len(d \o p) = Len(d) + Len(p) /\ d \o p # <<>>
<1>1. d \o p \in Seq(S) /\ Len(d \o p) = Len(d) + Len(p)
      /\ \A i \in 1..Len(p) : (d \o p)[Len(d) + i] = p[i]
  BY JoinIs
<1>2. Len(p) \in Nat /\ Len(p) # 0 /\ Len(d) \in Nat
  BY EmptySeq
<1>3. Len(p) \in 1..Len(p) /\ Len(d) + Len(p) # 0
  BY <1>2
<1>4. (d \o p)[Len(d) + Len(p)] = p[Len(p)]
  BY <1>1, <1>3
<1>5. Len(d \o p) # 0
  BY <1>1, <1>3
<1>6. d \o p # <<>>
  BY <1>1, <1>5, EmptySeq
<1> QED
  BY <1>1, <1>4, <1>6 DEF Last

LEMMA LastOfPath ==
  ASSUME NEW ms, Sound(ms), NEW e \in DOMAIN ms, ~IsDot(ms[e].path)
  PROVE  /\ Last(NormalOf(ms, e)) = Last(ms[e].path)
         /\ \A i \in 1..Len(NormalOf(ms, e)) :
              \E j \in DOMAIN ms[e].path : NormalOf(ms, e)[i] = ms[e].path[j]
<1> DEFINE q == ms[e].path
<1>1. q \in Seq(Component) /\ q # <<>> /\ Len(q) \in Nat \ {0}
  BY MemberIs
<1>2. NormalOf(ms, e) = IF q[1] = "." /\ Len(q) > 1 THEN Tail(q) ELSE q
  BY DEF NormalOf, Normal
<1> HIDE DEF q
<1>3. DOMAIN q = 1..Len(q)
  BY <1>1, LenProperties
<1>4. CASE NormalOf(ms, e) = q
  BY <1>3, <1>4 DEF q
<1>5. CASE Len(q) > 1 /\ NormalOf(ms, e) = Tail(q)
  <2>1. Tail(q) \in Seq(Component) /\ Len(Tail(q)) = Len(q) - 1
        /\ \A i \in 1..Len(Tail(q)) : Tail(q)[i] = q[i + 1]
    BY <1>1, HeadTailProperties
  <2>2. \A i \in 1..Len(Tail(q)) : i + 1 \in 1..Len(q)
    BY <1>1, <2>1
  <2>3. Len(Tail(q)) \in 1..Len(Tail(q)) /\ Len(Tail(q)) + 1 = Len(q)
    BY <1>1, <1>5, <2>1
  <2>4. Tail(q)[Len(Tail(q))] = q[Len(q)]
    BY <2>1, <2>3
  <2>5. Last(Tail(q)) = Last(q)
    BY <2>4 DEF Last
  <2> QED
    BY <1>3, <1>5, <2>1, <2>2, <2>5 DEF q
<1> QED
  BY <1>2, <1>4, <1>5

(* Names that are read as they are leave a key as it is. *)
(* A key has the names of the tree, or else the marker's. *)
LEMMA KeyNames ==
  ASSUME NEW g, IsTree(g), NEW N, Marker \in N, \A z \in DOMAIN g : \A i \in 1..Len(z) : z[i] \in N,
         NEW lost, NEW p \in KeysOf(g, lost)
  PROVE  p \in Path /\ p \in Seq(Name) /\ Len(p) \in Nat \ {0} /\ \A i \in 1..Len(p) : p[i] \in N
<1>1. p \in Path /\ p \in Seq(Name) /\ Len(p) \in Nat \ {0} /\ Front(p) \in Seq(Name)
  BY KeyIs DEF Path
<1>2. \A i \in 1..Len(p) : p[i] \in N
  <2>1. CASE p \in DOMAIN g
    BY <2>1
  <2>2. CASE p \notin DOMAIN g
    <3>1. Front(p) \in Blank(g) /\ p = Append(Front(p), Marker)
      BY <2>2, KeyIs
    <3> DEFINE b == Front(p)
    <3>2. b \in Seq(Name) /\ (b # <<>> => b \in DOMAIN g)
      BY <3>1, BlankIs DEF Directories
    <3> HIDE DEF b
    <3>3. \A i \in 1..Len(b) : b[i] \in N
      <4>1. CASE b # <<>>
        BY <3>2, <4>1
      <4>2. CASE b = <<>>
        BY <4>2
      <4> QED
        BY <4>1, <4>2
    <3>4. /\ Len(Append(b, Marker)) = Len(b) + 1
          /\ \A i \in 1..Len(b) : Append(b, Marker)[i] = b[i]
          /\ Append(b, Marker)[Len(b) + 1] = Marker
      BY <3>2, NameAssumption, AppendProperties
    <3>5. p = Append(b, Marker)
      BY <3>1 DEF b
    <3> HIDE <3>1
    <3>6. ASSUME NEW i \in 1..Len(p) PROVE p[i] \in N
      <4>1. Len(b) \in Nat /\ Len(p) = Len(b) + 1
        BY <3>2, <3>4, <3>5
      <4>2. CASE i = Len(b) + 1
        BY <3>4, <3>5, <4>2
      <4>3. CASE i # Len(b) + 1
        <5>1. i \in 1..Len(b)
          BY <4>1, <4>3
        <5> QED
          BY <3>3, <3>4, <3>5, <5>1
      <4> QED
        BY <4>2, <4>3
    <3> QED
      BY <3>6
  <2> QED
    BY <2>1, <2>2
<1> QED
  BY <1>1, <1>2

LEMMA KeyReading ==
  ASSUME NEW g, IsTree(g), \A z \in DOMAIN g : \A i \in 1..Len(z) : Unquoted[z[i]] = z[i],
         NEW lost, NEW p \in KeysOf(g, lost)
  PROVE  Readable(p) /\ Reading(p) = p
<1> DEFINE N == {n \in Name : Unquoted[n] = n}
<1>1. Marker \in N /\ \A z \in DOMAIN g : \A i \in 1..Len(z) : z[i] \in N
  <2>1. \A z \in DOMAIN g : z \in Seq(Name)
    BY NodeIs
  <2> QED
    BY <2>1, NameAssumption, ElementOfSeq
<1> HIDE DEF N
<1>2. p \in Path /\ p \in Seq(Name) /\ Len(p) \in Nat \ {0} /\ \A i \in 1..Len(p) : p[i] \in N
  BY <1>1, KeyNames
<1>3. \A i \in 1..Len(p) : p[i] \in Name /\ Unquoted[p[i]] = p[i]
  BY <1>2 DEF N
<1>4. DOMAIN p = 1..Len(p)
  BY <1>2, LenProperties
<1>5. \A i \in DOMAIN p : Unquoted[p[i]] = p[i] /\ p[i] # None
  BY <1>3, <1>4, InspectAssumption
<1>6. Readable(p)
  BY <1>5 DEF Readable
<1>7. Reading(p) \in Seq(Name) /\ Len(Reading(p)) = Len(p)
       /\ \A i \in 1..Len(p) : Reading(p)[i] = Unquoted[p[i]]
  BY <1>2, <1>6, ReadingIs
<1>8. Reading(p) = p
  BY <1>2, <1>3, <1>7, SeqEqual
<1> QED
  BY <1>6, <1>8

(* And a key of a tree in UTF-8 is UTF-8. *)
LEMMA KeyText ==
  ASSUME NEW g, IsTree(g), \A z \in DOMAIN g : IsText(z), NEW lost, NEW p \in KeysOf(g, lost)
  PROVE  IsText(p)
<1> DEFINE N == {n \in Name : Displayed[n] = n}
<1>1. Marker \in N
  BY NameAssumption, DisplayAssumption
<1>2. ASSUME NEW z \in DOMAIN g, NEW i \in 1..Len(z) PROVE z[i] \in N
  <2>1. z \in Seq(Name) /\ IsText(z)
    BY NodeIs
  <2>2. z[i] \in Name
    BY <2>1, ElementOfSeq
  <2> QED
    BY <2>1, <2>2, TextIs
<1> HIDE DEF N
<1>3. p \in Seq(Name) /\ \A i \in 1..Len(p) : p[i] \in N
  BY <1>1, <1>2, KeyNames
<1>4. \A i \in 1..Len(p) : Displayed[p[i]] = p[i]
  BY <1>3 DEF N
<1> QED
  BY <1>3, <1>4, TextIs

(* Nothing goes wrong on the way (Undisturbed). *)
Calm(ms, lost) ==
  /\ lost = {} /\ Wrappers(ms) # {}
  /\ \A p \in PathsOf(ms) : \A i \in DOMAIN p : p[i] \in Name => Unquoted[p[i]] = p[i]

(* Then every name is read as it is. *)
LEMMA CalmReading ==
  ASSUME NEW ms, Sound(ms), NEW lost, Calm(ms, lost), NEW g, IsTree(g), NEW d, Cut(TreeOf(ms), g, d),
         NEW p \in KeysOf(g, lost)
  PROVE  Reading(p) = p
<1> DEFINE T == TreeOf(ms)
<1>1. IsTree(T) /\ d \in Seq(Name) /\ \A q \in DOMAIN g : d \o q \in DOMAIN T /\ q \in Path
  <2>1. IsTree(T)
    BY ArchiveNodes
  <2>2. d \in Directories(T) \cup {<<>>} /\ DOMAIN g = {q \in Path : d \o q \in DOMAIN T}
    BY DEF Cut
  <2> QED
    BY <2>1, <2>2, DirectoryIs
<1>2. ASSUME NEW z \in DOMAIN T, NEW i \in 1..Len(z)
      PROVE  Unquoted[z[i]] = z[i]
  <2>1. PICK e \in DOMAIN ms : ~IsDot(ms[e].path) /\ IsPrefix(z, NormalOf(ms, e))
    BY ArchiveNodes
  <2>2. z \in Seq(Name) /\ Len(z) \in Nat /\ NormalOf(ms, e) \in Seq(Name)
    BY <1>1, <2>1, NodeIs, NormalIs DEF Path
  <2>3. Len(z) <= Len(NormalOf(ms, e)) /\ \A k \in 1..Len(z) : z[k] = NormalOf(ms, e)[k]
    BY <2>1, <2>2, PrefixIs, SMTT(40)
  <2>4. i \in 1..Len(NormalOf(ms, e)) /\ z[i] = NormalOf(ms, e)[i]
    BY <2>2, <2>3
  <2>5. PICK j \in DOMAIN ms[e].path : NormalOf(ms, e)[i] = ms[e].path[j]
    BY <2>1, <2>4, LastOfPath
  <2>6. ms[e].path \in PathsOf(ms)
    BY DEF PathsOf
  <2>7. z[i] \in Name
    BY <2>2, ElementOfSeq
  <2> QED
    BY <2>4, <2>5, <2>6, <2>7 DEF Calm
<1> HIDE DEF T
<1>3. ASSUME NEW q \in DOMAIN g, NEW i \in 1..Len(q)
      PROVE  Unquoted[q[i]] = q[i]
  <2>1. q \in Seq(Name) /\ d \o q \in DOMAIN T
    BY <1>1 DEF Path
  <2>2. Len(d \o q) = Len(d) + Len(q) /\ (d \o q)[Len(d) + i] = q[i]
    BY <1>1, <2>1, JoinIs
  <2>3. Len(d) + i \in 1..(Len(d) + Len(q))
    BY <1>1, <2>1
  <2> QED
    BY <1>2, <2>1, <2>2, <2>3
<1> QED
  BY <1>3, KeyReading

(* A member "." that passes is alone. *)
LEMMA DotIsAlone ==
  ASSUME NEW ms, Sound(ms), NEW lost, Attested(ms) \/ Calm(ms, lost),
         NEW g, IsTree(g), NEW d, Cut(TreeOf(ms), g, d), Agreed(ms, KeysOf(g, lost)),
         NEW a \in DOMAIN ms, IsDot(ms[a].path)
  PROVE  OnlyDot(ms)
<1> DEFINE T == TreeOf(ms)
           K == KeysOf(g, lost)
<1>1. SUFFICES ASSUME NEW e \in DOMAIN ms, ~IsDot(ms[e].path) PROVE FALSE
  BY DEF OnlyDot
<1>2. /\ a \in EmptyOf(ms)
      /\ Wrappers(ms) = {"."} => NamedAs(ms, a) = <<>>
      /\ Wrappers(ms) # {"."} => NamedAs(ms, a) \notin Seq(Name)
  BY DotIsEmpty
<1>3. Wrappers(ms) = {"."} /\ NamedAs(ms, a) = <<>>
  BY <1>2, ComparedIs
<1>4. NormalOf(ms, e)[1] # "."
  BY <1>1, NormalIs
<1>5. Calm(ms, lost)
  BY <1>1, <1>3, <1>4, AttestedIs
<1>6. \A p \in K : Reading(p) = p
  BY <1>5, CalmReading
<1>7. IsTree(T) /\ d \in Seq(Name)
      /\ \A q \in DOMAIN g : d \o q \in DOMAIN T /\ q \in Path /\ g[q] = T[d \o q]
  <2>1. IsTree(T)
    BY ArchiveNodes
  <2>2. d \in Directories(T) \cup {<<>>} /\ DOMAIN g = {q \in Path : d \o q \in DOMAIN T}
        /\ \A q \in DOMAIN g : g[q] = T[d \o q]
    BY DEF Cut
  <2> QED
    BY <2>1, <2>2, DirectoryIs
<1>8. \E p \in K : <<>> = Front(p) /\ Last(p) = Marker
  <2>0. a \in EmptyOf(ms)
    BY <1>2
  <2>1. PICK p \in K : NamedAs(ms, a) = Front(Reading(p)) /\ Last(Reading(p)) = Marker
    <3>1. \A x \in EmptyOf(ms) : \E p \in KeysOf(g, lost) :
              /\ NamedAs(ms, x) = Front(Reading(p)) /\ Last(Reading(p)) = Marker
              /\ Len(NamedAs(ms, x)) = Len(Front(p))
      BY ComparedIs
    <3> QED
      BY <2>0, <3>1
  <2> QED
    BY <1>3, <1>6, <2>1
<1> HIDE DEF K
<1>20. PICK p \in K : <<>> = Front(p) /\ Last(p) = Marker
  BY <1>8
<1> USE DEF K
<1>9. p \in Path /\ p \in Seq(Name) /\ p # <<>>
  BY KeyIs DEF Path
<1>10. ASSUME p \in DOMAIN g, g[p].kind # "dir" PROVE FALSE
  <2>1. d \o p \in DOMAIN T /\ T[d \o p].kind # "dir"
    BY <1>7, <1>10
  <2>2. PICK h \in DOMAIN ms : ~IsDot(ms[h].path) /\ d \o p = NormalOf(ms, h)
    BY <2>1, ArchiveNodes
  <2>3. Last(d \o p) = Marker
    BY <1>7, <1>9, <1>20, LastOfJoin
  <2>4. Last(ms[h].path) \notin AppleDouble
    BY <2>2, <2>3, LastOfPath, NameAssumption
  <2>5. NormalOf(ms, h)[1] \in Wrappers(ms)
    BY <2>4, WrappersAre
  <2> QED
    BY <1>3, <2>2, <2>5, NormalIs
<1>11. DOMAIN g = {}
  <2>1. Front(p) \in Blank(g)
    BY <1>10, KeyIs
  <2> QED
    BY <1>20, <2>1, BlankIs
<1>12. Contents(ms) = {}
  BY <1>11, ComparedIs
<1>13. Hards(ms) = {}
  BY <1>12, HardIs DEF Hards, OfKind
<1>14. PICK f \in EmptyOf(ms) : f \in DOMAIN ms /\ ~IsDot(ms[f].path)
  <2>1. \E f \in Leaves(ms) : f \in DOMAIN ms /\ ~IsDot(ms[f].path)
    BY <1>1, LeafIs
  <2> QED
    BY <1>12, <1>13, <2>1 DEF Leaves
<1>15. NormalOf(ms, f)[1] # "." /\ NormalOf(ms, f) \in Path
  BY <1>14, NormalIs
<1>16. NamedAs(ms, f) = NormalOf(ms, f)
  <2>1. Wrappers(ms) # {NormalOf(ms, f)[1]}
    BY <1>3, <1>15
  <2> QED
    BY <1>14, <2>1, WrappersAre
<1>17. \E q \in K : NamedAs(ms, f) = Front(q)
  <2>1. PICK q \in K : NamedAs(ms, f) = Front(Reading(q))
    BY <1>14, ComparedIs, ZenonT(60)
  <2> QED
    BY <1>6, <2>1
<1>21. PICK q \in K : NamedAs(ms, f) = Front(q)
  BY <1>17
<1>18. Front(q) \in Blank(g)
  BY <1>11, KeyIs
<1>19. Front(q) = <<>>
  BY <1>11, <1>18, BlankIs DEF Directories
<1> QED
  BY <1>15, <1>16, <1>19, <1>21 DEF Path

(* Where one directory is at the top, every member is below it. *)
LEMMA OneHead ==
  ASSUME NEW ms, Sound(ms), SingleTop(TreeOf(ms))
  PROVE  \E w \in Name : /\ Tops(TreeOf(ms)) = {Top(w)} /\ Top(w) \in Directories(TreeOf(ms))
                         /\ \A e \in DOMAIN ms : ~IsDot(ms[e].path) => NormalOf(ms, e)[1] = w
<1> DEFINE T == TreeOf(ms)
<1>1. IsTree(T) /\ SingleTop(T)
  BY ArchiveNodes
<1>2. \A e \in DOMAIN ms : ~IsDot(ms[e].path) => NormalOf(ms, e) \in DOMAIN T /\ NormalOf(ms, e) \in Path
  BY ArchiveNodes
<1> HIDE DEF T
<1>3. PICK c \in Directories(T) : Len(c) = 1 /\ Tops(T) = {c}
  BY <1>1, SingleTopIs
<1>4. c \in Path
  BY <1>1, NodeIs DEF Directories
<1>5. c[1] \in Name /\ c = Top(c[1])
  BY <1>3, <1>4, FirstIs
<1>6. ASSUME NEW e \in DOMAIN ms, ~IsDot(ms[e].path) PROVE NormalOf(ms, e)[1] = c[1]
  <2>1. Top(NormalOf(ms, e)[1]) = c
    BY <1>1, <1>2, <1>3, <1>6, TopIs
  <2>2. NormalOf(ms, e)[1] \in Name
    BY <1>2, <1>6, FirstIs
  <2> QED
    BY <2>1, <2>2, TopPathIs
<1> QED
  BY <1>3, <1>5, <1>6 DEF T

(* The lengths of the members do not go up, or down, for ever. *)
LEMMA NoLength ==
  ASSUME NEW ms, Sound(ms), \A e \in DOMAIN ms : ~IsDot(ms[e].path),
         NEW X \in SUBSET DOMAIN ms, NEW m \in Nat, m # 1,
         \/ \A x \in X : \E y \in X : Len(NormalOf(ms, y)) + 1 = Len(NormalOf(ms, x)) + m
         \/ \A x \in X : \E y \in X : Len(NormalOf(ms, x)) + 1 = Len(NormalOf(ms, y)) + m
  PROVE  X = {}
<1> DEFINE len == [x \in X |-> Len(NormalOf(ms, x))]
<1>1. IsFiniteSet(X)
  BY FS_Subset DEF Sound, IsArchive
<1>2. \A x \in X : Len(NormalOf(ms, x)) \in Nat
  BY NormalIs, FirstIs
<1>3. len \in [X -> Nat] /\ \A x \in X : len[x] = Len(NormalOf(ms, x))
  BY <1>2
<1>4. \A x \in X : len[x] \in Nat
  BY <1>3
<1> HIDE DEF len
<1>5. ASSUME NEW k \in Nat \ {0}, Rising(X, len, k) \/ Falling(X, len, k) PROVE X = {}
  <2>1. len \in [X -> Nat]
    BY <1>3
  <2> QED
    BY <1>1, <1>5, <2>1, NoShift
<1>6. CASE \A x \in X : \E y \in X : Len(NormalOf(ms, y)) + 1 = Len(NormalOf(ms, x)) + m
  <2>1. \A x \in X : \E y \in X : len[y] + 1 = len[x] + m
    BY <1>3, <1>6
  <2>2. CASE m = 0
    <3>1. ASSUME NEW x \in X PROVE \E y \in X : len[x] = len[y] + 1
      <4>1. PICK y \in X : len[y] + 1 = len[x] + m
        BY <2>1
      <4>2. len[x] = len[y] + 1
        BY <1>4, <2>2, <4>1, SMTT(40)
      <4> QED
        BY <4>2
    <3>2. Falling(X, len, 1) /\ 1 \in Nat \ {0}
      BY <3>1 DEF Falling
    <3> QED
      BY <1>5, <3>2
  <2>3. CASE m # 0
    <3>1. m - 1 \in Nat \ {0}
      BY <2>3
    <3>2. ASSUME NEW x \in X PROVE \E y \in X : len[y] = len[x] + (m - 1)
      <4>1. PICK y \in X : len[y] + 1 = len[x] + m
        BY <2>1
      <4>2. len[y] = len[x] + (m - 1)
        BY <1>4, <4>1, SMTT(40)
      <4> QED
        BY <4>2
    <3>3. Rising(X, len, m - 1)
      BY <3>2 DEF Rising
    <3> QED
      BY <1>5, <3>1, <3>3
  <2> QED
    BY <2>2, <2>3
<1>7. CASE \A x \in X : \E y \in X : Len(NormalOf(ms, x)) + 1 = Len(NormalOf(ms, y)) + m
  <2>1. \A x \in X : \E y \in X : len[x] + 1 = len[y] + m
    BY <1>3, <1>7
  <2>2. CASE m = 0
    <3>1. ASSUME NEW x \in X PROVE \E y \in X : len[y] = len[x] + 1
      <4>1. PICK y \in X : len[x] + 1 = len[y] + m
        BY <2>1
      <4>2. len[y] = len[x] + 1
        BY <1>4, <2>2, <4>1
      <4> QED
        BY <4>2
    <3>2. Rising(X, len, 1) /\ 1 \in Nat \ {0}
      BY <3>1 DEF Rising
    <3> QED
      BY <1>5, <3>2
  <2>3. CASE m # 0
    <3>1. m - 1 \in Nat \ {0}
      BY <2>3
    <3>2. ASSUME NEW x \in X PROVE \E y \in X : len[x] = len[y] + (m - 1)
      <4>1. PICK y \in X : len[x] + 1 = len[y] + m
        BY <2>1
      <4>2. len[x] = len[y] + (m - 1)
        BY <1>4, <4>1, SMTT(40)
      <4> QED
        BY <4>2
    <3>3. Falling(X, len, m - 1)
      BY <3>2 DEF Falling
    <3> QED
      BY <1>5, <3>1, <3>3
  <2> QED
    BY <2>2, <2>3
<1> QED
  BY <1>6, <1>7

(* Facts about the rest of a tree: what is no directory in it is a member, *)
(* and every member that is no directory is in it.                         *)
LEMMA CutNodes ==
  ASSUME NEW ms, Sound(ms), NEW g, NEW d, Cut(TreeOf(ms), g, d)
  PROVE  /\ IsTree(TreeOf(ms)) /\ d \in Seq(Name) /\ Len(d) \in Nat
         /\ \A q \in DOMAIN g : /\ q \in Path /\ q \in Seq(Name) /\ q # <<>> /\ d \o q \in DOMAIN TreeOf(ms)
                                /\ g[q] = TreeOf(ms)[d \o q] /\ Len(d \o q) = Len(d) + Len(q)
                                /\ Last(d \o q) = Last(q)
<1> DEFINE T == TreeOf(ms)
<1>1. IsTree(T)
  BY ArchiveNodes
<1>2. /\ d \in Directories(T) \cup {<<>>}
      /\ DOMAIN g = {p \in Path : d \o p \in DOMAIN T}
      /\ \A p \in DOMAIN g : g[p] = T[d \o p]
  BY DEF Cut
<1>3. d \in Seq(Name) /\ Len(d) \in Nat
  BY <1>1, <1>2, DirectoryIs, LenProperties
<1>4. \A q \in DOMAIN g : q \in Path /\ q \in Seq(Name) /\ q # <<>> /\ d \o q \in DOMAIN T
                          /\ g[q] = T[d \o q]
  BY <1>2 DEF Path
<1>5. \A q \in DOMAIN g : Len(d \o q) = Len(d) + Len(q) /\ Last(d \o q) = Last(q)
  BY <1>3, <1>4, LastOfJoin
<1> QED
  BY <1>1, <1>3, <1>4, <1>5

LEMMA CutMember ==
  ASSUME NEW ms, Sound(ms), NEW g, NEW d, Cut(TreeOf(ms), g, d),
         NEW q \in DOMAIN g, g[q].kind # "dir"
  PROVE  \E h \in DOMAIN ms : ~IsDot(ms[h].path) /\ d \o q = NormalOf(ms, h) /\ ms[h].kind # "dir"
<1> DEFINE z == d \o q
           T == TreeOf(ms)
<1>1. z \in DOMAIN T /\ T[z].kind # "dir"
  BY CutNodes
<1> HIDE DEF z
<1>2. \E h \in DOMAIN ms : ~IsDot(ms[h].path) /\ z = NormalOf(ms, h) /\ ms[h].kind # "dir"
  BY <1>1, ArchiveNodes
<1> QED
  BY <1>2 DEF z

LEMMA MemberInCut ==
  ASSUME NEW ms, Sound(ms), NEW g, NEW d, Cut(TreeOf(ms), g, d),
         NEW h \in DOMAIN ms, ~IsDot(ms[h].path), ms[h].kind # "dir"
  PROVE  \E q \in DOMAIN g : d \o q = NormalOf(ms, h) /\ g[q].kind # "dir"
<1> DEFINE T == TreeOf(ms)
           z == NormalOf(ms, h)
<1>1. IsTree(T) /\ d \in Seq(Name) /\ Len(d) \in Nat
  BY CutNodes
<1>2. /\ d \in Directories(T) \cup {<<>>}
      /\ \A p \in DOMAIN g : g[p] = T[d \o p]
      /\ \A x \in DOMAIN T : IsPrefix(x, d) \/ \E p \in DOMAIN g : x = d \o p
  BY DEF Cut
<1>3. z \in DOMAIN T /\ T[z].kind # "dir"
  BY ArchiveNodes
<1> HIDE DEF z
<1>4. z \in Seq(Name) /\ z # <<>>
  BY <1>1, <1>3, NodeIs
<1>5. ~IsPrefix(z, d)
  <2>1. SUFFICES ASSUME IsPrefix(z, d) PROVE FALSE
    OBVIOUS
  <2>2. CASE d = <<>>
    <3>1. Len(z) <= Len(d)
      BY <1>1, <1>4, <2>1, PrefixIs
    <3>2. Len(d) = 0
      BY <2>2
    <3>3. Len(z) \in Nat
      BY <1>4, LenProperties
    <3> HIDE <2>2
    <3>4. Len(z) = 0
      BY <3>1, <3>2, <3>3
    <3> QED
      BY <1>4, <3>4, EmptySeq
  <2>3. CASE d # <<>>
    <3>1. d \in DOMAIN T /\ T[d].kind = "dir"
      BY <1>2, <2>3 DEF Directories
    <3>2. z # d
      BY <1>3, <3>1
    <3>3. z \in Directories(T)
      BY <1>1, <1>4, <2>1, <3>1, <3>2, AboveIs DEF IsStrictPrefix
    <3> QED
      BY <1>3, <3>3 DEF Directories
  <2> QED
    BY <2>2, <2>3
<1>6. PICK q \in DOMAIN g : z = d \o q
  BY <1>2, <1>3, <1>5
<1>7. g[q].kind # "dir"
  BY <1>2, <1>3, <1>6
<1> QED
  BY <1>6, <1>7 DEF z

(* A tree that is cut from the archive passes, and there is no member ".". *)
Matched(ms, g, d, lost) ==
  /\ Sound(ms) /\ \A e \in DOMAIN ms : ~IsDot(ms[e].path)
  /\ IsTree(g) /\ Cut(TreeOf(ms), g, d) /\ Agreed(ms, KeysOf(g, lost))

(* The manifest strips w of every name. *)
Stripping(ms, w) == Wrappers(ms) = {w} /\ \A e \in DOMAIN ms : NormalOf(ms, e)[1] = w

LEMMA StrippedIs ==
  ASSUME NEW ms, Sound(ms), NEW w, Wrappers(ms) = {w}, NEW e \in DOMAIN ms,
         ~IsDot(ms[e].path), NormalOf(ms, e)[1] = w
  PROVE  /\ NamedAs(ms, e) \in Seq(Name) /\ Len(NamedAs(ms, e)) + 1 = Len(NormalOf(ms, e))
         /\ NormalOf(ms, e) = Top(w) \o NamedAs(ms, e) /\ w \in Name
         /\ NamedAs(ms, e) # <<>> => Last(NamedAs(ms, e)) = Last(NormalOf(ms, e))
<1> DEFINE q == NormalOf(ms, e)
           r == NamedAs(ms, e)
<1>1. q \in Path /\ q[1] = w /\ w \in Name
  BY NormalIs
<1>2. r = Tail(q)
  BY <1>1, WrappersAre
<1> HIDE DEF q, r
<1>3. Tail(q) \in Seq(Name) /\ q = Top(w) \o Tail(q) /\ Len(Tail(q)) = Len(q) - 1 /\ Len(q) \in Nat
  BY <1>1, HeadIs, FirstIs
<1>4. r \in Seq(Name) /\ q = Top(w) \o r /\ Len(r) + 1 = Len(q)
  BY <1>2, <1>3
<1>5. r # <<>> => Last(Top(w) \o r) = Last(r)
  BY <1>1, <1>4, TopPathIs, LastOfJoin
<1>6. r # <<>> => Last(r) = Last(q)
  BY <1>4, <1>5
<1> QED
  BY <1>1, <1>4, <1>6 DEF q, r

(* A directory without anything in it is cut with nothing in it. *)
LEMMA ChildlessBelow ==
  ASSUME NEW ms, NEW g, NEW d, NEW lost, Matched(ms, g, d, lost), DOMAIN ms # {},
         \A q \in DOMAIN g : g[q].kind = "dir", NEW b \in Blank(g)
  PROVE  \E h \in EmptyOf(ms) : Len(NormalOf(ms, h)) = Len(d) + Len(b)
<1> DEFINE T == TreeOf(ms)
           z == d \o b
<1>0. Sound(ms) /\ IsTree(g) /\ Cut(T, g, d) /\ \A e \in DOMAIN ms : ~IsDot(ms[e].path)
  BY DEF Matched
<1>1. /\ IsTree(T) /\ d \in Seq(Name) /\ b \in Seq(Name)
      /\ \A q \in DOMAIN g : q \in Seq(Name) /\ q # <<>> /\ d \o q \in DOMAIN T /\ g[q] = T[d \o q]
  BY <1>0, CutNodes, BlankIs
<1>2. /\ d \in Directories(T) \cup {<<>>}
      /\ \A x \in DOMAIN T : IsPrefix(x, d) \/ \E q \in DOMAIN g : x = d \o q
  BY <1>0 DEF Cut
<1>3. /\ b # <<>> => b \in Directories(g)
      /\ b = <<>> => DOMAIN g = {}
      /\ \A c \in Children(g, b) : g[c].kind = "dirlink"
  BY <1>0, BlankIs
<1>4. Children(g, b) = {}
  <2>1. \A c \in Children(g, b) : c \in DOMAIN g
    BY DEF Children
  <2> QED
    BY <1>3, <2>1
<1>5. \A q \in DOMAIN g : ~IsStrictPrefix(b, q)
  BY <1>0, <1>1, <1>4, ChildIs
<1>6. z \in Seq(Name) /\ Len(z) = Len(d) + Len(b)
  BY <1>1, JoinIs
<1>7. IsPrefix(d, z)
  BY <1>1, JoinIs
<1>8. \A q \in DOMAIN g : ~IsStrictPrefix(z, d \o q)
  BY <1>1, <1>5, JoinPrefix
<1>9. b = <<>> => z = d
  BY <1>1, ConcatEmptySeq
<1> HIDE DEF T
<1>10. z # <<>>
  <2>1. SUFFICES ASSUME z = <<>> PROVE FALSE
    OBVIOUS
  <2>2. Len(z) = 0
    BY <2>1
  <2> HIDE DEF z
  <2> DEFINE k == Len(d)
             l == Len(b)
  <2>3. k \in Nat /\ l \in Nat /\ k + l = 0
    BY <1>1, <1>6, <2>2, LenProperties
  <2> HIDE DEF k, l
  <2>4. k = 0 /\ l = 0
    BY <2>3
  <2>5. d = <<>> /\ b = <<>>
    BY <1>1, <2>4, EmptySeq DEF k, l
  <2>6. g = T
    BY <1>0, <2>5 DEF Cut, T
  <2>7. PICK e \in DOMAIN ms : TRUE
    OBVIOUS
  <2>8. NormalOf(ms, e) \in DOMAIN T
    BY <1>0, ArchiveNodes DEF T
  <2> QED
    BY <1>3, <2>5, <2>6, <2>8
<1>11. z \in Directories(T)
  <2>1. CASE b = <<>>
    BY <1>2, <1>9, <1>10, <2>1
  <2>2. CASE b # <<>>
    <3>1. b \in DOMAIN g
      BY <1>3, <2>2 DEF Directories
    <3> QED
      BY <1>1, <3>1 DEF Directories
  <2> QED
    BY <2>1, <2>2
<1> HIDE DEF z
<1>12. \A x \in DOMAIN T : ~IsStrictPrefix(z, x)
  <2>1. SUFFICES ASSUME NEW x \in DOMAIN T, IsStrictPrefix(z, x) PROVE FALSE
    OBVIOUS
  <2>2. x \in Seq(Name)
    BY <1>1, NodeIs
  <2>3. CASE IsPrefix(x, d)
    <3>1. IsPrefix(x, z)
      BY <1>1, <1>6, <1>7, <2>2, <2>3, PrefixTransitive
    <3>2. Len(z) < Len(x) /\ Len(x) <= Len(z) /\ Len(x) \in Nat /\ Len(z) \in Nat
      BY <1>6, <2>1, <2>2, <3>1, PrefixIs, LenProperties
    <3> QED
      BY <3>2
  <2>4. CASE ~IsPrefix(x, d)
    BY <1>2, <1>8, <2>1, <2>4
  <2> QED
    BY <2>3, <2>4
<1>13. Children(T, z) = {}
  <2>1. \A c \in Children(T, z) : c \in DOMAIN T /\ IsStrictPrefix(z, c)
    BY <1>1, <1>6, ChildIs
  <2> QED
    BY <1>12, <2>1
<1>14. \E e \in EmptyOf(ms) : z = NormalOf(ms, e)
  BY <1>0, <1>11, <1>13, ArchiveNodes DEF T
<1> QED
  BY <1>6, <1>14

(* A manifest that strips one name is met by no cut of another length: an  *)
(* empty directory would have to be above or below another one, and so on. *)
LEMMA ShiftEmpty ==
  ASSUME NEW ms, NEW g, NEW d, NEW lost, Matched(ms, g, d, lost), NEW w, Stripping(ms, w),
         DOMAIN ms # {}, Contents(ms) = {}
  PROVE  Len(d) = 1
<1>0. Sound(ms) /\ IsTree(g) /\ Cut(TreeOf(ms), g, d) /\ Agreed(ms, KeysOf(g, lost))
      /\ \A e \in DOMAIN ms : ~IsDot(ms[e].path)
  BY DEF Matched
<1>1. SUFFICES ASSUME Len(d) # 1 PROVE FALSE
  OBVIOUS
<1>2. \A e \in DOMAIN ms : ms[e].kind = "dir"
  <2>1. \A e \in DOMAIN ms : ms[e].kind \in Kind \cup {"hard"}
    BY <1>0, MemberIs
  <2>2. \A e \in DOMAIN ms : ms[e].kind # "hard"
    BY <1>0, HardIs
  <2>3. \A e \in DOMAIN ms : ms[e].kind \notin {"file", "exec"} \cup Symlink
    BY DEF Contents, OfKind
  <2> QED
    BY <2>1, <2>2, <2>3 DEF Kind, Symlink
<1>3. \A q \in DOMAIN g : g[q].kind = "dir"
  <2>1. SUFFICES ASSUME NEW q \in DOMAIN g, g[q].kind # "dir" PROVE FALSE
    OBVIOUS
  <2>2. \E h \in DOMAIN ms : ms[h].kind # "dir"
    BY <1>0, <2>1, CutMember
  <2> QED
    BY <1>2, <2>2
<1>4. Len(d) \in Nat
  BY <1>0, CutNodes
<1>5. ASSUME NEW x \in EmptyOf(ms)
      PROVE  \E y \in EmptyOf(ms) : Len(NormalOf(ms, y)) + 1 = Len(NormalOf(ms, x)) + Len(d)
  <2>1. \E p \in KeysOf(g, lost) :
              /\ NamedAs(ms, x) = Front(Reading(p)) /\ Last(Reading(p)) = Marker
              /\ Len(NamedAs(ms, x)) = Len(Front(p))
    <3>1. \A e \in EmptyOf(ms) : \E p \in KeysOf(g, lost) :
              /\ NamedAs(ms, e) = Front(Reading(p)) /\ Last(Reading(p)) = Marker
              /\ Len(NamedAs(ms, e)) = Len(Front(p))
      BY <1>0, ComparedIs
    <3> QED
      BY <3>1
  <2>2. PICK p \in KeysOf(g, lost) : Len(NamedAs(ms, x)) = Len(Front(p))
    BY <2>1
  <2>3. Front(p) \in Blank(g)
    BY <1>0, <1>3, KeyIs
  <2>4. PICK y \in EmptyOf(ms) : Len(NormalOf(ms, y)) = Len(d) + Len(Front(p))
    BY <1>3, <2>3, ChildlessBelow
  <2>5. x \in DOMAIN ms
    BY DEF EmptyOf, OfKind
  <2>6. /\ NamedAs(ms, x) \in Seq(Name)
        /\ Len(NamedAs(ms, x)) + 1 = Len(NormalOf(ms, x))
    BY <1>0, <2>5, StrippedIs DEF Stripping
  <2>7. Len(NamedAs(ms, x)) \in Nat
    BY <2>6, LenProperties
  <2>8. Len(NormalOf(ms, y)) + 1 = Len(NormalOf(ms, x)) + Len(d)
    BY <1>4, <2>2, <2>4, <2>6, <2>7
  <2> QED
    BY <2>8
<1>6. EmptyOf(ms) = {}
  <2> DEFINE X == EmptyOf(ms)
             m == Len(d)
  <2>1. X \in SUBSET DOMAIN ms
    BY DEF EmptyOf, OfKind
  <2>2. m \in Nat /\ m # 1
    BY <1>1, <1>4
  <2>3. \A x \in X : \E y \in X : Len(NormalOf(ms, y)) + 1 = Len(NormalOf(ms, x)) + m
    BY <1>5
  <2> HIDE DEF X, m
  <2>4. X = {}
    BY <1>0, <2>1, <2>2, <2>3, NoLength
  <2> QED
    BY <2>4 DEF X
<1>7. PICK e \in DOMAIN ms : TRUE
  OBVIOUS
<1>8. \E f \in Leaves(ms) : f \in DOMAIN ms
  BY <1>0, <1>7, LeafIs
<1>9. PICK f \in DOMAIN ms : f \in Hards(ms)
  BY <1>6, <1>8 DEF Leaves
<1> QED
  BY <1>2, <1>9 DEF Hards, OfKind


LEMMA Uncut ==
  ASSUME NEW ms, Sound(ms), NEW g, NEW d, Cut(TreeOf(ms), g, d)
  PROVE  /\ ~SingleTop(TreeOf(ms)) => d = <<>> /\ g = StripOne(TreeOf(ms))
         /\ d = <<>> => g = TreeOf(ms)
         /\ Len(d) = 1 => g = StripOne(TreeOf(ms))
         /\ OnlyDot(ms) => DOMAIN TreeOf(ms) = {} /\ ~SingleTop(TreeOf(ms)) /\ Hardless(ms)
<1> DEFINE T == TreeOf(ms)
<1>1. /\ d = <<>> => g = T
      /\ d # <<>> => SingleTop(T)
      /\ Len(d) = 1 => g = StripOne(T)
  BY DEF Cut
<1>2. ASSUME ~SingleTop(T) PROVE d = <<>> /\ g = StripOne(T)
  BY <1>1, <1>2 DEF StripOne
<1>3. ASSUME OnlyDot(ms) PROVE DOMAIN T = {} /\ ~SingleTop(T) /\ Hardless(ms)
  <2>1. DOMAIN T = {}
    BY <1>3, ArchiveNodes DEF OnlyDot
  <2>2. IsTree(T)
    BY ArchiveNodes
  <2> HIDE DEF T
  <2>3. ~SingleTop(T)
    BY <2>1, <2>2, SingleTopIs DEF Directories
  <2>4. \A e \in DOMAIN ms : ms[e].kind = "dir"
    BY <1>3, NormalIs DEF OnlyDot
  <2>5. Hardless(ms)
    BY <2>4 DEF Hardless, OfKind
  <2> QED
    BY <2>1, <2>3, <2>5
<1> HIDE DEF T
<1> QED
  BY <1>1, <1>2, <1>3 DEF T

Shaped(ms) == OnlyDot(ms) \/ Unwrappable(ms) \/ \E w : Wrapped(ms, w)

LEMMA AttestedCut ==
  ASSUME NEW ms, Sound(ms), Attested(ms), DOMAIN ms # {}, NEW lost, NEW g, IsTree(g), NEW d,
         Cut(TreeOf(ms), g, d), Agreed(ms, KeysOf(g, lost))
  PROVE  Hardless(ms) /\ Shaped(ms) /\ g = StripOne(TreeOf(ms))
<1>1. Hardless(ms)
  BY AttestedIs
<1>2. Shaped(ms)
  <2>1. \A e \in Contents(ms) : NamedAs(ms, e) \in Path
    BY ComparedIs
  <2>2. \A e \in Contents(ms) : NamedAs(ms, e) # <<>>
    BY <2>1 DEF Path
  <2>3. \A e \in EmptyOf(ms) : NamedAs(ms, e) \in Seq(Name)
    BY ComparedIs
  <2> QED
    BY <2>2, <2>3, ShapeIs DEF Shaped
<1>3. CASE OnlyDot(ms) \/ Unwrappable(ms)
  <2>1. ~SingleTop(TreeOf(ms))
    BY <1>3, Uncut DEF Unwrappable
  <2> QED
    BY <1>1, <1>2, <2>1, Uncut
<1>5. ASSUME NEW q \in DOMAIN g
      PROVE  /\ Len(d \o q) = Len(d) + Len(q)
             /\ g[q].kind # "dir" => \E h \in DOMAIN ms :
                  ~IsDot(ms[h].path) /\ d \o q = NormalOf(ms, h) /\ ms[h].kind # "dir"
  <2>1. Len(d \o q) = Len(d) + Len(q)
    BY CutNodes
  <2>2. ASSUME g[q].kind # "dir"
        PROVE  \E h \in DOMAIN ms : ~IsDot(ms[h].path) /\ d \o q = NormalOf(ms, h)
                                      /\ ms[h].kind # "dir"
    BY <2>2, CutMember, SMTT(40)
  <2> QED
    BY <2>1, <2>2
<1>4. ASSUME NEW w, Wrapped(ms, w) PROVE g = StripOne(TreeOf(ms))
  <2>1. Matched(ms, g, d, lost) /\ Stripping(ms, w)
    BY <1>4 DEF Matched, Stripping, Wrapped
  <2>2. Len(d) = 1
    <3>1. SUFFICES ASSUME Len(d) # 1 PROVE FALSE
      OBVIOUS
    <3> DEFINE X == Contents(ms)
               m == Len(d)
    <3>2. X \in SUBSET DOMAIN ms
      BY DEF Contents, OfKind
    <3>3. m \in Nat /\ m # 1
      BY <3>1, CutNodes
    <3>4. \A e \in DOMAIN ms : ~IsDot(ms[e].path)
      BY <1>4 DEF Wrapped
    <3>5. ASSUME NEW x \in X
          PROVE  \E y \in X : Len(NormalOf(ms, y)) + 1 = Len(NormalOf(ms, x)) + m
      <4>1. \E p \in KeysOf(g, lost) : /\ p \in DOMAIN g /\ g[p].kind # "dir"
                                       /\ Reading(p) = NamedAs(ms, x)
                                       /\ Len(p) = Len(NamedAs(ms, x))
        BY ComparedIs
      <4>2. PICK p \in DOMAIN g : g[p].kind # "dir" /\ Len(p) = Len(NamedAs(ms, x))
        BY <4>1
      <4>3. \E h \in DOMAIN ms : ~IsDot(ms[h].path) /\ d \o p = NormalOf(ms, h) /\ ms[h].kind # "dir"
        BY <1>5, <4>2
      <4>4. PICK y \in DOMAIN ms : d \o p = NormalOf(ms, y) /\ ms[y].kind # "dir"
        BY <4>3
      <4>5. y \in X
        BY <1>1, <4>4, HardlessIs
      <4>6. Len(NormalOf(ms, y)) = m + Len(p)
        BY <1>5, <4>2, <4>4
      <4>7. x \in DOMAIN ms
        BY <3>2
      <4>8. /\ NamedAs(ms, x) \in Seq(Name)
            /\ Len(NamedAs(ms, x)) + 1 = Len(NormalOf(ms, x))
        BY <2>1, <3>4, <4>7, StrippedIs DEF Stripping
      <4>9. Len(NamedAs(ms, x)) \in Nat
        BY <4>8, LenProperties
      <4>10. Len(NormalOf(ms, y)) + 1 = Len(NormalOf(ms, x)) + m
        BY <3>3, <4>2, <4>6, <4>8, <4>9
      <4> QED
        BY <4>5, <4>10
    <3> HIDE DEF X, m
    <3>6. X = {}
      BY <3>2, <3>3, <3>4, <3>5, NoLength
    <3> QED
      BY <2>1, <3>1, <3>6, ShiftEmpty DEF X
  <2> QED
    BY <2>2, Uncut
<1> QED
  BY <1>1, <1>2, <1>3, <1>4 DEF Shaped

LEMMA FrontPrefix ==
  ASSUME NEW S, NEW q \in Seq(S), q # <<>>
  PROVE  IsStrictPrefix(Front(q), q)
<1>1. Front(q) \in Seq(S) /\ Len(Front(q)) = Len(q) - 1 /\ \A i \in 1..(Len(q) - 1) : Front(q)[i] = q[i]
  BY FrontIs
<1>2. Len(q) \in Nat
  BY LenProperties
<1>3. Len(Front(q)) < Len(q) /\ \A i \in 1..Len(Front(q)) : Front(q)[i] = q[i]
  BY <1>1, <1>2
<1> QED
  BY <1>1, <1>3, PrefixIs

(* What the checks have found equal when nothing has gone wrong. *)
LEMMA CalmAgreed ==
  ASSUME NEW ms, Sound(ms), NEW lost, Calm(ms, lost), NEW g, IsTree(g), NEW d,
         Cut(TreeOf(ms), g, d), Agreed(ms, KeysOf(g, lost))
  PROVE  /\ \A q \in DOMAIN g : g[q].kind # "dir" /\ Last(q) # Marker =>
              \E e \in Contents(ms) : q = NamedAs(ms, e)
         /\ \A q \in DOMAIN g : g[q].kind # "dir" /\ Last(q) = Marker =>
              \E e \in EmptyOf(ms) : Front(q) = NamedAs(ms, e)
         /\ \A b \in Blank(g) : \E e \in EmptyOf(ms) : b = NamedAs(ms, e)
         /\ \A e \in Contents(ms) : Last(NamedAs(ms, e)) # Marker /\ NamedAs(ms, e) # <<>>
<1> DEFINE K == KeysOf(g, lost)
<1>1. \A q \in K : Reading(q) = q
  BY CalmReading
<1>2. \A x : ListedAt(lost, x)
  BY DEF ListedAt, Calm
<1>3. ASSUME NEW q \in DOMAIN g, g[q].kind # "dir" PROVE q \in K
  BY <1>2, <1>3 DEF KeysOf, ItemsOf, Directories
<1>4. ASSUME NEW b \in Blank(g)
      PROVE  Append(b, Marker) \in K /\ Front(Append(b, Marker)) = b /\ Last(Append(b, Marker)) = Marker
  <2>1. b \in Seq(Name)
    BY BlankIs
  <2>2. Append(b, Marker) \in K
    BY <1>2 DEF KeysOf
  <2> QED
    BY <2>1, <2>2, ExtendIs, NameAssumption
<1>5. ASSUME NEW q \in K, Last(q) # Marker PROVE \E e \in Contents(ms) : q = NamedAs(ms, e)
  BY <1>1, <1>5 DEF Agreed
<1>6. ASSUME NEW q \in K, Last(q) = Marker PROVE \E e \in EmptyOf(ms) : Front(q) = NamedAs(ms, e)
  BY <1>1, <1>6 DEF Agreed
<1>7. ASSUME NEW e \in Contents(ms) PROVE Last(NamedAs(ms, e)) # Marker /\ NamedAs(ms, e) # <<>>
  BY ComparedIs DEF Path
<1>8. ASSUME NEW b \in Blank(g) PROVE \E e \in EmptyOf(ms) : b = NamedAs(ms, e)
  <2> DEFINE q == Append(b, Marker)
  <2>1. q \in K /\ Front(q) = b /\ Last(q) = Marker
    BY <1>4
  <2> HIDE DEF q, K
  <2> QED
    BY <1>6, <2>1
<1> HIDE DEF K
<1>9. \A q \in DOMAIN g : g[q].kind # "dir" /\ Last(q) # Marker =>
        \E e \in Contents(ms) : q = NamedAs(ms, e)
  BY <1>3, <1>5
<1>10. \A q \in DOMAIN g : g[q].kind # "dir" /\ Last(q) = Marker =>
         \E e \in EmptyOf(ms) : Front(q) = NamedAs(ms, e)
  BY <1>3, <1>6
<1> QED
  BY <1>7, <1>8, <1>9, <1>10

LEMMA CalmHardless ==
  ASSUME NEW ms, NEW g, NEW d, NEW lost, Calm(ms, lost), Matched(ms, g, d, lost),
         \A e \in DOMAIN ms : NormalOf(ms, e) = d \o NamedAs(ms, e)
  PROVE  Hardless(ms)
<1>0. Sound(ms) /\ IsTree(g) /\ Cut(TreeOf(ms), g, d) /\ Agreed(ms, KeysOf(g, lost))
      /\ \A e \in DOMAIN ms : ~IsDot(ms[e].path)
  BY DEF Matched
<1>1. SUFFICES ASSUME NEW h \in DOMAIN ms, ms[h].kind = "hard" PROVE FALSE
  BY DEF Hardless, OfKind
<1>2. PICK q \in DOMAIN g : d \o q = NormalOf(ms, h) /\ g[q].kind # "dir"
  <2>1. ms[h].kind # "dir"
    BY <1>1
  <2>2. ~IsDot(ms[h].path)
    BY <1>0
  <2> HIDE <1>1
  <2> QED
    BY <1>0, <2>1, <2>2, MemberInCut, SMTT(40)
<1>3. q \in Seq(Name) /\ q # <<>> /\ d \in Seq(Name)
  BY <1>0, CutNodes
<1>4. ASSUME Last(q) # Marker PROVE FALSE
  <2>1. \E e \in Contents(ms) : q = NamedAs(ms, e)
    BY <1>0, <1>2, <1>4, CalmAgreed
  <2>2. PICK e \in Contents(ms) : q = NamedAs(ms, e)
    BY <2>1
  <2>3. e \in DOMAIN ms /\ ms[e].kind # "hard"
    BY DEF Contents, OfKind, Symlink
  <2>4. NormalOf(ms, e) = NormalOf(ms, h)
    BY <1>2, <2>2, <2>3
  <2>5. e = h
    BY <1>0, <2>3, <2>4, NormalInjective
  <2> QED
    BY <1>1, <2>3, <2>5
<1>5. ASSUME Last(q) = Marker PROVE FALSE
  <2>1. \E e \in EmptyOf(ms) : Front(q) = NamedAs(ms, e)
    BY <1>0, <1>2, <1>5, CalmAgreed
  <2>2. PICK e \in EmptyOf(ms) : Front(q) = NamedAs(ms, e)
    BY <2>1
  <2>3. e \in DOMAIN ms /\ ~IsStrictPrefix(NormalOf(ms, e), NormalOf(ms, h))
    BY DEF EmptyOf, OfKind
  <2>4. Front(q) \in Seq(Name) /\ IsStrictPrefix(Front(q), q)
    BY <1>3, FrontIs, FrontPrefix
  <2>5. IsStrictPrefix(d \o Front(q), d \o q)
    BY <1>3, <2>4, JoinPrefix
  <2> QED
    BY <1>2, <2>2, <2>3, <2>5
<1> QED
  BY <1>4, <1>5

LEMMA EmptyIsBlank ==
  ASSUME NEW ms, Sound(ms), NEW e \in EmptyOf(ms), ~IsDot(ms[e].path)
  PROVE  NormalOf(ms, e) \in Blank(TreeOf(ms))
<1> DEFINE T == TreeOf(ms)
           z == NormalOf(ms, e)
<1>1. e \in DOMAIN ms /\ ms[e].kind = "dir"
      /\ \A f \in DOMAIN ms : ~IsStrictPrefix(z, NormalOf(ms, f))
  BY DEF EmptyOf, OfKind
<1>2. IsTree(T) /\ z \in DOMAIN T /\ T[z].kind = "dir"
  BY <1>1, ArchiveNodes
<1>3. \A x \in DOMAIN T : \E f \in DOMAIN ms : ~IsDot(ms[f].path) /\ IsPrefix(x, NormalOf(ms, f))
  BY ArchiveNodes
<1>4. \A f \in DOMAIN ms : ~IsDot(ms[f].path) => NormalOf(ms, f) \in Seq(Name)
  BY NormalIs DEF Path
<1> HIDE DEF z, T
<1>5. z \in Seq(Name)
  BY <1>2, NodeIs
<1>6. Children(T, z) = {}
  <2>1. SUFFICES ASSUME NEW c \in Children(T, z) PROVE FALSE
    OBVIOUS
  <2>2. c \in DOMAIN T /\ c \in Seq(Name) /\ IsStrictPrefix(z, c)
    BY <1>2, <1>5, ChildIs
  <2>3. PICK f \in DOMAIN ms : ~IsDot(ms[f].path) /\ IsPrefix(c, NormalOf(ms, f))
    BY <1>3, <2>2
  <2>4. NormalOf(ms, f) \in Seq(Name)
    BY <1>4, <2>3
  <2>5. IsPrefix(z, NormalOf(ms, f))
    BY <1>5, <2>2, <2>3, <2>4, PrefixTransitive DEF IsStrictPrefix
  <2>6. z = NormalOf(ms, f)
    BY <1>1, <2>5 DEF IsStrictPrefix, z
  <2>7. Len(z) < Len(c) /\ Len(c) <= Len(z) /\ Len(z) \in Nat /\ Len(c) \in Nat
    BY <1>5, <2>2, <2>3, <2>6, PrefixIs, LenProperties
  <2> QED
    BY <2>7
<1> QED
  BY <1>2, <1>6 DEF Blank, Directories, T, z

(* When nothing is stripped from the tree, the manifest strips nothing. *)
LEMMA CalmUncut ==
  ASSUME NEW ms, NEW g, NEW d, NEW lost, Calm(ms, lost), Matched(ms, g, d, lost), d = <<>>, NEW w
  PROVE  Wrappers(ms) # {w}
<1> DEFINE T == TreeOf(ms)
<1>0. Sound(ms) /\ IsTree(g) /\ Cut(TreeOf(ms), g, d) /\ Agreed(ms, KeysOf(g, lost))
      /\ \A e \in DOMAIN ms : ~IsDot(ms[e].path)
  BY DEF Matched
<1>1. SUFFICES ASSUME Wrappers(ms) = {w} PROVE FALSE
  OBVIOUS
<1>2. g = T
  BY <1>0, Uncut
<1>3. \A e \in DOMAIN ms : /\ NormalOf(ms, e) \in DOMAIN T /\ NormalOf(ms, e) \in Path
                           /\ T[NormalOf(ms, e)].kind = "dir" <=> ms[e].kind = "dir"
  BY <1>0, ArchiveNodes
<1>4. ASSUME NEW e \in DOMAIN ms, NormalOf(ms, e)[1] = w
      PROVE  /\ NamedAs(ms, e) \in Seq(Name) /\ Len(NamedAs(ms, e)) + 1 = Len(NormalOf(ms, e))
             /\ NamedAs(ms, e) # <<>> => Last(NamedAs(ms, e)) = Last(NormalOf(ms, e))
  BY <1>0, <1>1, <1>4, StrippedIs
<1>5. ASSUME NEW e \in DOMAIN ms, NormalOf(ms, e)[1] # w PROVE NamedAs(ms, e) = NormalOf(ms, e)
  BY <1>0, <1>1, <1>5, WrappersAre
<1>6. ASSUME NEW e \in DOMAIN ms, NamedAs(ms, e)[1] = w PROVE NormalOf(ms, e)[1] = w
  BY <1>5, <1>6
<1>7. \A e \in DOMAIN ms : Len(NormalOf(ms, e)) \in Nat
  BY <1>3, FirstIs
<1>8. ASSUME NEW e \in DOMAIN ms, NEW f \in DOMAIN ms, NormalOf(ms, e)[1] = w,
             NormalOf(ms, e) = NamedAs(ms, f)
      PROVE  NormalOf(ms, f)[1] = w /\ Len(NormalOf(ms, e)) + 1 = Len(NormalOf(ms, f)) + 0
             /\ Last(NormalOf(ms, f)) = Last(NormalOf(ms, e))
  <2>1. NormalOf(ms, f)[1] = w
    BY <1>6, <1>8
  <2>2. NamedAs(ms, f) # <<>>
    BY <1>3, <1>8 DEF Path
  <2>3. Len(NamedAs(ms, f)) + 1 = Len(NormalOf(ms, f)) /\ Last(NamedAs(ms, f)) = Last(NormalOf(ms, f))
    BY <1>4, <2>1, <2>2
  <2>4. Len(NormalOf(ms, e)) + 1 = Len(NormalOf(ms, f)) + 0
    BY <1>7, <1>8, <2>3
  <2> QED
    BY <1>8, <2>1, <2>3, <2>4
<1> DEFINE X == {x \in DOMAIN ms : NormalOf(ms, x)[1] = w /\ ms[x].kind # "dir"
                                   /\ Last(NormalOf(ms, x)) # Marker}
           E == {x \in EmptyOf(ms) : NormalOf(ms, x)[1] = w}
<1>9. \A x \in EmptyOf(ms) : x \in DOMAIN ms /\ \A f \in DOMAIN ms : ~IsStrictPrefix(NormalOf(ms, x), NormalOf(ms, f))
  BY DEF EmptyOf, OfKind
<1>10. X = {}
  <2>1. ASSUME NEW x \in X
        PROVE  \E y \in X : Len(NormalOf(ms, x)) + 1 = Len(NormalOf(ms, y)) + 0
    <3> DEFINE q == NormalOf(ms, x)
    <3>1. q \in DOMAIN g /\ g[q].kind # "dir" /\ Last(q) # Marker
      BY <1>2, <1>3
    <3> HIDE DEF q
    <3>2. \E y \in Contents(ms) : q = NamedAs(ms, y)
      BY <1>0, <3>1, CalmAgreed
    <3>3. PICK y \in Contents(ms) : q = NamedAs(ms, y)
      BY <3>2
    <3>4. y \in DOMAIN ms /\ ms[y].kind # "dir"
      BY DEF Contents, OfKind, Symlink
    <3>5. NormalOf(ms, y)[1] = w /\ Len(NormalOf(ms, x)) + 1 = Len(NormalOf(ms, y)) + 0
          /\ Last(NormalOf(ms, y)) = Last(NormalOf(ms, x))
      BY <1>8, <3>3, <3>4 DEF q
    <3> QED
      BY <3>4, <3>5
  <2>2. X \in SUBSET DOMAIN ms /\ 0 \in Nat /\ 0 # 1
    OBVIOUS
  <2> DEFINE m == 0
  <2>3. m \in Nat /\ m # 1 /\ \A x \in X : \E y \in X : Len(NormalOf(ms, x)) + 1 = Len(NormalOf(ms, y)) + m
    BY <2>1
  <2> HIDE DEF X, m
  <2> QED
    BY <1>0, <2>2, <2>3, NoLength
<1>11. E = {}
  <2>1. ASSUME NEW x \in E
        PROVE  \E y \in E : Len(NormalOf(ms, x)) + 1 = Len(NormalOf(ms, y)) + 0
    <3> DEFINE q == NormalOf(ms, x)
    <3>1. q \in Blank(g)
      BY <1>0, <1>2, <1>9, EmptyIsBlank
    <3> HIDE DEF q
    <3>2. \E y \in EmptyOf(ms) : q = NamedAs(ms, y)
      BY <1>0, <3>1, CalmAgreed
    <3>3. PICK y \in EmptyOf(ms) : q = NamedAs(ms, y)
      BY <3>2
    <3>4. y \in DOMAIN ms /\ x \in DOMAIN ms
      BY <1>9
    <3>5. NormalOf(ms, y)[1] = w /\ Len(NormalOf(ms, x)) + 1 = Len(NormalOf(ms, y)) + 0
      BY <1>8, <3>3, <3>4 DEF q
    <3> QED
      BY <3>5
  <2>2. E \in SUBSET DOMAIN ms
    BY <1>9
  <2> DEFINE m == 0
  <2>3. m \in Nat /\ m # 1 /\ \A x \in E : \E y \in E : Len(NormalOf(ms, x)) + 1 = Len(NormalOf(ms, y)) + m
    BY <2>1
  <2> HIDE DEF E, m
  <2> QED
    BY <1>0, <2>2, <2>3, NoLength
<1>12. PICK a \in DOMAIN ms : NormalOf(ms, a)[1] = w
  BY <1>0, <1>1, WrappersAre
<1>13. PICK f \in Leaves(ms) : f \in DOMAIN ms /\ NormalOf(ms, f)[1] = w
  <2>1. \E f \in Leaves(ms) : /\ f \in DOMAIN ms /\ IsPrefix(NormalOf(ms, a), NormalOf(ms, f))
                              /\ ~IsDot(ms[f].path) /\ NormalOf(ms, f)[1] = NormalOf(ms, a)[1]
    BY <1>0, LeafIs
  <2> QED
    BY <1>12, <2>1
<1>14. f \notin EmptyOf(ms)
  BY <1>11, <1>13
<1>15. ms[f].kind # "dir"
  BY <1>13, <1>14 DEF Leaves, Contents, Hards, OfKind, Symlink
<1> DEFINE q == NormalOf(ms, f)
<1>16. Last(q) = Marker
  BY <1>10, <1>13, <1>15
<1>17. q \in DOMAIN g /\ g[q].kind # "dir" /\ q[1] = w /\ q \in Path
  BY <1>2, <1>3, <1>13, <1>15
<1> HIDE DEF q
<1>18. \E e \in EmptyOf(ms) : Front(q) = NamedAs(ms, e)
  BY <1>0, <1>16, <1>17, CalmAgreed
<1>19. PICK e \in EmptyOf(ms) : Front(q) = NamedAs(ms, e)
  BY <1>18
<1>20. e \in DOMAIN ms /\ NormalOf(ms, e)[1] # w
  BY <1>9, <1>11
<1>21. Front(q) = NormalOf(ms, e)
  BY <1>5, <1>19, <1>20
<1>22. Front(q) \in Path
  BY <1>3, <1>20, <1>21
<1>23. Front(q)[1] = q[1]
  <2>1. q \in Seq(Name) /\ q # <<>> /\ Len(Front(q)) \in Nat \ {0}
    BY <1>17, <1>22, FirstIs DEF Path
  <2>2. Len(Front(q)) = Len(q) - 1 /\ \A i \in 1..(Len(q) - 1) : Front(q)[i] = q[i]
    BY <2>1, FrontIs
  <2>3. 1 \in 1..(Len(q) - 1)
    BY <2>1, <2>2
  <2> QED
    BY <2>2, <2>3
<1> QED
  BY <1>17, <1>20, <1>21, <1>23

(* When a directory is stripped from the tree, it is the one that the      *)
(* manifest strips.                                                        *)
LEMMA CalmCut ==
  ASSUME NEW ms, NEW g, NEW d, NEW lost, Calm(ms, lost), Matched(ms, g, d, lost), d # <<>>,
         DOMAIN ms # {}
  PROVE  Hardless(ms) /\ Shaped(ms) /\ g = StripOne(TreeOf(ms))
<1> DEFINE T == TreeOf(ms)
<1>0. Sound(ms) /\ IsTree(g) /\ Cut(TreeOf(ms), g, d) /\ Agreed(ms, KeysOf(g, lost))
      /\ \A e \in DOMAIN ms : ~IsDot(ms[e].path)
  BY DEF Matched
<1>1. SingleTop(T) /\ d \in Directories(T)
  BY <1>0 DEF Cut
<1>2. PICK w \in Name : /\ Tops(T) = {Top(w)} /\ Top(w) \in Directories(T)
                        /\ \A e \in DOMAIN ms : ~IsDot(ms[e].path) => NormalOf(ms, e)[1] = w
  BY <1>0, <1>1, OneHead
<1>3. Wrappers(ms) = {w}
  <2>1. \A v \in Wrappers(ms) : \E e \in DOMAIN ms : v = NormalOf(ms, e)[1]
    BY <1>0, WrappersAre
  <2>2. \A v \in Wrappers(ms) : v = w
    BY <1>0, <1>2, <2>1
  <2>3. Wrappers(ms) # {}
    BY DEF Calm
  <2> QED
    BY <2>2, <2>3
<1>4. Stripping(ms, w) /\ Wrapped(ms, w)
  BY <1>0, <1>2, <1>3 DEF Stripping, Wrapped
<1>5. ASSUME NEW e \in DOMAIN ms
      PROVE  /\ NamedAs(ms, e) \in Seq(Name) /\ Len(NamedAs(ms, e)) + 1 = Len(NormalOf(ms, e))
             /\ NormalOf(ms, e) = Top(w) \o NamedAs(ms, e)
             /\ NamedAs(ms, e) # <<>> => Last(NamedAs(ms, e)) = Last(NormalOf(ms, e))
  BY <1>0, <1>3, <1>4, StrippedIs DEF Stripping
<1>6. Len(d) \in Nat
  BY <1>0, CutNodes
<1> DEFINE X == {x \in DOMAIN ms : ms[x].kind # "dir" /\ Last(NormalOf(ms, x)) # Marker}
           m == Len(d)
<1>7. ASSUME NEW x \in X
      PROVE  \E y \in X : Len(NormalOf(ms, x)) + 1 = Len(NormalOf(ms, y)) + m
  <2>1. x \in DOMAIN ms /\ ms[x].kind # "dir" /\ ~IsDot(ms[x].path) /\ Last(NormalOf(ms, x)) # Marker
    BY <1>0
  <2>2. PICK p \in DOMAIN g : d \o p = NormalOf(ms, x) /\ g[p].kind # "dir"
    BY <1>0, <2>1, MemberInCut
  <2>3. Len(d \o p) = Len(d) + Len(p) /\ Last(d \o p) = Last(p)
    BY <1>0, CutNodes
  <2>4. Last(p) # Marker
    BY <2>1, <2>2, <2>3
  <2>5. \E y \in Contents(ms) : p = NamedAs(ms, y)
    BY <1>0, <2>2, <2>4, CalmAgreed
  <2>6. PICK y \in Contents(ms) : p = NamedAs(ms, y)
    BY <2>5
  <2>7. y \in DOMAIN ms /\ ms[y].kind # "dir"
    BY DEF Contents, OfKind, Symlink
  <2>8. NamedAs(ms, y) # <<>>
    BY <1>0, CalmAgreed
  <2>9. Last(NormalOf(ms, y)) # Marker
    BY <1>5, <2>4, <2>6, <2>7, <2>8
  <2>10. Len(NormalOf(ms, x)) = m + Len(p) /\ Len(p) + 1 = Len(NormalOf(ms, y)) /\ Len(p) \in Nat
    BY <1>5, <2>2, <2>3, <2>6, <2>7, LenProperties
  <2>11. Len(NormalOf(ms, x)) + 1 = Len(NormalOf(ms, y)) + m
    BY <1>6, <2>10
  <2>12. y \in X
    BY <2>7, <2>9
  <2> QED
    BY <2>11, <2>12
<1>8. Len(d) = 1
  <2>1. SUFFICES ASSUME Len(d) # 1 PROVE FALSE
    OBVIOUS
  <2>2. m \in Nat /\ m # 1 /\ X \in SUBSET DOMAIN ms
    BY <1>6, <2>1
  <2>3. X = {}
    <3> HIDE DEF m, X
    <3> QED
      BY <1>0, <1>7, <2>2, NoLength
  <2>4. Contents(ms) = {}
    <3>1. SUFFICES ASSUME NEW e \in Contents(ms) PROVE FALSE
      OBVIOUS
    <3>2. e \in DOMAIN ms /\ ms[e].kind # "dir"
      BY DEF Contents, OfKind, Symlink
    <3>3. Last(NamedAs(ms, e)) # Marker /\ NamedAs(ms, e) # <<>>
      BY <1>0, CalmAgreed
    <3>4. Last(NormalOf(ms, e)) # Marker
      BY <1>5, <3>2, <3>3
    <3> QED
      BY <2>3, <3>2, <3>4
  <2>5. Len(d) = 1
    BY <1>4, <2>4, ShiftEmpty
  <2> QED
    BY <2>1, <2>5
<1>9. g = StripOne(T)
  BY <1>0, <1>8, Uncut
<1>10. d = Top(w)
  <2>1. d \in Tops(T)
    BY <1>1, <1>8 DEF Tops, Directories
  <2> QED
    BY <1>2, <2>1
<1>11. Hardless(ms)
  BY <1>5, <1>10, CalmHardless
<1> QED
  BY <1>4, <1>9, <1>11 DEF Shaped

LEMMA CalmMany ==
  ASSUME NEW ms, NEW g, NEW d, NEW lost, Calm(ms, lost), Matched(ms, g, d, lost), d = <<>>
  PROVE  Hardless(ms) /\ Shaped(ms) /\ g = StripOne(TreeOf(ms))
<1> DEFINE T == TreeOf(ms)
<1>0. Sound(ms) /\ IsTree(g) /\ Cut(TreeOf(ms), g, d) /\ Agreed(ms, KeysOf(g, lost))
      /\ \A e \in DOMAIN ms : ~IsDot(ms[e].path)
  BY DEF Matched
<1>1. \A w : Wrappers(ms) # {w}
  BY CalmUncut
<1>2. ~SingleTop(T)
  <2>1. SUFFICES ASSUME SingleTop(T) PROVE FALSE
    OBVIOUS
  <2>2. PICK w \in Name : \A e \in DOMAIN ms : ~IsDot(ms[e].path) => NormalOf(ms, e)[1] = w
    BY <1>0, <2>1, OneHead
  <2>3. \A v \in Wrappers(ms) : \E e \in DOMAIN ms : v = NormalOf(ms, e)[1]
    BY <1>0, WrappersAre
  <2>4. \A v \in Wrappers(ms) : v = w
    BY <1>0, <2>2, <2>3
  <2>5. Wrappers(ms) # {}
    BY DEF Calm
  <2>6. Wrappers(ms) = {w}
    BY <2>4, <2>5
  <2> QED
    BY <1>1, <2>6
<1>3. g = StripOne(T)
  BY <1>0, <1>2, Uncut
<1>4. Unwrappable(ms)
  BY <1>0, <1>1, <1>2 DEF Unwrappable
<1>5. ASSUME NEW e \in DOMAIN ms PROVE NormalOf(ms, e) = d \o NamedAs(ms, e)
  <2>1. NamedAs(ms, e) = NormalOf(ms, e)
    BY <1>0, <1>1, WrappersAre
  <2>2. NormalOf(ms, e) \in Seq(Name)
    BY <1>0, NormalIs DEF Path
  <2> QED
    BY <2>1, <2>2, ConcatEmptySeq
<1>6. Hardless(ms)
  BY <1>5, CalmHardless
<1> QED
  BY <1>3, <1>4, <1>6 DEF Shaped

(* What passes is cut where the manifest cuts it. *)
LEMMA Decided ==
  ASSUME NEW ms, Sound(ms), NEW lost, Attested(ms) \/ Calm(ms, lost), NEW g, IsTree(g), NEW d,
         Cut(TreeOf(ms), g, d), Agreed(ms, KeysOf(g, lost)), DOMAIN ms # {}
  PROVE  Hardless(ms) /\ Shaped(ms) /\ g = StripOne(TreeOf(ms))
<1>1. CASE Attested(ms)
  BY <1>1, AttestedCut
<1>2. CASE Calm(ms, lost) /\ \E a \in DOMAIN ms : IsDot(ms[a].path)
  <2>1. PICK a \in DOMAIN ms : IsDot(ms[a].path)
    BY <1>2
  <2>2. OnlyDot(ms)
    BY <1>2, <2>1, DotIsAlone
  <2> QED
    BY <2>2, Uncut DEF Shaped
<1>3. CASE Calm(ms, lost) /\ \A a \in DOMAIN ms : ~IsDot(ms[a].path)
  <2>1. Matched(ms, g, d, lost)
    BY <1>3 DEF Matched
  <2>2. CASE d = <<>>
    BY <1>3, <2>1, <2>2, CalmMany
  <2>3. CASE d # <<>>
    BY <1>3, <2>1, <2>3, CalmCut
  <2> QED
    BY <2>2, <2>3
<1> QED
  BY <1>1, <1>2, <1>3

LEMMA NothingBelow ==
  ASSUME NEW ms, NEW s, IsTree(s), Viewed(ms, s), NEW e \in EmptyOf(ms),
         NamedAs(ms, e) \in Seq(Name), NEW z \in DOMAIN s
  PROVE  ~IsStrictPrefix(NamedAs(ms, e), z)
<1>1. SUFFICES ASSUME IsStrictPrefix(NamedAs(ms, e), z) PROVE FALSE
  OBVIOUS
<1>2. z \in Seq(Name) /\ z # <<>>
  BY NodeIs
<1>3. PICK f \in DOMAIN ms : IsPrefix(z, NamedAs(ms, f))
  BY DEF Viewed
<1>4. NamedAs(ms, f) \in Seq(Name)
  BY <1>2, <1>3, NamedBelow
<1> DEFINE p == NamedAs(ms, e)
           q == NamedAs(ms, f)
<1>5. p \in Seq(Name) /\ q \in Seq(Name) /\ IsPrefix(z, q) /\ IsStrictPrefix(p, z)
  BY <1>1, <1>3, <1>4
<1>6. IsStrictPrefix(p, q)
  <2> HIDE DEF p, q
  <2>1. Len(p) < Len(z) /\ Len(z) <= Len(q) /\ Len(p) \in Nat /\ Len(z) \in Nat /\ Len(q) \in Nat
    BY <1>2, <1>5, PrefixIs, LenProperties
  <2>2. IsPrefix(p, q)
    BY <1>2, <1>5, PrefixTransitive DEF IsStrictPrefix
  <2>3. p # q
    BY <2>1
  <2> QED
    BY <2>2, <2>3 DEF IsStrictPrefix
<1>7. e \in DOMAIN ms /\ ~IsStrictPrefix(NormalOf(ms, e), NormalOf(ms, f))
  BY DEF EmptyOf, OfKind
<1> QED
  BY <1>6, <1>7 DEF Viewed

(* Every node is above what the manifest tells of, or is it. *)
LEMMA ToldOf ==
  ASSUME NEW ms, Sound(ms), Hardless(ms), NEW s, IsTree(s), Viewed(ms, s), NEW z \in DOMAIN s
  PROVE  \E f \in DOMAIN ms : /\ f \in Contents(ms) \/ f \in EmptyOf(ms)
                              /\ IsPrefix(z, NamedAs(ms, f))
                              /\ NamedAs(ms, f) \in DOMAIN s
<1>1. z \in Seq(Name) /\ z # <<>>
  BY NodeIs
<1>2. PICK e \in DOMAIN ms : IsPrefix(z, NamedAs(ms, e))
  BY DEF Viewed
<1>3. NamedAs(ms, e) \in DOMAIN s /\ NamedAs(ms, e) \in Seq(Name)
  BY <1>1, <1>2, NamedBelow
<1>4. CASE IsDot(ms[e].path)
  BY <1>2, <1>3, <1>4, DotIsEmpty
<1>5. CASE ~IsDot(ms[e].path)
  <2>1. PICK f \in Leaves(ms) : f \in DOMAIN ms /\ IsPrefix(NormalOf(ms, e), NormalOf(ms, f))
    <3>1. \E f \in Leaves(ms) : /\ f \in DOMAIN ms /\ IsPrefix(NormalOf(ms, e), NormalOf(ms, f))
                               /\ ~IsDot(ms[f].path) /\ NormalOf(ms, f)[1] = NormalOf(ms, e)[1]
      BY <1>5, LeafIs
    <3> QED
      BY <3>1
  <2>2. f \in Contents(ms) \/ f \in EmptyOf(ms)
    BY <2>1 DEF Leaves, Hards, Hardless
  <2>3. CASE NormalOf(ms, e) = NormalOf(ms, f)
    BY <1>2, <1>3, <2>1, <2>2, <2>3, NormalInjective
  <2>4. CASE NormalOf(ms, e) # NormalOf(ms, f)
    <3>1. IsStrictPrefix(NormalOf(ms, e), NormalOf(ms, f))
      BY <2>1, <2>4 DEF IsStrictPrefix
    <3>2. IsStrictPrefix(NamedAs(ms, e), NamedAs(ms, f)) /\ NamedAs(ms, f) \in DOMAIN s \cup {<<>>}
      BY <2>1, <3>1 DEF Viewed
    <3>3. NamedAs(ms, f) \in Seq(Name)
      <4>1. CASE NamedAs(ms, f) \in DOMAIN s
        BY <4>1, NodeIs
      <4>2. CASE NamedAs(ms, f) = <<>>
        BY <4>2
      <4> QED
        BY <3>2, <4>1, <4>2
    <3>4. IsPrefix(z, NamedAs(ms, f))
      BY <1>1, <1>2, <1>3, <3>2, <3>3, PrefixTransitive DEF IsStrictPrefix
    <3>5. NamedAs(ms, f) \in DOMAIN s
      BY <1>1, <2>1, <3>4, NamedBelow
    <3> QED
      BY <2>1, <2>2, <3>4, <3>5
  <2> QED
    BY <2>3, <2>4
<1> QED
  BY <1>4, <1>5

(* Names that are read as one another are read as themselves: the longest  *)
(* of the others would be read from a longer one.                          *)
LEMMA FixedNames ==
  ASSUME NEW N \in SUBSET Name, IsFiniteSet(N), \A n \in N : \E m \in N : Unquoted[m] = n
  PROVE  \A n \in N : Unquoted[n] = n
<1> DEFINE B == {n \in N : Unquoted[n] # n}
<1>1. SUFFICES ASSUME B # {} PROVE FALSE
  OBVIOUS
<1>2. IsFiniteSet(B) /\ B \subseteq N /\ \A n \in B : Unquoted[n] # n
  <2>1. B \subseteq N
    OBVIOUS
  <2> QED
    BY <2>1, FS_Subset
<1>3. \A n \in N : Unquoted[n] # n => n \in B
  OBVIOUS
<1> HIDE DEF B
<1> DEFINE h == [n \in B |-> NameLength[n]]
           L == {h[n] : n \in B}
<1>4. DOMAIN h = B /\ h = [x \in DOMAIN h |-> h[x]] /\ \A n \in B : h[n] = NameLength[n]
  OBVIOUS
<1>5. \A n \in B : h[n] \in Nat
  BY <1>2, <1>4, LengthAssumption
<1> HIDE DEF h
<1>6. IsFiniteSet({h[x] : x \in DOMAIN h})
  BY <1>2, <1>4, ImageFinite
<1>7. IsFiniteSet(L) /\ L \in SUBSET Nat /\ L # {}
  BY <1>1, <1>4, <1>5, <1>6
<1>8. (\A n \in B : h[n] \in L) /\ \A l \in L : \E n \in B : l = h[n]
  OBVIOUS
<1> HIDE DEF L
<1>9. PICK b \in Nat : \A l \in L : l <= b
  BY <1>7, FiniteIsBounded
<1>10. PICK high \in L : \A l \in L : l <= high
  BY <1>7, <1>9, LastExists
<1>11. PICK n \in B : high = h[n]
  BY <1>8, <1>10
<1>12. PICK m \in N : Unquoted[m] = n
  BY <1>2
<1>13. n \in Name /\ n # None
  BY <1>2, InspectAssumption
<1>14. m # n
  BY <1>2, <1>12
<1>15. m \in B
  BY <1>3, <1>12, <1>14
<1>16. NameLength[n] < NameLength[m]
  BY <1>12, <1>13, <1>14, LengthAssumption
<1>17. h[m] <= h[n]
  BY <1>8, <1>10, <1>11, <1>15
<1>18. h[m] = NameLength[m] /\ h[n] = NameLength[n] /\ h[m] \in Nat /\ h[n] \in Nat
  BY <1>4, <1>5, <1>15
<1> HIDE DEF B
<1> QED
  BY <1>16, <1>17, <1>18

LEMMA StartOf ==
  ASSUME NEW s, IsTree(s), NEW p \in DOMAIN s, NEW n \in 1..Len(p)
  PROVE  \E x \in DOMAIN s : Last(x) = p[n]
<1> DEFINE x == SubSeq(p, 1, n)
<1>1. p \in Seq(Name) /\ Len(p) \in Nat \ {0} /\ \A i \in 1..(Len(p) - 1) : SubSeq(p, 1, i) \in DOMAIN s
  BY NodeIs
<1>2. n \in 0..Len(p) /\ n \in 1..n /\ n \in Nat
  BY <1>1
<1>3. x \in Seq(Name) /\ Len(x) = n /\ \A i \in 1..n : x[i] = p[i]
  BY <1>1, <1>2, CutIs
<1>4. x \in DOMAIN s
  <2>1. CASE n = Len(p)
    BY <1>1, <2>1, SubSeqFull
  <2>2. CASE n # Len(p)
    <3>1. n \in 1..(Len(p) - 1)
      BY <1>1, <2>2
    <3> QED
      BY <1>1, <3>1
  <2> QED
    BY <2>1, <2>2
<1> HIDE DEF x
<1>5. Last(x) = p[n]
  BY <1>2, <1>3 DEF Last
<1> QED
  BY <1>4, <1>5

(* Every name of the tree is read from one of its names. *)
LEMMA NodesAreRead ==
  ASSUME NEW ms, Sound(ms), Hardless(ms), NEW s, IsTree(s), Viewed(ms, s), NEW lost,
         Agreed(ms, KeysOf(s, lost)), NEW z \in DOMAIN s
  PROVE  \E x \in DOMAIN s : Unquoted[Last(x)] = Last(z)
<1> DEFINE K == KeysOf(s, lost)
           n == Len(z)
<1>1. z \in Seq(Name) /\ n \in Nat \ {0}
  BY NodeIs
<1>2. Last(z) = z[n]
  BY DEF Last
<1>3. PICK f \in DOMAIN ms : /\ f \in Contents(ms) \/ f \in EmptyOf(ms)
                             /\ IsPrefix(z, NamedAs(ms, f)) /\ NamedAs(ms, f) \in DOMAIN s
  BY ToldOf
<1> DEFINE q == NamedAs(ms, f)
<1>4. q \in Seq(Name) /\ Len(q) \in Nat
  BY <1>3, NodeIs
<1>5. n <= Len(q) /\ q[n] = z[n]
  <2>1. Len(z) <= Len(q) /\ \A i \in 1..Len(z) : z[i] = q[i]
    BY <1>1, <1>3, <1>4, PrefixIs
  <2>2. n \in 1..Len(z)
    BY <1>1
  <2> QED
    BY <2>1, <2>2
<1>6. \A p \in K : p \in Path /\ Readable(p)
  BY KeyIs DEF Agreed
<1> HIDE DEF n
<1>7. CASE f \in Contents(ms)
  <2>1. PICK p \in K : p \in DOMAIN s /\ Reading(p) = q /\ Len(p) = Len(q)
    <3>1. \E p \in KeysOf(s, lost) : /\ p \in DOMAIN s /\ s[p].kind # "dir"
                                     /\ Reading(p) = NamedAs(ms, f)
                                     /\ Len(p) = Len(NamedAs(ms, f))
      BY <1>7, ComparedIs
    <3> QED
      BY <3>1
  <2>2. n \in 1..Len(p)
    BY <1>1, <1>4, <1>5, <2>1
  <2>3. PICK x \in DOMAIN s : Last(x) = p[n]
    BY <2>1, <2>2, StartOf
  <2>4. Reading(p)[n] = Unquoted[p[n]]
    BY <1>6, <2>2, ReadingIs
  <2> QED
    BY <1>2, <1>5, <2>1, <2>3, <2>4
<1>8. CASE f \in EmptyOf(ms)
  <2>1. \E p \in KeysOf(s, lost) : /\ NamedAs(ms, f) = Front(Reading(p)) /\ Last(Reading(p)) = Marker
                                   /\ Len(NamedAs(ms, f)) = Len(Front(p))
    <3>1. \A e \in EmptyOf(ms) : \E p \in KeysOf(s, lost) :
              /\ NamedAs(ms, e) = Front(Reading(p)) /\ Last(Reading(p)) = Marker
              /\ Len(NamedAs(ms, e)) = Len(Front(p))
      BY ComparedIs
    <3> QED
      BY <1>8, <3>1
  <2>2. PICK p \in K : q = Front(Reading(p)) /\ Len(q) = Len(Front(p))
    BY <2>1
  <2>3. p \in Path /\ p \in Seq(Name) /\ p # <<>> /\ Len(p) \in Nat \ {0} /\ Front(p) \in Seq(Name)
    BY KeyIs DEF Path
  <2>4. Len(Front(p)) = Len(p) - 1 /\ \A i \in 1..(Len(p) - 1) : Front(p)[i] = p[i]
    BY <2>3, FrontIs
  <2>5. n \in 1..(Len(p) - 1) /\ n \in 1..Len(p) /\ n \in 1..Len(Front(p))
    BY <1>1, <1>4, <1>5, <2>2, <2>3, <2>4
  <2>6. Reading(p) \in Seq(Name) /\ Reading(p) # <<>> /\ Len(Reading(p)) = Len(p)
        /\ Reading(p)[n] = Unquoted[p[n]]
    BY <1>6, <2>5, ReadingIs DEF Path
  <2>7. Front(Reading(p))[n] = Reading(p)[n]
    BY <2>5, <2>6, FrontIs
  <2>8. \E x \in DOMAIN s : Last(x) = p[n]
    <3>1. CASE p \in DOMAIN s
      BY <2>5, <3>1, StartOf
    <3>2. CASE p \notin DOMAIN s
      <4> DEFINE y == Front(p)
      <4>1. y \in Blank(s)
        BY <3>2, KeyIs
      <4>2. n \in 1..Len(y) /\ y[n] = p[n] /\ y \in Seq(Name)
        BY <2>3, <2>4, <2>5
      <4> HIDE DEF y
      <4>3. y # <<>>
        <5>1. Len(y) # 0
          BY <4>2, LenProperties
        <5> QED
          BY <4>2, <5>1, EmptySeq
      <4>4. y \in DOMAIN s
        BY <4>1, <4>3, BlankIs DEF Directories
      <4> QED
        BY <4>2, <4>4, StartOf
    <3> QED
      BY <3>1, <3>2
  <2> QED
    BY <1>2, <1>5, <2>2, <2>6, <2>7, <2>8
<1> QED
  BY <1>3, <1>7, <1>8

LEMMA NamesAreKept ==
  ASSUME NEW ms, Sound(ms), Hardless(ms), NEW s, IsTree(s), Viewed(ms, s), NEW lost,
         Agreed(ms, KeysOf(s, lost))
  PROVE  \A z \in DOMAIN s : \A i \in 1..Len(z) : Unquoted[z[i]] = z[i]
<1> DEFINE h == [z \in DOMAIN s |-> Last(z)]
           N == {h[z] : z \in DOMAIN s}
<1>1. DOMAIN h = DOMAIN s /\ h = [x \in DOMAIN h |-> h[x]] /\ \A z \in DOMAIN s : h[z] = Last(z)
  OBVIOUS
<1> HIDE DEF h
<1>2. IsFiniteSet({h[x] : x \in DOMAIN h})
  BY <1>1, ImageFinite DEF IsTree
<1>3. IsFiniteSet(N)
  BY <1>1, <1>2
<1>4. \A z \in DOMAIN s : Last(z) \in Name
  <2>1. \A z \in DOMAIN s : z \in Seq(Name) /\ z # <<>>
    BY NodeIs
  <2> QED
    BY <2>1, FrontIs
<1>5. N \in SUBSET Name /\ \A z \in DOMAIN s : Last(z) \in N
  BY <1>1, <1>4
<1>6. \A n \in N : \E z \in DOMAIN s : n = Last(z)
  BY <1>1
<1> HIDE DEF N
<1>7. ASSUME NEW n \in N PROVE \E m \in N : Unquoted[m] = n
  <2>1. PICK z \in DOMAIN s : n = Last(z)
    BY <1>6
  <2>2. PICK x \in DOMAIN s : Unquoted[Last(x)] = Last(z)
    BY NodesAreRead
  <2> QED
    BY <1>5, <2>1, <2>2
<1>8. \A n \in N : Unquoted[n] = n
  BY <1>3, <1>5, <1>7, FixedNames
<1>9. ASSUME NEW z \in DOMAIN s, NEW i \in 1..Len(z) PROVE Unquoted[z[i]] = z[i]
  <2>1. PICK x \in DOMAIN s : Last(x) = z[i]
    BY StartOf
  <2> QED
    BY <1>5, <1>8, <2>1
<1> QED
  BY <1>9

(* A tree that passes and was planned is ordinary, and all of it was       *)
(* listed.                                                                 *)
LEMMA GreenTree ==
  ASSUME NEW ms, Sound(ms), Hardless(ms), NEW s, IsTree(s), Viewed(ms, s),
         NEW lost, lost \subseteq Directories(s) \cup {<<>>},
         Agreed(ms, KeysOf(s, lost)), KeysOf(s, lost) # {}, \A p \in KeysOf(s, lost) : IsText(p)
  PROVE  lost = {} /\ Ordinary(s)
<1> DEFINE K == KeysOf(s, lost)
<1>1. \A z \in DOMAIN s : \A i \in 1..Len(z) : Unquoted[z[i]] = z[i]
  BY NamesAreKept
<1>2. \A p \in K : Reading(p) = p
  BY <1>1, KeyReading
<1>3. \A z \in DOMAIN s : z \in Seq(Name) /\ z # <<>> /\ DOMAIN z = 1..Len(z)
  <2>1. \A z \in DOMAIN s : z \in Seq(Name) /\ z # <<>>
    BY NodeIs
  <2> QED
    BY <2>1, LenProperties
<1>4. \A p \in K : p \in Seq(Name) /\ p # <<>> /\ Front(p) \in Seq(Name) /\ ListedAt(lost, Front(p))
  BY KeyIs DEF Path
<1>5. \A e \in EmptyOf(ms) : NamedAs(ms, e) \in Seq(Name) /\ \A z \in DOMAIN s : ~IsStrictPrefix(NamedAs(ms, e), z)
  <2>1. \A e \in EmptyOf(ms) : NamedAs(ms, e) \in Seq(Name)
    BY ComparedIs
  <2> QED
    BY <2>1, NothingBelow
<1>6. ASSUME NEW u \in lost PROVE FALSE
  <2>1. CASE u = <<>>
    <3>1. PICK p \in K : TRUE
      OBVIOUS
    <3> DEFINE b == Front(p)
    <3>2. b \in Seq(Name) /\ ~IsPrefix(u, b)
      BY <1>4, <1>6 DEF ListedAt
    <3> HIDE DEF b
    <3>3. u \in Seq(Name) /\ Len(u) = 0 /\ Len(b) \in Nat
      BY <2>1, <3>2, LenProperties
    <3> HIDE <2>1
    <3>4. Len(u) <= Len(b) /\ \A i \in 1..Len(u) : u[i] = b[i]
      BY <3>3
    <3>5. IsPrefix(u, b)
      BY <3>2, <3>3, <3>4, PrefixIs
    <3> QED
      BY <3>2, <3>5
  <2>2. CASE u # <<>>
    <3>1. u \in DOMAIN s /\ s[u].kind = "dir"
      BY <1>6, <2>2 DEF Directories
    <3>2. u \in Seq(Name)
      BY <1>3, <3>1
    <3>3. PICK f \in DOMAIN ms : /\ f \in Contents(ms) \/ f \in EmptyOf(ms)
                                 /\ IsPrefix(u, NamedAs(ms, f)) /\ NamedAs(ms, f) \in DOMAIN s
      BY <3>1, ToldOf
    <3>4. CASE f \in Contents(ms)
      <4>1. \E p \in KeysOf(s, lost) : /\ p \in DOMAIN s /\ s[p].kind # "dir"
                                       /\ Reading(p) = NamedAs(ms, f)
                                       /\ Len(p) = Len(NamedAs(ms, f))
        BY <3>4, ComparedIs
      <4>2. PICK p \in K : s[p].kind # "dir" /\ p = NamedAs(ms, f)
        BY <1>2, <4>1
      <4>3. p # u /\ IsPrefix(u, p) /\ p \in Seq(Name) /\ p # <<>>
        BY <1>4, <3>1, <3>3, <4>2
      <4>4. Len(u) < Len(p) /\ \A i \in 1..Len(u) : u[i] = p[i]
        BY <3>2, <4>3, PrefixIs DEF IsStrictPrefix
      <4>5. Front(p) \in Seq(Name) /\ Len(Front(p)) = Len(p) - 1
            /\ \A i \in 1..(Len(p) - 1) : Front(p)[i] = p[i]
        BY <4>3, FrontIs
      <4>6. Len(u) \in Nat /\ Len(p) \in Nat
        BY <3>2, <4>3, LenProperties
      <4>7. Len(u) <= Len(Front(p)) /\ \A i \in 1..Len(u) : u[i] = Front(p)[i]
        BY <4>4, <4>5, <4>6
      <4>8. IsPrefix(u, Front(p))
        BY <3>2, <4>5, <4>7, PrefixIs
      <4> QED
        BY <1>4, <1>6, <4>8 DEF ListedAt
    <3>5. CASE f \in EmptyOf(ms)
      <4>1. \A e \in EmptyOf(ms) : \E p \in KeysOf(s, lost) :
              /\ NamedAs(ms, e) = Front(Reading(p)) /\ Last(Reading(p)) = Marker
              /\ Len(NamedAs(ms, e)) = Len(Front(p))
        BY ComparedIs
      <4>2. \E p \in K : NamedAs(ms, f) = Front(Reading(p))
        BY <3>5, <4>1
      <4>3. PICK p \in K : NamedAs(ms, f) = Front(p)
        BY <1>2, <4>2
      <4> QED
        BY <1>4, <1>6, <3>3, <4>3 DEF ListedAt
    <3> QED
      BY <3>3, <3>4, <3>5
  <2> QED
    BY <2>1, <2>2
<1>7. lost = {} /\ \A x : ListedAt(lost, x)
  BY <1>6 DEF ListedAt
<1>8. ASSUME NEW q \in K, Last(q) = Marker PROVE \E e \in EmptyOf(ms) : Front(q) = NamedAs(ms, e)
  BY <1>2, <1>8 DEF Agreed
<1>9. ASSUME NEW p \in DOMAIN s, s[p].kind # "dir" PROVE Last(p) # Marker
  <2>1. SUFFICES ASSUME Last(p) = Marker PROVE FALSE
    OBVIOUS
  <2>2. p \in K
    BY <1>7, <1>9 DEF KeysOf, ItemsOf, Directories
  <2>3. PICK e \in EmptyOf(ms) : Front(p) = NamedAs(ms, e)
    BY <1>8, <2>1, <2>2
  <2>4. IsStrictPrefix(Front(p), p)
    BY <1>3, FrontPrefix
  <2> QED
    BY <1>5, <2>3, <2>4
<1>10. ASSUME NEW z \in Directories(s), Children(s, z) # {}
       PROVE  \E c \in Children(s, z) : s[c].kind # "dirlink"
  <2>1. SUFFICES ASSUME \A c \in Children(s, z) : s[c].kind = "dirlink" PROVE FALSE
    OBVIOUS
  <2>2. z \in Blank(s) /\ z \in Seq(Name)
    BY <1>3, <2>1 DEF Blank, Directories
  <2> DEFINE q == Append(z, Marker)
  <2>3. q \in K /\ Front(q) = z /\ Last(q) = Marker
    BY <1>7, <2>2, ExtendIs, NameAssumption DEF KeysOf
  <2> HIDE DEF q, K
  <2>4. PICK e \in EmptyOf(ms) : Front(q) = NamedAs(ms, e)
    BY <1>8, <2>3
  <2>5. PICK c \in Children(s, z) : TRUE
    BY <1>10
  <2>6. c \in DOMAIN s /\ IsStrictPrefix(z, c)
    BY <2>2, ChildIs
  <2> QED
    BY <1>5, <2>3, <2>4, <2>6
<1>11. ASSUME NEW z \in DOMAIN s PROVE IsText(z)
  <2>1. z \in Seq(Name)
    BY <1>3
  <2>2. PICK f \in DOMAIN ms : /\ f \in Contents(ms) \/ f \in EmptyOf(ms)
                               /\ IsPrefix(z, NamedAs(ms, f))
    BY ToldOf
  <2>3. \E p \in K : NamedAs(ms, f) = p \/ NamedAs(ms, f) = Front(p)
    <3>1. CASE f \in Contents(ms)
      <4>1. \E p \in KeysOf(s, lost) : Reading(p) = NamedAs(ms, f)
        BY <3>1, ComparedIs
      <4> QED
        BY <1>2, <4>1
    <3>2. CASE f \in EmptyOf(ms)
      <4>1. \E p \in KeysOf(s, lost) : NamedAs(ms, f) = Front(Reading(p))
        BY <3>2, ComparedIs
      <4> QED
        BY <1>2, <4>1
    <3> QED
      BY <2>2, <3>1, <3>2
  <2>4. PICK p \in K : NamedAs(ms, f) = p \/ NamedAs(ms, f) = Front(p)
    BY <2>3
  <2>5. p \in Seq(Name) /\ p # <<>> /\ Front(p) \in Seq(Name) /\ IsText(p)
    BY <1>4
  <2>6. IsPrefix(Front(p), p)
    <3>1. IsStrictPrefix(Front(p), p)
      BY <2>5, FrontPrefix
    <3> QED
      BY <3>1 DEF IsStrictPrefix
  <2>7. IsText(Front(p))
    BY <2>5, <2>6, PrefixText
  <2>8. NamedAs(ms, f) \in Seq(Name) /\ IsText(NamedAs(ms, f))
    BY <2>4, <2>5, <2>7
  <2> QED
    BY <2>1, <2>2, <2>8, PrefixText
<1>12. Ordinary(s)
  BY <1>1, <1>3, <1>9, <1>10, <1>11 DEF Ordinary
<1> QED
  BY <1>7, <1>12

LEMMA WrappersFinite ==
  ASSUME NEW ms, Sound(ms)
  PROVE  /\ IsFiniteSet(Wrappers(ms))
         /\ Cardinality(Wrappers(ms)) > 1 <=> Wrappers(ms) # {} /\ \A w : Wrappers(ms) # {w}
<1> DEFINE h == [e \in DOMAIN ms |-> NormalOf(ms, e)[1]]
           H == {h[x] : x \in DOMAIN h}
           W == Wrappers(ms)
<1>1. DOMAIN h = DOMAIN ms /\ h = [x \in DOMAIN h |-> h[x]] /\ \A e \in DOMAIN ms : h[e] = NormalOf(ms, e)[1]
  OBVIOUS
<1> HIDE DEF h
<1>2. IsFiniteSet(H)
  BY <1>1, ImageFinite DEF Sound, IsArchive
<1>3. \A w \in W : \E e \in DOMAIN ms : w = NormalOf(ms, e)[1]
  BY WrappersAre
<1>4. W \subseteq H
  BY <1>1, <1>3
<1> HIDE DEF W, H
<1>5. IsFiniteSet(W)
  BY <1>2, <1>4, FS_Subset
<1>6. /\ Cardinality(W) \in Nat
      /\ Cardinality(W) = 0 <=> W = {}
      /\ Cardinality(W) = 1 <=> \E w : W = {w}
  BY <1>5, FS_CardinalityType, FS_EmptySet, FS_Singleton
<1>7. Cardinality(W) > 1 <=> W # {} /\ ~ \E w : W = {w}
  BY <1>6, SMTT(40)
<1> QED
  BY <1>5, <1>7 DEF W

LEMMA DotPathIs ==
  ASSUME NEW ms, Sound(ms), NEW e \in DOMAIN ms
  PROVE  IsDot(ms[e].path) <=> ms[e].path = <<".">>
<1>1. Undotted(ms[e].path) = <<>> <=> ms[e].path = <<".">>
  BY UndottedIs
<1>2. IsDot(ms[e].path) => Undotted(ms[e].path) = <<>>
  BY NormalIs
<1>3. ~IsDot(ms[e].path) => Undotted(ms[e].path) # <<>>
  BY NormalIs DEF Path
<1> QED
  BY <1>1, <1>2, <1>3

(* The heads of the members are the top of the tree. *)
LEMMA HeadsAre ==
  ASSUME NEW ms, Sound(ms), \A e \in DOMAIN ms : ~IsDot(ms[e].path)
  PROVE  /\ \A e \in DOMAIN ms : Top(NormalOf(ms, e)[1]) \in Tops(TreeOf(ms)) /\ NormalOf(ms, e)[1] \in Name
         /\ \A p \in Tops(TreeOf(ms)) : p[1] \in Name /\ p = Top(p[1])
         /\ IsFiniteSet(Tops(TreeOf(ms)))
<1> DEFINE T == TreeOf(ms)
<1>1. IsTree(T) /\ \A e \in DOMAIN ms : NormalOf(ms, e) \in DOMAIN T /\ NormalOf(ms, e) \in Path
  BY ArchiveNodes
<1> HIDE DEF T
<1>2. \A e \in DOMAIN ms : Top(NormalOf(ms, e)[1]) \in Tops(T) /\ NormalOf(ms, e)[1] \in Name
  BY <1>1, TopIs, FirstIs
<1>3. \A p \in Tops(T) : p \in DOMAIN T /\ Len(p) = 1
  BY DEF Tops
<1>4. \A p \in Tops(T) : p[1] \in Name /\ p = Top(p[1])
  BY <1>1, <1>3, NodeIs, FirstIs
<1>5. IsFiniteSet(Tops(T))
  <2>1. Tops(T) \subseteq DOMAIN T
    BY <1>3
  <2> QED
    BY <1>1, <2>1, FS_Subset DEF IsTree
<1> QED
  BY <1>2, <1>4, <1>5 DEF T

LEMMA ShapeIsAgreed ==
  ASSUME NEW ms, Sound(ms), Hardless(ms), Shaped(ms), DOMAIN ms # {}, Wrappers(ms) # {},
         NEW n, Stage(TreeOf(ms), n) = StripOne(TreeOf(ms))
  PROVE  PlainlyListed(ms) /\ WrapperAgreed(ms, n)
<1> DEFINE T == TreeOf(ms)
           dot == <<".">>
<1>1. OnlyDot(ms) => DOMAIN T = {}
  BY ArchiveNodes DEF OnlyDot
<1>2. ~OnlyDot(ms) => \A e \in DOMAIN ms : ~IsDot(ms[e].path)
  BY DEF Shaped, Unwrappable, Wrapped
<1>3. dot \in PathsOf(ms) => DOMAIN T = {}
  <2>1. SUFFICES ASSUME dot \in PathsOf(ms) PROVE OnlyDot(ms)
    BY <1>1
  <2>2. PICK e \in DOMAIN ms : ms[e].path = dot
    BY <2>1 DEF PathsOf
  <2>4. IsDot(ms[e].path) <=> ms[e].path = <<".">>
    BY DotPathIs
  <2>3. IsDot(ms[e].path)
    BY <2>2, <2>4
  <2> QED
    BY <1>2, <2>3
<1>4. IsTree(T)
  BY ArchiveNodes
<1> HIDE DEF dot, T
<1>5. PlainlyListed(ms)
  BY <1>3 DEF PlainlyListed, Hardless, dot, T
<1>6. CASE OnlyDot(ms)
  <2>1. DOMAIN T = {}
    BY <1>1, <1>6
  <2>2. Tops(T) = {}
    BY <2>1 DEF Tops
  <2>3. Cardinality(Tops(T)) # 1
    BY <2>2, FS_EmptySet
  <2> QED
    BY <1>5, <2>1, <2>3 DEF WrapperAgreed, T
<1>7. ASSUME NEW w, Wrapped(ms, w) PROVE WrapperAgreed(ms, n)
  <2>1. Wrappers(ms) = {w} /\ Tops(T) = {Top(w)} /\ Top(w) \in Directories(T) /\ w \in Name
    BY <1>7 DEF Wrapped, T
  <2>2. Top(w)[1] = w
    BY <2>1, TopPathIs
  <2>3. Wrappers(ms) = {p[1] : p \in Tops(T)}
    BY <2>1, <2>2
  <2>4. Cardinality(Tops(T)) = 1 => SingleTop(T)
    BY <2>1 DEF SingleTop
  <2> QED
    BY <2>3, <2>4 DEF WrapperAgreed, T
<1>8. CASE Unwrappable(ms)
  <2>1. /\ \A w : Wrappers(ms) # {w}
        /\ \A e \in DOMAIN ms : ~IsDot(ms[e].path)
    BY <1>8 DEF Unwrappable
  <2>2. Cardinality(Wrappers(ms)) > 1
    BY <2>1, WrappersFinite
  <2>3. Cardinality(Tops(T)) # 1
    <3>1. SUFFICES ASSUME Cardinality(Tops(T)) = 1 PROVE FALSE
      OBVIOUS
    <3>2. /\ \A e \in DOMAIN ms : Top(NormalOf(ms, e)[1]) \in Tops(T) /\ NormalOf(ms, e)[1] \in Name
          /\ IsFiniteSet(Tops(T))
      BY <2>1, HeadsAre DEF T
    <3>3. PICK c : Tops(T) = {c}
      BY <3>1, <3>2, FS_Singleton
    <3>4. \A e \in DOMAIN ms : NormalOf(ms, e)[1] = c[1]
      <4>1. \A e \in DOMAIN ms : Top(NormalOf(ms, e)[1]) = c
        BY <3>2, <3>3
      <4> QED
        BY <3>2, <4>1, TopPathIs
    <3>5. \A v \in Wrappers(ms) : \E e \in DOMAIN ms : v = NormalOf(ms, e)[1]
      BY WrappersAre
    <3>6. Wrappers(ms) = {c[1]}
      BY <3>4, <3>5
    <3> QED
      BY <2>1, <3>6
  <2>5. Cardinality(Tops(T)) = 1 => SingleTop(T)
    BY <2>3
  <2>6. Stage(T, n) = StripOne(T)
    BY DEF T
  <2>7. /\ DOMAIN ms # {}
        /\ DOMAIN T # {} =>
             \/ Wrappers(ms) = {p[1] : p \in Tops(T)}
             \/ Cardinality(Wrappers(ms)) > 1
        /\ Cardinality(Tops(T)) = 1 => SingleTop(T)
        /\ Stage(T, n) = StripOne(T)
    BY <2>2, <2>5, <2>6
  <2>8. WrapperAgreed(ms, n)
    BY <2>7 DEF WrapperAgreed, T
  <2> QED
    BY <1>5, <2>8
<1> QED
  BY <1>5, <1>6, <1>7, <1>8 DEF Shaped

LEMMA AgreedIsShape ==
  ASSUME NEW ms, Sound(ms), NEW n, PlainlyListed(ms), WrapperAgreed(ms, n)
  PROVE  /\ Hardless(ms) /\ Shaped(ms) /\ DOMAIN ms # {}
         /\ Stage(TreeOf(ms), n) = StripOne(TreeOf(ms))
<1> DEFINE T == TreeOf(ms)
<1>1. /\ DOMAIN ms # {} /\ Stage(T, n) = StripOne(T)
      /\ DOMAIN T # {} => Wrappers(ms) = {p[1] : p \in Tops(T)} \/ Cardinality(Wrappers(ms)) > 1
      /\ Cardinality(Tops(T)) = 1 => SingleTop(T)
  BY DEF WrapperAgreed
<1>2. Hardless(ms)
  BY DEF PlainlyListed, Hardless
<1>3. IsTree(T)
  BY ArchiveNodes
<1>4. CASE DOMAIN T = {}
  <2>1. OnlyDot(ms)
    BY <1>4, ArchiveNodes DEF OnlyDot
  <2> QED
    BY <1>1, <1>2, <2>1 DEF Shaped
<1>5. CASE DOMAIN T # {}
  <2>1. \A e \in DOMAIN ms : ~IsDot(ms[e].path)
    <3>1. SUFFICES ASSUME NEW e \in DOMAIN ms, IsDot(ms[e].path) PROVE FALSE
      OBVIOUS
    <3>2. ms[e].path = <<".">>
      BY <3>1, DotPathIs
    <3>3. <<".">> \in PathsOf(ms)
      BY <3>2 DEF PathsOf
    <3> QED
      BY <1>5, <3>3 DEF PlainlyListed
  <2>2. /\ \A e \in DOMAIN ms : Top(NormalOf(ms, e)[1]) \in Tops(T) /\ NormalOf(ms, e)[1] \in Name
        /\ \A p \in Tops(T) : p[1] \in Name /\ p = Top(p[1])
        /\ IsFiniteSet(Tops(T))
    BY <2>1, HeadsAre
  <2>3. \A v \in Wrappers(ms) : \E e \in DOMAIN ms : v = NormalOf(ms, e)[1]
    BY WrappersAre
  <2>4. Cardinality(Wrappers(ms)) > 1 <=> Wrappers(ms) # {} /\ \A w : Wrappers(ms) # {w}
    BY WrappersFinite
  <2>5. CASE SingleTop(T)
    <3>1. PICK w \in Name : /\ Tops(T) = {Top(w)} /\ Top(w) \in Directories(T)
                            /\ \A e \in DOMAIN ms : ~IsDot(ms[e].path) => NormalOf(ms, e)[1] = w
      BY <2>5, OneHead
    <3>2. \A v \in Wrappers(ms) : v = w
      BY <2>1, <2>3, <3>1
    <3>3. Wrappers(ms) = {w}
      <4>1. CASE Wrappers(ms) = {p[1] : p \in Tops(T)}
        <5>1. Top(w)[1] = w
          BY TopPathIs
        <5>2. w \in Wrappers(ms)
          BY <3>1, <4>1, <5>1
        <5> QED
          BY <3>2, <5>2
      <4>2. CASE Wrappers(ms) # {}
        BY <3>2, <4>2
      <4> QED
        BY <1>1, <1>5, <2>4, <4>1, <4>2
    <3>4. Wrapped(ms, w)
      BY <2>1, <3>1, <3>3 DEF Wrapped
    <3> QED
      BY <1>1, <1>2, <3>4 DEF Shaped
  <2>6. CASE ~SingleTop(T)
    <3>1. \A w : Wrappers(ms) # {w}
      <4>1. SUFFICES ASSUME NEW w, Wrappers(ms) = {w} PROVE FALSE
        OBVIOUS
      <4>2. {w} = {p[1] : p \in Tops(T)}
        BY <1>1, <1>5, <2>4, <4>1
      <4>3. \A p \in Tops(T) : p = Top(w)
        BY <2>2, <4>2
      <4>4. PICK p \in Tops(T) : p[1] = w
        BY <4>2
      <4>5. Tops(T) = {Top(w)}
        BY <4>3, <4>4
      <4>6. Cardinality(Tops(T)) = 1
        BY <4>5, FS_Singleton
      <4> QED
        BY <1>1, <2>6, <4>6
    <3>2. Unwrappable(ms)
      BY <2>1, <2>6, <3>1 DEF Unwrappable
    <3> QED
      BY <1>1, <1>2, <3>2 DEF Shaped
  <2> QED
    BY <2>5, <2>6
<1> QED
  BY <1>4, <1>5

LEMMA RootIsDirectory ==
  ASSUME NEW ms, Sound(ms), Shaped(ms), NEW e \in DOMAIN ms, NamedAs(ms, e) = <<>>
  PROVE  ms[e].kind = "dir"
<1>1. CASE OnlyDot(ms)
  BY <1>1, NormalIs DEF OnlyDot
<1>2. CASE Unwrappable(ms)
  <2>1. NamedAs(ms, e) = NormalOf(ms, e) /\ ~IsDot(ms[e].path)
    BY <1>2, WrappersAre DEF Unwrappable
  <2>2. NormalOf(ms, e) \in Path
    BY <2>1, NormalIs
  <2> QED
    BY <2>1, <2>2 DEF Path
<1>3. ASSUME NEW w, Wrapped(ms, w) PROVE ms[e].kind = "dir"
  <2>1. /\ Wrappers(ms) = {w} /\ ~IsDot(ms[e].path) /\ NormalOf(ms, e)[1] = w
        /\ Top(w) \in Directories(TreeOf(ms)) /\ w \in Name
    BY <1>3 DEF Wrapped
  <2> DEFINE q == NormalOf(ms, e)
             r == NamedAs(ms, e)
  <2>2. q = Top(w) \o r
    BY <2>1, StrippedIs
  <2>3. r = <<>> /\ Top(w) \in Seq(Name)
    BY <2>1, TopPathIs
  <2> HIDE DEF q, r
  <2>4. Top(w) \o r = Top(w)
    BY <2>3, ConcatEmptySeq
  <2>5. NormalOf(ms, e) \in Directories(TreeOf(ms))
    BY <2>1, <2>2, <2>4 DEF q
  <2> QED
    BY <2>1, <2>5, ArchiveNodes DEF Directories
<1> QED
  BY <1>1, <1>2, <1>3 DEF Shaped

(* In an ordinary tree the markers are those of the empty directories that *)
(* the manifest lists, and the rest is its contents.                       *)
LEMMA OrdinaryKeys ==
  ASSUME NEW ms, Sound(ms), Hardless(ms), Shaped(ms), DOMAIN ms # {},
         NEW s, IsTree(s), Viewed(ms, s), Ordinary(s), NEW lost, lost = {}
  PROVE  /\ \A p \in KeysOf(s, lost) : Readable(p) /\ Reading(p) = p
         /\ \A p \in KeysOf(s, lost) : Last(p) # Marker => p \in ItemsOf(s, lost)
         /\ \A p \in DOMAIN s : s[p].kind # "dir" =>
              \E e \in Contents(ms) : p = NamedAs(ms, e)
         /\ \A p \in KeysOf(s, lost) : Last(p) = Marker =>
              \E e \in EmptyOf(ms) : Front(p) = NamedAs(ms, e)
         /\ \A e \in Contents(ms) : /\ NamedAs(ms, e) \in ItemsOf(s, lost) /\ Last(NamedAs(ms, e)) # Marker
                                    /\ s[NamedAs(ms, e)].kind = ms[e].kind
                                    /\ s[NamedAs(ms, e)].data = ms[e].data
         /\ \A e \in EmptyOf(ms) : \E p \in KeysOf(s, lost) :
              Front(p) = NamedAs(ms, e) /\ Last(p) = Marker
         /\ KeysOf(s, lost) # {}
<1> DEFINE K == KeysOf(s, lost)
<1>1. \A x : ListedAt(lost, x)
  BY DEF ListedAt
<1>2. \A z \in DOMAIN s : z \in Seq(Name) /\ z # <<>> /\ DOMAIN z = 1..Len(z)
  <2>1. \A z \in DOMAIN s : z \in Seq(Name) /\ z # <<>>
    BY NodeIs
  <2> QED
    BY <2>1, LenProperties
<1>3. \A z \in DOMAIN s : \A i \in 1..Len(z) : Unquoted[z[i]] = z[i]
  BY <1>2 DEF Ordinary
<1>4. \A p \in K : Readable(p) /\ Reading(p) = p
  BY <1>3, KeyReading
<1>5. \A p \in DOMAIN s : s[p].kind # "dir" => Last(p) # Marker /\ p \in ItemsOf(s, lost)
  BY <1>1 DEF Ordinary, ItemsOf, Directories
<1>6. \A p \in K : Last(p) # Marker => p \in ItemsOf(s, lost)
  BY <1>5, KeyIs
<1>7. \A p \in K : Last(p) = Marker => Front(p) \in Blank(s)
  BY <1>5, KeyIs
<1>8. ASSUME NEW b \in Blank(s) PROVE b \in Seq(Name) /\ Children(s, b) = {} /\ (b # <<>> => b \in Directories(s))
  <2>1. /\ b \in Seq(Name)
        /\ b # <<>> => b \in Directories(s)
        /\ b = <<>> => DOMAIN s = {}
        /\ \A c \in Children(s, b) : s[c].kind = "dirlink"
    BY BlankIs
  <2>2. CASE b = <<>>
    BY <2>1, <2>2 DEF Children
  <2>3. CASE b # <<>>
    BY <2>1, <2>3 DEF Ordinary
  <2> QED
    BY <2>1, <2>2, <2>3
<1>9. \A e \in DOMAIN ms : /\ NamedAs(ms, e) \in DOMAIN s \cup {<<>>}
                           /\ NamedAs(ms, e) # <<>> => s[NamedAs(ms, e)].kind = ms[e].kind
                                                       /\ s[NamedAs(ms, e)].data = ms[e].data
  BY DEF Viewed
<1>10. \A e \in DOMAIN ms : NamedAs(ms, e) \in Seq(Name)
  <2>1. ASSUME NEW e \in DOMAIN ms PROVE NamedAs(ms, e) \in Seq(Name)
    <3>1. CASE NamedAs(ms, e) \in DOMAIN s
      BY <1>2, <3>1
    <3>2. CASE NamedAs(ms, e) = <<>>
      BY <3>2
    <3> QED
      BY <1>9, <3>1, <3>2
  <2> QED
    BY <2>1
<1>11. ASSUME NEW e \in Contents(ms)
       PROVE  /\ NamedAs(ms, e) \in DOMAIN s /\ s[NamedAs(ms, e)].kind = ms[e].kind
              /\ s[NamedAs(ms, e)].data = ms[e].data /\ s[NamedAs(ms, e)].kind # "dir"
  <2>1. e \in DOMAIN ms /\ ms[e].kind # "dir"
    BY DEF Contents, OfKind, Symlink
  <2>2. NamedAs(ms, e) # <<>>
    BY <2>1, RootIsDirectory
  <2> QED
    BY <1>9, <2>1, <2>2
<1>12. ASSUME NEW p \in DOMAIN s, s[p].kind # "dir"
       PROVE  \E e \in Contents(ms) : p = NamedAs(ms, e)
  <2>1. PICK e \in DOMAIN ms : IsPrefix(p, NamedAs(ms, e))
    BY DEF Viewed
  <2>2. p \in Seq(Name) /\ p # <<>>
    BY <1>2
  <2>3. NamedAs(ms, e) \in DOMAIN s /\ s[NamedAs(ms, e)].kind = ms[e].kind
    BY <2>1, <2>2, NamedBelow
  <2>4. p = NamedAs(ms, e)
    <3>1. SUFFICES ASSUME p # NamedAs(ms, e) PROVE FALSE
      OBVIOUS
    <3>2. IsStrictPrefix(p, NamedAs(ms, e))
      BY <2>1, <3>1 DEF IsStrictPrefix
    <3>3. p \in Directories(s)
      BY <2>2, <2>3, <3>2, AboveIs
    <3> QED
      BY <1>12, <3>3 DEF Directories
  <2>5. e \in Contents(ms)
    BY <1>12, <2>3, <2>4, HardlessIs
  <2> QED
    BY <2>4, <2>5
<1>13. ASSUME NEW b \in Blank(s) PROVE \E e \in EmptyOf(ms) : b = NamedAs(ms, e)
  <2>1. b \in Seq(Name) /\ Children(s, b) = {} /\ (b # <<>> => b \in DOMAIN s /\ s[b].kind = "dir")
    BY <1>8 DEF Directories
  <2>2. \A q \in DOMAIN s : ~IsStrictPrefix(b, q)
    BY <2>1, ChildIs
  <2>3. b = <<>> => DOMAIN s = {}
    BY BlankIs
  <2>4. PICK e \in DOMAIN ms : b = NamedAs(ms, e) /\ ms[e].kind = "dir"
    <3>1. CASE b = <<>>
      <4>1. PICK e \in DOMAIN ms : TRUE
        OBVIOUS
      <4>2. NamedAs(ms, e) = <<>>
        BY <1>9, <2>3, <3>1
      <4>3. ms[e].kind = "dir"
        BY <4>2, RootIsDirectory
      <4> QED
        BY <3>1, <4>2, <4>3
    <3>2. CASE b # <<>>
      <4>1. PICK e \in DOMAIN ms : IsPrefix(b, NamedAs(ms, e))
        BY <2>1, <3>2 DEF Viewed
      <4>2. NamedAs(ms, e) \in DOMAIN s /\ s[NamedAs(ms, e)].kind = ms[e].kind
        BY <2>1, <3>2, <4>1, NamedBelow
      <4>3. b = NamedAs(ms, e)
        BY <2>2, <4>1, <4>2 DEF IsStrictPrefix
      <4> QED
        BY <2>1, <3>2, <4>2, <4>3
    <3> QED
      BY <3>1, <3>2
  <2>5. ASSUME NEW f \in DOMAIN ms, IsStrictPrefix(NormalOf(ms, e), NormalOf(ms, f)) PROVE FALSE
    <3>1. IsStrictPrefix(NamedAs(ms, e), NamedAs(ms, f))
      BY <2>5 DEF Viewed
    <3> DEFINE q == NamedAs(ms, f)
    <3>2. q \in Seq(Name) /\ IsStrictPrefix(b, q) /\ q \in DOMAIN s \cup {<<>>}
      BY <1>9, <1>10, <2>4, <3>1
    <3> HIDE DEF q
    <3>3. Len(b) < Len(q) /\ Len(b) \in Nat
      BY <2>1, <3>2, PrefixIs, LenProperties
    <3>4. Len(q) # 0
      BY <3>2, <3>3, LenProperties
    <3>5. q # <<>>
      BY <3>4
    <3> QED
      BY <2>2, <3>2, <3>5
  <2>6. e \in EmptyOf(ms)
    BY <2>4, <2>5 DEF EmptyOf, OfKind
  <2> QED
    BY <2>4, <2>6
<1>14. ASSUME NEW e \in EmptyOf(ms)
       PROVE  \E p \in K : Front(p) = NamedAs(ms, e) /\ Last(p) = Marker
  <2> DEFINE b == NamedAs(ms, e)
  <2>1. e \in DOMAIN ms /\ ms[e].kind = "dir"
    BY DEF EmptyOf, OfKind
  <2>2. b \in Seq(Name)
    BY <1>10, <2>1
  <2>3. \A z \in DOMAIN s : ~IsStrictPrefix(b, z)
    BY <2>2, NothingBelow
  <2>4. b \in DOMAIN s \cup {<<>>} /\ (b # <<>> => s[b].kind = "dir")
    BY <1>9, <2>1
  <2> HIDE DEF b
  <2>5. Children(s, b) = {}
    BY <2>2, <2>3, ChildIs
  <2>6. b \in Blank(s)
    <3>1. CASE b = <<>>
      <4>1. DOMAIN s = {}
        BY <2>5, <3>1, RootIsHollow
      <4> QED
        BY <3>1, <4>1 DEF Blank
    <3>2. CASE b # <<>>
      BY <2>4, <2>5, <3>2 DEF Blank, Directories
    <3> QED
      BY <3>1, <3>2
  <2>7. Append(b, Marker) \in K /\ Front(Append(b, Marker)) = b /\ Last(Append(b, Marker)) = Marker
    BY <1>1, <2>2, <2>6, ExtendIs, NameAssumption DEF KeysOf
  <2> QED
    BY <2>7 DEF b
<1>15. K # {}
  <2>1. PICK e \in DOMAIN ms : TRUE
    OBVIOUS
  <2>2. \E f : f \in Contents(ms) \/ f \in EmptyOf(ms)
    <3>1. CASE IsDot(ms[e].path)
      BY <3>1, DotIsEmpty
    <3>2. CASE ~IsDot(ms[e].path)
      <4>1. \E f \in Leaves(ms) : f \in DOMAIN ms
        BY <3>2, LeafIs
      <4> QED
        BY <4>1 DEF Leaves, Hards, Hardless
    <3> QED
      BY <3>1, <3>2
  <2>3. \A f \in Contents(ms) : NamedAs(ms, f) \in K
    BY <1>5, <1>11 DEF KeysOf
  <2> HIDE DEF K
  <2> QED
    BY <1>14, <2>2, <2>3
<1>16. \A p \in K : Last(p) = Marker => \E e \in EmptyOf(ms) : Front(p) = NamedAs(ms, e)
  BY <1>7, <1>13
<1>17. \A e \in Contents(ms) : /\ NamedAs(ms, e) \in ItemsOf(s, lost) /\ Last(NamedAs(ms, e)) # Marker
                               /\ s[NamedAs(ms, e)].kind = ms[e].kind
                               /\ s[NamedAs(ms, e)].data = ms[e].data
  BY <1>5, <1>11
<1>18. \A p \in DOMAIN s : s[p].kind # "dir" => \E e \in Contents(ms) : p = NamedAs(ms, e)
  BY <1>12
<1>19. \A e \in EmptyOf(ms) : \E p \in K : Front(p) = NamedAs(ms, e) /\ Last(p) = Marker
  BY <1>14
<1> QED
  BY <1>4, <1>6, <1>15, <1>16, <1>17, <1>18, <1>19

LEMMA NothingFound ==
  ASSUME NEW ms, Sound(ms), Hardless(ms), Shaped(ms), DOMAIN ms # {},
         NEW s, IsTree(s), Viewed(ms, s), Ordinary(s), NEW lost, lost = {},
         NEW list, DOMAIN list = KeysOf(s, lost),
         \A p \in ItemsOf(s, lost) : list[p].mode = ModeOf(s[p]) /\ list[p].data = s[p].data
  PROVE  /\ ~Refused(list) /\ DOMAIN list # {}
         /\ \A view \in Views(Written(list)), man \in Loaded(Manifest(ms)) : TF(view, man) = {}
<1> DEFINE K == KeysOf(s, lost)
           blobs == Written(list)
<1>1. \A p \in K : Readable(p) /\ Reading(p) = p
  BY OrdinaryKeys
<1>2. \A p \in K : Last(p) # Marker => p \in ItemsOf(s, lost)
  BY OrdinaryKeys
<1>3. \A p \in DOMAIN s : s[p].kind # "dir" => \E e \in Contents(ms) : p = NamedAs(ms, e)
  BY OrdinaryKeys
<1>4. \A p \in K : Last(p) = Marker => \E e \in EmptyOf(ms) : Front(p) = NamedAs(ms, e)
  BY OrdinaryKeys
<1>5. \A e \in Contents(ms) : /\ NamedAs(ms, e) \in ItemsOf(s, lost) /\ Last(NamedAs(ms, e)) # Marker
                              /\ s[NamedAs(ms, e)].kind = ms[e].kind
                              /\ s[NamedAs(ms, e)].data = ms[e].data
  BY OrdinaryKeys
<1>6. \A e \in EmptyOf(ms) : \E p \in K : Front(p) = NamedAs(ms, e) /\ Last(p) = Marker
  BY OrdinaryKeys
<1>7. K # {}
  BY OrdinaryKeys
<1>8. ~Refused(list)
  <2>1. \A p \in K : IsText(p)
    BY KeyText DEF Ordinary
  <2> QED
    BY <1>1, <2>1 DEF Refused, Unplannable, Readable
<1>9. blobs = {Row(p, list[p].mode, list[p].data) : p \in K}
  <2>1. blobs = {Row(Reading(p), list[p].mode, list[p].data) : p \in K}
    BY DEF Written, Reading, Row
  <2> QED
    BY <1>1, <2>1
<1>10. \A p, m, c : Row(p, m, c).path = p /\ Row(p, m, c).mode = m /\ Row(p, m, c).data = c
  BY DEF Row
<1>11. \A p \in K : Row(p, list[p].mode, list[p].data) \in blobs
  BY <1>9
<1>12. \A g \in blobs : \E p \in K : g = Row(p, list[p].mode, list[p].data)
  BY <1>9
<1> HIDE DEF blobs
<1>13. ASSUME NEW view \in Views(blobs) PROVE view = blobs
  <2>1. view \subseteq blobs
    BY DEF Views
  <2>2. ASSUME NEW g \in blobs PROVE g \in view
    <3> DEFINE V == {v \in view : v.path = g.path}
    <3>1. Cardinality(V) = 1
      BY DEF Views, Paths
    <3> HIDE DEF V
    <3>6. V # {}
      BY ONLY <3>1, FS_EmptySet
    <3>2. {v \in view : v.path = g.path} # {}
      BY <3>6 DEF V
    <3>3. PICK v \in view : v.path = g.path
      BY <3>2
    <3>4. v \in blobs
      BY <2>1
    <3>5. v = g
      BY <1>10, <1>12, <3>3, <3>4
    <3> QED
      BY <3>5
  <2> QED
    BY <2>1, <2>2
<1>14. SUFFICES ASSUME NEW man \in Loaded(Manifest(ms)) PROVE \A view \in Views(blobs) : TF(view, man) = {}
  BY <1>7, <1>8 DEF blobs, K
<1>15. man.entries = {Row(NamedAs(ms, e), ModeOf(ms[e]), ms[e].data) : e \in Contents(ms)}
       /\ man.emptyDirs = {NamedAs(ms, d) : d \in EmptyOf(ms)}
  <2>1. \A d, e \in Contents(ms) : NamedAs(ms, d) = NamedAs(ms, e) => d = e
    BY DEF Viewed, Contents, OfKind
  <2>2. Shown(ms)
    BY <1>5 DEF Shown, Ordinary, ItemsOf
  <2> QED
    BY <2>1, <2>2, ManifestIs
<1>16. ItemsOf(s, lost) \subseteq K /\ \A p \in ItemsOf(s, lost) : p \in DOMAIN s /\ s[p].kind # "dir"
  BY DEF KeysOf, ItemsOf, Directories
<1> HIDE DEF K
<1>17. \A e \in Contents(ms) : ModeOf(s[NamedAs(ms, e)]) = ModeOf(ms[e])
  BY <1>5 DEF ModeOf
<1> DEFINE items == ItemsIn(blobs)
           marked == {Front(g.path) : g \in blobs \ items}
<1>18. items = man.entries
  <2>1. ASSUME NEW g \in items PROVE g \in man.entries
    <3>1. g \in blobs /\ Last(g.path) # Marker
      BY DEF ItemsIn
    <3>2. PICK p \in K : g = Row(p, list[p].mode, list[p].data)
      BY <1>12, <3>1
    <3>3. p \in ItemsOf(s, lost)
      BY <1>2, <1>10, <3>1, <3>2
    <3>4. PICK e \in Contents(ms) : p = NamedAs(ms, e)
      BY <1>3, <1>16, <3>3
    <3>5. list[p].mode = ModeOf(ms[e]) /\ list[p].data = ms[e].data
      BY <1>5, <1>17, <3>3, <3>4
    <3>6. g = Row(NamedAs(ms, e), ModeOf(ms[e]), ms[e].data)
      BY <3>2, <3>4, <3>5
    <3> QED
      BY <1>15, <3>6
  <2>2. ASSUME NEW g \in man.entries PROVE g \in items
    <3>1. PICK e \in Contents(ms) : g = Row(NamedAs(ms, e), ModeOf(ms[e]), ms[e].data)
      BY <1>15
    <3> DEFINE p == NamedAs(ms, e)
    <3>2. p \in ItemsOf(s, lost) /\ Last(p) # Marker
      BY <1>5
    <3>3. list[p].mode = ModeOf(ms[e]) /\ list[p].data = ms[e].data
      BY <1>5, <1>17, <3>2
    <3>4. g = Row(p, list[p].mode, list[p].data)
      BY <3>1, <3>3
    <3> HIDE DEF p
    <3>5. g \in blobs /\ g.path = p
      BY <1>10, <1>11, <1>16, <3>2, <3>4
    <3> QED
      BY <3>2, <3>5 DEF ItemsIn
  <2> QED
    BY <2>1, <2>2
<1>19. marked = man.emptyDirs
  <2>1. ASSUME NEW g \in blobs \ items PROVE Front(g.path) \in man.emptyDirs
    <3>1. g \in blobs /\ Last(g.path) = Marker
      BY DEF ItemsIn
    <3>2. PICK p \in K : g.path = p
      BY <1>10, <1>12, <3>1
    <3>3. PICK e \in EmptyOf(ms) : Front(p) = NamedAs(ms, e)
      BY <1>4, <3>1, <3>2
    <3> QED
      BY <1>15, <3>2, <3>3
  <2>2. ASSUME NEW b \in man.emptyDirs PROVE b \in marked
    <3>1. PICK e \in EmptyOf(ms) : b = NamedAs(ms, e)
      BY <1>15
    <3>2. PICK p \in K : Front(p) = NamedAs(ms, e) /\ Last(p) = Marker
      BY <1>6
    <3> DEFINE g == Row(p, list[p].mode, list[p].data)
    <3>3. g \in blobs /\ g.path = p
      BY <1>10, <1>11
    <3> HIDE DEF g
    <3>4. g \in blobs \ items
      BY <3>2, <3>3 DEF ItemsIn
    <3> QED
      BY <3>1, <3>2, <3>3, <3>4
  <2> QED
    BY <2>1, <2>2
<1>20. ASSUME NEW g \in items, NEW e \in man.entries, g.path = e.path PROVE ~Mismatch(g, e)
  <2>1. g \in man.entries
    BY <1>18
  <2>2. PICK x \in Contents(ms) : g = Row(NamedAs(ms, x), ModeOf(ms[x]), ms[x].data)
    BY <1>15, <2>1
  <2>3. PICK y \in Contents(ms) : e = Row(NamedAs(ms, y), ModeOf(ms[y]), ms[y].data)
    BY <1>15
  <2>4. NamedAs(ms, x) = NamedAs(ms, y)
    BY <1>10, <1>20, <2>2, <2>3
  <2>5. x \in DOMAIN ms /\ y \in DOMAIN ms
    BY DEF Contents, OfKind
  <2>6. x = y
    BY <2>4, <2>5 DEF Viewed
  <2>7. g = e
    BY <2>2, <2>3, <2>6
  <2> QED
    BY <2>7 DEF Mismatch
<1> HIDE DEF items, marked
<1>21. {c \in {"TF-1", "TF-2", "TF-4", "TF-5"} :
          CASE c = "TF-1" -> Paths(items) # Paths(man.entries)
            [] c = "TF-2" -> \E g \in items, e \in man.entries :
                               g.path = e.path /\ Mismatch(g, e)
            [] c = "TF-4" -> marked # man.emptyDirs
            [] c = "TF-5" -> Links(items) # Links(man.entries)} = {}
  BY <1>18, <1>19, <1>20
<1>22. TF(blobs, man) = {}
  BY <1>21 DEF TF, ItemsIn, items, marked
<1> QED
  BY <1>13, <1>22

(* What a release has in the end, and why one from a single source fails:  *)
(* its tree is empty, or a name is refused.                                *)
Why ==
  /\ phase \in {"write", "check", "done"} => DOMAIN entries # {}
  /\ phase = "failed" /\ Len(recipe) = 1 =>
       /\ taken = 1 /\ entries = Walk(tree, unread)
       /\ DOMAIN entries = {} \/ Refused(entries)

LEMMA FirstNeverFails ==
  ASSUME ReleaseInv, Merged(recipe, taken, tree), Extract, Len(recipe) = 1
  PROVE  phase' = "extract"
<1>1. phase = "extract" /\ taken < Len(recipe) /\ taken \in 0..Len(recipe)
  BY DEF Extract, ReleaseInv, Rooted
<1>2. taken = 0
  BY <1>1
<1>3. Merged(recipe, 0, tree) /\ 1..0 = {}
  BY <1>2
<1>4. ~SharedIn(recipe, 0)
  BY <1>3 DEF SharedIn
<1>5. DOMAIN tree = UNION {DOMAIN Staged(recipe[i]) : i \in 1..0}
  BY <1>3, <1>4 DEF Merged, ArrivedIn
<1>6. DOMAIN tree = {}
  BY <1>3, <1>5, SMTT(40)
<1> DEFINE s == Staged(recipe[taken + 1])
<1> HIDE DEF s
<1>7. ~Clash(tree, s)
  BY <1>6 DEF Clash, Occupied, Directories
<1> QED
  BY <1>1, <1>7 DEF Extract, s

LEMMA WhyInductive ==
  ASSUME ReleaseInv, Merged(recipe, taken, tree), Why, [Next]_vars
  PROVE  Why'
<1>0. recipe' = recipe /\ (Len(recipe))' = Len(recipe)
  BY DEF Next, InspectSources, Extract, ReadTree, WriteTree, Check, vars
<1>1. CASE InspectSources
  <2>1. phase' \in {"extract", "rejected"}
    BY <1>1 DEF InspectSources
  <2> QED
    BY <2>1 DEF Why
<1>2. CASE Extract
  <2>1. phase' \in {"extract", "failed"}
    BY <1>2 DEF Extract
  <2>2. Len(recipe) = 1 => phase' = "extract"
    BY <1>2, FirstNeverFails
  <2> QED
    BY <1>0, <2>1, <2>2 DEF Why
<1>3. CASE ReadTree
  <2>1. PICK lost \in SUBSET (Directories(tree) \cup {<<>>}) :
          /\ unread' = lost /\ entries' = Walk(tree, lost)
          /\ phase' = IF DOMAIN entries' = {} THEN "failed" ELSE "write"
    BY <1>3 DEF ReadTree
  <2>2. taken = Len(recipe) /\ taken' = taken /\ tree' = tree
    BY <1>3 DEF ReadTree
  <2>3. entries' = Walk(tree, unread)'
    BY <2>1, <2>2
  <2> QED
    BY <1>0, <2>1, <2>2, <2>3 DEF Why
<1>4. CASE WriteTree
  <2>1. phase = "write" /\ UNCHANGED <<taken, tree, unread, entries>>
    BY <1>4 DEF WriteTree
  <2>2. \/ phase' = "failed" /\ Refused(entries)
        \/ phase' = "check"
    BY <1>4 DEF WriteTree
  <2>3. taken = Len(recipe) /\ entries = Walk(tree, unread) /\ DOMAIN entries # {}
    BY <2>1 DEF Why, ReleaseInv, Walked
  <2>4. Refused(entries)' <=> Refused(entries)
    BY <2>1 DEF Refused, Unplannable
  <2>5. entries' = Walk(tree, unread)' /\ taken' = taken
    BY <2>1, <2>3
  <2>6. (DOMAIN entries)' # {}
    BY <2>1, <2>3
  <2> QED
    BY <1>0, <2>2, <2>3, <2>4, <2>5, <2>6 DEF Why
<1>5. CASE Check
  <2>1. phase = "check" /\ phase' = "done" /\ entries' = entries
    BY <1>5 DEF Check
  <2> QED
    BY <2>1 DEF Why
<1>6. CASE UNCHANGED vars
  <2>1. UNCHANGED <<taken, tree, unread, entries, phase>>
    BY <1>6 DEF vars
  <2>2. Refused(entries)' <=> Refused(entries)
    BY <2>1 DEF Refused, Unplannable
  <2>3. Walk(tree, unread)' = Walk(tree, unread)
    BY <2>1
  <2> QED
    BY <1>0, <2>1, <2>2, <2>3 DEF Why
<1> QED
  BY <1>1, <1>2, <1>3, <1>4, <1>5, <1>6 DEF Next

(* A release that is written has an entry; one from a single source fails  *)
(* only at an empty tree or a name that is refused (Why).                  *)
THEOREM ReleaseFails == Spec => [](ReleaseInv /\ Merged(recipe, taken, tree) /\ Why)
<1> DEFINE I == ReleaseInv /\ Merged(recipe, taken, tree)
<1>1. Init => Why
  BY DEF Init, Why
<1>2. I /\ Why /\ [Next]_vars => Why'
  BY WhyInductive
<1>3. Spec => []I
  BY ReleaseMerges
<1> HIDE DEF I
<1>4. Spec => [](I /\ Why)
  BY <1>1, <1>2, <1>3, PTL DEF Spec
<1> QED
  BY <1>4 DEF I

(* An archive that agrees with its manifest is an ordinary one. *)
LEMMA AgreedIsOrdinary ==
  ASSUME NEW ms, Sound(ms), NEW n \in Nat, NEW lost, Attested(ms) \/ Calm(ms, lost),
         NEW g, g = Stage(TreeOf(ms), n), lost \subseteq Directories(g) \cup {<<>>},
         KeysOf(g, lost) # {}, Agreed(ms, KeysOf(g, lost)), \A p \in KeysOf(g, lost) : IsText(p)
  PROVE  /\ lost = {} /\ Ordinary(StripOne(TreeOf(ms))) /\ PlainlyListed(ms)
         /\ WrapperAgreed(ms, n)
<1> DEFINE T == TreeOf(ms)
<1>1. IsTree(T)
  BY ArchiveNodes
<1>2. IsTree(g)
  BY <1>1, StageIsTree
<1>3. PICK d : Cut(T, g, d)
  BY <1>1, StageIsCut
<1>4. DOMAIN ms # {}
  <2>1. \A p \in KeysOf(g, lost) : DOMAIN ms # {}
    BY <1>2, ComparedIs
  <2> QED
    BY <2>1
<1>5. Hardless(ms) /\ Shaped(ms) /\ g = StripOne(T)
  BY <1>2, <1>3, <1>4, Decided
<1>6. Viewed(ms, g) /\ IsTree(g)
  BY <1>5, ViewIs DEF Shaped
<1>7. lost = {} /\ Ordinary(g)
  BY <1>5, <1>6, GreenTree
<1>8. Wrappers(ms) # {}
  <2>1. CASE Attested(ms)
    <3>1. \A e \in DOMAIN ms : NormalOf(ms, e)[1] \in Wrappers(ms)
      BY <2>1, AttestedIs
    <3> QED
      BY <1>4, <3>1
  <2>2. CASE Calm(ms, lost)
    BY <2>2 DEF Calm
  <2> QED
    BY <2>1, <2>2
<1>9. Stage(T, n) = StripOne(T)
  BY <1>5
<1>10. PlainlyListed(ms) /\ WrapperAgreed(ms, n)
  BY <1>4, <1>5, <1>8, <1>9, ShapeIsAgreed
<1> QED
  BY <1>5, <1>7, <1>10

(* An ordinary one is written, and nothing is found. *)
LEMMA OrdinaryIsGreen ==
  ASSUME NEW ms, Sound(ms), NEW n, Ordinary(StripOne(TreeOf(ms))), PlainlyListed(ms),
         WrapperAgreed(ms, n), NEW g, g = Stage(TreeOf(ms), n), NEW lost, lost = {},
         NEW list, DOMAIN list = KeysOf(g, lost),
         \A p \in ItemsOf(g, lost) : list[p].mode = ModeOf(g[p]) /\ list[p].data = g[p].data
  PROVE  /\ ~Refused(list) /\ DOMAIN list # {}
         /\ \A view \in Views(Written(list)), man \in Loaded(Manifest(ms)) : TF(view, man) = {}
<1>1. Hardless(ms) /\ Shaped(ms) /\ DOMAIN ms # {} /\ g = StripOne(TreeOf(ms))
  BY AgreedIsShape
<1>2. Viewed(ms, g) /\ IsTree(g)
  BY <1>1, ViewIs DEF Shaped
<1>3. Ordinary(g)
  BY <1>1
<1> QED
  BY <1>1, <1>2, <1>3, NothingFound

(* A release from one archive, and what its walk lists. *)
LEMMA ReleaseIs ==
  ASSUME ReleaseInv, Merged(recipe, taken, tree), phase \notin {"inspect", "rejected"},
         Certified, taken = 1, entries = Walk(tree, unread), NEW g, g = Stage(Archive, recipe[1].strip)
  PROVE  /\ Sound(Members) /\ recipe[1].strip \in Nat
         /\ unread \subseteq Directories(g) \cup {<<>>}
         /\ DOMAIN entries = KeysOf(g, unread)
         /\ \A p \in ItemsOf(g, unread) : entries[p].mode = ModeOf(g[p]) /\ entries[p].data = g[p].data
<1>1. Len(recipe) = 1 /\ recipe[1].packed /\ recipe \in Recipe /\ IsTree(tree)
      /\ unread \subseteq Directories(tree) \cup {<<>>}
  BY DEF Certified, ReleaseInv, Rooted
<1>2. 1 \in DOMAIN recipe
  <2>1. DOMAIN recipe = 1..Len(recipe)
    BY <1>1, RecipeIs
  <2> QED
    BY <1>1, <2>1
<1>3. IsSource(recipe[1]) /\ Sound(Members)
  BY <1>1, <1>2, SourcesAreTrees DEF Members
<1>4. recipe[1].strip \in Nat
  BY <1>3 DEF IsSource
<1>5. IsTree(Archive)
  BY <1>3, ArchiveNodes DEF Archive
<1>6. IsTree(g)
  BY <1>4, <1>5, StageIsTree
<1>7. Staged(recipe[1]) = MarkEmpty(g)
  BY <1>1 DEF Staged, TreeIn, Archive, Members
<1>8. Merged(recipe, 1, tree)
  OBVIOUS
<1>9. DOMAIN tree = DOMAIN MarkEmpty(g) /\ \A p \in DOMAIN tree : tree[p] = MarkEmpty(g)[p]
  BY <1>7, <1>8, OneSourceIs
<1>10. /\ DOMAIN Walk(tree, unread) = KeysOf(g, unread)
       /\ \A p \in ItemsOf(g, unread) : /\ Walk(tree, unread)[p].mode = ModeOf(g[p])
                                        /\ Walk(tree, unread)[p].data = g[p].data
       /\ Directories(tree) = Directories(g)
  BY <1>1, <1>6, <1>9, WalkOfMarked
<1> QED
  BY <1>1, <1>3, <1>4, <1>10

(* What is written of an accounted archive has told all of its names. *)
LEMMA AccountedIsShown ==
  ASSUME Accounted, Sound(Members), ~Refused(entries), \A p \in DOMAIN entries : p \in Path
  PROVE  Shown(Members)
<1>1. CASE Attested(Members)
  <2>1. \A e \in DOMAIN Members : IsText(Members[e].path)
    BY <1>1 DEF Attested, PathsOf
  <2> QED
    BY <2>1, ShownIs
<1>2. CASE Undisturbed
  <2>1. ASSUME NEW q \in DOMAIN entries, NEW n \in ToSet(q), n \in Name PROVE Displayed[n] = n
    <3>1. IsText(q) /\ q \in Seq(Name)
      BY DEF Refused, Unplannable, Path
    <3>2. PICK i \in 1..Len(q) : q[i] = n
      BY <3>1 DEF ToSet
    <3> QED
      BY <2>1, <3>1, <3>2, TextIs
  <2>2. ASSUME NEW e \in DOMAIN Members PROVE IsText(Members[e].path)
    <3> DEFINE p == Members[e].path
    <3>1. p \in Seq(Component) /\ p \in PathsOf(Members)
      BY MemberIs
    <3>2. \A i \in DOMAIN p : p[i] \in Name =>
            Displayed[p[i]] = p[i] \/ \E q \in DOMAIN entries : p[i] \in ToSet(q)
      BY <1>2, <3>1 DEF Undisturbed
    <3> HIDE DEF p
    <3>3. DOMAIN p = 1..Len(p)
      BY <3>1, LenProperties
    <3>4. \A i \in 1..Len(p) : p[i] \in Name => Displayed[p[i]] = p[i]
      BY <2>1, <3>2, <3>3
    <3> QED
      BY <3>1, <3>4, TextIs DEF p
  <2> QED
    BY <2>2, ShownIs
<1> QED
  BY <1>1, <1>2 DEF Accounted

LEMMA InvIsOrdinary ==
  ASSUME ReleaseInv, Merged(recipe, taken, tree), Why
  PROVE  GreenIsOrdinary
<1> DEFINE n == recipe[1].strip
           g == Stage(Archive, n)
           Fit == /\ unread = {} /\ Ordinary(StripOne(Archive)) /\ PlainlyListed(Members)
                  /\ WrapperAgreed(Members, n)
<1>1. SUFFICES ASSUME phase \in {"done", "failed"}, Accounted
               PROVE  phase = "done" /\ findings = {} <=> Fit
  BY DEF GreenIsOrdinary
<1>2. Certified /\ (Attested(Members) \/ Undisturbed)
  BY <1>1 DEF Accounted
<1>3. Len(recipe) = 1
  BY <1>2 DEF Certified
<1>4. taken = 1 /\ entries = Walk(tree, unread)
  BY <1>1, <1>3 DEF ReleaseInv, Walked, Why
<1>5. phase \notin {"inspect", "rejected"}
  BY <1>1
<1>6. /\ Sound(Members) /\ n \in Nat
      /\ unread \subseteq Directories(g) \cup {<<>>}
      /\ DOMAIN entries = KeysOf(g, unread)
      /\ \A p \in ItemsOf(g, unread) : entries[p].mode = ModeOf(g[p]) /\ entries[p].data = g[p].data
  BY <1>2, <1>4, <1>5, ReleaseIs
<1>7. g = Stage(TreeOf(Members), n) /\ Archive = TreeOf(Members)
  BY DEF Archive
<1> HIDE DEF g, n
<1>8. Attested(Members) \/ Calm(Members, unread)
  BY <1>2 DEF Undisturbed, Calm
<1>9. ASSUME phase = "done", findings = {} PROVE Fit
  <2>1. /\ objects = Written(entries) /\ ~Refused(entries) /\ DOMAIN entries # {}
        /\ \E view \in Views(objects), man \in Loaded(Manifest(Members)) : findings = TF(view, man)
    BY <1>2, <1>9 DEF ReleaseInv, Walked, Why
  <2>2. PICK view \in Views(objects), man \in Loaded(Manifest(Members)) : TF(view, man) = {}
    BY <1>9, <2>1
  <2>3. \A b \in objects : b.path \in Path
    BY DEF ReleaseInv, Listings
  <2>4. \A p \in DOMAIN entries : p \in Path
    BY DEF ReleaseInv, Listings
  <2>5. Shown(Members)
    BY <1>1, <1>6, <2>1, <2>4, AccountedIsShown
  <2>6. PathsPass(Members, objects, view)
    BY <2>2, <2>3, <2>5, NoFindingIs
  <2>7. PathsPass(Members, Written(entries), view)
    BY <2>1, <2>6
  <2>8. Agreed(Members, DOMAIN entries)
    BY <2>1, <2>4, <2>7, PassedIsAgreed
  <2>9. Agreed(Members, KeysOf(g, unread)) /\ KeysOf(g, unread) # {}
    BY <1>6, <2>1, <2>8
  <2>10. \A p \in DOMAIN entries : IsText(p)
    BY <2>1 DEF Refused, Unplannable
  <2>11. \A p \in KeysOf(g, unread) : IsText(p)
    BY <1>6, <2>10
  <2> QED
    BY <1>6, <1>7, <1>8, <2>9, <2>11, AgreedIsOrdinary
<1>10. ASSUME Fit PROVE phase = "done" /\ findings = {}
  <2>1. /\ ~Refused(entries) /\ DOMAIN entries # {}
        /\ \A view \in Views(Written(entries)), man \in Loaded(Manifest(Members)) : TF(view, man) = {}
    BY <1>6, <1>7, <1>10, OrdinaryIsGreen
  <2>2. phase = "done"
    BY <1>1, <1>3, <2>1 DEF Why
  <2>3. /\ objects = Written(entries)
        /\ \E view \in Views(objects), man \in Loaded(Manifest(Members)) : findings = TF(view, man)
    BY <1>2, <2>2 DEF ReleaseInv, Walked
  <2> QED
    BY <2>1, <2>2, <2>3
<1> QED
  BY <1>9, <1>10

(* A release from one archive gets through TF-1 to TF-5 without a finding  *)
(* if and only if the archive is ordinary, its wrapper is agreed on and    *)
(* nothing went unread on the way (GreenIsOrdinary).                       *)
THEOREM GreenReleasesAreOrdinary == Spec => []GreenIsOrdinary
<1>1. ReleaseInv /\ Merged(recipe, taken, tree) /\ Why => GreenIsOrdinary
  BY InvIsOrdinary
<1> QED
  BY <1>1, ReleaseFails, PTL

-----------------------------------------------------------------------------
(* What inspect has announced *)

IsDotted(ms, e) == ms[e].path[1] = "."

LEMMA MemberPathIs ==
  ASSUME NEW ms, Sound(ms), NEW e \in DOMAIN ms
  PROVE  /\ ms[e].path \in Seq(Component) /\ ms[e].path # <<>> /\ Len(ms[e].path) \in Nat \ {0}
         /\ Components(ms[e].path) = ms[e].path
         /\ None # ms[e].path[1]
<1>1. ms[e].path \in Seq(Component) /\ ms[e].path # <<>> /\ ms[e].path[1] # "/"
  BY DEF Sound, IsArchive, IsMember, SoundMember
<1> DEFINE p == ms[e].path
<1>2. p \in Seq(Component) /\ p # <<>> /\ p[1] # "/"
  BY <1>1
<1> HIDE DEF p
<1>3. Len(p) \in Nat \ {0}
  BY <1>2, EmptySeq
<1>4. p[1] \in Component
  BY <1>2, <1>3, ElementOfSeq
<1>5. None \notin Component
  BY InspectAssumption DEF Component
<1> QED
  BY <1>2, <1>3, <1>4, <1>5 DEF p, Components, IsAbsolute

LEMMA AnnouncedWrapper ==
  ASSUME NEW ms, Sound(ms)
  PROVE  /\ DetectWrapper(ms) # None =>
              /\ \A e \in DOMAIN ms : ms[e].path[1] = DetectWrapper(ms)
              /\ \E e \in DOMAIN ms : Len(ms[e].path) > 1
         /\ \A x : /\ \A e \in DOMAIN ms : ms[e].path[1] = x
                   /\ \A e \in DOMAIN ms : Len(ms[e].path) = 1 => ms[e].kind = "dir"
                   /\ \E e \in DOMAIN ms : Len(ms[e].path) > 1
                   => DetectWrapper(ms) = x
<1> DEFINE tops == {Components(p)[1] : p \in {q \in PathsOf(ms) : Components(q) # <<>>}}
           at(top) == {e \in DOMAIN ms : Components(ms[e].path) = <<top>>}
           long == \E p \in PathsOf(ms) : Len(Components(p)) > 1
           fit == \E top \in tops : \/ \E e \in at(top) : ms[e].kind = "dir"
                                    \/ \A e \in at(top) : ms[e].kind = "dir"
           h == [e \in DOMAIN ms |-> ms[e].path[1]]
<1>0. DetectWrapper(ms) = IF Cardinality(tops) = 1 /\ long /\ fit
                            THEN CHOOSE top \in tops : TRUE ELSE None
  BY DEF DetectWrapper
<1>1. \A e \in DOMAIN ms : Components(ms[e].path) = ms[e].path /\ ms[e].path # <<>>
  BY MemberPathIs
<1>2. PathsOf(ms) = {ms[e].path : e \in DOMAIN ms}
  BY DEF PathsOf
<1>3. long <=> \E e \in DOMAIN ms : Len(ms[e].path) > 1
  BY <1>1, <1>2
<1>4. tops = {h[e] : e \in DOMAIN h}
  BY <1>1, <1>2
<1>5. DOMAIN h = DOMAIN ms /\ h = [e \in DOMAIN h |-> h[e]]
      /\ \A e \in DOMAIN ms : h[e] = ms[e].path[1]
  OBVIOUS
<1> HIDE DEF h
<1>6. IsFiniteSet(tops)
  <2>1. IsFiniteSet({h[e] : e \in DOMAIN h})
    BY <1>5, ImageFinite DEF Sound, IsArchive
  <2> QED
    BY <1>4, <2>1
<1>7. \A e \in DOMAIN ms : ms[e].path[1] \in tops
  BY <1>4, <1>5
<1>8. \A top, e : e \in at(top) => e \in DOMAIN ms /\ Len(ms[e].path) = 1
  BY <1>1
<1> HIDE DEF tops, long
<1>9. Cardinality(tops) = 1 <=> \E x : tops = {x}
  BY <1>6, FS_Singleton
<1>10. ASSUME DetectWrapper(ms) # None
       PROVE  /\ \A e \in DOMAIN ms : ms[e].path[1] = DetectWrapper(ms)
              /\ \E e \in DOMAIN ms : Len(ms[e].path) > 1
  <2>1. Cardinality(tops) = 1 /\ long /\ DetectWrapper(ms) = CHOOSE top \in tops : TRUE
    BY <1>0, <1>10
  <2>2. PICK x : tops = {x}
    BY <1>9, <2>1
  <2>3. DetectWrapper(ms) = x
    BY <2>1, <2>2
  <2> QED
    BY <1>3, <1>7, <2>1, <2>2, <2>3
<1>11. ASSUME NEW x, \A e \in DOMAIN ms : ms[e].path[1] = x,
              \A e \in DOMAIN ms : Len(ms[e].path) = 1 => ms[e].kind = "dir",
              \E e \in DOMAIN ms : Len(ms[e].path) > 1
       PROVE  DetectWrapper(ms) = x
  <2>1. tops = {x}
    <3>1. \A t \in tops : t = x
      BY <1>4, <1>5, <1>11
    <3>2. x \in tops
      BY <1>7, <1>11
    <3> QED
      BY <3>1, <3>2
  <2>2. Cardinality(tops) = 1 /\ long
    BY <1>3, <1>9, <1>11, <2>1
  <2>3. \A e \in at(x) : ms[e].kind = "dir"
    BY <1>8, <1>11
  <2> HIDE DEF at
  <2>4. fit
    BY <2>1, <2>3
  <2>5. DetectWrapper(ms) = CHOOSE top \in tops : TRUE
    BY <1>0, <2>2, <2>4
  <2> QED
    BY <2>1, <2>5
<1> QED
  BY <1>10, <1>11

LEMMA RawIs ==
  ASSUME NEW ms, Sound(ms), NEW e \in DOMAIN ms, ~IsDot(ms[e].path)
  PROVE  /\ NormalOf(ms, e) \in Path /\ Len(NormalOf(ms, e)) \in Nat \ {0}
         /\ IsDotted(ms, e) => /\ NormalOf(ms, e) = Tail(ms[e].path) /\ ms[e].path \notin Seq(Name)
                               /\ Len(ms[e].path) = Len(NormalOf(ms, e)) + 1
         /\ ~IsDotted(ms, e) => NormalOf(ms, e) = ms[e].path
<1> DEFINE p == ms[e].path
<1>1. p \in Seq(Component) /\ p # <<>> /\ Len(p) \in Nat \ {0}
  BY MemberPathIs
<1>2. NormalOf(ms, e) \in Path /\ NormalOf(ms, e) = Normal(p)
  BY NormalIs DEF NormalOf
<1>3. ~(p[1] = "." /\ Len(p) = 1)
  BY DEF IsDot
<1>4. Len(Tail(p)) = Len(p) - 1
  BY <1>1, HeadTailProperties
<1> HIDE DEF p
<1>5. ASSUME p[1] = "."
      PROVE  Normal(p) = Tail(p) /\ p \notin Seq(Name) /\ Len(p) = Len(Normal(p)) + 1
  <2>1. Len(p) > 1
    BY <1>1, <1>3, <1>5, LongIs
  <2>2. Normal(p) = Tail(p)
    BY <1>5, <2>1 DEF Normal
  <2>3. p \notin Seq(Name)
    <3>1. SUFFICES ASSUME p \in Seq(Name) PROVE FALSE
      OBVIOUS
    <3>2. p[1] \in Name
      BY <1>1, <3>1, ElementOfSeq
    <3> QED
      BY <1>5, <3>2, InspectAssumption
  <2> QED
    BY <1>1, <1>4, <2>2, <2>3
<1>6. p[1] # "." => Normal(p) = p
  BY DEF Normal
<1>7. Len(NormalOf(ms, e)) \in Nat \ {0}
  BY <1>2, FirstIs
<1> QED
  BY <1>2, <1>5, <1>6, <1>7 DEF p, IsDotted

LEMMA TailPrefix ==
  ASSUME NEW S, NEW p \in Seq(S), NEW q \in Seq(S), p # <<>>, q # <<>>, p[1] = q[1]
  PROVE  IsStrictPrefix(Tail(p), Tail(q)) <=> IsStrictPrefix(p, q)
<1>1. /\ Tail(p) \in Seq(S) /\ Len(Tail(p)) = Len(p) - 1 /\ Len(p) \in Nat \ {0}
      /\ \A i \in 1..Len(Tail(p)) : Tail(p)[i] = p[i + 1]
  BY HeadTailProperties, EmptySeq
<1>2. /\ Tail(q) \in Seq(S) /\ Len(Tail(q)) = Len(q) - 1 /\ Len(q) \in Nat \ {0}
      /\ \A i \in 1..Len(Tail(q)) : Tail(q)[i] = q[i + 1]
  BY HeadTailProperties, EmptySeq
<1> DEFINE u == Tail(p)
           v == Tail(q)
<1>6. u \in Seq(S) /\ v \in Seq(S)
  BY <1>1, <1>2
<1> HIDE DEF u, v
<1>3. /\ IsStrictPrefix(p, q) <=> Len(p) < Len(q) /\ \A i \in 1..Len(p) : p[i] = q[i]
      /\ IsStrictPrefix(u, v) <=> Len(u) < Len(v) /\ \A i \in 1..Len(u) : u[i] = v[i]
  BY <1>6, PrefixIs
<1>4. ASSUME Len(u) < Len(v), \A i \in 1..Len(u) : u[i] = v[i]
      PROVE  Len(p) < Len(q) /\ \A i \in 1..Len(p) : p[i] = q[i]
  <2>1. ASSUME NEW i \in 1..Len(p), i # 1 PROVE p[i] = q[i]
    <3>1. i - 1 \in 1..Len(u) /\ i - 1 \in 1..Len(v) /\ (i - 1) + 1 = i
      BY <1>1, <1>2, <1>4, <2>1 DEF u, v
    <3>2. u[i - 1] = p[i] /\ v[i - 1] = q[i]
      BY <1>1, <1>2, <3>1 DEF u, v
    <3> QED
      BY <1>4, <3>1, <3>2
  <2> QED
    BY <1>1, <1>2, <1>4, <2>1 DEF u, v
<1>5. ASSUME Len(p) < Len(q), \A i \in 1..Len(p) : p[i] = q[i]
      PROVE  Len(u) < Len(v) /\ \A i \in 1..Len(u) : u[i] = v[i]
  <2>1. ASSUME NEW i \in 1..Len(u) PROVE u[i] = v[i]
    <3>1. i \in 1..Len(v) /\ i + 1 \in 1..Len(p)
      BY <1>1, <1>2, <1>5 DEF u, v
    <3>2. u[i] = p[i + 1] /\ v[i] = q[i + 1]
      BY <1>1, <1>2, <3>1 DEF u, v
    <3> QED
      BY <1>5, <3>1, <3>2
  <2> QED
    BY <1>1, <1>2, <1>5, <2>1 DEF u, v
<1> QED
  BY <1>3, <1>4, <1>5 DEF u, v

(* Where all names have a leading dot or none, it does not matter for the  *)
(* empty directories.                                                      *)
LEMMA EmptyDirsAre ==
  ASSUME NEW ms, Sound(ms), \A e \in DOMAIN ms : ~IsDot(ms[e].path),
         \/ \A e \in DOMAIN ms : IsDotted(ms, e)
         \/ \A e \in DOMAIN ms : ~IsDotted(ms, e)
  PROVE  EmptyDirs(ms) = {ms[d].path : d \in EmptyOf(ms)}
<1>1. ASSUME NEW d \in DOMAIN ms, NEW e \in DOMAIN ms
      PROVE  IsStrictPrefix(ms[d].path, ms[e].path) <=> IsStrictPrefix(NormalOf(ms, d), NormalOf(ms, e))
  <2>1. CASE \A f \in DOMAIN ms : ~IsDotted(ms, f)
    <3>1. NormalOf(ms, d) = ms[d].path /\ NormalOf(ms, e) = ms[e].path
      BY <2>1, RawIs
    <3> QED
      BY <3>1
  <2>2. CASE \A f \in DOMAIN ms : IsDotted(ms, f)
    <3>1. NormalOf(ms, d) = Tail(ms[d].path) /\ NormalOf(ms, e) = Tail(ms[e].path)
      BY <2>2, RawIs
    <3>2. ms[d].path[1] = ms[e].path[1]
      BY <2>2 DEF IsDotted
    <3>3. /\ ms[d].path \in Seq(Component) /\ ms[d].path # <<>>
          /\ ms[e].path \in Seq(Component) /\ ms[e].path # <<>>
      BY MemberPathIs
    <3>4. IsStrictPrefix(Tail(ms[d].path), Tail(ms[e].path)) <=> IsStrictPrefix(ms[d].path, ms[e].path)
      BY <3>2, <3>3, TailPrefix
    <3> QED
      BY <3>1, <3>4
  <2> QED
    BY <2>1, <2>2
<1>2. EmptyDirs(ms) = {ms[e].path : e \in {d \in OfKind(ms, {"dir"}) :
                         ~ \E f \in DOMAIN ms : IsStrictPrefix(ms[d].path, ms[f].path)}}
  BY DEF EmptyDirs, PathsOf
<1>3. {d \in OfKind(ms, {"dir"}) : ~ \E f \in DOMAIN ms : IsStrictPrefix(ms[d].path, ms[f].path)}
        = EmptyOf(ms)
  <2>1. \A d \in OfKind(ms, {"dir"}) : d \in DOMAIN ms
    BY DEF OfKind
  <2> QED
    BY <1>1, <2>1 DEF EmptyOf
<1> QED
  BY <1>2, <1>3

(* The wrapper w taken off.  What inspect announces, and what it should.   *)
Shorn(w, p) == IF w = p[1] THEN Tail(p) ELSE p
Foretold(ms, w) ==
  /\ {Shorn(w, ms[e].path) : e \in Contents(ms)} = {NamedAs(ms, e) : e \in Contents(ms)}
  /\ {Shorn(w, d) : d \in EmptyDirs(ms)} = {NamedAs(ms, d) : d \in EmptyOf(ms)}

LEMMA ForetoldWhen ==
  ASSUME NEW ms, Sound(ms), \A e \in DOMAIN ms : ~IsDot(ms[e].path),
         \/ \A e \in DOMAIN ms : IsDotted(ms, e)
         \/ \A e \in DOMAIN ms : ~IsDotted(ms, e),
         NEW w, \A e \in DOMAIN ms : Shorn(w, ms[e].path) = NamedAs(ms, e)
  PROVE  Foretold(ms, w)
<1>1. EmptyDirs(ms) = {ms[d].path : d \in EmptyOf(ms)}
  BY EmptyDirsAre
<1>2. \A e : e \in Contents(ms) \/ e \in EmptyOf(ms) => e \in DOMAIN ms
  BY DEF Contents, EmptyOf, OfKind
<1>3. {Shorn(w, d) : d \in EmptyDirs(ms)} = {Shorn(w, ms[d].path) : d \in EmptyOf(ms)}
  BY <1>1
<1>4. {Shorn(w, ms[d].path) : d \in EmptyOf(ms)} = {NamedAs(ms, d) : d \in EmptyOf(ms)}
  BY <1>2
<1>5. {Shorn(w, ms[e].path) : e \in Contents(ms)} = {NamedAs(ms, e) : e \in Contents(ms)}
  BY <1>2
<1> QED
  BY <1>3, <1>4, <1>5 DEF Foretold

(* With some names dotted and some not, no wrapper is seen, and a dotted   *)
(* name is among those announced.                                          *)
LEMMA MixedIsWrong ==
  ASSUME NEW ms, Sound(ms), Hardless(ms), \A e \in DOMAIN ms : ~IsDot(ms[e].path),
         NEW a \in DOMAIN ms, IsDotted(ms, a), NEW b \in DOMAIN ms, ~IsDotted(ms, b),
         \A e \in DOMAIN ms : NamedAs(ms, e) \in Seq(Name)
  PROVE  ~Foretold(ms, DetectWrapper(ms))
<1>1. DetectWrapper(ms) = None
  <2>1. SUFFICES ASSUME DetectWrapper(ms) # None PROVE FALSE
    OBVIOUS
  <2>2. ms[a].path[1] = DetectWrapper(ms) /\ ms[b].path[1] = DetectWrapper(ms)
    BY <2>1, AnnouncedWrapper
  <2> QED
    BY <2>2 DEF IsDotted
<1>2. \A e \in DOMAIN ms : Shorn(None, ms[e].path) = ms[e].path
  BY MemberPathIs DEF Shorn
<1> DEFINE D == {e \in DOMAIN ms : IsDotted(ms, e)}
           h == [e \in D |-> NormalOf(ms, e)]
           Q == {h[e] : e \in DOMAIN h}
<1>3. DOMAIN h = D /\ h = [e \in DOMAIN h |-> h[e]] /\ \A e \in D : h[e] = NormalOf(ms, e)
  OBVIOUS
<1>4. D \subseteq DOMAIN ms /\ a \in D
  OBVIOUS
<1>5. IsFiniteSet(D)
  BY <1>4, FS_Subset DEF Sound, IsArchive
<1> HIDE DEF h
<1>6. IsFiniteSet(Q)
  BY <1>3, <1>5, ImageFinite
<1>7. Q \in SUBSET Path /\ Q # {}
  <2>1. \A e \in D : h[e] \in Path
    BY <1>3, <1>4, RawIs
  <2> QED
    BY <1>3, <1>4, <2>1
<1>8. PICK q \in Q : \A u \in Q : Len(u) <= Len(q)
  BY <1>6, <1>7, LongestExists
<1>9. PICK x \in D : q = NormalOf(ms, x)
  BY <1>3
<1>10. \A y \in D : Len(NormalOf(ms, y)) <= Len(NormalOf(ms, x))
  BY <1>3, <1>8, <1>9
<1>11. x \in DOMAIN ms /\ IsDotted(ms, x) /\ ms[x].path \notin Seq(Name)
  BY RawIs
<1>12. \A e : e \in Contents(ms) \/ e \in EmptyOf(ms) => e \in DOMAIN ms
  BY DEF Contents, EmptyOf, OfKind
<1> HIDE DEF Q, D
<1>13. CASE ms[x].kind # "dir"
  <2>1. x \in Contents(ms)
    BY <1>11, <1>13, HardlessIs
  <2>2. ms[x].path \in {Shorn(None, ms[e].path) : e \in Contents(ms)}
    BY <1>2, <1>11, <2>1
  <2>3. ms[x].path \notin {NamedAs(ms, e) : e \in Contents(ms)}
    BY <1>11, <1>12
  <2> QED
    BY <1>1, <2>2, <2>3 DEF Foretold
<1>14. CASE ms[x].kind = "dir"
  <2>1. ASSUME NEW y \in DOMAIN ms, IsStrictPrefix(ms[x].path, ms[y].path) PROVE FALSE
    <3>1. /\ ms[x].path \in Seq(Component) /\ Len(ms[x].path) \in Nat \ {0}
          /\ ms[y].path \in Seq(Component)
      BY <1>11, MemberPathIs
    <3>2. Len(ms[x].path) < Len(ms[y].path) /\ \A i \in 1..Len(ms[x].path) : ms[x].path[i] = ms[y].path[i]
      BY <2>1, <3>1, PrefixIs
    <3>8. 1 \in 1..Len(ms[x].path)
      BY <3>1
    <3>3. ms[x].path[1] = ms[y].path[1]
      BY <3>2, <3>8
    <3>4. IsDotted(ms, y)
      BY <1>11, <3>3 DEF IsDotted
    <3>5. y \in D
      BY <3>4 DEF D
    <3>6. /\ Len(ms[x].path) = Len(NormalOf(ms, x)) + 1 /\ Len(ms[y].path) = Len(NormalOf(ms, y)) + 1
          /\ Len(NormalOf(ms, x)) \in Nat /\ Len(NormalOf(ms, y)) \in Nat
      BY <1>11, <3>4, RawIs
    <3>7. Len(NormalOf(ms, y)) <= Len(NormalOf(ms, x))
      BY <1>10, <3>5
    <3> QED
      BY <3>2, <3>6, <3>7
  <2>2. ms[x].path \in EmptyDirs(ms)
    BY <1>11, <1>14, <2>1 DEF EmptyDirs, OfKind, PathsOf
  <2>3. ms[x].path \in {Shorn(None, d) : d \in EmptyDirs(ms)}
    BY <1>2, <1>11, <2>2
  <2>4. ms[x].path \notin {NamedAs(ms, d) : d \in EmptyOf(ms)}
    BY <1>11, <1>12
  <2> QED
    BY <1>1, <2>3, <2>4 DEF Foretold
<1> QED
  BY <1>13, <1>14

LEMMA DotIsAnnounced ==
  ASSUME NEW ms, Sound(ms), DOMAIN ms # {}, \A e \in DOMAIN ms : ~IsDot(ms[e].path) /\ IsDotted(ms, e)
  PROVE  /\ DetectWrapper(ms) = "."
         /\ \A e \in DOMAIN ms : Shorn(DetectWrapper(ms), ms[e].path) = NormalOf(ms, e)
<1>1. \A e \in DOMAIN ms : ms[e].path[1] = "."
  BY DEF IsDotted
<1>2. ASSUME NEW e \in DOMAIN ms PROVE Len(ms[e].path) > 1 /\ Len(ms[e].path) # 1
  <2>1. Len(NormalOf(ms, e)) \in Nat \ {0} /\ Len(ms[e].path) = Len(NormalOf(ms, e)) + 1
    BY RawIs
  <2> DEFINE n == Len(NormalOf(ms, e))
  <2> HIDE DEF n
  <2>2. n \in Nat \ {0} => n + 1 > 1 /\ n + 1 # 1
    OBVIOUS
  <2> QED
    BY <2>1, <2>2 DEF n
<1>3. \A e \in DOMAIN ms : Len(ms[e].path) # 1
  BY <1>2
<1>4. \E e \in DOMAIN ms : Len(ms[e].path) > 1
  BY <1>2
<1>5. DetectWrapper(ms) = "."
  BY <1>1, <1>3, <1>4, AnnouncedWrapper
<1>6. \A e \in DOMAIN ms : NormalOf(ms, e) = Tail(ms[e].path)
  BY RawIs
<1> QED
  BY <1>1, <1>5, <1>6 DEF Shorn

(* Dotted names below a wrapper lose the dot only. *)
LEMMA DottedWrapperIsWrong ==
  ASSUME NEW ms, Sound(ms), Hardless(ms), DOMAIN ms # {}, NEW w, Wrapped(ms, w),
         \A e \in DOMAIN ms : IsDotted(ms, e)
  PROVE  ~Foretold(ms, DetectWrapper(ms))
<1>1. SUFFICES ASSUME Foretold(ms, DetectWrapper(ms)) PROVE FALSE
  OBVIOUS
<1>2. \A e \in DOMAIN ms : ~IsDot(ms[e].path) /\ NormalOf(ms, e)[1] = w
  BY DEF Wrapped
<1>3. \A e \in DOMAIN ms : Shorn(DetectWrapper(ms), ms[e].path) = NormalOf(ms, e)
  BY <1>2, DotIsAnnounced
<1>4. \A e \in DOMAIN ms : Len(NamedAs(ms, e)) + 1 = Len(NormalOf(ms, e))
  BY <1>2, StrippedIs DEF Wrapped
<1>5. \A e : e \in Contents(ms) \/ e \in EmptyOf(ms) => e \in DOMAIN ms
  BY DEF Contents, EmptyOf, OfKind
<1>6. Contents(ms) = {}
  <2>1. ASSUME NEW x \in Contents(ms)
        PROVE  \E y \in Contents(ms) : Len(NormalOf(ms, x)) + 1 = Len(NormalOf(ms, y)) + 0
    <3>1. NormalOf(ms, x) \in {Shorn(DetectWrapper(ms), ms[e].path) : e \in Contents(ms)}
      BY <1>3, <1>5
    <3>2. PICK y \in Contents(ms) : NormalOf(ms, x) = NamedAs(ms, y)
      BY <1>1, <3>1 DEF Foretold
    <3>3. Len(NormalOf(ms, y)) \in Nat
      BY <1>2, <1>5, RawIs
    <3> QED
      BY <1>4, <1>5, <3>2, <3>3
  <2>2. Contents(ms) \in SUBSET DOMAIN ms
    BY <1>5
  <2> DEFINE m == 0
  <2>3. m \in Nat /\ m # 1
        /\ \A x \in Contents(ms) : \E y \in Contents(ms) : Len(NormalOf(ms, x)) + 1 = Len(NormalOf(ms, y)) + m
    BY <2>1
  <2> HIDE DEF m
  <2> QED
    BY <1>2, <2>2, <2>3, NoLength
<1>7. EmptyOf(ms) = {}
  <2>0. EmptyDirs(ms) = {ms[d].path : d \in EmptyOf(ms)}
    BY <1>2, EmptyDirsAre
  <2>1. ASSUME NEW x \in EmptyOf(ms)
        PROVE  \E y \in EmptyOf(ms) : Len(NormalOf(ms, x)) + 1 = Len(NormalOf(ms, y)) + 0
    <3>1. NormalOf(ms, x) \in {Shorn(DetectWrapper(ms), d) : d \in EmptyDirs(ms)}
      BY <1>3, <1>5, <2>0
    <3>2. PICK y \in EmptyOf(ms) : NormalOf(ms, x) = NamedAs(ms, y)
      BY <1>1, <3>1 DEF Foretold
    <3>3. Len(NormalOf(ms, y)) \in Nat
      BY <1>2, <1>5, RawIs
    <3> QED
      BY <1>4, <1>5, <3>2, <3>3
  <2>2. EmptyOf(ms) \in SUBSET DOMAIN ms
    BY <1>5
  <2> DEFINE m == 0
  <2>3. m \in Nat /\ m # 1
        /\ \A x \in EmptyOf(ms) : \E y \in EmptyOf(ms) : Len(NormalOf(ms, x)) + 1 = Len(NormalOf(ms, y)) + m
    BY <2>1
  <2> HIDE DEF m
  <2> QED
    BY <1>2, <2>2, <2>3, NoLength
<1>8. PICK e \in DOMAIN ms : TRUE
  OBVIOUS
<1>9. \E f \in Leaves(ms) : f \in DOMAIN ms
  BY <1>2, LeafIs
<1> QED
  BY <1>6, <1>7, <1>9 DEF Leaves, Hards, Hardless

LEMMA OneNameAtTop ==
  ASSUME NEW ms, Sound(ms), \A e \in DOMAIN ms : ~IsDot(ms[e].path), NEW w,
         \A e \in DOMAIN ms : NormalOf(ms, e)[1] = w, NEW b \in DOMAIN ms, Len(NormalOf(ms, b)) > 1
  PROVE  SingleTop(TreeOf(ms))
<1> DEFINE T == TreeOf(ms)
<1>1. IsTree(T) /\ NormalOf(ms, b) \in DOMAIN T /\ \A z \in DOMAIN T : z[1] = w
  BY ArchiveNodes
<1> HIDE DEF T
<1>2. Top(w) \in Tops(T) /\ Top(w) \in Directories(T)
  BY <1>1, TopIs
<1>3. ASSUME NEW z \in Tops(T) PROVE z = Top(w)
  <2>1. z \in DOMAIN T /\ Len(z) = 1
    BY DEF Tops
  <2>2. z = Top(z[1])
    BY <1>1, <2>1, NodeIs, FirstIs
  <2> QED
    BY <1>1, <2>1, <2>2
<1>4. Tops(T) = {Top(w)}
  BY <1>2, <1>3
<1>5. Cardinality(Tops(T)) = 1
  BY <1>4, FS_Singleton
<1> QED
  BY <1>2, <1>4, <1>5 DEF SingleTop, T

(* An archive without dotted names: only one that is one empty directory   *)
(* is announced wrongly.                                                   *)
LEMMA PlainUnwrapped ==
  ASSUME NEW ms, Sound(ms), Unwrappable(ms), \A e \in DOMAIN ms : ~IsDotted(ms, e)
  PROVE  Foretold(ms, DetectWrapper(ms)) /\ ~SingleTop(TreeOf(ms))
<1>1. (\A e \in DOMAIN ms : ~IsDot(ms[e].path)) /\ ~SingleTop(TreeOf(ms)) /\ \A w : Wrappers(ms) # {w}
  BY DEF Unwrappable
<1>6. \A e \in DOMAIN ms : NormalOf(ms, e) = ms[e].path
  BY <1>1, RawIs
<1>2. \A e \in DOMAIN ms : NormalOf(ms, e) = ms[e].path /\ NamedAs(ms, e) = ms[e].path
  <2>1. \A e \in DOMAIN ms : NamedAs(ms, e) = IF Wrappers(ms) = {NormalOf(ms, e)[1]}
                                                THEN Tail(NormalOf(ms, e)) ELSE NormalOf(ms, e)
    BY WrappersAre
  <2> QED
    BY <1>1, <1>6, <2>1
<1>3. DetectWrapper(ms) = None
  <2>1. SUFFICES ASSUME DetectWrapper(ms) # None PROVE FALSE
    OBVIOUS
  <2>2. /\ \A e \in DOMAIN ms : NormalOf(ms, e)[1] = DetectWrapper(ms)
        /\ \E e \in DOMAIN ms : Len(NormalOf(ms, e)) > 1
    BY <1>2, <2>1, AnnouncedWrapper
  <2> QED
    BY <1>1, <2>2, OneNameAtTop
<1>4. \A e \in DOMAIN ms : Shorn(DetectWrapper(ms), ms[e].path) = NamedAs(ms, e)
  BY <1>2, <1>3, MemberPathIs DEF Shorn
<1>5. Foretold(ms, DetectWrapper(ms))
  BY <1>1, <1>4, ForetoldWhen
<1> QED
  BY <1>1, <1>5

LEMMA PlainWrapped ==
  ASSUME NEW ms, Sound(ms), DOMAIN ms # {}, NEW w, Wrapped(ms, w),
         \A e \in DOMAIN ms : ~IsDotted(ms, e)
  PROVE  Foretold(ms, DetectWrapper(ms)) <=> Cardinality(DOMAIN TreeOf(ms)) > 1
<1> DEFINE T == TreeOf(ms)
<1>1. /\ \A e \in DOMAIN ms : ~IsDot(ms[e].path) /\ NormalOf(ms, e)[1] = w
      /\ Wrappers(ms) = {w} /\ Tops(T) = {Top(w)} /\ Top(w) \in Directories(T) /\ w \in Name
  BY DEF Wrapped
<1>2. \A e \in DOMAIN ms : /\ NormalOf(ms, e) = ms[e].path /\ NamedAs(ms, e) = Tail(ms[e].path)
                           /\ ms[e].path[1] = w /\ ms[e].path \in Path /\ Len(ms[e].path) \in Nat \ {0}
  BY <1>1, RawIs, WrappersAre, SMTT(40)
<1>3. /\ IsTree(T) /\ \A z \in DOMAIN T : \E e \in DOMAIN ms : IsPrefix(z, ms[e].path)
      /\ \A e \in DOMAIN ms : ms[e].path \in DOMAIN T /\ (T[ms[e].path].kind = "dir" <=> ms[e].kind = "dir")
  BY <1>1, <1>2, ArchiveNodes
<1> HIDE DEF T
<1>4. \A e \in DOMAIN ms : Len(ms[e].path) = 1 => ms[e].path = Top(w) /\ ms[e].kind = "dir"
  <2>1. \A e \in DOMAIN ms : Len(ms[e].path) = 1 => ms[e].path = Top(w)
    BY <1>2, FirstIs
  <2>2. T[Top(w)].kind = "dir"
    BY <1>1 DEF Directories
  <2> QED
    BY <1>3, <2>1, <2>2
<1>5. IsFiniteSet(DOMAIN T) /\ Top(w) \in DOMAIN T
  BY <1>1, <1>3 DEF IsTree, Directories
<1> DEFINE N == DOMAIN T
<1>6. N \in SUBSET N /\ IsFiniteSet(N) /\ Top(w) \in N
  BY <1>5
<1> HIDE DEF N
<1>7. Cardinality(N) > 1 <=> ~ \E x : N = {x}
  <2>1. /\ Cardinality(N) \in Nat
        /\ Cardinality(N) = 0 <=> N = {}
        /\ Cardinality(N) = 1 <=> \E x : N = {x}
    BY <1>6, FS_CardinalityType, FS_EmptySet, FS_Singleton
  <2> DEFINE c == Cardinality(N)
             one == \E x : N = {x}
  <2>2. c # 0
    BY <1>6, <2>1
  <2>3. c \in Nat /\ (c = 1 <=> one)
    BY <2>1
  <2> HIDE DEF c, one
  <2>4. c > 1 <=> c # 1
    BY <2>2, <2>3
  <2>5. c > 1 <=> ~one
    BY <2>3, <2>4
  <2> QED
    BY <2>5 DEF c, one
<1>8. CASE \E e \in DOMAIN ms : Len(ms[e].path) > 1
  <2>1. DetectWrapper(ms) = w
    BY <1>2, <1>4, <1>8, AnnouncedWrapper
  <2>2. \A e \in DOMAIN ms : Shorn(DetectWrapper(ms), ms[e].path) = NamedAs(ms, e)
    BY <1>2, <2>1 DEF Shorn
  <2>3. Foretold(ms, DetectWrapper(ms))
    BY <1>1, <2>2, ForetoldWhen
  <2>4. PICK e \in DOMAIN ms : Len(ms[e].path) > 1
    BY <1>8
  <2> DEFINE p == ms[e].path
  <2>7. p \in N /\ Len(p) > 1
    BY <1>3, <2>4 DEF N
  <2>8. Len(Top(w)) = 1
    BY <1>1, TopPathIs
  <2> HIDE DEF p
  <2>5. p \in N /\ p # Top(w)
    <3>1. SUFFICES ASSUME p = Top(w) PROVE FALSE
      BY <2>7
    <3>2. Len(p) = 1
      BY <2>8, <3>1
    <3> QED
      BY <2>7, <3>2
  <2>6. ~ \E x : N = {x}
    BY <1>6, <2>5
  <2> QED
    BY <1>7, <2>3, <2>6 DEF N, T
<1>9. CASE ~ \E e \in DOMAIN ms : Len(ms[e].path) > 1
  <2>1. \A e \in DOMAIN ms : Len(ms[e].path) = 1
    <3>1. ASSUME NEW e \in DOMAIN ms PROVE Len(ms[e].path) = 1
      <4>1. Len(ms[e].path) \in Nat \ {0} /\ ~(Len(ms[e].path) > 1)
        BY <1>2, <1>9
      <4> QED
        BY <4>1, LongIs
    <3> QED
      BY <3>1
  <2>2. \A e \in DOMAIN ms : ms[e].path = Top(w) /\ ms[e].kind = "dir"
    BY <1>4, <2>1
  <2>3. DetectWrapper(ms) = None
    BY <1>9, AnnouncedWrapper
  <2>4. N = {Top(w)}
    <3>1. ASSUME NEW z \in N PROVE z = Top(w)
      <4>1. PICK e \in DOMAIN ms : IsPrefix(z, ms[e].path)
        BY <1>3 DEF N
      <4>2. IsPrefix(z, Top(w)) /\ z \in Path /\ z \in Seq(Name) /\ Len(z) \in Nat \ {0}
        BY <1>3, <2>2, <4>1, NodeIs DEF N
      <4>3. Len(z) \in 0..Len(Top(w)) /\ (z # Top(w) => Len(z) < Len(Top(w))) /\ Len(Top(w)) = 1
        BY <1>1, <4>2, PrefixCut, TopPathIs
      <4> QED
        BY <4>2, <4>3
    <3> QED
      BY <1>6, <3>1
  <2>5. PICK e \in DOMAIN ms : TRUE
    OBVIOUS
  <2>6. Top(w) \in EmptyDirs(ms)
    <3>1. \A f \in DOMAIN ms : ~IsStrictPrefix(ms[e].path, ms[f].path)
      BY <2>2 DEF IsStrictPrefix
    <3> QED
      BY <2>2, <3>1 DEF EmptyDirs, OfKind, PathsOf
  <2>7. ~Foretold(ms, DetectWrapper(ms))
    <3>1. SUFFICES ASSUME Foretold(ms, None) PROVE FALSE
      BY <2>3
    <3>2. Top(w)[1] = w /\ w # None /\ Len(Top(w)) = 1
      BY <1>1, TopPathIs, InspectAssumption
    <3>3. Top(w) \in {Shorn(None, d) : d \in EmptyDirs(ms)}
      BY <2>6, <3>2 DEF Shorn
    <3>4. PICK d \in EmptyOf(ms) : Top(w) = NamedAs(ms, d)
      BY <3>1, <3>3 DEF Foretold
    <3>5. d \in DOMAIN ms
      BY DEF EmptyOf, OfKind
    <3>6. Top(w) = Tail(Top(w))
      BY <1>2, <2>2, <3>4, <3>5
    <3>7. Len(Tail(Top(w))) = Len(Top(w)) - 1
      BY <1>1, TopPathIs, HeadIs
    <3> DEFINE l == Len(Tail(Top(w)))
    <3>8. l = 0
      BY <3>2, <3>7
    <3>9. Len(Top(w)) = l
      BY <3>6
    <3> HIDE DEF l
    <3> QED
      BY <3>2, <3>8, <3>9
  <2> QED
    BY <1>7, <2>4, <2>7 DEF N, T
<1> QED
  BY <1>8, <1>9

LEMMA DotIsWrong ==
  ASSUME NEW ms, Sound(ms), DOMAIN ms # {}, OnlyDot(ms)
  PROVE  ~Foretold(ms, DetectWrapper(ms))
<1>1. PICK e \in DOMAIN ms : TRUE
  OBVIOUS
<1>2. \A f \in DOMAIN ms : IsDot(ms[f].path) /\ Len(ms[f].path) = 1 /\ ms[f].path[1] = "."
  BY DEF OnlyDot, IsDot
<1>3. DetectWrapper(ms) = None
  <2>1. ASSUME NEW f \in DOMAIN ms, NEW n, n = Len(ms[f].path) PROVE ~(n > 1)
    <3>1. n = 1
      BY <1>2, <2>1, SMTT(40)
    <3> QED
      BY <3>1
  <2> QED
    BY <2>1, AnnouncedWrapper
<1>4. \A f \in DOMAIN ms : NamedAs(ms, f) = <<>>
  BY <1>2, DotIsEmpty, DotIsWrapper
<1>5. Shorn(None, ms[e].path) = ms[e].path
  BY MemberPathIs DEF Shorn
<1>6. ms[e].path \in EmptyDirs(ms)
  <2>1. ASSUME NEW f \in DOMAIN ms PROVE ~IsStrictPrefix(ms[e].path, ms[f].path)
    <3>1. ms[e].path \in Seq(Component) /\ ms[f].path \in Seq(Component)
      BY MemberPathIs
    <3>2. Len(ms[e].path) = 1 /\ Len(ms[f].path) = 1
      BY <1>2
    <3>3. IsStrictPrefix(ms[e].path, ms[f].path) => Len(ms[e].path) < Len(ms[f].path)
      BY <3>1, PrefixIs
    <3> QED
      BY <3>2, <3>3
  <2>2. ms[e].kind = "dir"
    BY <1>2, NormalIs
  <2> QED
    BY <2>1, <2>2 DEF EmptyDirs, OfKind, PathsOf
<1>7. ms[e].path # <<>>
  BY MemberPathIs
<1>8. SUFFICES ASSUME Foretold(ms, None) PROVE FALSE
  BY <1>3
<1>9. ms[e].path \in {Shorn(None, d) : d \in EmptyDirs(ms)}
  BY <1>5, <1>6
<1>10. PICK d \in EmptyOf(ms) : ms[e].path = NamedAs(ms, d)
  BY <1>8, <1>9 DEF Foretold
<1>11. d \in DOMAIN ms
  BY DEF EmptyOf, OfKind
<1> QED
  BY <1>4, <1>7, <1>10, <1>11

(* About which archives that get through swhap inspect is right. *)
LEMMA ForetoldDecided ==
  ASSUME NEW ms, Sound(ms), Hardless(ms), Shaped(ms), DOMAIN ms # {}
  PROVE  LET T == TreeOf(ms)
         IN Foretold(ms, DetectWrapper(ms)) <=>
              IF \A e \in DOMAIN ms : ~IsDotted(ms, e)
                THEN SingleTop(T) => Cardinality(DOMAIN T) > 1
                ELSE /\ \A e \in DOMAIN ms : IsDotted(ms, e)
                     /\ DOMAIN T # {} /\ ~SingleTop(T)
<1> DEFINE T == TreeOf(ms)
           plain == \A e \in DOMAIN ms : ~IsDotted(ms, e)
           all == \A e \in DOMAIN ms : IsDotted(ms, e)
           told == Foretold(ms, DetectWrapper(ms))
<1>1. all => ~plain
  OBVIOUS
<1>2. CASE OnlyDot(ms)
  <2>1. DOMAIN T = {}
    BY <1>2, ArchiveNodes DEF OnlyDot
  <2>2. ~plain
    BY <1>2 DEF OnlyDot, IsDot, IsDotted
  <2>3. ~told
    BY <1>2, DotIsWrong
  <2> QED
    BY <2>1, <2>2, <2>3
<1>3. CASE ~OnlyDot(ms)
  <2>1. \A e \in DOMAIN ms : ~IsDot(ms[e].path)
    BY <1>3 DEF Shaped, Unwrappable, Wrapped
  <2>2. DOMAIN T # {}
    BY <2>1, ArchiveNodes
  <2>3. Unwrappable(ms) \/ \E w : Wrapped(ms, w)
    BY <1>3 DEF Shaped
  <2>4. \A w : Wrapped(ms, w) => SingleTop(T)
    <3>1. SUFFICES ASSUME NEW w, Wrapped(ms, w) PROVE SingleTop(T)
      OBVIOUS
    <3>2. Tops(T) = {Top(w)} /\ Top(w) \in Directories(T)
      BY <3>1 DEF Wrapped
    <3>3. Cardinality(Tops(T)) = 1
      BY <3>2, FS_Singleton
    <3> QED
      BY <3>2, <3>3 DEF SingleTop
  <2>5. CASE plain
    <3>1. Unwrappable(ms) => told /\ ~SingleTop(T)
      BY <2>5, PlainUnwrapped
    <3>2. \A w : Wrapped(ms, w) => (told <=> Cardinality(DOMAIN T) > 1)
      BY <2>5, PlainWrapped
    <3> QED
      BY <2>3, <2>4, <2>5, <3>1, <3>2
  <2>6. CASE all
    <3>1. Unwrappable(ms) => told /\ ~SingleTop(T)
      <4>1. SUFFICES ASSUME Unwrappable(ms) PROVE told /\ ~SingleTop(T)
        OBVIOUS
      <4>2. \A e \in DOMAIN ms : NamedAs(ms, e) = NormalOf(ms, e)
        <5>1. \A w : Wrappers(ms) # {w}
          BY <4>1 DEF Unwrappable
        <5>2. \A e \in DOMAIN ms : NamedAs(ms, e) = IF Wrappers(ms) = {NormalOf(ms, e)[1]}
                                                      THEN Tail(NormalOf(ms, e)) ELSE NormalOf(ms, e)
          BY WrappersAre
        <5> QED
          BY <5>1, <5>2
      <4>3. \A e \in DOMAIN ms : Shorn(DetectWrapper(ms), ms[e].path) = NamedAs(ms, e)
        BY <2>1, <2>6, <4>2, DotIsAnnounced
      <4>4. told
        BY <2>1, <2>6, <4>3, ForetoldWhen
      <4> QED
        BY <4>1, <4>4 DEF Unwrappable
    <3>2. \A w : Wrapped(ms, w) => ~told
      BY <2>6, DottedWrapperIsWrong
    <3> QED
      BY <1>1, <2>2, <2>3, <2>4, <2>6, <3>1, <3>2
  <2>7. CASE ~plain /\ ~all
    <3>1. PICK a \in DOMAIN ms, b \in DOMAIN ms : IsDotted(ms, a) /\ ~IsDotted(ms, b)
      BY <2>7
    <3>2. \A e \in DOMAIN ms : NamedAs(ms, e) \in Seq(Name)
      <4>1. Viewed(ms, StripOne(T)) /\ IsTree(StripOne(T))
        BY ViewIs DEF Shaped
      <4> DEFINE s == StripOne(T)
      <4> HIDE DEF s, T
      <4>2. \A e \in DOMAIN ms : NamedAs(ms, e) \in DOMAIN s \cup {<<>>}
        BY <4>1 DEF Viewed, s
      <4>3. \A z \in DOMAIN s : z \in Seq(Name)
        BY <4>1, NodeIs DEF s
      <4>4. <<>> \in Seq(Name)
        BY EmptySeq
      <4> QED
        BY <4>2, <4>3, <4>4
    <3>3. ~told
      BY <2>1, <3>1, <3>2, MixedIsWrong
    <3> QED
      BY <2>7, <3>3
  <2> QED
    BY <2>5, <2>6, <2>7
<1> QED
  BY <1>2, <1>3

(* The paths of the git tree are those of the manifest. *)
LEMMA PassedPaths ==
  ASSUME NEW ms, NEW blobs, NEW view, PathsPass(ms, blobs, view)
  PROVE  /\ Paths(ItemsIn(blobs)) = {NamedAs(ms, e) : e \in Contents(ms)}
         /\ {Front(g.path) : g \in blobs \ ItemsIn(blobs)} = {NamedAs(ms, d) : d \in EmptyOf(ms)}
<1>1. /\ view \subseteq blobs
      /\ \A g \in blobs : \E v \in view : v.path = g.path
      /\ Paths(ItemsIn(view)) = {NamedAs(ms, e) : e \in Contents(ms)}
      /\ {Front(g.path) : g \in view \ ItemsIn(view)} = {NamedAs(ms, d) : d \in EmptyOf(ms)}
  BY DEF PathsPass
<1>2. Paths(ItemsIn(blobs)) = Paths(ItemsIn(view))
  BY <1>1 DEF Paths, ItemsIn
<1>3. {Front(g.path) : g \in blobs \ ItemsIn(blobs)} = {Front(g.path) : g \in view \ ItemsIn(view)}
  BY <1>1 DEF ItemsIn
<1> QED
  BY <1>1, <1>2, <1>3

(* The report of the one archive is that of swhap inspect. *)
Told == phase # "inspect" /\ Len(recipe) = 1 /\ recipe[1].packed =>
          reports[1] = InspectArchive(recipe[1])

LEMMA ToldInductive ==
  ASSUME ReleaseInv, Told, [Next]_vars
  PROVE  Told'
<1>1. CASE InspectSources
  <2>1. SUFFICES ASSUME (Len(recipe) = 1 /\ recipe[1].packed)'
                 PROVE  (reports[1])' = InspectArchive(recipe[1])'
    BY DEF Told
  <2>2. recipe' = recipe /\ Len(recipe) = 1 /\ recipe[1].packed
    BY <1>1, <2>1 DEF InspectSources
  <2>3. DOMAIN recipe = 1..Len(recipe) /\ Len(recipe) = 1 /\ recipe[1].packed
    BY <2>2, RecipeIs DEF ReleaseInv, Rooted
  <2>4. 1..1 = {1}
    OBVIOUS
  <2>5. DOMAIN recipe = {1} /\ Archives = DOMAIN recipe
    BY <2>3, <2>4 DEF Archives
  <2>6. reports' = [i \in DOMAIN recipe |-> InspectArchive(recipe[i])]
    BY <1>1, <2>5 DEF InspectSources
  <2> QED
    BY <2>2, <2>5, <2>6
<1>2. CASE UNCHANGED <<recipe, reports>> /\ phase # "inspect"
  BY <1>2 DEF Told
<1>3. CASE UNCHANGED vars
  BY <1>3 DEF Told, vars
<1>4. Extract \/ ReadTree \/ WriteTree \/ Check => UNCHANGED <<recipe, reports>> /\ phase # "inspect"
  BY DEF Extract, ReadTree, WriteTree, Check
<1> QED
  BY <1>1, <1>2, <1>3, <1>4 DEF Next

LEMMA InvIsForeseen ==
  ASSUME ReleaseInv, Merged(recipe, taken, tree), Why, Told
  PROVE  InspectForesees
<1> DEFINE ms == Members
           w == DetectWrapper(ms)
           marks == {g \in objects : Last(g.path) = Marker}
<1>1. SUFFICES ASSUME phase = "done", Accounted, findings = {}
               PROVE  Announced <=>
                        IF Dotted = {}
                          THEN SingleTop(Archive) => Cardinality(DOMAIN Archive) > 1
                          ELSE Dotted = PathsOf(ms) /\ DOMAIN Archive # {} /\ ~SingleTop(Archive)
  BY DEF InspectForesees
<1>2. Certified
  BY <1>1 DEF Accounted
<1>3. PlainlyListed(ms) /\ WrapperAgreed(ms, recipe[1].strip)
  BY <1>1, InvIsOrdinary DEF GreenIsOrdinary
<1>4. Sound(ms)
  <2>1. Len(recipe) = 1 /\ recipe[1].packed /\ DOMAIN recipe = 1..Len(recipe)
    BY <1>2, RecipeIs DEF Certified, ReleaseInv, Rooted
  <2> QED
    BY <1>1, <2>1, SourcesAreTrees DEF Members
<1>5. Hardless(ms) /\ Shaped(ms) /\ DOMAIN ms # {}
  BY <1>3, <1>4, AgreedIsShape
<1>6. reports[1].wrapper = w /\ reports[1].emptyDirs = EmptyDirs(ms)
  BY <1>1, <1>2 DEF Told, Certified, InspectArchive, Members
<1>7. PICK view \in Views(objects), man \in Loaded(Manifest(ms)) : TF(view, man) = {}
  BY <1>1, <1>2 DEF ReleaseInv, Walked
<1>8. PathsPass(ms, objects, view)
  <2>1. Shown(ms)
    BY <1>1, <1>4, AccountedIsShown DEF ReleaseInv, Walked, Listings
  <2> QED
    BY <1>7, <2>1, NoFindingIs DEF ReleaseInv, Listings
<1>9. /\ Paths(ItemsIn(objects)) = {NamedAs(ms, e) : e \in Contents(ms)}
      /\ {Front(g.path) : g \in objects \ ItemsIn(objects)} = {NamedAs(ms, d) : d \in EmptyOf(ms)}
  BY <1>8, PassedPaths
<1>10. objects \ marks = ItemsIn(objects) /\ marks = objects \ ItemsIn(objects)
  BY DEF ItemsIn
<1>11. DOMAIN ms \ OfKind(ms, {"dir"}) = Contents(ms)
  <2>1. \A e \in DOMAIN ms : e \in Contents(ms) <=> ms[e].kind # "dir"
    BY <1>4, <1>5, HardlessIs
  <2>2. Contents(ms) \subseteq DOMAIN ms
    BY DEF Contents, OfKind
  <2>3. OfKind(ms, {"dir"}) = {e \in DOMAIN ms : ms[e].kind = "dir"}
    BY DEF OfKind
  <2> QED
    BY <2>1, <2>2, <2>3
<1>12. Announced <=>
         /\ {Shorn(w, ms[e].path) : e \in DOMAIN ms \ OfKind(ms, {"dir"})} = Paths(objects \ marks)
         /\ {Shorn(w, d) : d \in EmptyDirs(ms)} = {Front(g.path) : g \in marks}
  BY <1>6 DEF Announced, Shorn
<1> HIDE DEF marks
<1>13. Announced <=> Foretold(ms, w)
  BY <1>9, <1>10, <1>11, <1>12 DEF Foretold
<1>14. Dotted = {p \in PathsOf(ms) : p[1] = "."} /\ PathsOf(ms) = {ms[e].path : e \in DOMAIN ms}
  BY DEF Dotted, PathsOf
<1>15. Dotted = {} <=> \A e \in DOMAIN ms : ~IsDotted(ms, e)
  BY <1>14 DEF IsDotted
<1>16. Dotted = PathsOf(ms) <=> \A e \in DOMAIN ms : IsDotted(ms, e)
  BY <1>14 DEF IsDotted
<1> DEFINE T == TreeOf(ms)
<1>17. Foretold(ms, w) <=>
         IF \A e \in DOMAIN ms : ~IsDotted(ms, e)
           THEN SingleTop(T) => Cardinality(DOMAIN T) > 1
           ELSE /\ \A e \in DOMAIN ms : IsDotted(ms, e)
                /\ DOMAIN T # {} /\ ~SingleTop(T)
  BY <1>4, <1>5, ForetoldDecided
<1>18. Archive = T
  BY DEF Archive
<1> HIDE DEF T
<1> QED
  BY <1>13, <1>15, <1>16, <1>17, <1>18

(* When a release has passed, what swhap inspect said of its archive is    *)
(* what the git tree has, but for an archive that is one empty directory   *)
(* and for names with a leading "./" when not all have one or when a real  *)
(* wrapper follows (InspectForesees).                                      *)
THEOREM ForesightIsExact == Spec => []InspectForesees
<1> DEFINE I == ReleaseInv /\ Merged(recipe, taken, tree) /\ Why
<1>1. Init => Told
  BY DEF Init, Told
<1>2. I /\ Told /\ [Next]_vars => Told'
  BY ToldInductive
<1>3. I /\ Told => InspectForesees
  BY InvIsForeseen
<1>4. Spec => []I
  BY ReleaseFails
<1> HIDE DEF I
<1> QED
  BY <1>1, <1>2, <1>3, <1>4, PTL DEF Spec

=============================================================================
