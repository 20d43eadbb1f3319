----------------------------- MODULE VhcsvProofs -----------------------------
(***************************************************************************)
(* Proofs about Vhcsv, for any files, any table of dates and any folding.  *)
(***************************************************************************)
EXTENDS Vhcsv, FiniteSetTheorems, SequenceTheorems, WellFoundedInduction, TLAPS

-----------------------------------------------------------------------------
(* Dates *)

Precision == Form \cup {"none"}
DateError == {"none", "CSV-TZ", "CSV-DATE", "undated"}
Moment == [error : DateError, epoch : Int, offset : Int, precision : Precision]

LEMMA WallClockType ==
  ASSUME NEW y \in Int, NEW m \in 1..12, NEW d \in Int, NEW h \in Int, NEW mi \in Int
  PROVE  WallClock(y, m, d, h, mi) \in Int
<1>1. \A z \in Int, k \in 1..12 : DaysBefore(z, k) \in Int
  BY DEF DaysBefore
<1>2. ASSUME NEW z \in Int, NEW k \in 1..12, NEW e \in Int
      PROVE  Ordinal(z, k, e) \in Int
  <2>1. DaysBefore(z, k) \in Int
    BY <1>1
  <2>2. 365 * (z - 1) \in Int /\ (z - 1) \div 4 \in Int /\ (z - 1) \div 100 \in Int
        /\ (z - 1) \div 400 \in Int
    OBVIOUS
  <2> QED
    BY <2>1, <2>2 DEF Ordinal
<1>3. Ordinal(y, m, d) \in Int /\ Ordinal(1970, 1, 1) \in Int
  <2>1. \A z \in Int, k \in 1..12, e \in Int : Ordinal(z, k, e) \in Int
    BY <1>2
  <2>2. Ordinal(y, m, d) \in Int
    BY <2>1
  <2>3. Ordinal(1970, 1, 1) \in Int
    BY <2>1
  <2> QED
    BY <2>2, <2>3
<1> QED
  BY <1>3 DEF WallClock

LEMMA OffsetType ==
  \A l \in Literal : OffsetOf(l.zone) \in Int
<1>1. \A l \in Literal : l.zone.hours \in Nat /\ l.zone.minutes \in Nat
  BY DEF Literal
<1> QED
  BY <1>1 DEF OffsetOf

LEMMA InstantType ==
  ASSUME NEW l \in Literal, NEW offset \in Int, IsDay(l.year, l.month, l.day)
  PROVE  Instant(l, offset) \in Int
<1>1. l.year \in Int /\ l.month \in 1..12 /\ l.day \in Int /\ l.hour \in Int /\ l.minute \in Int
  <2>1. /\ l.year \in Nat /\ l.month \in Nat /\ l.day \in Nat
        /\ l.hour \in Nat /\ l.minute \in Nat
    BY ZenonT(60) DEF Literal
  <2>2. l.month \in 1..12
    BY DEF IsDay
  <2> QED
    BY <2>1, <2>2
<1>2. WallClock(l.year, l.month, l.day, l.hour, l.minute) \in Int
  BY <1>1, WallClockType
<1> QED
  BY <1>2 DEF Instant

LEMMA MomentTypes ==
  /\ \A e \in Int, o \in Int, p \in Precision :
       Parsed(e, o, p) \in Moment /\ Parsed(e, o, p).error = "none" /\ Parsed(e, o, p).epoch = e
  /\ \A code \in DateError : Error(code) \in Moment /\ Error(code).error = code
BY DEF Parsed, Error, Moment, Precision, DateError

LEMMA ParseType ==
  ASSUME NEW l \in Literal
  PROVE  ParseDate(l) \in Moment
<1>1. l.form \in Precision
  BY DEF Literal, Precision
<1>2. CASE IsDay(l.year, l.month, l.day)
  <2>1. Instant(l, OffsetOf(l.zone)) \in Int
    BY <1>2, InstantType, OffsetType
  <2>2. Parsed(Instant(l, OffsetOf(l.zone)), OffsetOf(l.zone), l.form) \in Moment
    BY <1>1, <2>1, OffsetType, MomentTypes
  <2> QED
    BY <2>2, MomentTypes DEF ParseDate, DateError
<1>3. CASE ~IsDay(l.year, l.month, l.day)
  BY <1>3, MomentTypes DEF ParseDate, DateError
<1> QED
  BY <1>2, <1>3

LEMMA SlashType ==
  ASSUME NEW l \in Literal
  PROVE  SlashReading(l) \in Literal
BY DEF SlashReading, Literal

LEMMA ConvertType ==
  ASSUME NEW l \in Literal
  PROVE  ConvertLegacyDate(l) \in Moment
<1>1. CASE l.form \in {"slash", "slash timed", "naive"}
  <2> DEFINE r == IF l.form = "naive" THEN l ELSE SlashReading(l)
  <2>1. r \in Literal
    BY SlashType
  <2>2. ASSUME IsDay(r.year, r.month, r.day)
        PROVE  \A p \in Precision : Parsed(Instant(r, 0), 0, p) \in Moment
    <3> HIDE DEF r
    <3> QED
      BY <2>1, <2>2, InstantType, MomentTypes
  <2>3. ConvertLegacyDate(l) =
          IF IsDay(r.year, r.month, r.day) /\ IsTime(r.hour, r.minute)
          THEN Parsed(Instant(r, 0), 0, IF l.form = "slash" THEN "day" ELSE "second")
          ELSE Error("undated")
    BY <1>1 DEF ConvertLegacyDate
  <2>4. {"day", "second"} \subseteq Precision /\ "undated" \in DateError
    BY DEF Precision, Form, DateError
  <2> HIDE DEF r
  <2> QED
    BY <2>2, <2>3, <2>4, MomentTypes
<1>2. CASE l.form \notin {"slash", "slash timed", "naive"}
  BY <1>2, ParseType, MomentTypes DEF ConvertLegacyDate, DateError
<1> QED
  BY <1>1, <1>2

LEMMA DateLiteralType ==
  ASSUME NEW v \in Seq(Char)
  PROVE  DateLiteral(v) \in Literal
<1>1. NotADate \in Literal
  BY DEF NotADate, Literal, Form, NoZone, Zone
<1> QED
  BY <1>1, DatesAreLiterals DEF DateLiteral

-----------------------------------------------------------------------------
(* The locals of the tokenizer *)

Text == Seq(Char)

FieldRead == [value : Text, quoted : BOOLEAN, newline : BOOLEAN]

Locals ==
  [cur : Seq(FieldRead), val : Text, inQuotes : BOOLEAN, quoted : BOOLEAN,
   newline : BOOLEAN, started : BOOLEAN, expectSep : BOOLEAN,
   records : Seq(Seq(FieldRead)), errors : SUBSET Nat]

ScanOK(s) ==
  /\ s \in Locals
  /\ \A n \in 1..Len(s.records) : s.records[n] # <<>>
  /\ s.errors \subseteq 1..(Len(s.records) + 1)

FieldOf(s) == [value |-> s.val, quoted |-> s.quoted, newline |-> s.newline]

LEMMA FieldOfType ==
  ASSUME NEW s \in Locals
  PROVE  FieldOf(s) \in FieldRead
BY DEF FieldOf, FieldRead, Locals

LEMMA LocalsAre ==
  ASSUME NEW s \in Locals
  PROVE  /\ s.cur \in Seq(FieldRead) /\ s.val \in Text /\ s.records \in Seq(Seq(FieldRead))
         /\ s.errors \subseteq Nat /\ s.inQuotes \in BOOLEAN /\ s.quoted \in BOOLEAN
         /\ s.newline \in BOOLEAN /\ s.started \in BOOLEAN /\ s.expectSep \in BOOLEAN
         /\ Len(s.records) \in Nat /\ Len(s.cur) \in Nat /\ Len(s.val) \in Nat
BY DEF Locals, Text

LEMMA EndFieldIs ==
  ASSUME NEW s \in Locals
  PROVE  LET e == EndField(s) IN
         /\ e \in Locals
         /\ e.cur = Append(s.cur, FieldOf(s)) /\ e.val = <<>> /\ e.inQuotes = s.inQuotes
         /\ e.quoted = FALSE /\ e.newline = FALSE /\ e.started = s.started
         /\ e.expectSep = FALSE /\ e.records = s.records /\ e.errors = s.errors
<1> DEFINE c == Append(s.cur, FieldOf(s))
           e == [s EXCEPT !.cur = c, !.val = <<>>, !.quoted = FALSE,
                          !.newline = FALSE, !.expectSep = FALSE]
<1>1. EndField(s) = e
  BY DEF EndField, FieldOf
<1>2. c \in Seq(FieldRead) /\ <<>> \in Text
  BY FieldOfType, LocalsAre DEF Text
<1> HIDE DEF c
<1>3. /\ e \in Locals
      /\ e.cur = c /\ e.val = <<>> /\ e.inQuotes = s.inQuotes
      /\ e.quoted = FALSE /\ e.newline = FALSE /\ e.started = s.started
      /\ e.expectSep = FALSE /\ e.records = s.records /\ e.errors = s.errors
  BY <1>2 DEF Locals
<1> HIDE DEF e
<1> QED
  BY <1>1, <1>3 DEF c

LEMMA EmitRecordIs ==
  ASSUME NEW s \in Locals
  PROVE  LET e == EmitRecord(s) IN
         /\ e \in Locals
         /\ e.cur = <<>> /\ e.val = s.val /\ e.inQuotes = s.inQuotes
         /\ e.quoted = s.quoted /\ e.newline = s.newline /\ e.started = FALSE
         /\ e.expectSep = s.expectSep /\ e.records = Append(s.records, s.cur)
         /\ e.errors = s.errors
<1> DEFINE c == Append(s.records, s.cur)
           e == [s EXCEPT !.records = c, !.cur = <<>>, !.started = FALSE]
<1>1. EmitRecord(s) = e
  BY DEF EmitRecord
<1>2. c \in Seq(Seq(FieldRead)) /\ <<>> \in Seq(FieldRead)
  BY LocalsAre
<1> HIDE DEF c
<1>3. /\ e \in Locals
      /\ e.cur = <<>> /\ e.val = s.val /\ e.inQuotes = s.inQuotes
      /\ e.quoted = s.quoted /\ e.newline = s.newline /\ e.started = FALSE
      /\ e.expectSep = s.expectSep /\ e.records = c /\ e.errors = s.errors
  BY <1>2 DEF Locals
<1> HIDE DEF e
<1> QED
  BY <1>1, <1>3 DEF c

LEMMA ErrIs ==
  ASSUME NEW s \in Locals
  PROVE  LET e == Err(s) IN
         /\ e \in Locals
         /\ e.cur = s.cur /\ e.val = s.val /\ e.inQuotes = s.inQuotes
         /\ e.quoted = s.quoted /\ e.newline = s.newline /\ e.started = s.started
         /\ e.expectSep = s.expectSep /\ e.records = s.records
         /\ e.errors = s.errors \cup {Len(s.records) + 1}
<1> DEFINE c == s.errors \cup {Len(s.records) + 1}
           e == [s EXCEPT !.errors = c]
<1>1. Err(s) = e
  BY DEF Err
<1>2. c \in SUBSET Nat
  BY LocalsAre
<1> HIDE DEF c
<1>3. /\ e \in Locals
      /\ e.cur = s.cur /\ e.val = s.val /\ e.inQuotes = s.inQuotes
      /\ e.quoted = s.quoted /\ e.newline = s.newline /\ e.started = s.started
      /\ e.expectSep = s.expectSep /\ e.records = s.records /\ e.errors = c
  BY <1>2 DEF Locals
<1> HIDE DEF e
<1> QED
  BY <1>1, <1>3 DEF c

LEMMA EndFieldType ==
  ASSUME NEW s, ScanOK(s)
  PROVE  ScanOK(EndField(s)) /\ EndField(s).cur # <<>>
<1>0. s \in Locals
  BY DEF ScanOK
<1> DEFINE c == Append(s.cur, FieldOf(s))
           e == EndField(s)
<1>1. c # <<>>
  BY <1>0, FieldOfType, LocalsAre
<1>2. e \in Locals /\ e.cur = c /\ e.records = s.records /\ e.errors = s.errors
  BY <1>0, EndFieldIs
<1> HIDE DEF c, e
<1>3. ScanOK(e) /\ e.cur # <<>>
  BY <1>1, <1>2 DEF ScanOK
<1> QED
  BY <1>3 DEF e

LEMMA EmitRecordType ==
  ASSUME NEW s, ScanOK(s), s.cur # <<>>
  PROVE  ScanOK(EmitRecord(s)) /\ Len(EmitRecord(s).records) = Len(s.records) + 1
<1>0. s \in Locals
  BY DEF ScanOK
<1> DEFINE c == Append(s.records, s.cur)
<1>2. /\ Len(c) = Len(s.records) + 1 /\ Len(s.records) \in Nat
      /\ \A n \in 1..Len(s.records) : c[n] = s.records[n]
      /\ c[Len(s.records) + 1] = s.cur
  BY <1>0, LocalsAre
<1>3. \A n \in 1..Len(c) : c[n] # <<>>
  BY <1>2 DEF ScanOK
<1>4. EmitRecord(s).records = c /\ EmitRecord(s) \in Locals /\ EmitRecord(s).errors = s.errors
  BY <1>0, EmitRecordIs
<1> HIDE DEF c
<1>6. s.errors \subseteq 1..(Len(c) + 1)
  BY <1>2 DEF ScanOK
<1> QED
  BY <1>2, <1>3, <1>4, <1>6 DEF ScanOK

LEMMA ErrType ==
  ASSUME NEW s, ScanOK(s)
  PROVE  ScanOK(Err(s)) /\ Err(s).cur = s.cur
<1>0. s \in Locals /\ Len(s.records) \in Nat
  BY LocalsAre DEF ScanOK
<1>1. s.errors \cup {Len(s.records) + 1} \subseteq 1..(Len(s.records) + 1)
  BY <1>0, LocalsAre DEF ScanOK
<1> QED
  BY <1>0, <1>1, ErrIs DEF ScanOK

(* What the turns of the loop that neither end a field nor a record make   *)
(* of the locals.                                                          *)
LEMMA AppendIs ==
  ASSUME NEW s \in Locals, NEW c \in Char
  PROVE  LET e == [s EXCEPT !.val = Append(@, c)] IN
         /\ e \in Locals
         /\ e.cur = s.cur /\ e.val = Append(s.val, c) /\ e.inQuotes = s.inQuotes
         /\ e.quoted = s.quoted /\ e.newline = s.newline /\ e.started = s.started
         /\ e.expectSep = s.expectSep /\ e.records = s.records /\ e.errors = s.errors
<1> DEFINE v == Append(s.val, c)
           e == [s EXCEPT !.val = v]
<1>1. v \in Text
  BY LocalsAre DEF Text
<1> HIDE DEF v
<1>2. /\ e \in Locals
      /\ e.cur = s.cur /\ e.val = v /\ e.inQuotes = s.inQuotes
      /\ e.quoted = s.quoted /\ e.newline = s.newline /\ e.started = s.started
      /\ e.expectSep = s.expectSep /\ e.records = s.records /\ e.errors = s.errors
  BY <1>1 DEF Locals
<1>3. [s EXCEPT !.val = Append(@, c)] = e
  BY DEF v
<1> HIDE DEF e
<1> QED
  BY <1>2, <1>3 DEF v

LEMMA OpenIs ==
  ASSUME NEW s \in Locals
  PROVE  LET e == [s EXCEPT !.inQuotes = TRUE, !.quoted = TRUE, !.started = TRUE] IN
         /\ e \in Locals
         /\ e.cur = s.cur /\ e.val = s.val /\ e.inQuotes = TRUE
         /\ e.quoted = TRUE /\ e.newline = s.newline /\ e.started = TRUE
         /\ e.expectSep = s.expectSep /\ e.records = s.records /\ e.errors = s.errors
BY DEF Locals

LEMMA CloseIs ==
  ASSUME NEW s \in Locals
  PROVE  LET e == [s EXCEPT !.inQuotes = FALSE, !.expectSep = TRUE] IN
         /\ e \in Locals
         /\ e.cur = s.cur /\ e.val = s.val /\ e.inQuotes = FALSE
         /\ e.quoted = s.quoted /\ e.newline = s.newline /\ e.started = s.started
         /\ e.expectSep = TRUE /\ e.records = s.records /\ e.errors = s.errors
BY DEF Locals

LEMMA StartIs ==
  ASSUME NEW s \in Locals
  PROVE  LET e == [s EXCEPT !.started = TRUE] IN
         /\ e \in Locals
         /\ e.cur = s.cur /\ e.val = s.val /\ e.inQuotes = s.inQuotes
         /\ e.quoted = s.quoted /\ e.newline = s.newline /\ e.started = TRUE
         /\ e.expectSep = s.expectSep /\ e.records = s.records /\ e.errors = s.errors
BY DEF Locals

LEMMA BreakIs ==
  ASSUME NEW s \in Locals, NEW c \in Char
  PROVE  LET e == [s EXCEPT !.newline = TRUE, !.val = Append(@, c)] IN
         /\ e \in Locals
         /\ e.cur = s.cur /\ e.val = Append(s.val, c) /\ e.inQuotes = s.inQuotes
         /\ e.quoted = s.quoted /\ e.newline = TRUE /\ e.started = s.started
         /\ e.expectSep = s.expectSep /\ e.records = s.records /\ e.errors = s.errors
<1> DEFINE v == Append(s.val, c)
           e == [s EXCEPT !.newline = TRUE, !.val = v]
<1>1. v \in Text
  BY LocalsAre DEF Text
<1> HIDE DEF v
<1>2. /\ e \in Locals
      /\ e.cur = s.cur /\ e.val = v /\ e.inQuotes = s.inQuotes
      /\ e.quoted = s.quoted /\ e.newline = TRUE /\ e.started = s.started
      /\ e.expectSep = s.expectSep /\ e.records = s.records /\ e.errors = s.errors
  BY <1>1 DEF Locals
<1>3. [s EXCEPT !.newline = TRUE, !.val = Append(@, c)] = e
  BY DEF v
<1> HIDE DEF e
<1> QED
  BY <1>2, <1>3 DEF v

LEMMA PutIs ==
  ASSUME NEW s \in Locals, NEW c \in Char
  PROVE  LET e == [s EXCEPT !.started = TRUE, !.val = Append(@, c)] IN
         /\ e \in Locals
         /\ e.cur = s.cur /\ e.val = Append(s.val, c) /\ e.inQuotes = s.inQuotes
         /\ e.quoted = s.quoted /\ e.newline = s.newline /\ e.started = TRUE
         /\ e.expectSep = s.expectSep /\ e.records = s.records /\ e.errors = s.errors
<1> DEFINE v == Append(s.val, c)
           e == [s EXCEPT !.started = TRUE, !.val = v]
<1>1. v \in Text
  BY LocalsAre DEF Text
<1> HIDE DEF v
<1>2. /\ e \in Locals
      /\ e.cur = s.cur /\ e.val = v /\ e.inQuotes = s.inQuotes
      /\ e.quoted = s.quoted /\ e.newline = s.newline /\ e.started = TRUE
      /\ e.expectSep = s.expectSep /\ e.records = s.records /\ e.errors = s.errors
  BY <1>1 DEF Locals
<1>3. [s EXCEPT !.started = TRUE, !.val = Append(@, c)] = e
  BY DEF v
<1> HIDE DEF e
<1> QED
  BY <1>2, <1>3 DEF v

LEMMA PutAfterQuoteIs ==
  ASSUME NEW s \in Locals, NEW c \in Char
  PROVE  LET e == [s EXCEPT !.expectSep = FALSE, !.val = Append(@, c)] IN
         /\ e \in Locals
         /\ e.cur = s.cur /\ e.val = Append(s.val, c) /\ e.inQuotes = s.inQuotes
         /\ e.quoted = s.quoted /\ e.newline = s.newline /\ e.started = s.started
         /\ e.expectSep = FALSE /\ e.records = s.records /\ e.errors = s.errors
<1> DEFINE v == Append(s.val, c)
           e == [s EXCEPT !.expectSep = FALSE, !.val = v]
<1>1. v \in Text
  BY LocalsAre DEF Text
<1> HIDE DEF v
<1>2. /\ e \in Locals
      /\ e.cur = s.cur /\ e.val = v /\ e.inQuotes = s.inQuotes
      /\ e.quoted = s.quoted /\ e.newline = s.newline /\ e.started = s.started
      /\ e.expectSep = FALSE /\ e.records = s.records /\ e.errors = s.errors
  BY <1>1 DEF Locals
<1>3. [s EXCEPT !.expectSep = FALSE, !.val = Append(@, c)] = e
  BY DEF v
<1> HIDE DEF e
<1> QED
  BY <1>2, <1>3 DEF v

(* A change that leaves the records and the errors alone.                  *)
LEMMA SameRecords ==
  ASSUME NEW s, NEW e \in Locals, ScanOK(s), e.records = s.records, e.errors = s.errors
  PROVE  ScanOK(e)
BY DEF ScanOK

-----------------------------------------------------------------------------
(* Induction *)

LEMMA FirstExists ==
  ASSUME NEW S \in SUBSET Nat, S # {}
  PROVE  \E n \in S : \A m \in S : n <= m
<1> DEFINE R == OpToRel(<, Nat)
<1>1. R = {p \in Nat \X Nat : p[1] < p[2]}
  BY DEF OpToRel
<1>2. PICK n \in S : \A m \in S : <<m, n>> \notin R
  BY NatLessThanWellFounded, WFMin
<1>3. \A m \in S : m \in Nat /\ n \in Nat /\ ~(m < n)
  BY <1>1, <1>2
<1> QED
  BY <1>3

(* A set of numbers that has 0 and the successor of each of its members    *)
(* below n has all of them.                                                *)
LEMMA Upwards ==
  ASSUME NEW n \in Nat, NEW S, 0 \in S, \A k \in 0..(n - 1) : k \in S => k + 1 \in S
  PROVE  \A k \in 0..n : k \in S
<1> DEFINE B == {k \in 0..n : k \notin S}
<1>1. SUFFICES ASSUME B # {} PROVE FALSE
  OBVIOUS
<1>2. B \in SUBSET Nat
  OBVIOUS
<1>3. PICK k \in B : \A m \in B : k <= m
  BY <1>1, <1>2, FirstExists
<1>4. k # 0 /\ k \in Nat /\ k <= n
  BY <1>3
<1>5. k - 1 \in 0..(n - 1) /\ (k - 1) + 1 = k /\ k - 1 \notin B
  BY <1>3, <1>4
<1> QED
  BY <1>3, <1>5

LEMMA LeastExists ==
  ASSUME NEW n \in Nat, NEW S \in SUBSET (1..n), S # {}
  PROVE  /\ Min(S) \in S /\ \A k \in S : Min(S) <= k
         /\ Max(S) \in S /\ \A k \in S : k <= Max(S)
<1>1. \E k \in S : \A m \in S : k <= m
  BY FirstExists
<1>2. \E k \in S : \A m \in S : k >= m
  <2> DEFINE T == {n - k : k \in S}
  <2>1. T \in SUBSET Nat /\ T # {}
    <3>1. \A k \in S : k \in 1..n
      OBVIOUS
    <3>2. \A k \in S : n - k \in Nat
      BY <3>1
    <3> QED
      BY <3>2
  <2>2. PICK t \in T : \A m \in T : t <= m
    BY <2>1, FirstExists
  <2>3. PICK k \in S : t = n - k
    BY <2>2
  <2>4. \A m \in S : n - k <= n - m
    BY <2>2, <2>3
  <2>5. \A m \in S : k >= m
    BY <2>4
  <2> QED
    BY <2>5
<1> QED
  BY <1>1, <1>2 DEF Min, Max

-----------------------------------------------------------------------------
(* What is written is a text *)

IsFlattening(f, s) == f = [k \in 1..Len(s) |-> IF k = 1 THEN s[k] ELSE f[k - 1] \o s[k]]

LEMMA FlatteningExists ==
  ASSUME NEW S, NEW s \in Seq(Seq(S))
  PROVE  \E f : IsFlattening(f, s)
<1> DEFINE Flat(f, n) == /\ f \in [1..n -> Seq(S)]
                         /\ \A k \in 1..n : f[k] = IF k = 1 THEN s[k] ELSE f[k - 1] \o s[k]
           G == {n \in Nat : \E f : Flat(f, n)}
<1>1. 0 \in G
  <2>1. Flat([k \in 1..0 |-> <<>>], 0)
    OBVIOUS
  <2> QED
    BY <2>1
<1>2. ASSUME NEW n \in 0..(Len(s) - 1), n \in G
      PROVE  n + 1 \in G
  <2>1. PICK g : Flat(g, n)
    BY <1>2
  <2> DEFINE top == IF n = 0 THEN s[1] ELSE g[n] \o s[n + 1]
             h == [k \in 1..(n + 1) |-> IF k = n + 1 THEN top ELSE g[k]]
  <2>2. n \in Nat /\ n + 1 \in 1..Len(s) /\ s[n + 1] \in Seq(S)
    <3>1. n \in Nat /\ n + 1 \in 1..Len(s)
      OBVIOUS
    <3> QED
      BY <3>1, ElementOfSeq
  <2>3. top \in Seq(S)
    <3>1. CASE n = 0
      BY <3>1, <2>2
    <3>2. CASE n # 0
      <4>1. g[n] \in Seq(S)
        BY <2>1, <2>2, <3>2
      <4> QED
        BY <2>2, <3>2, <4>1
    <3> QED
      BY <3>1, <3>2
  <2>4. top = IF n + 1 = 1 THEN s[n + 1] ELSE g[n] \o s[n + 1]
    BY <2>2
  <2> HIDE DEF top
  <2>5. h \in [1..(n + 1) -> Seq(S)]
    BY <2>1, <2>2, <2>3
  <2>6. ASSUME NEW k \in 1..(n + 1)
        PROVE  h[k] = IF k = 1 THEN s[k] ELSE h[k - 1] \o s[k]
    <3>1. CASE k = n + 1
      <4>1. k # 1 => h[k - 1] = g[n]
        BY <2>2, <3>1
      <4> QED
        BY <2>2, <2>4, <3>1, <4>1
    <3>2. CASE k # n + 1
      <4>1. k \in 1..n /\ h[k] = g[k]
        BY <2>2, <3>2
      <4>2. k # 1 => k - 1 \in 1..n /\ h[k - 1] = g[k - 1]
        BY <2>2, <4>1
      <4> QED
        BY <2>1, <4>1, <4>2
    <3> QED
      BY <3>1, <3>2
  <2>7. Flat(h, n + 1)
    BY <2>5, <2>6
  <2>8. \E f : Flat(f, n + 1)
    BY <2>7
  <2>9. n + 1 \in Nat
    BY <2>2
  <2> QED
    BY <2>8, <2>9
<1>3. Len(s) \in Nat
  OBVIOUS
<1>4. Len(s) \in G
  <2> HIDE DEF G
  <2>1. \A k \in 0..(Len(s) - 1) : k \in G => k + 1 \in G
    BY <1>2
  <2>2. \A k \in 0..Len(s) : k \in G
    BY <1>1, <1>3, <2>1, Upwards
  <2> QED
    BY <1>3, <2>2
<1>5. PICK f : Flat(f, Len(s))
  BY <1>4
<1>6. IsFlattening(f, s)
  BY <1>5 DEF IsFlattening
<1> QED
  BY <1>6

LEMMA FlattenType ==
  ASSUME NEW S, NEW s \in Seq(Seq(S))
  PROVE  FlattenSeq(s) \in Seq(S)
<1>1. CASE Len(s) = 0
  BY <1>1 DEF FlattenSeq
<1>2. CASE Len(s) # 0
  <2> DEFINE f == CHOOSE g : IsFlattening(g, s)
             G == {0} \cup {n \in 1..Len(s) : f[n] \in Seq(S)}
  <2>1. FlattenSeq(s) = f[Len(s)]
    BY <1>2 DEF FlattenSeq, IsFlattening
  <2>2. IsFlattening(f, s)
    BY FlatteningExists, SMTT(40)
  <2>3. \A k \in 1..Len(s) : f[k] = IF k = 1 THEN s[k] ELSE f[k - 1] \o s[k]
    BY <2>2 DEF IsFlattening
  <2> HIDE DEF f
  <2>4. Len(s) \in Nat
    OBVIOUS
  <2>5. ASSUME NEW n \in 0..(Len(s) - 1), n \in G
        PROVE  n + 1 \in G
    <3>1. n + 1 \in 1..Len(s) /\ n \in Nat
      BY <2>4
    <3>2. s[n + 1] \in Seq(S)
      BY <3>1, ElementOfSeq
    <3>3. CASE n = 0
      BY <2>3, <3>1, <3>2, <3>3
    <3>4. CASE n # 0
      <4>0. f[n] \in Seq(S)
        BY <2>5, <3>4
      <4>a. n + 1 # 1 /\ (n + 1) - 1 = n
        BY <3>1, <3>4
      <4>b. f[n + 1] = IF n + 1 = 1 THEN s[n + 1] ELSE f[(n + 1) - 1] \o s[n + 1]
        BY <2>3, <3>1
      <4>1. f[n] \in Seq(S) /\ f[n + 1] = f[n] \o s[n + 1]
        BY <4>0, <4>a, <4>b
      <4>2. f[n + 1] \in Seq(S)
        BY <3>2, <4>1
      <4> QED
        BY <3>1, <4>2
    <3> QED
      BY <3>3, <3>4
  <2>6. Len(s) \in G
    <3>1. 0 \in G
      OBVIOUS
    <3> HIDE DEF G
    <3>2. \A k \in 0..(Len(s) - 1) : k \in G => k + 1 \in G
      BY <2>5
    <3>3. \A k \in 0..Len(s) : k \in G
      BY <2>4, <3>1, <3>2, Upwards
    <3> QED
      BY <2>4, <3>3
  <2> QED
    BY <1>2, <2>1, <2>6
<1> QED
  BY <1>1, <1>2

LEMMA ListsAre ==
  ASSUME NEW S, NEW n \in Nat, NEW f \in [1..n -> S]
  PROVE  f \in Seq(S) /\ Len(f) = n
OBVIOUS

LEMMA AtomsAreChars ==
  Quote \in Char /\ Comma \in Char /\ LF \in Char /\ CR \in Char
BY CharsAreEnough

LEMMA SinglesAreTexts ==
  /\ <<>> \in Text
  /\ \A c \in Char : <<c>> \in Text
  /\ \A c, d \in Char : <<c, d>> \in Text
  /\ \A v, w \in Text : v \o w \in Text
BY DEF Text

LEMMA NFieldsIs ==
  NFields = 5 /\ Validated = {1, 3, 4, 5} /\ Message = 5
BY DEF NFields, Columns, Validated, Message

LEMMA QuotedType ==
  ASSUME NEW v \in Text
  PROVE  Quoted(v) \in Text
<1> DEFINE m == [k \in DOMAIN v |-> IF v[k] = Quote THEN <<Quote, Quote>> ELSE <<v[k]>>]
<1>1. Len(v) \in Nat /\ DOMAIN v = 1..Len(v)
  BY DEF Text
<1>2. \A k \in 1..Len(v) : v[k] \in Char
  BY ElementOfSeq DEF Text
<1>3. \A k \in 1..Len(v) : m[k] \in Text
  BY <1>1, <1>2, AtomsAreChars, SinglesAreTexts
<1>4. m \in [1..Len(v) -> Text]
  BY <1>1, <1>3
<1>5. FlattenSeq(m) \in Text
  BY <1>1, <1>4, ListsAre, FlattenType DEF Text
<1>6. Quoted(v) = IF QuotingNeeded(v) THEN <<Quote>> \o FlattenSeq(m) \o <<Quote>> ELSE v
  BY DEF Quoted
<1> HIDE DEF m
<1>7. <<Quote>> \in Text
  BY AtomsAreChars, SinglesAreTexts
<1>8. <<Quote>> \o FlattenSeq(m) \in Text
  BY <1>5, <1>7, SinglesAreTexts
<1>9. <<Quote>> \o FlattenSeq(m) \o <<Quote>> \in Text
  BY <1>7, <1>8, SinglesAreTexts
<1> QED
  BY <1>6, <1>9

Note == {"tag", "message", "zone", "precision"}

RowRead ==
  [number : Nat, directory : Text, date : Moment, author : Text, tag : Text,
   message : Text, raw : Text, notes : SUBSET Note]

(* The date of a row is one that the table has. *)
Dated(p) ==
  /\ p.error = "none"
  /\ \E w \in DOMAIN Date : p \in {ParseDate(Date[w]), ConvertLegacyDate(Date[w])}

RowOK(r) == r \in RowRead /\ Dated(r.date)

LEMMA DatedIs ==
  ASSUME NEW v \in Text
  PROVE  \A p \in {ParseDate(DateLiteral(v)), ConvertLegacyDate(DateLiteral(v))} :
           p \in Moment /\ (p.error = "none" => Dated(p))
<1>1. DateLiteral(v) \in Literal
  BY DateLiteralType DEF Text
<1>2. /\ ParseDate(DateLiteral(v)) \in Moment
      /\ ConvertLegacyDate(DateLiteral(v)) \in Moment
  BY <1>1, ParseType, ConvertType
<1>3. CASE DateLiteral(v) = NotADate
  <2>1. NotADate.form = "other"
    BY DEF NotADate
  <2>2. ParseDate(NotADate) = Error("CSV-DATE")
    BY <2>1 DEF ParseDate
  <2>3. ParseDate(NotADate).error # "none" /\ ConvertLegacyDate(NotADate) = Error("undated")
    BY <2>1, <2>2, MomentTypes DEF ConvertLegacyDate, DateError
  <2>4. Error("undated").error = "undated"
    BY MomentTypes DEF DateError
  <2> QED
    BY <1>2, <1>3, <2>3, <2>4
<1>4. CASE \E w \in DOMAIN Date : DateLiteral(v) = Date[w]
  <2>1. PICK w \in DOMAIN Date : DateLiteral(v) = Date[w]
    BY <1>4
  <2> QED
    BY <1>2, <2>1 DEF Dated
<1>5. DateLiteral(v) = NotADate \/ \E w \in DOMAIN Date : DateLiteral(v) = Date[w]
  BY DEF DateLiteral
<1> QED
  BY <1>3, <1>4, <1>5

LEMMA SerializedType ==
  ASSUME NEW p, Dated(p)
  PROVE  Serialized(p) \in DOMAIN Date /\ Shows(Date[Serialized(p)], p) /\ Serialized(p) \in Char
<1>1. \E v \in DOMAIN Date : Shows(Date[v], p)
  BY DatesAreClosed DEF Dated
<1>2. Serialized(p) \in DOMAIN Date /\ Shows(Date[Serialized(p)], p)
  BY <1>1 DEF Serialized
<1> QED
  BY <1>2, CharsAreEnough

LEMMA LineType ==
  ASSUME NEW r, RowOK(r)
  PROVE  Line(r) \in Text
<1> DEFINE before(c) == IF c = 1 THEN <<>> ELSE <<Comma>>
           parts == [c \in 1..NFields |-> before(c) \o Quoted(Fields(r)[c])]
<1>1. <<Serialized(r.date)>> \in Text
  BY SerializedType, SinglesAreTexts DEF RowOK
<1>2. r.directory \in Text /\ r.author \in Text /\ r.tag \in Text /\ r.message \in Text
  BY DEF RowOK, RowRead
<1>3. \A c \in 1..5 : Fields(r)[c] \in Text
  BY <1>1, <1>2 DEF Fields
<1>4. \A c \in 1..5 : before(c) \in Text
  BY AtomsAreChars, SinglesAreTexts
<1> HIDE DEF before
<1>5. \A c \in 1..5 : before(c) \o Quoted(Fields(r)[c]) \in Text
  BY <1>3, <1>4, QuotedType, SinglesAreTexts
<1>6. parts \in [1..5 -> Text] /\ 5 \in Nat
  BY <1>5, NFieldsIs
<1>7. FlattenSeq(parts) \in Text
  BY <1>6, ListsAre, FlattenType DEF Text
<1>8. Line(r) = FlattenSeq(parts) \o <<LF>>
  BY DEF Line, before
<1> HIDE DEF parts
<1> QED
  BY <1>7, <1>8, AtomsAreChars, SinglesAreTexts

LEMMA WrittenType ==
  ASSUME NEW R \in Seq(RowRead), \A k \in 1..Len(R) : RowOK(R[k])
  PROVE  Written(R) \in Text
<1> DEFINE lines == [k \in DOMAIN R |-> Line(R[k])]
<1>1. DOMAIN R = 1..Len(R) /\ Len(R) \in Nat
  OBVIOUS
<1>2. \A k \in 1..Len(R) : Line(R[k]) \in Text
  BY LineType
<1>3. lines \in [1..Len(R) -> Text]
  BY <1>1, <1>2
<1>4. FlattenSeq(lines) \in Text
  BY <1>1, <1>3, ListsAre, FlattenType DEF Text
<1>5. Written(R) = FlattenSeq(lines)
  BY DEF Written
<1> QED
  BY <1>4, <1>5

-----------------------------------------------------------------------------
(* The types *)

NumberedUpTo(n) == \A k \in 1..Len(rows) : rows[k].number \in 1..n

DiagsUpTo(n) == \A d \in diags : d.row \in 0..n

TInv ==
  /\ text \in Text
  /\ profile \in {"canonical", "legacy"} /\ reference \in Reference \cup {None}
  /\ pc \in {"head", "scan", "rows", "done", "raised"}
  /\ i \in 1..(Len(text) + 1)
  /\ ScanOK(scan)
  /\ at \in 1..(Len(scan.records) + 1)
  /\ rows \in Seq(RowRead) /\ \A k \in 1..Len(rows) : RowOK(rows[k])
  /\ NumberedUpTo(at - 1)
  /\ DiagsUpTo(Len(scan.records) + 1)
  /\ prev = None \/ prev \in [{1} -> Int]

LEMMA TInvType == TInv => TypeOK
<1> SUFFICES ASSUME TInv PROVE TypeOK
  OBVIOUS
<1>1. scan \in Locals
  BY DEF TInv, ScanOK
<1>2. \A f \in {"inQuotes", "quoted", "newline", "started", "expectSep"} : scan[f] \in BOOLEAN
  BY <1>1, LocalsAre
<1>3. scan.val \in Seq(Char)
  BY <1>1, LocalsAre DEF Text
<1>4. Len(scan.records) \in Nat /\ scan.records \in Seq(Seq(FieldRead))
  BY <1>1, LocalsAre
<1>5. \A r \in ToSet(scan.records) : r # <<>>
  BY <1>4 DEF ToSet, TInv, ScanOK
<1>6. DOMAIN rows = 1..Len(rows) /\ Len(rows) \in Nat
  BY DEF TInv
<1>7. \A k \in DOMAIN rows : rows[k].number < at
  BY <1>4, <1>6 DEF TInv, NumberedUpTo
<1>8. prev = None \/ prev[1] \in Int
  BY DEF TInv
<1>9. scan.errors \subseteq 1..(Len(scan.records) + 1)
  BY DEF TInv, ScanOK
<1> QED
  BY <1>2, <1>3, <1>5, <1>7, <1>8, <1>9 DEF TypeOK, TInv, DiagsUpTo

LEMMA NewScanType == ScanOK(NewScan) /\ NewScan.records = <<>>
<1>1. <<>> \in Seq(FieldRead) /\ <<>> \in Text /\ <<>> \in Seq(Seq(FieldRead))
  BY DEF Text
<1>2. NewScan \in Locals
  BY <1>1 DEF NewScan, Locals
<1>3. NewScan.records = <<>> /\ NewScan.errors = {} /\ Len(<<>>) = 0
  BY DEF NewScan
<1> QED
  BY <1>2, <1>3 DEF ScanOK

LEMMA InitTInv == Init => TInv
<1> SUFFICES ASSUME Init PROVE TInv
  OBVIOUS
<1>1. text \in Text
  BY FilesAreTexts DEF Init, Text, text
<1>2. reference \in Reference \cup {None}
  BY DEF Init
<1>3. ScanOK(scan) /\ Len(scan.records) = 0
  BY NewScanType DEF Init
<1>4. rows = <<>> /\ Len(rows) = 0 /\ rows \in Seq(RowRead)
  BY DEF Init
<1>5. Len(text) \in Nat
  BY <1>1 DEF Text
<1> QED
  BY <1>1, <1>2, <1>3, <1>4, <1>5 DEF Init, TInv, NumberedUpTo, DiagsUpTo

(* What a turn of the tokenizer leaves alone. *)
Others == <<file, profile, reference, pc, at, rows, diags, worklist, prev, found>>

LEMMA AtomType ==
  ASSUME TInv, i <= Len(text)
  PROVE  /\ text[i] \in Char /\ i \in Nat /\ Len(text) \in Nat /\ text \in Text
         /\ Ahead \in {CR, LF, Quote} => i + 1 <= Len(text) /\ text[i + 1] = Ahead
<1>1. Len(text) \in Nat /\ i \in 1..Len(text) /\ text \in Text
  BY DEF TInv, Text
<1>2. text[i] \in Char
  BY <1>1, ElementOfSeq DEF Text
<1>3. "end" \notin {CR, LF, Quote}
  BY DEF CR, LF, Quote
<1> QED
  BY <1>1, <1>2, <1>3 DEF Ahead

Turn ==
  \/ EscapedQuote \/ ClosingQuote \/ QuotedBreak \/ QuotedAtom
  \/ Separator \/ LineFeed \/ CarriageReturn \/ LoneReturn
  \/ OpeningQuote \/ StrayQuote \/ Atom

LEMMA EndLineType ==
  ASSUME NEW s, ScanOK(s)
  PROVE  ScanOK(EndLine(s)) /\ Len(EndLine(s).records) >= Len(s.records)
<1>0. s \in Locals
  BY DEF ScanOK
<1>1. ScanOK(Err(s)) /\ Err(s).records = s.records /\ Len(s.records) \in Nat
  BY <1>0, ErrType, ErrIs, LocalsAre
<1>2. ScanOK(EndField(s)) /\ EndField(s).cur # <<>> /\ EndField(s).records = s.records
  BY <1>0, EndFieldType, EndFieldIs
<1>3. /\ ScanOK(EmitRecord(EndField(s)))
      /\ Len(EmitRecord(EndField(s)).records) = Len(s.records) + 1
  BY <1>2, EmitRecordType
<1> QED
  BY <1>1, <1>3 DEF EndLine

LEMMA TurnType ==
  ASSUME TInv, Turn
  PROVE  /\ ScanOK(scan') /\ Len(scan'.records) >= Len(scan.records)
         /\ i' \in 1..(Len(text) + 1) /\ UNCHANGED Others
<1> DEFINE Goal == /\ ScanOK(scan') /\ Len(scan'.records) >= Len(scan.records)
                   /\ i' \in 1..(Len(text) + 1) /\ UNCHANGED Others
<1>1. ScanOK(scan) /\ scan \in Locals /\ Len(scan.records) \in Nat
  BY LocalsAre DEF TInv, ScanOK
<1>2. i <= Len(text)
  BY DEF Turn, EscapedQuote, ClosingQuote, QuotedBreak, QuotedAtom, Separator, LineFeed,
     CarriageReturn, LoneReturn, OpeningQuote, StrayQuote, Atom, InQuotes, Scanning
<1>3. /\ text[i] \in Char /\ i \in Nat /\ Len(text) \in Nat
      /\ Ahead \in {CR, LF, Quote} => i + 1 <= Len(text)
      /\ i \in 1..(Len(text) + 1)
  BY <1>2, AtomType DEF TInv
<1>4. ASSUME ScanOK(scan'), Len(scan'.records) >= Len(scan.records), UNCHANGED Others,
             i' = i + 1 \/ (i' = i + 2 /\ Ahead \in {CR, LF, Quote})
      PROVE  Goal
  <2>1. i + 1 \in 1..(Len(text) + 1)
    BY <1>2, <1>3
  <2>2. i' = i + 2 => i + 2 \in 1..(Len(text) + 1)
    BY <1>3, <1>4
  <2>3. i' \in 1..(Len(text) + 1)
    BY <1>4, <2>1, <2>2
  <2> QED
    BY <1>4, <2>3
<1>5. ASSUME scan' \in Locals, scan'.records = scan.records, scan'.errors = scan.errors,
             UNCHANGED Others, i' = i + 1 \/ (i' = i + 2 /\ Ahead \in {CR, LF, Quote})
      PROVE  Goal
  <2>1. ScanOK(scan') /\ Len(scan'.records) >= Len(scan.records)
    BY <1>1, <1>5, SameRecords
  <2> QED
    BY <1>4, <1>5, <2>1
<1>6. Quote \in Char /\ LF \in Char
  BY AtomsAreChars
<1> SUFFICES Goal
  OBVIOUS
<1> HIDE DEF Goal
<1>10. CASE EscapedQuote
  <2> DEFINE e == [scan EXCEPT !.val = Append(@, Quote)]
  <2>1. e \in Locals /\ e.records = scan.records /\ e.errors = scan.errors
    BY <1>1, <1>6, AppendIs
  <2>2. scan' = e /\ i' = i + 2 /\ UNCHANGED Others /\ Ahead = Quote
    BY <1>10 DEF EscapedQuote, Advance, Others
  <2> HIDE DEF e
  <2> QED
    BY <1>5, <2>1, <2>2
<1>11. CASE ClosingQuote
  <2> DEFINE e == [scan EXCEPT !.inQuotes = FALSE, !.expectSep = TRUE]
  <2>1. e \in Locals /\ e.records = scan.records /\ e.errors = scan.errors
    BY <1>1, CloseIs
  <2>2. scan' = e /\ i' = i + 1 /\ UNCHANGED Others
    BY <1>11 DEF ClosingQuote, Advance, Others
  <2> HIDE DEF e
  <2> QED
    BY <1>5, <2>1, <2>2
<1>12. CASE QuotedBreak
  <2> DEFINE e == [scan EXCEPT !.newline = TRUE, !.val = Append(@, LF)]
             n == IF text[i] = CR /\ Ahead = LF THEN 2 ELSE 1
  <2>1. e \in Locals /\ e.records = scan.records /\ e.errors = scan.errors
    BY <1>1, <1>6, BreakIs
  <2>2. scan' = e /\ i' = i + n /\ UNCHANGED Others
    BY <1>12 DEF QuotedBreak, Advance, Others
  <2>3. n = 1 \/ (n = 2 /\ Ahead \in {CR, LF, Quote})
    OBVIOUS
  <2> HIDE DEF e, n
  <2> QED
    BY <1>5, <2>1, <2>2, <2>3
<1>13. CASE QuotedAtom
  <2> DEFINE e == [scan EXCEPT !.val = Append(@, text[i])]
  <2>1. e \in Locals /\ e.records = scan.records /\ e.errors = scan.errors
    BY <1>1, <1>3, AppendIs
  <2>2. scan' = e /\ i' = i + 1 /\ UNCHANGED Others
    BY <1>13 DEF QuotedAtom, Advance, Others
  <2> HIDE DEF e
  <2> QED
    BY <1>5, <2>1, <2>2
<1>14. CASE Separator
  <2> DEFINE f == EndField(scan)
             e == [f EXCEPT !.started = TRUE]
  <2>1. f \in Locals /\ f.records = scan.records /\ f.errors = scan.errors
    BY <1>1, EndFieldIs
  <2>2. scan' = e /\ i' = i + 1 /\ UNCHANGED Others
    BY <1>14 DEF Separator, Advance, Others
  <2> HIDE DEF f
  <2>3. e \in Locals /\ e.records = scan.records /\ e.errors = scan.errors
    BY <2>1, StartIs
  <2> HIDE DEF e
  <2> QED
    BY <1>5, <2>2, <2>3
<1>15. CASE LineFeed
  <2>1. scan' = EndLine(scan) /\ i' = i + 1 /\ UNCHANGED Others
    BY <1>15 DEF LineFeed, Advance, Others
  <2> QED
    BY <1>1, <1>4, <2>1, EndLineType
<1>16. CASE CarriageReturn
  <2>1. scan' = EndLine(scan) /\ i' = i + 2 /\ UNCHANGED Others /\ Ahead = LF
    BY <1>16 DEF CarriageReturn, Advance, Others
  <2> QED
    BY <1>1, <1>4, <2>1, EndLineType
<1>17. CASE LoneReturn
  <2> DEFINE e == IF scan.expectSep THEN EmitRecord(EndField(Err(scan))) ELSE Err(scan)
  <2>1. ScanOK(Err(scan)) /\ Err(scan).records = scan.records
    BY <1>1, ErrType, ErrIs
  <2> DEFINE s == Err(scan)
  <2> HIDE DEF s
  <2>2. ScanOK(EndField(s)) /\ EndField(s).cur # <<>> /\ EndField(s).records = scan.records
    <3>1. s \in Locals
      BY <2>1 DEF ScanOK, s
    <3> QED
      BY <2>1, <3>1, EndFieldType, EndFieldIs DEF s
  <2>3. /\ ScanOK(EmitRecord(EndField(s)))
        /\ Len(EmitRecord(EndField(s)).records) = Len(scan.records) + 1
    BY <2>2, EmitRecordType
  <2>4. ScanOK(e) /\ Len(e.records) >= Len(scan.records)
    BY <1>1, <2>1, <2>3 DEF s
  <2>5. scan' = e /\ i' = i + 1 /\ UNCHANGED Others
    BY <1>17 DEF LoneReturn, Advance, Others
  <2> HIDE DEF e
  <2> QED
    BY <1>4, <2>4, <2>5
<1>18. CASE OpeningQuote
  <2> DEFINE e == [scan EXCEPT !.inQuotes = TRUE, !.quoted = TRUE, !.started = TRUE]
  <2>1. e \in Locals /\ e.records = scan.records /\ e.errors = scan.errors
    BY <1>1, OpenIs
  <2>2. scan' = e /\ i' = i + 1 /\ UNCHANGED Others
    BY <1>18 DEF OpeningQuote, Advance, Others
  <2> HIDE DEF e
  <2> QED
    BY <1>5, <2>1, <2>2
<1>19. CASE StrayQuote
  <2> DEFINE f == Err(scan)
             e == [f EXCEPT !.val = Append(@, Quote)]
  <2>1. ScanOK(f) /\ f \in Locals /\ f.records = scan.records
    BY <1>1, ErrType, ErrIs
  <2>2. scan' = e /\ i' = i + 1 /\ UNCHANGED Others
    BY <1>19 DEF StrayQuote, Advance, Others
  <2> HIDE DEF f
  <2>3. e \in Locals /\ e.records = f.records /\ e.errors = f.errors
    BY <1>6, <2>1, AppendIs
  <2> HIDE DEF e
  <2>4. ScanOK(e) /\ Len(e.records) >= Len(scan.records)
    BY <1>1, <2>1, <2>3, SameRecords
  <2> QED
    BY <1>4, <2>2, <2>4
<1>20. CASE Atom
  <2>1. CASE scan.expectSep
    <3> DEFINE f == Err(scan)
               e == [f EXCEPT !.expectSep = FALSE, !.val = Append(@, text[i])]
    <3>1. ScanOK(f) /\ f \in Locals /\ f.records = scan.records
      BY <1>1, ErrType, ErrIs
    <3>2. scan' = e /\ i' = i + 1 /\ UNCHANGED Others
      BY <1>20, <2>1 DEF Atom, Advance, Others
    <3> HIDE DEF f
    <3>3. e \in Locals /\ e.records = f.records /\ e.errors = f.errors
      BY <1>3, <3>1, PutAfterQuoteIs
    <3> HIDE DEF e
    <3>4. ScanOK(e) /\ Len(e.records) >= Len(scan.records)
      BY <1>1, <3>1, <3>3, SameRecords
    <3> QED
      BY <1>4, <3>2, <3>4
  <2>2. CASE ~scan.expectSep
    <3> DEFINE e == [scan EXCEPT !.started = TRUE, !.val = Append(@, text[i])]
    <3>1. e \in Locals /\ e.records = scan.records /\ e.errors = scan.errors
      BY <1>1, <1>3, PutIs
    <3>2. scan' = e /\ i' = i + 1 /\ UNCHANGED Others
      BY <1>20, <2>2 DEF Atom, Advance, Others
    <3> HIDE DEF e
    <3> QED
      BY <1>5, <3>1, <3>2
  <2> QED
    BY <2>1, <2>2
<1> QED
  BY <1>10, <1>11, <1>12, <1>13, <1>14, <1>15, <1>16, <1>17, <1>18, <1>19, <1>20 DEF Turn

LEMMA ScannedType ==
  ASSUME NEW s, ScanOK(s)
  PROVE  ScanOK(Scanned(s)) /\ Len(Scanned(s).records) >= Len(s.records)
<1>1. s \in Locals /\ ScanOK(Err(s)) /\ Err(s).records = s.records /\ Len(s.records) \in Nat
  BY ErrType, ErrIs, LocalsAre DEF ScanOK
<1>2. ASSUME NEW e, ScanOK(e), e.records = s.records
      PROVE  /\ ScanOK(EmitRecord(EndField(e)))
             /\ Len(EmitRecord(EndField(e)).records) = Len(s.records) + 1
  <2>1. e \in Locals
    BY <1>2 DEF ScanOK
  <2>2. ScanOK(EndField(e)) /\ EndField(e).cur # <<>> /\ EndField(e).records = s.records
    BY <1>2, <2>1, EndFieldType, EndFieldIs
  <2> QED
    BY <2>2, EmitRecordType
<1>3. /\ ScanOK(EmitRecord(EndField(s)))
      /\ Len(EmitRecord(EndField(s)).records) = Len(s.records) + 1
      /\ ScanOK(EmitRecord(EndField(Err(s))))
      /\ Len(EmitRecord(EndField(Err(s))).records) = Len(s.records) + 1
  BY <1>1, <1>2
<1> QED
  BY <1>1, <1>3 DEF Scanned

(* The record that is read, and its values. *)
LEMMA RecordType ==
  ASSUME TInv, at <= Len(scan.records)
  PROVE  /\ at \in 1..Len(scan.records) /\ Record \in Seq(FieldRead) /\ Len(Record) \in Nat
         /\ DOMAIN Record = 1..Len(Record)
         /\ Values = [k \in 1..Len(Record) |-> Record[k].value]
         /\ \A k \in 1..Len(Record) : Record[k] \in FieldRead /\ Values[k] \in Text
<1>1. scan.records \in Seq(Seq(FieldRead)) /\ Len(scan.records) \in Nat
  BY LocalsAre DEF TInv, ScanOK
<1>2. at \in 1..Len(scan.records)
  BY <1>1 DEF TInv
<1>3. Record \in Seq(FieldRead)
  BY <1>1, <1>2, ElementOfSeq DEF Record
<1>4. DOMAIN Record = 1..Len(Record) /\ Len(Record) \in Nat
  BY <1>3
<1>5. Values = [k \in 1..Len(Record) |-> Record[k].value]
  BY <1>4 DEF Values
<1>6. \A k \in 1..Len(Record) : Record[k] \in FieldRead
  BY <1>3, ElementOfSeq
<1>7. \A k \in 1..Len(Record) : Record[k].value \in Text
  BY <1>6 DEF FieldRead
<1>8. \A k \in 1..Len(Record) : Values[k] \in Text
  BY <1>5, <1>7
<1> QED
  BY <1>2, <1>3, <1>4, <1>5, <1>6, <1>8

LEMMA RowType ==
  ASSUME NEW n \in Nat, NEW v, \A k \in 1..5 : v[k] \in Text,
         NEW p \in Moment, p.error = "none" => Dated(p), p.error = "none",
         NEW notes \in SUBSET Note
  PROVE  RowOK(Row(n, v, p, notes)) /\ Row(n, v, p, notes).number = n
<1>1. v[1] \in Text /\ v[2] \in Text /\ v[3] \in Text /\ v[4] \in Text /\ v[5] \in Text
  OBVIOUS
<1>2. Row(n, v, p, notes) \in RowRead
  BY <1>1 DEF Row, RowRead
<1>3. Row(n, v, p, notes).date = p /\ Row(n, v, p, notes).number = n
  BY DEF Row
<1> QED
  BY <1>2, <1>3 DEF RowOK

LEMMA StrippedType ==
  ASSUME NEW v \in Text
  PROVE  Stripped(v) \in Text
<1> DEFINE solid == {k \in DOMAIN v : v[k] \notin White}
<1>1. Len(v) \in Nat /\ DOMAIN v = 1..Len(v)
  BY DEF Text
<1>2. solid # {} => Min(solid) \in 1..Len(v) /\ Max(solid) \in 1..Len(v)
  <2>1. solid \in SUBSET (1..Len(v))
    BY <1>1
  <2> HIDE DEF solid
  <2> QED
    BY <1>1, <2>1, LeastExists
<1>3. Stripped(v) = IF solid = {} THEN <<>> ELSE SubSeq(v, Min(solid), Max(solid))
  BY DEF Stripped
<1>4. CASE solid # {}
  <2> DEFINE a == Min(solid)
             b == Max(solid)
  <2>1. a \in 1..Len(v) /\ b \in 1..Len(v)
    BY <1>2, <1>4
  <2> HIDE DEF a, b
  <2>2. SubSeq(v, a, b) \in Seq(Char)
    BY <1>1, <2>1 DEF Text
  <2> QED
    BY <1>3, <1>4, <2>2 DEF Text, a, b
<1> QED
  BY <1>3, <1>4, SinglesAreTexts

LEMMA LineBrokenType ==
  ASSUME NEW v \in Text
  PROVE  LineBroken(v) \in Text
<1> DEFINE w == [k \in DOMAIN v |-> IF v[k] = "|" THEN LF ELSE v[k]]
<1>1. Len(v) \in Nat /\ DOMAIN v = 1..Len(v)
  BY DEF Text
<1>2. \A k \in 1..Len(v) : v[k] \in Char
  BY ElementOfSeq DEF Text
<1>3. w \in [1..Len(v) -> Char]
  BY <1>1, <1>2, AtomsAreChars
<1>4. w \in Text
  BY <1>1, <1>3, ListsAre DEF Text
<1>5. LineBroken(v) = Stripped(w)
  BY DEF LineBroken
<1> HIDE DEF w
<1> QED
  BY <1>4, <1>5, StrippedType

LEMMA TokensType ==
  ASSUME TInv, IsLegacyRow
  PROVE  /\ \A k \in 1..5 : Tokens[k] \in Text /\ Tokens[k] = Stripped(Values[k])
         /\ \A k \in 1..5 : Candidate(Tokens)[k] \in Text
<1>1. Len(Record) = 5 /\ at <= Len(scan.records)
  BY NFieldsIs DEF IsLegacyRow, Reading
<1>2. DOMAIN Record = 1..5 /\ \A k \in 1..5 : Values[k] \in Text
  BY <1>1, RecordType
<1>3. \A k \in 1..5 : Tokens[k] = Stripped(Values[k])
  BY <1>2 DEF Tokens
<1>4. \A k \in 1..5 : Tokens[k] \in Text
  BY <1>2, <1>3, StrippedType
<1> DEFINE v == Tokens
<1>5. v[1] \in Text /\ v[2] \in Text /\ v[3] \in Text /\ v[4] \in Text /\ v[5] \in Text
  BY <1>4
<1>6. LineBroken(v[5]) \in Text
  BY <1>5, LineBrokenType
<1> HIDE DEF v
<1>7. \A k \in 1..5 : Candidate(v)[k] \in Text
  BY <1>5, <1>6 DEF Candidate
<1> QED
  BY <1>3, <1>4, <1>7 DEF v

LEMMA AppendRow ==
  ASSUME TInv, NEW r, RowOK(r), r.number = at
  PROVE  /\ Append(rows, r) \in Seq(RowRead)
         /\ Len(Append(rows, r)) = Len(rows) + 1 /\ Len(rows) \in Nat
         /\ \A k \in 1..Len(rows) : Append(rows, r)[k] = rows[k]
         /\ Append(rows, r)[Len(rows) + 1] = r
         /\ rows \o <<r>> = Append(rows, r)
         /\ \A k \in 1..Len(Append(rows, r)) : RowOK(Append(rows, r)[k])
         /\ \A k \in 1..Len(Append(rows, r)) : Append(rows, r)[k].number \in 1..at
<1>1. rows \in Seq(RowRead) /\ r \in RowRead /\ Len(rows) \in Nat
  BY DEF TInv, RowOK
<1>2. /\ Append(rows, r) \in Seq(RowRead)
      /\ Len(Append(rows, r)) = Len(rows) + 1
      /\ \A k \in 1..Len(rows) : Append(rows, r)[k] = rows[k]
      /\ Append(rows, r)[Len(rows) + 1] = r
  BY <1>1
<1>3. rows \o <<r>> = Append(rows, r)
  BY <1>1
<1>4. at \in Nat /\ at >= 1
  BY LocalsAre DEF TInv, ScanOK
<1>5. \A k \in 1..Len(rows) : RowOK(rows[k]) /\ rows[k].number \in 1..at
  BY <1>4 DEF TInv, NumberedUpTo
<1> DEFINE R == Append(rows, r)
<1> HIDE DEF R
<1>6. ASSUME NEW k \in 1..Len(R)
      PROVE  RowOK(R[k]) /\ R[k].number \in 1..at
  <2>1. k \in 1..Len(rows) \/ k = Len(rows) + 1
    BY <1>1, <1>2 DEF R
  <2> QED
    BY <1>2, <1>4, <1>5, <2>1 DEF R
<1> QED
  BY <1>1, <1>2, <1>3, <1>6 DEF R

(* What a reader makes of one record: a row of its number, or none.        *)
LEMMA RecordRead ==
  ASSUME TInv, pc = "rows", at <= Len(scan.records), at' = at + 1,
         UNCHANGED <<file, profile, reference, pc, i, scan>>,
         rows' = rows \/ \E r : RowOK(r) /\ r.number = at /\ rows' = Append(rows, r),
         \A d \in diags' : d \in diags \/ d.row \in {0, at},
         prev' = None \/ prev' \in [{1} -> Int]
  PROVE  TInv'
<1>1. text' = text /\ scan' = scan /\ i' = i /\ pc' = pc
  BY DEF text
<1>2. Len(scan.records) \in Nat /\ at \in 1..Len(scan.records) /\ Len(rows) \in Nat
  BY RecordType, LocalsAre DEF TInv, ScanOK
<1>3. at' \in 1..(Len(scan'.records) + 1) /\ at' - 1 = at
  BY <1>1, <1>2
<1>4. rows' \in Seq(RowRead) /\ \A k \in 1..Len(rows') : RowOK(rows'[k]) /\ rows'[k].number \in 1..at
  <2>1. CASE rows' = rows
    <3>1. \A k \in 1..Len(rows) : rows[k].number \in 1..at
      BY <1>2 DEF TInv, NumberedUpTo
    <3> QED
      BY <2>1, <3>1 DEF TInv
  <2>2. CASE \E r : RowOK(r) /\ r.number = at /\ rows' = Append(rows, r)
    <3>1. PICK r : RowOK(r) /\ r.number = at /\ rows' = Append(rows, r)
      BY <2>2
    <3>2. Append(rows, r) \in Seq(RowRead)
      BY <3>1, AppendRow
    <3>3. \A k \in 1..Len(Append(rows, r)) : RowOK(Append(rows, r)[k])
      BY <3>1, AppendRow
    <3>4. \A k \in 1..Len(Append(rows, r)) : Append(rows, r)[k].number \in 1..at
      BY <3>1, AppendRow
    <3> QED
      BY <3>1, <3>2, <3>3, <3>4
  <2> QED
    BY <2>1, <2>2
<1>5. NumberedUpTo(at - 1)'
  BY <1>3, <1>4 DEF NumberedUpTo
<1>6. DiagsUpTo(Len(scan.records) + 1)'
  <2>1. \A d \in diags : d.row \in 0..(Len(scan.records) + 1)
    BY DEF TInv, DiagsUpTo
  <2>2. \A d \in diags' : d.row \in 0..(Len(scan.records) + 1)
    BY <1>2, <2>1
  <2> QED
    BY <1>1, <2>2 DEF DiagsUpTo
<1> QED
  BY <1>1, <1>3, <1>4, <1>5, <1>6 DEF TInv

LEMMA NotesAre ==
  /\ \A p : PrecisionNotes(p) \in SUBSET Note
  /\ \A v : ConversionNotes(v) \in SUBSET Note
<1>1. \A p : PrecisionNotes(p) \in SUBSET Note
  BY DEF PrecisionNotes, When, Note
<1>2. \A c \in BOOLEAN : /\ When(c, {"tag"}) \subseteq Note
                         /\ When(c, {"message"}) \subseteq Note
                         /\ When(c, {"zone"}) \subseteq Note
  BY DEF When, Note
<1>3. ASSUME NEW v
      PROVE  ConversionNotes(v) \in SUBSET Note
  <2> DEFINE a == When(v[4] = <<"*">>, {"tag"})
             b == When("|" \in ToSet(Values[5]), {"message"})
             c == When(DateLiteral(v[3]).form \in {"naive", "slash timed"}, {"zone"})
             d == PrecisionNotes(LegacyDate(v))
  <2>1. a \subseteq Note /\ b \subseteq Note /\ c \subseteq Note /\ d \subseteq Note
    BY <1>1 DEF When, Note
  <2>2. ConversionNotes(v) = a \cup b \cup c \cup d
    BY DEF ConversionNotes
  <2> HIDE DEF a, b, c, d
  <2> QED
    BY <2>1, <2>2
<1> QED
  BY <1>1, <1>3

(* The reading of a canonical record, in the parts the proofs speak of.    *)
DateRead == ParseDate(DateLiteral(Values[2]))
IsRefused == \/ \E c \in Validated : FieldErrors(c, Values[c]) # {}
             \/ DateRead.error # "none" \/ IsFuture(DateRead)
RowMade == Row(at, Values, DateRead, PrecisionNotes(DateRead))

LEMMA ReadRowIs ==
  ReadRow <=> /\ Reading("canonical") /\ Len(Record) = NFields
              /\ diags' = diags \cup RowDiags(Values, DateRead)
              /\ prev' = IF DateRead.error # "none" \/ IsFuture(DateRead) THEN prev ELSE <<DateRead.epoch>>
              /\ rows' = IF IsRefused THEN rows ELSE Append(rows, RowMade)
              /\ at' = at + 1
              /\ UNCHANGED <<file, profile, reference, pc, i, scan, worklist, found>>
BY DEF ReadRow, DateRead, IsRefused, RowMade

LEMMA RowDiagsAre ==
  ASSUME NEW v, NEW p
  PROVE  \A d \in RowDiags(v, p) : d.row \in {0, at}
<1> DEFINE At(S) == \A d \in S : d.row \in {0, at}
           a == UNION {{Fail(code, at) : code \in FieldErrors(c, v[c])} : c \in Validated}
           b == {Fail("CSV-FIELD", at) : c \in {k \in 1..4 : Record[k].newline}}
           e == When(p.error # "none", {Fail(p.error, at)})
           f == When(IsFuture(p), {Fail("CSV-DATE", at)})
           g == When(IsLate(p), {Diag("CSV-DATE-ORDER", "WARN", at)})
           h == When(\E k \in 1..NFields : Record[k].quoted /\ ~QuotingNeeded(v[k]),
                     {Diag("CSV-FIELD", "INFO", 0)})
<1>1. \A code, severity, row : Diag(code, severity, row).row = row /\ Fail(code, row).row = row
  BY DEF Diag, Fail
<1>2. At(a)
  BY <1>1
<1>3. At(b)
  BY <1>1
<1>4. At(e) /\ At(f) /\ At(g) /\ At(h)
  BY <1>1 DEF When
<1>5. RowDiags(v, p) = a \cup b \cup e \cup f \cup g \cup h
  BY DEF RowDiags
<1> HIDE DEF a, b, e, f, g, h
<1> QED
  BY <1>2, <1>3, <1>4, <1>5

LEMMA ReadRowType ==
  ASSUME TInv, ReadRow
  PROVE  TInv'
<1>1. /\ pc = "rows" /\ at <= Len(scan.records) /\ Len(Record) = 5 /\ at' = at + 1
      /\ UNCHANGED <<file, profile, reference, pc, i, scan>>
      /\ diags' = diags \cup RowDiags(Values, DateRead)
      /\ prev' = IF DateRead.error # "none" \/ IsFuture(DateRead) THEN prev ELSE <<DateRead.epoch>>
      /\ rows' = IF IsRefused THEN rows ELSE Append(rows, RowMade)
  BY ReadRowIs, NFieldsIs DEF Reading
<1>2. \A k \in 1..5 : Values[k] \in Text
  BY <1>1, RecordType
<1>3. DateRead \in Moment /\ (DateRead.error = "none" => Dated(DateRead))
  BY <1>2, DatedIs DEF DateRead
<1>4. at \in Nat
  BY <1>1, RecordType
<1>5. DateRead.error = "none" => RowOK(RowMade) /\ RowMade.number = at
  BY <1>2, <1>3, <1>4, NotesAre, RowType DEF RowMade
<1>6. rows' = rows \/ \E r : RowOK(r) /\ r.number = at /\ rows' = Append(rows, r)
  BY <1>1, <1>5 DEF IsRefused
<1>7. \A d \in diags' : d \in diags \/ d.row \in {0, at}
  <2>1. \A d \in RowDiags(Values, DateRead) : d.row \in {0, at}
    BY RowDiagsAre
  <2> QED
    BY <1>1, <2>1
<1>8. prev' = None \/ prev' \in [{1} -> Int]
  <2>1. DateRead.epoch \in Int
    BY <1>3 DEF Moment
  <2>2. <<DateRead.epoch>> \in [{1} -> Int]
    BY <2>1
  <2> QED
    BY <1>1, <2>2 DEF TInv
<1> QED
  BY <1>1, <1>6, <1>7, <1>8, RecordRead

LEMMA WrongArityType ==
  ASSUME TInv, WrongArity
  PROVE  TInv'
<1>1. /\ pc = "rows" /\ at <= Len(scan.records) /\ at' = at + 1 /\ rows' = rows /\ prev' = prev
      /\ UNCHANGED <<file, profile, reference, pc, i, scan>>
      /\ diags' = diags \cup {Fail("CSV-FIELD", at)} \/ diags' = diags
  BY DEF WrongArity
<1>2. \A d \in diags' : d \in diags \/ d.row \in {0, at}
  BY <1>1 DEF Fail, Diag
<1>3. prev' = None \/ prev' \in [{1} -> Int]
  BY <1>1 DEF TInv
<1> QED
  BY <1>1, <1>2, <1>3, RecordRead

LEMMA ConvertedType ==
  ASSUME TInv, NEW items, NEW v, NEW ambiguity \in {{}, AmbiguityOf(v)}, NEW converted,
         converted = <<>> \/ \E r : RowOK(r) /\ r.number = at /\ converted = <<r>>,
         Convert(items, ambiguity, converted)
  PROVE  TInv'
<1>1. /\ pc = "rows" /\ at <= Len(scan.records) /\ at' = at + 1
      /\ rows' = rows \o converted /\ prev' = prev
      /\ UNCHANGED <<file, profile, reference, pc, i, scan>>
      /\ diags' = diags \cup ambiguity
  BY DEF Convert, Reading
<1>2. \A d \in ambiguity : d.row = at
  <2>1. Diag("CSV-AMBIGUOUS-US-DATE", "WARN", at).row = at
    BY DEF Diag
  <2>2. ambiguity = {} \/ ambiguity = {Diag("CSV-AMBIGUOUS-US-DATE", "WARN", at)}
    BY DEF AmbiguityOf, When
  <2> QED
    BY <2>1, <2>2
<1>3. \A d \in diags' : d \in diags \/ d.row \in {0, at}
  BY <1>1, <1>2
<1>4. rows \o <<>> = rows
  BY DEF TInv
<1>5. rows' = rows \/ \E r : RowOK(r) /\ r.number = at /\ rows' = Append(rows, r)
  <2>1. ASSUME NEW r, RowOK(r), r.number = at
        PROVE  rows \o <<r>> = Append(rows, r)
    BY <2>1, AppendRow
  <2> QED
    BY <1>1, <1>4, <2>1
<1>6. prev' = None \/ prev' \in [{1} -> Int]
  BY <1>1 DEF TInv
<1> QED
  BY <1>1, <1>3, <1>5, <1>6, RecordRead

LEMMA ConversionType ==
  ASSUME TInv, PassUntagged \/ PassUndated \/ PassToRepair \/ ConvertRow
  PROVE  TInv'
<1>1. CASE PassUntagged
  BY <1>1, ConvertedType DEF PassUntagged
<1>2. CASE PassUndated
  <2>1. Convert({"undated"}, AmbiguityOf(Tokens), <<>>)
    BY <1>2 DEF PassUndated
  <2> QED
    BY <2>1, ConvertedType
<1>3. CASE PassToRepair
  <2>1. Convert({"needs-repair"}, AmbiguityOf(Tokens), <<>>)
    BY <1>3 DEF PassToRepair
  <2> QED
    BY <2>1, ConvertedType
<1>4. CASE ConvertRow
  <2> DEFINE v == Tokens
             r == Row(at, Candidate(v), LegacyDate(v), ConversionNotes(v))
  <2>1. IsLegacyRow /\ LegacyDate(v).error = "none" /\ Convert({}, AmbiguityOf(v), <<r>>)
    BY <1>4 DEF ConvertRow
  <2>2. \A k \in 1..5 : v[k] \in Text /\ Candidate(v)[k] \in Text
    BY <2>1, TokensType
  <2>3. LegacyDate(v) \in Moment /\ (LegacyDate(v).error = "none" => Dated(LegacyDate(v)))
    BY <2>2, DatedIs DEF LegacyDate
  <2>4. ConversionNotes(v) \in SUBSET Note
    BY NotesAre
  <2>5. at \in Nat
    BY <2>1, RecordType DEF IsLegacyRow, Reading
  <2>6. RowOK(r) /\ r.number = at
    BY <2>1, <2>2, <2>3, <2>4, <2>5, RowType
  <2> HIDE DEF r, v
  <2>7. <<r>> = <<>> \/ \E q : RowOK(q) /\ q.number = at /\ <<r>> = <<q>>
    BY <2>6
  <2> QED
    BY <2>1, <2>7, ConvertedType
<1> QED
  BY <1>1, <1>2, <1>3, <1>4

LEMMA OtherStepsType ==
  ASSUME TInv, ReadHead \/ EndOfText \/ FinishReading \/ Rewrite
  PROVE  TInv'
<1>0. Len(scan.records) \in Nat /\ scan \in Locals /\ Len(text) \in Nat /\ Len(rows) \in Nat
  BY LocalsAre DEF TInv, ScanOK, Text
<1>1. CASE ReadHead
  <2>1. /\ UNCHANGED <<file, profile, reference, i, scan, at, rows, prev>>
        /\ pc' \in {"done", "scan"}
        /\ \A d \in diags' : d \in diags \/ d.row = 0
    BY <1>1 DEF ReadHead, Fail, Diag
  <2>2. DiagsUpTo(Len(scan.records) + 1)'
    BY <1>0, <2>1 DEF TInv, DiagsUpTo
  <2>3. NumberedUpTo(at - 1)' /\ text' = text
    BY <2>1 DEF TInv, NumberedUpTo, text
  <2> QED
    BY <2>1, <2>2, <2>3 DEF TInv
<1>2. CASE EndOfText
  <2> DEFINE s == Scanned(scan)
             read == {Fail("CSV-FIELD", r) : r \in s.errors}
             more == IF s.records = <<>> THEN {Fail("CSV-FIELD", 0)}
                     ELSE When(reference = None, {Diag("CSV-DATE", "INFO", 0)})
  <2>1. ScanOK(s) /\ Len(s.records) >= Len(scan.records) /\ s \in Locals /\ Len(s.records) \in Nat
    <3>1. ScanOK(s) /\ Len(s.records) >= Len(scan.records)
      BY ScannedType DEF TInv
    <3>2. s \in Locals
      BY <3>1 DEF ScanOK
    <3> HIDE DEF s
    <3> QED
      BY <3>1, <3>2, LocalsAre
  <2>2. /\ scan' = s /\ UNCHANGED <<file, profile, reference, i, at, rows, prev>>
        /\ pc' \in {"done", "raised", "rows"}
        /\ diags' = diags \cup read \cup more \/ diags' = diags
    BY <1>2 DEF EndOfText
  <2>3. \A d \in read : d.row \in 0..(Len(s.records) + 1)
    <3>1. \A code, row : Fail(code, row).row = row
      BY DEF Fail, Diag
    <3>2. s.errors \subseteq 1..(Len(s.records) + 1)
      BY <2>1 DEF ScanOK
    <3> HIDE DEF s
    <3> QED
      BY <2>1, <3>1, <3>2
  <2>4. \A d \in more : d.row = 0
    BY DEF Fail, Diag, When
  <2> HIDE DEF s, read, more
  <2>5. DiagsUpTo(Len(scan.records) + 1)'
    <3>1. \A d \in diags : d.row \in 0..(Len(s.records) + 1)
      BY <1>0, <2>1, SMTT(40) DEF TInv, DiagsUpTo
    <3>2. \A d \in diags' : d.row \in 0..(Len(s.records) + 1)
      BY <2>1, <2>2, <2>3, <2>4, <3>1
    <3> QED
      BY <2>2, <3>2 DEF DiagsUpTo
  <2>6. NumberedUpTo(at - 1)' /\ text' = text
    BY <2>2 DEF TInv, NumberedUpTo, text
  <2>7. at' \in 1..(Len(scan'.records) + 1)
    BY <1>0, <2>1, <2>2 DEF TInv
  <2> QED
    BY <2>1, <2>2, <2>5, <2>6, <2>7 DEF TInv
<1>3. CASE FinishReading
  <2>1. /\ UNCHANGED <<file, profile, reference, i, scan, at, rows, prev>>
        /\ pc' = "done"
        /\ diags' = diags \cup Duplicates(rows) \/ diags' = diags
    BY <1>3 DEF FinishReading
  <2>2. \A d \in Duplicates(rows) : d.row \in 0..(Len(scan.records) + 1)
    <3>1. \A code, row : Fail(code, row).row = row
      BY DEF Fail, Diag
    <3>2. \A k \in DOMAIN rows : rows[k].number \in 0..(Len(scan.records) + 1)
      BY <1>0 DEF TInv, NumberedUpTo
    <3> QED
      BY <3>1, <3>2 DEF Duplicates, Collisions
  <2>3. DiagsUpTo(Len(scan.records) + 1)'
    <3>1. \A d \in diags' : d.row \in 0..(Len(scan.records) + 1)
      BY <1>3, <2>1, <2>2 DEF TInv, DiagsUpTo
    <3> QED
      BY <2>1, <3>1 DEF DiagsUpTo
  <2>4. NumberedUpTo(at - 1)' /\ text' = text
    BY <2>1 DEF TInv, NumberedUpTo, text
  <2> QED
    BY <1>3, <2>1, <2>3, <2>4 DEF TInv, FinishReading
<1>4. CASE Rewrite
  <2>1. /\ file' = [head |-> "canonical", bom |-> FALSE, utf8 |-> TRUE, body |-> Written(rows)]
        /\ profile' = "canonical" /\ pc' = "head" /\ i' = 1 /\ scan' = NewScan /\ at' = 1
        /\ rows' = <<>> /\ diags' = {} /\ prev' = None /\ reference' = reference
    BY <1>4 DEF Rewrite
  <2>2. text' = Written(rows) /\ Written(rows) \in Text
    BY <2>1, WrittenType DEF text, TInv
  <2>3. Len(text') \in Nat
    BY <2>2 DEF Text
  <2>4. ScanOK(scan') /\ Len(scan'.records) = 0
    BY <2>1, NewScanType
  <2>5. rows' \in Seq(RowRead) /\ Len(rows') = 0
    BY <2>1
  <2> QED
    BY <2>1, <2>2, <2>3, <2>4, <2>5 DEF TInv, NumberedUpTo, DiagsUpTo
<1> QED
  BY <1>1, <1>2, <1>3, <1>4

LEMMA NextTInv == TInv /\ [Next]_vars => TInv'
<1> SUFFICES ASSUME TInv, [Next]_vars PROVE TInv'
  OBVIOUS
<1>1. CASE Turn
  <2>1. /\ ScanOK(scan') /\ Len(scan'.records) >= Len(scan.records)
        /\ i' \in 1..(Len(text) + 1) /\ UNCHANGED Others
    BY <1>1, TurnType
  <2>2. text' = text /\ at' = at /\ rows' = rows /\ diags' = diags /\ pc' = pc /\ prev' = prev
        /\ profile' = profile /\ reference' = reference
    BY <2>1 DEF Others, text
  <2>3. Len(scan.records) \in Nat /\ Len(scan'.records) \in Nat
    <3>1. scan \in Locals /\ scan' \in Locals
      BY <2>1 DEF TInv, ScanOK
    <3> QED
      BY <3>1, LocalsAre
  <2>4. at' \in 1..(Len(scan'.records) + 1)
    BY <2>1, <2>2, <2>3 DEF TInv
  <2>5. DiagsUpTo(Len(scan.records) + 1)'
    BY <2>1, <2>2, <2>3, SMTT(40) DEF TInv, DiagsUpTo
  <2>6. NumberedUpTo(at - 1)'
    BY <2>2 DEF TInv, NumberedUpTo
  <2> QED
    BY <2>1, <2>2, <2>4, <2>5, <2>6 DEF TInv
<1>2. CASE ReadHead \/ EndOfText \/ FinishReading \/ Rewrite
  BY <1>2, OtherStepsType
<1>3. CASE WrongArity
  BY <1>3, WrongArityType
<1>4. CASE ReadRow
  BY <1>4, ReadRowType
<1>5. CASE PassUntagged \/ PassUndated \/ PassToRepair \/ ConvertRow
  BY <1>5, ConversionType
<1>6. CASE UNCHANGED vars
  BY <1>6 DEF vars, TInv, NumberedUpTo, DiagsUpTo, text
<1> QED
  BY <1>1, <1>2, <1>3, <1>4, <1>5, <1>6 DEF Next, Tokenize, Turn

\* The tokenizer never leaves its text and never makes a record without a
\* field, a row has the number of a record that was read, and a diagnostic
\* points at a record or one after the last.  That holds of a text that was
\* written as well, because what is written is a text again
\* (grammar.py:101-236, 399-590; legacy.py:132-264).
THEOREM TypeCorrect == Spec => []TypeOK
<1>1. Init => TInv
  BY InitTInv
<1>2. TInv /\ [Next]_vars => TInv'
  BY NextTInv
<1>3. TInv => TypeOK
  BY TInvType
<1> QED
  BY <1>1, <1>2, <1>3, PTL DEF Spec

-----------------------------------------------------------------------------
(* The order of the dates                                                  *)

IsQuiet == \A d \in diags : d.code # "CSV-DATE-ORDER"

(* The rows have the instants that their texts show, and while nothing was *)
(* said about the order, the instants rise, up to prev_epoch.  The last    *)
(* row may be earlier than prev_epoch: a row that is refused for another   *)
(* reason than its date still moves it.                                    *)
InstantsAreRead ==
  \A k \in 1..Len(rows) : /\ rows[k].raw[1] \in DOMAIN Date
                          /\ rows[k].date.epoch = UTCMinute(rows[k].raw[1])

InstantsRise ==
  /\ \A j, k \in 1..Len(rows) : j <= k => rows[j].date.epoch <= rows[k].date.epoch
  /\ rows # <<>> => prev # None /\ rows[Len(rows)].date.epoch <= prev[1]

OrderInv ==
  /\ pc = "head" => rows = <<>>
  /\ profile = "canonical" => InstantsAreRead /\ (IsQuiet => InstantsRise)

LEMMA ReadDateIs ==
  ASSUME NEW v \in Text, ParseDate(DateLiteral(v)).error = "none"
  PROVE  v[1] \in DOMAIN Date /\ ParseDate(DateLiteral(v)).epoch = UTCMinute(v[1])
<1>1. DateLiteral(v) # NotADate
  <2>1. NotADate.form = "other"
    BY DEF NotADate
  <2>2. ParseDate(NotADate) = Error("CSV-DATE")
    BY <2>1 DEF ParseDate
  <2>3. ParseDate(NotADate).error = "CSV-DATE"
    BY <2>2, MomentTypes DEF DateError
  <2> QED
    BY <2>3
<1>2. v[1] \in DOMAIN Date /\ DateLiteral(v) = Date[v[1]]
  BY <1>1 DEF DateLiteral
<1> DEFINE l == Date[v[1]]
<1>3. ParseDate(l) = Parsed(Instant(l, OffsetOf(l.zone)), OffsetOf(l.zone), l.form)
  <2>1. Error("CSV-TZ").error # "none" /\ Error("CSV-DATE").error # "none"
    BY MomentTypes DEF DateError
  <2> QED
    BY <1>2, <2>1 DEF ParseDate
<1>4. ParseDate(l).epoch = Instant(l, OffsetOf(l.zone))
  BY <1>3 DEF Parsed
<1> QED
  BY <1>2, <1>4 DEF Instant, UTCMinute

LEMMA ReadRowOrder ==
  ASSUME TInv, OrderInv, ReadRow
  PROVE  OrderInv'
<1>1. /\ pc = "rows" /\ pc' = "rows" /\ at <= Len(scan.records) /\ Len(Record) = 5
      /\ profile = "canonical" /\ profile' = "canonical"
      /\ diags' = diags \cup RowDiags(Values, DateRead)
      /\ prev' = IF DateRead.error # "none" \/ IsFuture(DateRead) THEN prev ELSE <<DateRead.epoch>>
      /\ rows' = IF IsRefused THEN rows ELSE Append(rows, RowMade)
  BY ReadRowIs, NFieldsIs DEF Reading
<1>2. \A k \in 1..5 : Values[k] \in Text
  BY <1>1, RecordType
<1>3. DateRead \in Moment /\ (DateRead.error = "none" => Dated(DateRead)) /\ DateRead.epoch \in Int
  <2>1. DateRead \in Moment /\ (DateRead.error = "none" => Dated(DateRead))
    BY <1>2, DatedIs DEF DateRead
  <2> QED
    BY <2>1 DEF Moment
<1>4. at \in Nat /\ Len(rows) \in Nat /\ rows \in Seq(RowRead)
  BY <1>1, RecordType DEF TInv
<1>5. DateRead.error = "none" => RowOK(RowMade) /\ RowMade.number = at
  BY <1>2, <1>3, <1>4, NotesAre, RowType DEF RowMade
<1>6. RowMade.raw = Values[2] /\ RowMade.date = DateRead
  BY DEF RowMade, Row
<1>7. DateRead.error = "none" =>
        RowMade.raw[1] \in DOMAIN Date /\ RowMade.date.epoch = UTCMinute(RowMade.raw[1])
  BY <1>2, <1>6, ReadDateIs DEF DateRead
<1>8. IsQuiet' => IsQuiet /\ ~IsLate(DateRead)
  <2>1. ASSUME IsLate(DateRead)
        PROVE  Diag("CSV-DATE-ORDER", "WARN", at) \in RowDiags(Values, DateRead)
    BY <2>1 DEF RowDiags, When
  <2>2. Diag("CSV-DATE-ORDER", "WARN", at).code = "CSV-DATE-ORDER"
    BY DEF Diag
  <2> QED
    BY <1>1, <2>1, <2>2 DEF IsQuiet
<1>9. \A k \in 1..Len(rows) : rows[k].date.epoch \in Int
  <2>1. \A k \in 1..Len(rows) : rows[k] \in RowRead
    BY DEF TInv, RowOK
  <2>2. \A r \in RowRead : r.date \in Moment
    BY DEF RowRead
  <2>3. \A p \in Moment : p.epoch \in Int
    BY DEF Moment
  <2> QED
    BY <2>1, <2>2, <2>3
<1>10. prev = None \/ (prev # None /\ prev[1] \in Int)
  BY NoneIsNoInstant DEF TInv
<1>11. IsQuiet' /\ DateRead.error = "none" /\ ~IsFuture(DateRead) =>
         \A k \in 1..Len(rows) : rows[k].date.epoch <= DateRead.epoch
  <2> SUFFICES ASSUME IsQuiet', DateRead.error = "none", ~IsFuture(DateRead),
                      NEW k \in 1..Len(rows)
               PROVE  rows[k].date.epoch <= DateRead.epoch
    OBVIOUS
  <2>1. InstantsRise /\ rows # <<>> /\ Len(rows) \in 1..Len(rows)
    BY <1>1, <1>4, <1>8 DEF OrderInv
  <2>2. prev # None /\ prev[1] \in Int /\ rows[Len(rows)].date.epoch <= prev[1]
    BY <1>10, <2>1 DEF InstantsRise
  <2>3. prev[1] <= DateRead.epoch
    BY <1>3, <1>8, <2>2 DEF IsLate
  <2>4. rows[k].date.epoch <= rows[Len(rows)].date.epoch
    BY <1>4, <2>1 DEF InstantsRise
  <2> QED
    BY <1>3, <1>9, <2>1, <2>2, <2>3, <2>4
<1>12. <<DateRead.epoch>> # None /\ <<DateRead.epoch>>[1] = DateRead.epoch
  BY <1>3, NoneIsNoInstant
<1>13. CASE IsRefused
  <2>1. rows' = rows /\ InstantsAreRead'
    BY <1>1, <1>13 DEF OrderInv, InstantsAreRead
  <2>2. ASSUME IsQuiet'
        PROVE  InstantsRise'
    <3>1. InstantsRise
      BY <1>1, <1>8, <2>2 DEF OrderInv
    <3>2. CASE DateRead.error # "none" \/ IsFuture(DateRead)
      BY <1>1, <2>1, <3>1, <3>2 DEF InstantsRise
    <3>3. CASE ~(DateRead.error # "none" \/ IsFuture(DateRead))
      <4>1. prev' = <<DateRead.epoch>>
        BY <1>1, <3>3
      <4>2. rows # <<>> => Len(rows) \in 1..Len(rows)
        BY <1>4
      <4>3. rows # <<>> => prev' # None /\ rows[Len(rows)].date.epoch <= prev'[1]
        BY <1>11, <1>12, <2>2, <3>3, <4>1, <4>2
      <4> QED
        BY <2>1, <3>1, <4>3 DEF InstantsRise
    <3> QED
      BY <3>2, <3>3
  <2> QED
    BY <1>1, <2>1, <2>2 DEF OrderInv
<1>14. CASE ~IsRefused
  <2> DEFINE R == Append(rows, RowMade)
             n == Len(rows)
  <2>1. DateRead.error = "none" /\ ~IsFuture(DateRead)
    BY <1>14 DEF IsRefused
  <2>2. /\ Len(R) = n + 1 /\ n \in Nat /\ R # <<>>
        /\ \A k \in 1..n : R[k] = rows[k]
        /\ R[n + 1] = RowMade
    BY <1>4, <1>5, <2>1, AppendRow
  <2>3. rows' = R /\ prev' = <<DateRead.epoch>>
    BY <1>1, <1>14, <2>1
  <2> HIDE DEF R, n
  <2>4. InstantsAreRead'
    <3>1. ASSUME NEW k \in 1..Len(R)
          PROVE  R[k].raw[1] \in DOMAIN Date /\ R[k].date.epoch = UTCMinute(R[k].raw[1])
      <4>1. k = n + 1 \/ k \in 1..n
        BY <2>2
      <4>2. \A m \in 1..n : rows[m].raw[1] \in DOMAIN Date /\ rows[m].date.epoch = UTCMinute(rows[m].raw[1])
        BY <1>1 DEF OrderInv, InstantsAreRead, n
      <4> QED
        BY <1>7, <2>1, <2>2, <4>1, <4>2
    <3> QED
      BY <2>3, <3>1 DEF InstantsAreRead
  <2>5. ASSUME IsQuiet'
        PROVE  InstantsRise'
    <3>1. InstantsRise
      BY <1>1, <1>8, <2>5 DEF OrderInv
    <3>2. \A k \in 1..n : rows[k].date.epoch <= DateRead.epoch
      BY <1>11, <2>1, <2>5 DEF n
    <3>3. ASSUME NEW j \in 1..Len(R), NEW k \in 1..Len(R), j <= k
          PROVE  R[j].date.epoch <= R[k].date.epoch
      <4>1. CASE k = n + 1 /\ j = n + 1
        BY <1>3, <1>6, <2>2, <4>1
      <4>2. CASE k = n + 1 /\ j # n + 1
        <5>1. j \in 1..n
          BY <2>2, <4>2
        <5> QED
          BY <1>6, <2>2, <3>2, <4>2, <5>1
      <4>3. CASE k # n + 1
        <5>1. j \in 1..n /\ k \in 1..n
          BY <2>2, <3>3, <4>3
        <5> QED
          BY <2>2, <3>1, <3>3, <5>1 DEF InstantsRise, n
      <4> QED
        BY <4>1, <4>2, <4>3
    <3>4. prev' # None /\ prev'[1] = DateRead.epoch
      BY <1>12, <2>3
    <3>5. R[Len(R)].date.epoch <= DateRead.epoch
      BY <1>3, <1>6, <2>2
    <3> QED
      BY <2>3, <3>3, <3>4, <3>5 DEF InstantsRise
  <2> QED
    BY <1>1, <2>4, <2>5 DEF OrderInv
<1> QED
  BY <1>13, <1>14

LEMMA NextOrder == TInv /\ OrderInv /\ [Next]_vars => OrderInv'
<1> SUFFICES ASSUME TInv, OrderInv, [Next]_vars PROVE OrderInv'
  OBVIOUS
<1>1. ASSUME profile' = profile, rows' = rows, prev' = prev, IsQuiet' => IsQuiet,
             pc' = pc \/ pc' # "head"
      PROVE  OrderInv'
  BY <1>1 DEF OrderInv, InstantsAreRead, InstantsRise
<1>2. ASSUME profile' = profile, rows' = rows, prev' = prev, diags \subseteq diags',
             pc' = pc \/ pc' # "head"
      PROVE  OrderInv'
  BY <1>1, <1>2 DEF IsQuiet
<1>3. CASE Turn
  BY <1>2, <1>3, TurnType DEF Others
<1>4. CASE ReadHead
  <2>1. rows' = <<>> /\ Len(<<>>) = 0 /\ pc' # "head"
    BY <1>4 DEF ReadHead, OrderInv
  <2> QED
    BY <2>1 DEF OrderInv, InstantsAreRead, InstantsRise
<1>5. CASE EndOfText
  BY <1>2, <1>5 DEF EndOfText
<1>6. CASE WrongArity
  BY <1>2, <1>6 DEF WrongArity
<1>7. CASE ReadRow
  BY <1>7, ReadRowOrder
<1>8. CASE FinishReading
  BY <1>2, <1>8 DEF FinishReading
<1>9. CASE PassUntagged \/ PassUndated \/ PassToRepair \/ ConvertRow
  <2>1. profile = "legacy" /\ profile' = profile /\ pc' # "head"
    BY <1>9 DEF PassUntagged, PassUndated, PassToRepair, ConvertRow, Convert, Reading
  <2> QED
    BY <2>1 DEF OrderInv
<1>10. CASE Rewrite
  <2>1. rows' = <<>> /\ Len(<<>>) = 0
    BY <1>10 DEF Rewrite
  <2> QED
    BY <2>1 DEF OrderInv, InstantsAreRead, InstantsRise
<1>11. CASE UNCHANGED vars
  BY <1>2, <1>11 DEF vars
<1> QED
  BY <1>3, <1>4, <1>5, <1>6, <1>7, <1>8, <1>9, <1>10, <1>11 DEF Next, Tokenize, Turn

\* A file that the canonical reader accepts without a warning about the order
\* of its dates lists its releases in the order of their instants, whatever
\* their zones, and whatever rows were refused in between
\* (grammar.py:496-511).
THEOREM QuietIsChronological == Spec => []QuietMeansChronological
<1>1. Init => TInv /\ OrderInv
  <2>1. Init => OrderInv
    <3> SUFFICES ASSUME Init PROVE OrderInv
      OBVIOUS
    <3>1. rows = <<>> /\ Len(<<>>) = 0
      BY DEF Init
    <3> QED
      BY <3>1 DEF OrderInv, InstantsAreRead, InstantsRise
  <2> QED
    BY <2>1, InitTInv
<1>2. TInv /\ OrderInv /\ [Next]_vars => (TInv /\ OrderInv)'
  BY NextTInv, NextOrder
<1>3. TInv /\ OrderInv => QuietMeansChronological
  <2> SUFFICES ASSUME TInv, OrderInv, IsRead("canonical"), IsQuiet,
                      NEW j \in DOMAIN rows, NEW k \in DOMAIN rows, j <= k
               PROVE  UTCMinute(rows[j].raw[1]) <= UTCMinute(rows[k].raw[1])
    BY DEF QuietMeansChronological, IsQuiet
  <2>1. j \in 1..Len(rows) /\ k \in 1..Len(rows)
    BY DEF TInv
  <2> QED
    BY <2>1 DEF OrderInv, InstantsAreRead, InstantsRise, IsRead
<1> QED
  BY <1>1, <1>2, <1>3, PTL DEF Spec

-----------------------------------------------------------------------------
(* RFC 4180 by position *)

LEMMA QuotesStep ==
  ASSUME NEW t \in Text
  PROVE  /\ QuotesUpTo(t, 0) = 0
         /\ \A n \in 0..Len(t) : QuotesUpTo(t, n) \in Nat
         /\ \A n \in 1..Len(t) :
              QuotesUpTo(t, n) = QuotesUpTo(t, n - 1) + (IF t[n] = Quote THEN 1 ELSE 0)
<1> DEFINE Q(n) == {k \in 1..n : t[k] = Quote}
<1>1. Len(t) \in Nat
  BY DEF Text
<1>2. Q(0) = {}
  OBVIOUS
<1>3. \A n \in Nat : IsFiniteSet(Q(n)) /\ Cardinality(Q(n)) \in Nat
  <2>1. ASSUME NEW n \in Nat
        PROVE  IsFiniteSet(Q(n)) /\ Cardinality(Q(n)) \in Nat
    <3>1. IsFiniteSet(1..n)
      BY FS_Interval
    <3>2. IsFiniteSet(Q(n))
      BY <3>1, FS_Subset
    <3> QED
      BY <3>2, FS_CardinalityType
  <2> QED
    BY <2>1
<1>4. ASSUME NEW n \in 1..Len(t)
      PROVE  Cardinality(Q(n)) = Cardinality(Q(n - 1)) + (IF t[n] = Quote THEN 1 ELSE 0)
  <2>1. n - 1 \in Nat
    BY <1>1
  <2>2. CASE t[n] = Quote
    <3>1. Q(n) = Q(n - 1) \cup {n} /\ n \notin Q(n - 1)
      BY <1>1, <2>2
    <3>2. IsFiniteSet(Q(n - 1))
      BY <1>3, <2>1
    <3> HIDE DEF Q
    <3>3. Cardinality(Q(n - 1) \cup {n}) = Cardinality(Q(n - 1)) + 1
      BY <3>1, <3>2, FS_AddElement
    <3> QED
      BY <2>2, <3>1, <3>3
  <2>3. CASE t[n] # Quote
    <3>1. Q(n) = Q(n - 1)
      BY <1>1, <2>3
    <3>2. Cardinality(Q(n - 1)) \in Nat
      BY <1>3, <2>1
    <3> HIDE DEF Q
    <3> QED
      BY <2>3, <3>1, <3>2
  <2> QED
    BY <2>2, <2>3
<1>5. \A n : QuotesUpTo(t, n) = Cardinality(Q(n))
  BY DEF QuotesUpTo
<1> HIDE DEF Q
<1>6. QuotesUpTo(t, 0) = 0
  BY <1>2, <1>5, FS_EmptySet
<1>7. \A n \in 0..Len(t) : QuotesUpTo(t, n) \in Nat
  BY <1>1, <1>3, <1>5
<1> QED
  BY <1>4, <1>5, <1>6, <1>7

LEMMA OutsideStep ==
  ASSUME NEW t \in Text
  PROVE  /\ Outside(t, 1)
         /\ \A k \in 1..Len(t) : Outside(t, k + 1) <=> (IF t[k] = Quote THEN ~Outside(t, k) ELSE Outside(t, k))
         /\ Even(QuotesUpTo(t, Len(t))) <=> Outside(t, Len(t) + 1)
<1>1. Len(t) \in Nat
  BY DEF Text
<1>2. Outside(t, 1)
  BY QuotesStep DEF Outside, Even
<1>3. ASSUME NEW k \in 1..Len(t)
      PROVE  Outside(t, k + 1) <=> (IF t[k] = Quote THEN ~Outside(t, k) ELSE Outside(t, k))
  <2> DEFINE a == QuotesUpTo(t, k - 1)
             b == QuotesUpTo(t, k)
  <2>1. (k + 1) - 1 = k /\ k \in 0..Len(t) /\ k - 1 \in 0..Len(t)
    BY <1>1
  <2>2. Outside(t, k + 1) <=> Even(b)
    BY <2>1 DEF Outside
  <2>3. Outside(t, k) <=> Even(a)
    BY DEF Outside
  <2>4. a \in Nat /\ b = a + (IF t[k] = Quote THEN 1 ELSE 0)
    BY <2>1, QuotesStep
  <2> HIDE DEF a, b
  <2>5. (a + 1) % 2 = 0 <=> a % 2 # 0
    BY <2>4
  <2> QED
    BY <2>2, <2>3, <2>4, <2>5 DEF Even
<1>4. (Len(t) + 1) - 1 = Len(t)
  BY <1>1
<1> QED
  BY <1>2, <1>3, <1>4 DEF Outside

(* A set of places, and one that is to the right of them.                  *)
LEMMA InOrderStep ==
  ASSUME NEW m \in Nat, NEW S \in SUBSET (1..m)
  PROVE  /\ Cardinality(S) \in Nat
         /\ Cardinality(S \cup {m + 1}) = Cardinality(S) + 1
         /\ DOMAIN InOrder(S) = 1..Cardinality(S)
         /\ \A n \in 1..Cardinality(S) : InOrder(S \cup {m + 1})[n] = InOrder(S)[n]
         /\ InOrder(S \cup {m + 1})[Cardinality(S) + 1] = m + 1
<1> DEFINE T == S \cup {m + 1}
           c == Cardinality(S)
<1>1. IsFiniteSet(S) /\ m + 1 \notin S
  <2>1. IsFiniteSet(1..m)
    BY FS_Interval
  <2>2. IsFiniteSet(S)
    BY <2>1, FS_Subset
  <2>3. m + 1 \notin 1..m
    OBVIOUS
  <2> QED
    BY <2>2, <2>3
<1>2. c \in Nat /\ Cardinality(T) = c + 1
  BY <1>1, FS_AddElement, FS_CardinalityType
<1>3. \A k \in S : {j \in T : j <= k} = {j \in S : j <= k}
  <2>1. \A k \in S : k \in 1..m
    OBVIOUS
  <2> QED
    BY <2>1
<1>4. {j \in T : j <= m + 1} = T
  <2>1. \A k \in S : k \in 1..m
    OBVIOUS
  <2>2. \A k \in T : k <= m + 1
    BY <2>1
  <2> HIDE DEF T
  <2> QED
    BY <2>2
<1>5. \A k \in S : Cardinality({j \in S : j <= k}) <= c /\ Cardinality({j \in S : j <= k}) \in Nat
  <2>1. ASSUME NEW k \in S
        PROVE  Cardinality({j \in S : j <= k}) <= c /\ Cardinality({j \in S : j <= k}) \in Nat
    <3>1. {j \in S : j <= k} \subseteq S
      OBVIOUS
    <3>2. IsFiniteSet({j \in S : j <= k})
      BY <1>1, <3>1, FS_Subset
    <3> QED
      BY <1>1, <3>1, <3>2, FS_Subset, FS_CardinalityType
  <2> QED
    BY <2>1
<1>6. ASSUME NEW n \in 1..c
      PROVE  (CHOOSE k \in T : Cardinality({j \in T : j <= k}) = n)
               = (CHOOSE k \in S : Cardinality({j \in S : j <= k}) = n)
  <2>1. n # c + 1
    BY <1>2
  <2>2. \A k : (k \in T /\ Cardinality({j \in T : j <= k}) = n)
                 <=> (k \in S /\ Cardinality({j \in S : j <= k}) = n)
    BY <1>2, <1>3, <1>4, <2>1
  <2> HIDE DEF T
  <2> QED
    BY <2>2
<1>7. (CHOOSE k \in T : Cardinality({j \in T : j <= k}) = c + 1) = m + 1
  <2>1. \A k \in S : Cardinality({j \in T : j <= k}) # c + 1
    BY <1>2, <1>3, <1>5
  <2>2. m + 1 \in T /\ Cardinality({j \in T : j <= m + 1}) = c + 1
    BY <1>2, <1>4
  <2>3. \A k \in T : k \in S \/ k = m + 1
    OBVIOUS
  <2> HIDE DEF T
  <2> QED
    BY <2>1, <2>2, <2>3
<1>8. c + 1 \in 1..Cardinality(T) /\ \A n \in 1..c : n \in 1..Cardinality(T)
  BY <1>2
<1>9. InOrder(T) = [n \in 1..Cardinality(T) |-> CHOOSE k \in T : Cardinality({j \in T : j <= k}) = n]
  BY DEF InOrder
<1>10. InOrder(S) = [n \in 1..c |-> CHOOSE k \in S : Cardinality({j \in S : j <= k}) = n]
  BY DEF InOrder
<1> HIDE DEF T, c
<1>11. \A n \in 1..c : InOrder(T)[n] = InOrder(S)[n]
  BY <1>6, <1>8, <1>9, <1>10
<1>12. InOrder(T)[c + 1] = m + 1
  BY <1>7, <1>8, <1>9
<1>13. DOMAIN InOrder(S) = 1..c
  BY <1>10
<1> QED
  BY <1>2, <1>11, <1>12, <1>13 DEF T, c

(* The rules of WellFormed as one rule for each place, which looks at the  *)
(* places before it and at a line feed after a carriage return.            *)
FieldCanStart(t, k) == k = 1 \/ t[k - 1] \in {Comma, LF}
LineCanStart(t, k) == k = 1 \/ t[k - 1] = LF

Sound(t, k) ==
  Outside(t, k) =>
    /\ t[k] = Quote => FieldCanStart(t, k) \/ t[k - 1] = Quote
    /\ k > 1 /\ t[k - 1] = Quote => t[k] \in {Comma, LF, CR, Quote}
    /\ t[k] = CR => k < Len(t) /\ t[k + 1] = LF
    /\ t[k] = LF => LET end == IF k > 1 /\ t[k - 1] = CR THEN k - 2 ELSE k - 1
                    IN  end > 0 /\ end \notin Breaks(t)

LEMMA CharsDiffer ==
  /\ Comma # Quote /\ Comma # CR /\ Comma # LF
  /\ Quote # CR /\ Quote # LF /\ CR # LF
BY DEF Comma, Quote, CR, LF

LEMMA PlacesAre ==
  \A n \in Nat : \A k \in 1..n :
    /\ k \in Nat /\ k >= 1 /\ k <= n /\ (k + 1) - 1 = k /\ (k + 2) - 1 = k + 1
    /\ (k + 1) + 1 = k + 2 /\ (k + 1) - 2 = k - 1 /\ ((k + 1) + 1) - 1 = k + 1
    /\ k + 1 > 1 /\ k + 2 > 1 /\ k + 1 # 1 /\ k + 2 # 1
    /\ k # n => k < n
    /\ k < n \/ k + 1 <= n => k + 1 \in 1..n /\ k < n /\ k + 1 <= n
    /\ k > 1 => k - 1 > 0 /\ k - 1 \in 1..n /\ (k - 1) + 1 = k
OBVIOUS

LEMMA TextIs ==
  ASSUME NEW t \in Text
  PROVE  Len(t) \in Nat /\ DOMAIN t = 1..Len(t) /\ \A k \in 1..Len(t) : t[k] \in Char
BY ElementOfSeq DEF Text

LEMMA WellFormedIs ==
  ASSUME NEW t \in Text
  PROVE  WellFormed(t) <=> Outside(t, Len(t) + 1) /\ \A k \in 1..Len(t) : Sound(t, k)
<1> DEFINE end(k) == IF k > 1 /\ t[k - 1] = CR THEN k - 2 ELSE k - 1
           Full(k) == end(k) > 0 /\ end(k) \notin Breaks(t)
           Old(k) ==
             /\ t[k] = Quote /\ Outside(t, k) => k = 1 \/ t[k - 1] \in {Comma, LF, Quote}
             /\ t[k] = Quote /\ ~Outside(t, k) => k = Len(t) \/ t[k + 1] \in {Comma, LF, CR, Quote}
             /\ t[k] = CR /\ Outside(t, k) => k < Len(t) /\ t[k + 1] = LF
<1>1. Len(t) \in Nat /\ DOMAIN t = 1..Len(t)
  BY TextIs
<1>2. \A k \in 1..Len(t) : Outside(t, k + 1) <=> (IF t[k] = Quote THEN ~Outside(t, k) ELSE Outside(t, k))
  BY OutsideStep
<1>3. \A k : k \in Breaks(t) <=> k \in 1..Len(t) /\ t[k] = LF /\ Outside(t, k)
  BY <1>1, SMTT(40) DEF Breaks
<1>4. WellFormed(t) <=> /\ Outside(t, Len(t) + 1)
                        /\ \A k \in 1..Len(t) : Old(k)
                        /\ \A k \in Breaks(t) : Full(k)
  BY <1>1, OutsideStep DEF WellFormed
<1>5. \A k : Sound(t, k) <=>
               (Outside(t, k) =>
                 /\ t[k] = Quote => FieldCanStart(t, k) \/ t[k - 1] = Quote
                 /\ k > 1 /\ t[k - 1] = Quote => t[k] \in {Comma, LF, CR, Quote}
                 /\ t[k] = CR => k < Len(t) /\ t[k + 1] = LF
                 /\ t[k] = LF => Full(k))
  BY DEF Sound
<1> HIDE DEF Full
<1>6. ASSUME \A k \in 1..Len(t) : Old(k), \A k \in Breaks(t) : Full(k), NEW k \in 1..Len(t)
      PROVE  Sound(t, k)
  <2> SUFFICES ASSUME Outside(t, k)
               PROVE  /\ t[k] = Quote => FieldCanStart(t, k) \/ t[k - 1] = Quote
                      /\ k > 1 /\ t[k - 1] = Quote => t[k] \in {Comma, LF, CR, Quote}
                      /\ t[k] = CR => k < Len(t) /\ t[k + 1] = LF
                      /\ t[k] = LF => Full(k)
    BY <1>5
  <2>1. Old(k)
    BY <1>6
  <2>2. t[k] = Quote => FieldCanStart(t, k) \/ t[k - 1] = Quote
    BY <2>1 DEF FieldCanStart
  <2>3. ASSUME k > 1, t[k - 1] = Quote
        PROVE  t[k] \in {Comma, LF, CR, Quote}
    <3>1. k - 1 \in 1..Len(t) /\ (k - 1) + 1 = k /\ k - 1 # Len(t)
      BY <1>1, <2>3
    <3>2. Old(k - 1)
      BY <1>6, <3>1
    <3>3. ~Outside(t, k - 1)
      BY <1>2, <2>3, <3>1
    <3> QED
      BY <2>3, <3>1, <3>2, <3>3
  <2>4. t[k] = LF => Full(k)
    BY <1>3, <1>6
  <2> QED
    BY <2>1, <2>2, <2>3, <2>4
<1>7. ASSUME \A k \in 1..Len(t) : Sound(t, k), NEW k \in 1..Len(t)
      PROVE  Old(k) /\ (k \in Breaks(t) => Full(k))
  <2>1. Sound(t, k)
    BY <1>7
  <2>2. t[k] = Quote /\ Outside(t, k) => k = 1 \/ t[k - 1] \in {Comma, LF, Quote}
    BY <1>5, <2>1 DEF FieldCanStart
  <2>3. ASSUME t[k] = Quote, ~Outside(t, k), k # Len(t)
        PROVE  t[k + 1] \in {Comma, LF, CR, Quote}
    <3>1. k + 1 \in 1..Len(t) /\ (k + 1) - 1 = k /\ k + 1 > 1
      BY <1>1, <1>7, <2>3, PlacesAre
    <3>2. Sound(t, k + 1) /\ Outside(t, k + 1)
      BY <1>2, <1>7, <2>3, <3>1
    <3> QED
      BY <1>5, <2>3, <3>1, <3>2, SMTT(40)
  <2>4. t[k] = CR /\ Outside(t, k) => k < Len(t) /\ t[k + 1] = LF
    BY <1>5, <2>1
  <2>5. k \in Breaks(t) => Full(k)
    BY <1>3, <1>5, <2>1
  <2> QED
    BY <2>2, <2>3, <2>4, <2>5
<1>8. \A k \in Breaks(t) : k \in 1..Len(t)
  BY <1>3
<1> HIDE DEF Old
<1> QED
  BY <1>4, <1>6, <1>7, <1>8

(* What the flags of the tokenizer say of the place it has come to, as     *)
(* long as there is no error.                                              *)
Flags(t, p, s) ==
  /\ \A k \in 1..(p - 1) : Sound(t, k)
  /\ s.inQuotes <=> ~Outside(t, p)
  /\ s.inQuotes => s.started /\ s.quoted /\ ~s.expectSep
  /\ ~s.inQuotes => /\ s.expectSep <=> p > 1 /\ t[p - 1] = Quote
                    /\ s.val = <<>> /\ ~s.quoted <=> FieldCanStart(t, p)
                    /\ Blank(s) <=> LineCanStart(t, p)
                    /\ p > 1 => t[p - 1] # CR
                    /\ s.expectSep /\ p <= Len(t) => t[p] # Quote
  /\ p > 1 /\ p <= Len(t) /\ t[p - 1] = CR => t[p] # LF

(* A place that is not outside of quotes is under no rule.                 *)
LEMMA SoundBelow ==
  ASSUME NEW t, NEW p \in Nat, \A k \in 1..(p - 1) : Sound(t, k), Sound(t, p)
  PROVE  \A k \in 1..((p + 1) - 1) : Sound(t, k)
<1> SUFFICES ASSUME NEW k \in 1..((p + 1) - 1) PROVE Sound(t, k)
  OBVIOUS
<1>1. k = p \/ k \in 1..(p - 1)
  OBVIOUS
<1> QED
  BY <1>1

(* One more place inside of quotes that is no quote.                       *)
LEMMA FlagsInside ==
  ASSUME NEW t \in Text, NEW p \in 1..Len(t), NEW s, Flags(t, p, s), s.inQuotes, t[p] # Quote,
         NEW e, e.inQuotes, e.started = s.started, e.quoted = s.quoted,
         e.expectSep = s.expectSep, p < Len(t) /\ t[p] = CR => t[p + 1] # LF
  PROVE  Flags(t, p + 1, e)
<1>1. Len(t) \in Nat /\ (p + 1) - 1 = p
  BY TextIs
<1>2. ~Outside(t, p) /\ ~Outside(t, p + 1)
  BY OutsideStep DEF Flags
<1>3. Sound(t, p)
  BY <1>2 DEF Sound
<1>4. \A k \in 1..((p + 1) - 1) : Sound(t, k)
  BY <1>3, SoundBelow DEF Flags
<1>5. p + 1 <= Len(t) => p < Len(t)
  BY <1>1
<1> QED
  BY <1>1, <1>2, <1>4, <1>5 DEF Flags

(* A pair of places inside of quotes: two quotes, or a line break.         *)
LEMMA FlagsPair ==
  ASSUME NEW t \in Text, NEW p \in 1..Len(t), NEW s, Flags(t, p, s), s.inQuotes, p + 1 <= Len(t),
         (t[p] = Quote /\ t[p + 1] = Quote) \/ (t[p] = CR /\ t[p + 1] = LF),
         NEW e, e.inQuotes, e.started = s.started, e.quoted = s.quoted,
         e.expectSep = s.expectSep
  PROVE  Flags(t, p + 2, e)
<1>1. /\ Len(t) \in Nat /\ (p + 1) - 1 = p /\ (p + 2) - 1 = p + 1 /\ p + 1 \in 1..Len(t)
      /\ (p + 1) + 1 = p + 2
  BY TextIs
<1>2. /\ ~Outside(t, p)
      /\ Outside(t, p + 1) <=> t[p] = Quote
      /\ ~Outside(t, p + 2)
  <2>1. ~Outside(t, p)
    BY DEF Flags
  <2>2. Outside(t, p + 1) <=> t[p] = Quote
    BY <2>1, OutsideStep
  <2>3. Outside(t, (p + 1) + 1) <=> (IF t[p + 1] = Quote THEN ~Outside(t, p + 1) ELSE Outside(t, p + 1))
    BY <1>1, OutsideStep
  <2> QED
    BY <1>1, <2>1, <2>2, <2>3, CharsDiffer
<1>3. Sound(t, p)
  BY <1>2 DEF Sound
<1>4. Sound(t, p + 1)
  BY <1>1, <1>2, CharsDiffer DEF Sound
<1>5. \A k \in 1..((p + 1) - 1) : Sound(t, k)
  BY <1>3, SoundBelow DEF Flags
<1>6. \A k \in 1..(((p + 1) + 1) - 1) : Sound(t, k)
  BY <1>1, <1>4, <1>5, SoundBelow
<1>7. t[p + 1] # CR
  BY CharsDiffer
<1> QED
  BY <1>1, <1>2, <1>6, <1>7 DEF Flags

(* The quote that ends a quoted field.                                     *)
LEMMA FlagsClose ==
  ASSUME NEW t \in Text, NEW p \in 1..Len(t), NEW s, Flags(t, p, s), s.inQuotes,
         t[p] = Quote, p < Len(t) => t[p + 1] # Quote,
         NEW e, ~e.inQuotes, e.started = s.started, e.quoted = s.quoted, e.expectSep
  PROVE  Flags(t, p + 1, e)
<1>1. Len(t) \in Nat /\ (p + 1) - 1 = p /\ p + 1 > 1 /\ p + 1 # 1
  BY TextIs
<1>2. ~Outside(t, p) /\ Outside(t, p + 1)
  BY OutsideStep DEF Flags
<1>3. Sound(t, p)
  BY <1>2 DEF Sound
<1>4. \A k \in 1..((p + 1) - 1) : Sound(t, k)
  BY <1>3, SoundBelow DEF Flags
<1>5. e.started /\ e.quoted
  BY DEF Flags
<1>6. ~Blank(e) /\ ~LineCanStart(t, p + 1) /\ ~FieldCanStart(t, p + 1)
  BY <1>1, <1>5, CharsDiffer DEF Blank, LineCanStart, FieldCanStart
<1>7. p + 1 <= Len(t) => p < Len(t)
  BY <1>1
<1> QED
  BY <1>1, <1>2, <1>4, <1>5, <1>6, <1>7, CharsDiffer DEF Flags

(* The quote that opens a quoted field.                                    *)
LEMMA FlagsOpen ==
  ASSUME NEW t \in Text, NEW p \in 1..Len(t), NEW s, Flags(t, p, s), ~s.inQuotes,
         t[p] = Quote, s.val = <<>>, ~s.quoted,
         NEW e, e.inQuotes, e.started, e.quoted, e.expectSep = s.expectSep
  PROVE  Flags(t, p + 1, e)
<1>1. Len(t) \in Nat /\ (p + 1) - 1 = p
  BY TextIs
<1>2. Outside(t, p) /\ ~Outside(t, p + 1)
  BY OutsideStep DEF Flags
<1>3. FieldCanStart(t, p)
  BY DEF Flags
<1>4. Sound(t, p)
  BY <1>3, CharsDiffer DEF Sound, FieldCanStart
<1>5. \A k \in 1..((p + 1) - 1) : Sound(t, k)
  BY <1>4, SoundBelow DEF Flags
<1>6. ~s.expectSep
  BY <1>3, CharsDiffer DEF Flags, FieldCanStart
<1> QED
  BY <1>1, <1>2, <1>5, <1>6, CharsDiffer DEF Flags

(* A character outside of quotes that no rule is about.                    *)
LEMMA FlagsAtom ==
  ASSUME NEW t \in Text, NEW p \in 1..Len(t), NEW s, Flags(t, p, s), ~s.inQuotes,
         t[p] \notin {Comma, Quote, CR, LF}, ~s.expectSep,
         NEW e, ~e.inQuotes, e.started, e.val # <<>>, e.expectSep = s.expectSep
  PROVE  Flags(t, p + 1, e)
<1>1. Len(t) \in Nat /\ (p + 1) - 1 = p /\ p + 1 > 1 /\ p + 1 # 1
  BY TextIs
<1>2. Outside(t, p) /\ Outside(t, p + 1)
  BY OutsideStep DEF Flags
<1>3. ~(p > 1 /\ t[p - 1] = Quote)
  BY DEF Flags
<1>4. Sound(t, p)
  BY <1>3 DEF Sound
<1>5. \A k \in 1..((p + 1) - 1) : Sound(t, k)
  BY <1>4, SoundBelow DEF Flags
<1>6. ~Blank(e) /\ ~LineCanStart(t, p + 1) /\ ~FieldCanStart(t, p + 1)
  BY <1>1 DEF Blank, LineCanStart, FieldCanStart
<1> QED
  BY <1>1, <1>2, <1>5, <1>6 DEF Flags

(* A comma outside of quotes.                                              *)
LEMMA FlagsComma ==
  ASSUME NEW t \in Text, NEW p \in 1..Len(t), NEW s, Flags(t, p, s), ~s.inQuotes, t[p] = Comma,
         NEW e, ~e.inQuotes, e.started, e.val = <<>>, ~e.quoted, ~e.expectSep
  PROVE  Flags(t, p + 1, e)
<1>1. Len(t) \in Nat /\ (p + 1) - 1 = p /\ p + 1 > 1 /\ p + 1 # 1
  BY TextIs
<1>2. Outside(t, p) /\ Outside(t, p + 1)
  BY OutsideStep, CharsDiffer DEF Flags
<1>4. Sound(t, p)
  BY CharsDiffer DEF Sound
<1>5. \A k \in 1..((p + 1) - 1) : Sound(t, k)
  BY <1>4, SoundBelow DEF Flags
<1>6. ~Blank(e) /\ ~LineCanStart(t, p + 1) /\ FieldCanStart(t, p + 1)
  BY <1>1, CharsDiffer DEF Blank, LineCanStart, FieldCanStart
<1> QED
  BY <1>1, <1>2, <1>5, <1>6, CharsDiffer DEF Flags

(* The end of a line, at a line feed or at a carriage return with one.     *)
LEMMA FlagsLineFeed ==
  ASSUME NEW t \in Text, NEW p \in 1..Len(t), NEW s, Flags(t, p, s), ~s.inQuotes, t[p] = LF,
         ~Blank(s),
         NEW e, ~e.inQuotes, ~e.started, e.val = <<>>, e.cur = <<>>, ~e.quoted, ~e.expectSep
  PROVE  Flags(t, p + 1, e)
<1>1. /\ Len(t) \in Nat /\ (p + 1) - 1 = p /\ p + 1 > 1 /\ p + 1 # 1 /\ p >= 1
      /\ p > 1 => p - 1 > 0
  BY TextIs
<1>2. Outside(t, p) /\ Outside(t, p + 1)
  BY OutsideStep, CharsDiffer DEF Flags
<1>3. p > 1 /\ t[p - 1] # LF /\ t[p - 1] # CR
  BY <1>1 DEF Flags, LineCanStart
<1>4. p - 1 \notin Breaks(t)
  BY <1>3 DEF Breaks
<1>5. Sound(t, p)
  BY <1>1, <1>3, <1>4, CharsDiffer DEF Sound
<1>6. \A k \in 1..((p + 1) - 1) : Sound(t, k)
  BY <1>5, SoundBelow DEF Flags
<1>7. Blank(e) /\ LineCanStart(t, p + 1) /\ FieldCanStart(t, p + 1)
  BY <1>1 DEF Blank, LineCanStart, FieldCanStart
<1> QED
  BY <1>1, <1>2, <1>6, <1>7, CharsDiffer DEF Flags

LEMMA FlagsReturn ==
  ASSUME NEW t \in Text, NEW p \in 1..Len(t), NEW s, Flags(t, p, s), ~s.inQuotes,
         p + 1 <= Len(t), t[p] = CR, t[p + 1] = LF, ~Blank(s),
         NEW e, ~e.inQuotes, ~e.started, e.val = <<>>, e.cur = <<>>, ~e.quoted, ~e.expectSep
  PROVE  Flags(t, p + 2, e)
<1>1. /\ Len(t) \in Nat /\ (p + 1) - 1 = p /\ (p + 2) - 1 = p + 1 /\ p + 1 \in 1..Len(t)
      /\ (p + 1) + 1 = p + 2 /\ (p + 1) - 2 = p - 1 /\ p + 2 > 1 /\ p + 2 # 1 /\ p + 1 > 1
      /\ ((p + 1) + 1) - 1 = p + 1 /\ p + 1 \in Nat /\ p >= 1 /\ p < Len(t)
      /\ p > 1 => p - 1 > 0
  BY TextIs, PlacesAre
<1>2. Outside(t, p) /\ Outside(t, p + 1) /\ Outside(t, p + 2)
  <2>1. Outside(t, p) /\ Outside(t, p + 1)
    BY OutsideStep, CharsDiffer DEF Flags
  <2>2. Outside(t, (p + 1) + 1)
    BY <1>1, <2>1, OutsideStep, CharsDiffer
  <2> QED
    BY <1>1, <2>1, <2>2
<1>3. p > 1 /\ t[p - 1] # LF
  BY <1>1 DEF Flags, LineCanStart
<1>4. p - 1 \notin Breaks(t)
  BY <1>3 DEF Breaks
<1>5. Sound(t, p)
  BY <1>1, CharsDiffer DEF Sound
<1>6. Sound(t, p + 1)
  BY <1>1, <1>3, <1>4, CharsDiffer DEF Sound
<1>7. \A k \in 1..((p + 1) - 1) : Sound(t, k)
  BY <1>5, SoundBelow DEF Flags
<1>8. \A k \in 1..(((p + 1) + 1) - 1) : Sound(t, k)
  BY <1>1, <1>6, <1>7, SoundBelow
<1>9. Blank(e) /\ LineCanStart(t, p + 2) /\ FieldCanStart(t, p + 2)
  BY <1>1 DEF Blank, LineCanStart, FieldCanStart
<1> QED
  BY <1>1, <1>2, <1>8, <1>9, CharsDiffer DEF Flags

(* The five places where the tokenizer records an error are ones that      *)
(* break a rule.                                                           *)
LEMMA ErrorsAreUnsound ==
  ASSUME NEW t \in Text, NEW p \in 1..Len(t), NEW s, Flags(t, p, s), ~s.inQuotes
  PROVE  /\ t[p] = LF /\ Blank(s) => ~Sound(t, p)
         /\ t[p] = CR /\ p < Len(t) /\ t[p + 1] = LF /\ Blank(s) => ~Sound(t, p + 1)
         /\ t[p] = CR /\ ~(p < Len(t) /\ t[p + 1] = LF) => ~Sound(t, p)
         /\ t[p] = Quote /\ (s.val # <<>> \/ s.quoted) => ~Sound(t, p)
         /\ t[p] \notin {Comma, Quote, CR, LF} /\ s.expectSep => ~Sound(t, p)
<1>1. Len(t) \in Nat /\ p \in Nat /\ p >= 1 /\ p - 1 <= Len(t)
  BY TextIs
<1>2. Outside(t, p)
  BY DEF Flags
<1>3. t[p] # Quote => Outside(t, p + 1)
  BY <1>2, OutsideStep
<1>4. p > 1 /\ t[p - 1] = LF => p - 1 \in Breaks(t)
  <2> SUFFICES ASSUME p > 1, t[p - 1] = LF PROVE p - 1 \in Breaks(t)
    OBVIOUS
  <2>1. p - 1 \in 1..Len(t) /\ (p - 1) + 1 = p
    BY <1>1
  <2>2. Outside(t, p - 1)
    BY <1>2, <2>1, OutsideStep, CharsDiffer
  <2> QED
    BY <2>1, <2>2, TextIs DEF Breaks
<1>5. ASSUME Blank(s)
      PROVE  p = 1 \/ (p > 1 /\ t[p - 1] = LF /\ p - 1 \in Breaks(t))
  BY <1>1, <1>4, <1>5 DEF Flags, LineCanStart
<1>6. ASSUME t[p] = LF, Blank(s)
      PROVE  ~Sound(t, p)
  BY <1>1, <1>2, <1>5, <1>6, CharsDiffer DEF Sound
<1>7. ASSUME t[p] = CR, p < Len(t), t[p + 1] = LF, Blank(s)
      PROVE  ~Sound(t, p + 1)
  <2>1. p + 1 > 1 /\ (p + 1) - 1 = p /\ (p + 1) - 2 = p - 1
    BY <1>1
  <2>2. Outside(t, p + 1)
    BY <1>3, <1>7, CharsDiffer
  <2>3. ~(p - 1 > 0 /\ p - 1 \notin Breaks(t))
    BY <1>1, <1>5, <1>7
  <2> QED
    BY <1>7, <2>1, <2>2, <2>3 DEF Sound
<1>8. t[p] = CR /\ ~(p < Len(t) /\ t[p + 1] = LF) => ~Sound(t, p)
  BY <1>2 DEF Sound
<1>9. ASSUME t[p] = Quote, s.val # <<>> \/ s.quoted
      PROVE  ~Sound(t, p)
  <2>1. ~FieldCanStart(t, p) /\ p > 1
    BY <1>1, <1>9 DEF Flags, FieldCanStart
  <2>2. t[p - 1] # Quote
    BY <1>1, <1>9, <2>1, TextIs DEF Flags
  <2> QED
    BY <1>2, <1>9, <2>1, <2>2 DEF Sound
<1>10. ASSUME t[p] \notin {Comma, Quote, CR, LF}, s.expectSep
       PROVE  ~Sound(t, p)
  BY <1>2, <1>10 DEF Sound, Flags
<1> QED
  BY <1>6, <1>7, <1>8, <1>9, <1>10

-----------------------------------------------------------------------------
(* What the tokenizer has taken from the text before a place               *)

ValuesIn(record) == [c \in DOMAIN record |-> record[c].value]

BreaksBefore(t, p) == {k \in Breaks(t) : k < p}

LineStart(t, p) ==
  IF Cardinality(BreaksBefore(t, p)) = 0 THEN 1
  ELSE InOrder(BreaksBefore(t, p))[Cardinality(BreaksBefore(t, p))] + 1

CommasBefore(t, p) == {k \in Commas(t) : LineStart(t, p) <= k /\ k < p}

FieldStart(t, p) ==
  IF Cardinality(CommasBefore(t, p)) = 0 THEN LineStart(t, p)
  ELSE InOrder(CommasBefore(t, p))[Cardinality(CommasBefore(t, p))] + 1

Taken(t, p, s) ==
  /\ LineStart(t, p) \in 1..p /\ FieldStart(t, p) \in 1..p
  /\ Len(s.records) = Cardinality(BreaksBefore(t, p))
  /\ \A n \in 1..Len(s.records) :
       ValuesIn(s.records[n]) = FieldsAt(t, Span(t, InOrder(BreaksBefore(t, p)), n))
  /\ Len(s.cur) = Cardinality(CommasBefore(t, p))
  /\ \A c \in 1..Len(s.cur) :
       s.cur[c].value =
         ValueAt(t, IF c = 1 THEN LineStart(t, p) ELSE InOrder(CommasBefore(t, p))[c - 1] + 1,
                 InOrder(CommasBefore(t, p))[c] - 1)
  /\ s.val = ValueAt(t, FieldStart(t, p), p - 1)

LEMMA InOrderTop ==
  ASSUME NEW p \in Nat, p >= 1, NEW S \in SUBSET (1..(p - 1))
  PROVE  /\ Cardinality(S) \in Nat
         /\ Cardinality(S \cup {p}) = Cardinality(S) + 1
         /\ DOMAIN InOrder(S) = 1..Cardinality(S)
         /\ DOMAIN InOrder(S \cup {p}) = 1..(Cardinality(S) + 1)
         /\ \A n \in 1..Cardinality(S) : InOrder(S \cup {p})[n] = InOrder(S)[n]
         /\ InOrder(S \cup {p})[Cardinality(S) + 1] = p
<1>1. p - 1 \in Nat /\ (p - 1) + 1 = p
  OBVIOUS
<1>2. DOMAIN InOrder(S \cup {p}) = 1..Cardinality(S \cup {p})
  BY DEF InOrder
<1> DEFINE m == p - 1
<1>3. m \in Nat /\ S \in SUBSET (1..m) /\ m + 1 = p
  BY <1>1
<1> HIDE DEF m
<1>4. /\ Cardinality(S) \in Nat
      /\ Cardinality(S \cup {m + 1}) = Cardinality(S) + 1
      /\ DOMAIN InOrder(S) = 1..Cardinality(S)
      /\ \A n \in 1..Cardinality(S) : InOrder(S \cup {m + 1})[n] = InOrder(S)[n]
      /\ InOrder(S \cup {m + 1})[Cardinality(S) + 1] = m + 1
  BY <1>3, InOrderStep
<1> QED
  BY <1>2, <1>3, <1>4

LEMMA BeforeIs ==
  ASSUME NEW t \in Text, NEW p \in Nat, p >= 1
  PROVE  /\ BreaksBefore(t, p) \in SUBSET (1..(p - 1))
         /\ CommasBefore(t, p) \in SUBSET (1..(p - 1))
<1>1. \A k \in 1..Len(t) : k < p => k \in 1..(p - 1)
  BY TextIs
<1> QED
  BY <1>1, TextIs DEF BreaksBefore, CommasBefore, Breaks, Commas

(* One place more is a line feed, a comma or neither.                      *)
LEMMA BeforeNext ==
  ASSUME NEW t \in Text, NEW p \in 1..Len(t), LineStart(t, p) \in 1..p
  PROVE  /\ p \notin Breaks(t) => /\ BreaksBefore(t, p + 1) = BreaksBefore(t, p)
                                  /\ LineStart(t, p + 1) = LineStart(t, p)
         /\ p \notin Breaks(t) /\ p \notin Commas(t) =>
              /\ CommasBefore(t, p + 1) = CommasBefore(t, p)
              /\ FieldStart(t, p + 1) = FieldStart(t, p)
         /\ p \notin Breaks(t) /\ p \in Commas(t) =>
              /\ CommasBefore(t, p + 1) = CommasBefore(t, p) \cup {p}
              /\ FieldStart(t, p + 1) = p + 1
         /\ p \in Breaks(t) =>
              /\ BreaksBefore(t, p + 1) = BreaksBefore(t, p) \cup {p}
              /\ LineStart(t, p + 1) = p + 1
              /\ CommasBefore(t, p + 1) = {}
              /\ FieldStart(t, p + 1) = p + 1
<1>1. /\ p \in Nat /\ p >= 1 /\ Len(t) \in Nat
      /\ \A k \in 1..Len(t) : k < p + 1 <=> k < p \/ k = p
  BY TextIs
<1>2. /\ \A k \in Breaks(t) : k \in 1..Len(t)
      /\ \A k \in Commas(t) : k \in 1..Len(t)
  BY TextIs DEF Breaks, Commas
<1>3. CASE p \notin Breaks(t)
  <2>1. BreaksBefore(t, p + 1) = BreaksBefore(t, p)
    BY <1>1, <1>2, <1>3 DEF BreaksBefore
  <2>2. LineStart(t, p + 1) = LineStart(t, p)
    BY <2>1 DEF LineStart
  <2>3. CASE p \notin Commas(t)
    <3>1. CommasBefore(t, p + 1) = CommasBefore(t, p)
      BY <1>1, <1>2, <2>2, <2>3 DEF CommasBefore
    <3> QED
      BY <1>3, <2>1, <2>2, <2>3, <3>1 DEF FieldStart
  <2>4. CASE p \in Commas(t)
    <3>0. \A k : k \in CommasBefore(t, p + 1) <=> k \in CommasBefore(t, p) \/ k = p
      <4> DEFINE ls == LineStart(t, p)
      <4>1. ls <= p
        OBVIOUS
      <4> HIDE DEF ls
      <4>2. CommasBefore(t, p) = {k \in Commas(t) : ls <= k /\ k < p}
        BY DEF CommasBefore, ls
      <4>3. CommasBefore(t, p + 1) = {k \in Commas(t) : ls <= k /\ k < p + 1}
        BY <2>2 DEF CommasBefore, ls
      <4>4. \A k \in Commas(t) : k < p + 1 <=> k < p \/ k = p
        BY <1>1, <1>2
      <4> QED
        BY <2>4, <4>1, <4>2, <4>3, <4>4
    <3>1. CommasBefore(t, p + 1) = CommasBefore(t, p) \cup {p}
      BY <3>0
    <3> DEFINE S == CommasBefore(t, p)
               c == Cardinality(S)
    <3>2. S \in SUBSET (1..(p - 1))
      BY <1>1, BeforeIs
    <3>3. c \in Nat /\ Cardinality(S \cup {p}) = c + 1 /\ InOrder(S \cup {p})[c + 1] = p
      BY <1>1, <3>2, InOrderTop
    <3> DEFINE T == CommasBefore(t, p + 1)
    <3>a. T = S \cup {p}
      BY <3>1
    <3>b. FieldStart(t, p + 1) = IF Cardinality(T) = 0 THEN LineStart(t, p + 1)
                                 ELSE InOrder(T)[Cardinality(T)] + 1
      BY DEF FieldStart
    <3> HIDE DEF c, S, T
    <3>4. FieldStart(t, p + 1) = p + 1
      BY <3>3, <3>a, <3>b
    <3> QED
      BY <1>3, <2>1, <2>2, <2>4, <3>1, <3>4
  <2> QED
    BY <2>3, <2>4
<1>4. CASE p \in Breaks(t)
  <2>1. BreaksBefore(t, p + 1) = BreaksBefore(t, p) \cup {p}
    <3>1. \A k : k \in BreaksBefore(t, p + 1) <=> k \in BreaksBefore(t, p) \/ k = p
      BY <1>1, <1>2, <1>4 DEF BreaksBefore
    <3> QED
      BY <3>1
  <2> DEFINE S == BreaksBefore(t, p)
             c == Cardinality(S)
  <2>2. S \in SUBSET (1..(p - 1))
    BY <1>1, BeforeIs
  <2>3. c \in Nat /\ Cardinality(S \cup {p}) = c + 1 /\ InOrder(S \cup {p})[c + 1] = p
    BY <1>1, <2>2, InOrderTop
  <2> DEFINE T == BreaksBefore(t, p + 1)
  <2>a. T = S \cup {p}
    BY <2>1
  <2>b. LineStart(t, p + 1) = IF Cardinality(T) = 0 THEN 1 ELSE InOrder(T)[Cardinality(T)] + 1
    BY DEF LineStart
  <2> HIDE DEF c, S, T
  <2>4. LineStart(t, p + 1) = p + 1
    BY <2>3, <2>a, <2>b
  <2>5. CommasBefore(t, p + 1) = {}
    BY <1>1, <1>2, <2>4 DEF CommasBefore
  <2>6. FieldStart(t, p + 1) = p + 1
    BY <2>4, <2>5, FS_EmptySet DEF FieldStart
  <2> QED
    BY <1>4, <2>1, <2>4, <2>5, <2>6
<1> QED
  BY <1>3, <1>4

(* The values of a field: a place more.                                    *)
LEMMA KeptStep ==
  ASSUME NEW t \in Text, NEW p \in 1..Len(t), NEW f \in 1..p,
         p > 1 => ~(t[p - 1] = Quote /\ ~Outside(t, p - 1)) /\ ~(t[p - 1] = CR /\ t[p] = LF)
  PROVE  Kept(t, f, p) = Kept(t, f, p - 1) \cup (IF t[p] = Quote THEN {} ELSE {p})
<1>1. p \in Nat /\ p >= 1 /\ f \in Nat
  BY TextIs
<1>2. ASSUME NEW k
      PROVE  k \in Kept(t, f, p) <=> k \in Kept(t, f, p - 1) \/ (k = p /\ t[p] # Quote)
  <2>1. k \in f..p <=> k \in f..(p - 1) \/ k = p
    BY <1>1
  <2>2. CASE k = p
    BY <1>1, <2>2 DEF Kept
  <2>3. CASE k = p - 1 /\ k \in f..p
    <3>1. p > 1 /\ k + 1 = p /\ k < p /\ ~(k < p - 1) /\ k # p
      BY <1>1, <2>3
    <3>2. k \in Kept(t, f, p) <=> t[k] # Quote
      BY <2>3, <3>1 DEF Kept
    <3>3. k \in Kept(t, f, p - 1) <=> t[k] # Quote
      BY <2>1, <2>3, <3>1 DEF Kept
    <3> QED
      BY <3>1, <3>2, <3>3
  <2>4. CASE k \in f..p /\ k # p - 1 /\ k # p
    <3>1. k < p /\ k < p - 1 /\ k \in f..(p - 1)
      BY <1>1, <2>4
    <3> QED
      BY <2>4, <3>1 DEF Kept
  <2>5. CASE k \notin f..p
    BY <1>1, <2>1, <2>5 DEF Kept
  <2> QED
    BY <2>2, <2>3, <2>4, <2>5
<1> QED
  BY <1>2

LEMMA KeptPair ==
  ASSUME NEW t \in Text, NEW p \in 1..Len(t), NEW f \in 1..p, p + 1 <= Len(t),
         ~Outside(t, p), p > 1 => ~(t[p - 1] = CR /\ t[p] = LF)
  PROVE  /\ t[p] = Quote /\ t[p + 1] = Quote => Kept(t, f, p + 1) = Kept(t, f, p - 1) \cup {p}
         /\ t[p] = CR /\ t[p + 1] = LF => Kept(t, f, p + 1) = Kept(t, f, p - 1) \cup {p + 1}
<1>1. p \in Nat /\ p >= 1 /\ f \in Nat /\ Len(t) \in Nat /\ (p + 1) - 1 = p
  BY TextIs
<1>2. p > 1 => ~(t[p - 1] = Quote /\ ~Outside(t, p - 1))
  <2> SUFFICES ASSUME p > 1 PROVE ~(t[p - 1] = Quote /\ ~Outside(t, p - 1))
    OBVIOUS
  <2>1. p - 1 \in 1..Len(t) /\ (p - 1) + 1 = p
    BY <1>1, PlacesAre
  <2> QED
    BY <2>1, OutsideStep
<1>3. Kept(t, f, p) = Kept(t, f, p - 1) \cup (IF t[p] = Quote THEN {} ELSE {p})
  BY <1>2, KeptStep
<1>4. ASSUME NEW k
      PROVE  /\ t[p] = Quote /\ t[p + 1] = Quote =>
                  (k \in Kept(t, f, p + 1) <=> k \in Kept(t, f, p - 1) \/ k = p)
             /\ t[p] = CR /\ t[p + 1] = LF =>
                  (k \in Kept(t, f, p + 1) <=> k \in Kept(t, f, p - 1) \/ k = p + 1)
  <2>1. k \in f..(p + 1) <=> k \in f..p \/ k = p + 1
    BY <1>1
  <2>2. CASE k = p + 1
    <3>1. Outside(t, p + 1) <=> t[p] = Quote
      BY OutsideStep
    <3>2. k \in f..(p + 1) /\ ~(k < p + 1) /\ k \notin f..(p - 1) /\ k # p
      BY <1>1, <2>2
    <3> QED
      BY <2>2, <3>1, <3>2, CharsDiffer DEF Kept
  <2>3. CASE k = p
    <3>1. k \in f..(p + 1) /\ k < p + 1 /\ k \notin f..(p - 1) /\ k # p + 1
      BY <1>1, <2>3
    <3> QED
      BY <2>3, <3>1, CharsDiffer DEF Kept
  <2>4. CASE k \in f..p /\ k # p
    <3>1. k < p + 1 /\ k < p /\ k \in f..(p + 1) /\ k # p + 1
      BY <1>1, <2>4
    <3>2. k \in Kept(t, f, p + 1) <=> k \in Kept(t, f, p)
      BY <2>4, <3>1 DEF Kept
    <3> QED
      BY <1>3, <2>4, <3>1, <3>2
  <2>5. CASE k \notin f..(p + 1)
    <3>1. k \notin f..(p - 1) /\ k # p /\ k # p + 1
      BY <1>1, <2>5
    <3> QED
      BY <2>5, <3>1 DEF Kept
  <2> QED
    BY <2>1, <2>2, <2>3, <2>4, <2>5
<1> QED
  BY <1>4

LEMMA ValueStep ==
  ASSUME NEW t \in Text, NEW f \in Nat, f >= 1, NEW p \in Nat, p >= 1, NEW q \in Nat, NEW k \in Nat, k >= p,
         Kept(t, f, q) = Kept(t, f, p - 1) \cup {k},
         NEW v \in Text, v = ValueAt(t, f, p - 1)
  PROVE  ValueAt(t, f, q) = Append(v, IF t[k] = CR THEN LF ELSE t[k])
<1> DEFINE S == Kept(t, f, p - 1)
           c == Cardinality(S)
           g(n) == IF t[n] = CR THEN LF ELSE t[n]
<1>1. S \in SUBSET (1..(k - 1)) /\ k >= 1
  <2>1. \A n \in f..(p - 1) : n \in 1..(k - 1)
    OBVIOUS
  <2> QED
    BY <2>1 DEF Kept
<1> HIDE DEF S
<1>2. /\ c \in Nat
      /\ DOMAIN InOrder(S) = 1..c
      /\ DOMAIN InOrder(S \cup {k}) = 1..(c + 1)
      /\ \A n \in 1..c : InOrder(S \cup {k})[n] = InOrder(S)[n]
      /\ InOrder(S \cup {k})[c + 1] = k
  BY <1>1, InOrderTop
<1> HIDE DEF c
<1>3. v = [n \in 1..c |-> g(InOrder(S)[n])]
  BY <1>2 DEF ValueAt, S
<1>4. ValueAt(t, f, q) = [n \in 1..(c + 1) |-> g(InOrder(S \cup {k})[n])]
  BY <1>2 DEF ValueAt, S
<1> DEFINE w == [n \in 1..(c + 1) |-> g(InOrder(S \cup {k})[n])]
           x == g(k)
<1>5. Len(v) = c
  BY <1>2, <1>3 DEF Text
<1>6. w = Append(v, x)
  <2>0. \A n \in 1..c : n \in 1..(c + 1)
    BY <1>2
  <2>1. \A n \in 1..c : w[n] = v[n]
    BY <1>2, <1>3, <2>0, ZenonT(60)
  <2>2. w[c + 1] = x
    <3>1. c + 1 \in 1..(c + 1)
      BY <1>2
    <3> QED
      BY <1>2, <3>1
  <2> HIDE DEF g
  <2>3. DOMAIN w = 1..(c + 1)
    OBVIOUS
  <2>4. Append(v, x) = [n \in 1..(c + 1) |-> IF n = c + 1 THEN x ELSE v[n]]
    BY <1>2, <1>5 DEF Text
  <2>5. \A n \in 1..(c + 1) : w[n] = IF n = c + 1 THEN x ELSE v[n]
    <3>1. \A n \in 1..(c + 1) : n = c + 1 \/ n \in 1..c
      BY <1>2
    <3>2. c + 1 \notin 1..c
      BY <1>2
    <3> HIDE DEF w, x
    <3> QED
      BY <2>1, <2>2, <3>1, <3>2
  <2>6. w = [n \in 1..(c + 1) |-> w[n]]
    OBVIOUS
  <2> HIDE DEF w, x
  <2> QED
    BY <2>4, <2>5, <2>6
<1> QED
  BY <1>4, <1>6

LEMMA ValueEmpty ==
  ASSUME NEW t \in Text, NEW p \in Nat
  PROVE  ValueAt(t, p + 1, p) = <<>>
<1>1. (p + 1)..p = {}
  OBVIOUS
<1>2. Kept(t, p + 1, p) = {}
  BY <1>1 DEF Kept
<1>3. DOMAIN InOrder({}) = {}
  <2>1. 1..0 = {}
    OBVIOUS
  <2> QED
    BY <2>1, FS_EmptySet DEF InOrder
<1> QED
  BY <1>2, <1>3 DEF ValueAt

(* Nothing but the value grows.                                            *)
LEMMA TakenValue ==
  ASSUME NEW t, NEW p \in Nat, NEW q \in Nat, p <= q, NEW s, Taken(t, p, s),
         BreaksBefore(t, q) = BreaksBefore(t, p), CommasBefore(t, q) = CommasBefore(t, p),
         NEW e, e.records = s.records, e.cur = s.cur, e.val = ValueAt(t, FieldStart(t, p), q - 1)
  PROVE  Taken(t, q, e)
<1>1. LineStart(t, q) = LineStart(t, p) /\ FieldStart(t, q) = FieldStart(t, p)
  BY DEF LineStart, FieldStart
<1>2. \A k \in 1..p : k \in 1..q
  OBVIOUS
<1>3. LineStart(t, q) \in 1..q /\ FieldStart(t, q) \in 1..q
  BY <1>1, <1>2 DEF Taken
<1> QED
  BY <1>1, <1>3 DEF Taken

(* The fields of a line that ends before a place.                          *)
LEMMA LineIs ==
  ASSUME NEW t \in Text, NEW p \in Nat, p >= 1, NEW s \in Locals, Taken(t, p, s)
  PROVE  ValuesIn(Append(s.cur, FieldOf(s))) = FieldsAt(t, <<LineStart(t, p), p - 1>>)
<1> DEFINE S == CommasBefore(t, p)
           c == Cardinality(S)
           ls == LineStart(t, p)
           l == <<ls, p - 1>>
           R == Append(s.cur, FieldOf(s))
           from(cuts, n) == IF n = 1 THEN ls ELSE cuts[n - 1] + 1
<1>1. S \in SUBSET (1..(p - 1)) /\ (p - 1) + 1 = p /\ l[1] = ls /\ l[2] = p - 1
  BY BeforeIs
<1>2. Cuts(t, l) = S \cup {p}
  <2>1. \A k \in Commas(t) : k <= p - 1 <=> k < p
    BY TextIs DEF Commas
  <2> HIDE DEF l, ls
  <2>2. \A k : k \in Cuts(t, l) <=> k \in S \/ k = p
    BY <1>1, <2>1 DEF Cuts, CommasBefore, ls
  <2> HIDE DEF S
  <2> QED
    BY <2>2
<1>3. /\ c \in Nat
      /\ DOMAIN InOrder(S \cup {p}) = 1..(c + 1)
      /\ \A n \in 1..c : InOrder(S \cup {p})[n] = InOrder(S)[n]
      /\ InOrder(S \cup {p})[c + 1] = p
  BY <1>1, InOrderTop
<1>4. /\ Len(s.cur) = c
      /\ \A n \in 1..c : s.cur[n].value = ValueAt(t, from(InOrder(S), n), InOrder(S)[n] - 1)
      /\ s.val = ValueAt(t, IF c = 0 THEN ls ELSE InOrder(S)[c] + 1, p - 1)
  BY DEF Taken, FieldStart
<1> HIDE DEF S, c, ls
<1> DEFINE cuts == InOrder(S \cup {p})
<1>5. FieldsAt(t, l) = [n \in 1..(c + 1) |-> ValueAt(t, from(cuts, n), cuts[n] - 1)]
  BY <1>1, <1>2, <1>3 DEF FieldsAt
<1>6. /\ Len(R) = c + 1 /\ DOMAIN R = 1..(c + 1)
      /\ \A n \in 1..c : R[n] = s.cur[n]
      /\ R[c + 1] = FieldOf(s)
  <2>1. s.cur \in Seq(FieldRead) /\ FieldOf(s) \in FieldRead
    BY FieldOfType, LocalsAre
  <2> QED
    BY <1>3, <1>4, <2>1
<1>7. FieldOf(s).value = s.val
  BY DEF FieldOf
<1>8. ValuesIn(R) = [n \in 1..(c + 1) |-> R[n].value]
  BY <1>6 DEF ValuesIn
<1>9. ASSUME NEW n \in 1..(c + 1)
      PROVE  R[n].value = ValueAt(t, from(cuts, n), cuts[n] - 1)
  <2>1. CASE n = c + 1
    <3>1. cuts[n] = p
      BY <1>3, <2>1
    <3>2. from(cuts, n) = IF c = 0 THEN ls ELSE InOrder(S)[c] + 1
      <4>1. n = 1 <=> c = 0
        BY <1>3, <2>1
      <4>2. c # 0 => cuts[n - 1] = InOrder(S)[c]
        <5>1. n - 1 = c /\ (c # 0 => c \in 1..c)
          BY <1>3, <2>1
        <5> QED
          BY <1>3, <5>1
      <4> QED
        BY <4>1, <4>2
    <3> HIDE DEF R, cuts, from
    <3> QED
      BY <1>4, <1>6, <1>7, <2>1, <3>1, <3>2
  <2>2. CASE n # c + 1
    <3>1. n \in 1..c
      BY <1>3, <2>2
    <3>2. cuts[n] = InOrder(S)[n]
      BY <1>3, <3>1
    <3>3. from(cuts, n) = from(InOrder(S), n)
      <4>1. n # 1 => n - 1 \in 1..c
        BY <1>3, <3>1
      <4> QED
        BY <1>3, <4>1
    <3> HIDE DEF R, cuts, from
    <3> QED
      BY <1>4, <1>6, <3>1, <3>2, <3>3
  <2> QED
    BY <2>1, <2>2
<1> HIDE DEF R, cuts, from, l
<1>10. ValuesIn(R) = FieldsAt(t, l)
  BY <1>5, <1>8, <1>9
<1> QED
  BY <1>10 DEF R, l, ls

LEMMA TakenComma ==
  ASSUME NEW t \in Text, NEW p \in 1..Len(t), NEW s \in Locals, Taken(t, p, s),
         t[p] = Comma, Outside(t, p),
         NEW e, e.records = s.records, e.cur = Append(s.cur, FieldOf(s)), e.val = <<>>
  PROVE  Taken(t, p + 1, e)
<1> DEFINE S == CommasBefore(t, p)
           c == Cardinality(S)
           ls == LineStart(t, p)
           start(seq, n) == IF n = 1 THEN ls ELSE seq[n - 1] + 1
<1>1. /\ p \in Nat /\ p >= 1 /\ Len(t) \in Nat /\ p + 1 \in Nat /\ (p + 1) - 1 = p
      /\ p \in Commas(t) /\ p \notin Breaks(t)
  BY TextIs, CharsDiffer DEF Commas, Breaks
<1>2. /\ BreaksBefore(t, p + 1) = BreaksBefore(t, p)
      /\ LineStart(t, p + 1) = ls
      /\ CommasBefore(t, p + 1) = S \cup {p}
      /\ FieldStart(t, p + 1) = p + 1
  BY <1>1, BeforeNext DEF Taken
<1>3. S \in SUBSET (1..(p - 1))
  BY <1>1, BeforeIs
<1>4. /\ c \in Nat /\ Cardinality(S \cup {p}) = c + 1
      /\ DOMAIN InOrder(S \cup {p}) = 1..(c + 1)
      /\ \A n \in 1..c : InOrder(S \cup {p})[n] = InOrder(S)[n]
      /\ InOrder(S \cup {p})[c + 1] = p
  BY <1>1, <1>3, InOrderTop
<1>5. /\ Len(s.cur) = c
      /\ \A n \in 1..c : s.cur[n].value = ValueAt(t, start(InOrder(S), n), InOrder(S)[n] - 1)
      /\ s.val = ValueAt(t, IF c = 0 THEN ls ELSE InOrder(S)[c] + 1, p - 1)
  BY DEF Taken, FieldStart
<1>6. /\ Len(e.cur) = c + 1
      /\ \A n \in 1..c : e.cur[n] = s.cur[n]
      /\ e.cur[c + 1] = FieldOf(s)
  <2>1. s.cur \in Seq(FieldRead) /\ FieldOf(s) \in FieldRead
    BY FieldOfType, LocalsAre
  <2> QED
    BY <1>4, <1>5, <2>1
<1>7. FieldOf(s).value = s.val
  BY DEF FieldOf
<1>8. ls \in 1..(p + 1) /\ p + 1 \in 1..(p + 1)
  BY <1>1 DEF Taken
<1> HIDE DEF S, c, ls
<1> DEFINE T == InOrder(S \cup {p})
<1>9. ASSUME NEW n \in 1..(c + 1)
      PROVE  e.cur[n].value = ValueAt(t, start(T, n), T[n] - 1)
  <2>1. CASE n = c + 1
    <3>1. T[n] = p
      BY <1>4, <2>1
    <3>2. start(T, n) = IF c = 0 THEN ls ELSE InOrder(S)[c] + 1
      <4>1. n = 1 <=> c = 0
        BY <1>4, <2>1
      <4>2. c # 0 => T[n - 1] = InOrder(S)[c]
        <5>1. n - 1 = c /\ (c # 0 => c \in 1..c)
          BY <1>4, <2>1
        <5> QED
          BY <1>4, <5>1
      <4> QED
        BY <4>1, <4>2
    <3> HIDE DEF T, start
    <3> QED
      BY <1>5, <1>6, <1>7, <2>1, <3>1, <3>2
  <2>2. CASE n # c + 1
    <3>1. n \in 1..c
      BY <1>4, <2>2
    <3>2. T[n] = InOrder(S)[n]
      BY <1>4, <3>1
    <3>3. start(T, n) = start(InOrder(S), n)
      <4>1. n # 1 => n - 1 \in 1..c
        BY <1>4, <3>1
      <4> QED
        BY <1>4, <4>1
    <3> HIDE DEF T, start
    <3> QED
      BY <1>5, <1>6, <3>1, <3>2, <3>3
  <2> QED
    BY <2>1, <2>2
<1>10. e.val = ValueAt(t, p + 1, p)
  BY <1>1, ValueEmpty
<1>11. Len(e.records) = Cardinality(BreaksBefore(t, p + 1))
       /\ \A n \in 1..Len(e.records) :
            ValuesIn(e.records[n]) = FieldsAt(t, Span(t, InOrder(BreaksBefore(t, p + 1)), n))
  BY <1>2 DEF Taken
<1>12. /\ Len(e.cur) = Cardinality(CommasBefore(t, p + 1))
       /\ \A n \in 1..Len(e.cur) : e.cur[n].value =
            ValueAt(t, IF n = 1 THEN LineStart(t, p + 1) ELSE InOrder(CommasBefore(t, p + 1))[n - 1] + 1,
                    InOrder(CommasBefore(t, p + 1))[n] - 1)
  BY <1>2, <1>4, <1>6, <1>9
<1>13. /\ LineStart(t, p + 1) \in 1..(p + 1) /\ FieldStart(t, p + 1) \in 1..(p + 1)
       /\ e.val = ValueAt(t, FieldStart(t, p + 1), (p + 1) - 1)
  BY <1>1, <1>2, <1>8, <1>10
<1> QED
  BY <1>11, <1>12, <1>13 DEF Taken

(* The spans of the lines before a place stay what they are.               *)
LEMMA SpansGrow ==
  ASSUME NEW t, NEW m \in Nat, m >= 1, NEW S \in SUBSET (1..(m - 1))
  PROVE  \A n \in 1..Cardinality(S) : Span(t, InOrder(S \cup {m}), n) = Span(t, InOrder(S), n)
<1>1. Cardinality(S) \in Nat /\ \A n \in 1..Cardinality(S) : InOrder(S \cup {m})[n] = InOrder(S)[n]
  BY InOrderTop
<1> SUFFICES ASSUME NEW n \in 1..Cardinality(S)
             PROVE  Span(t, InOrder(S \cup {m}), n) = Span(t, InOrder(S), n)
  OBVIOUS
<1> DEFINE a == InOrder(S \cup {m})
           b == InOrder(S)
<1>2. a[n] = b[n]
  BY <1>1
<1>3. n # 1 => a[n - 1] = b[n - 1]
  <2>1. n # 1 => n - 1 \in 1..Cardinality(S)
    BY <1>1
  <2> QED
    BY <1>1, <2>1
<1> HIDE DEF a, b
<1>4. Span(t, a, n) = Span(t, b, n)
  BY <1>2, <1>3 DEF Span
<1> QED
  BY <1>4 DEF a, b

(* The span of a last line that ends at a place.                           *)
LEMMA LastSpan ==
  ASSUME NEW t, NEW m \in Nat, m >= 1, NEW S \in SUBSET (1..(m - 1)),
         NEW from, from = (IF Cardinality(S) = 0 THEN 1 ELSE InOrder(S)[Cardinality(S)] + 1)
  PROVE  Span(t, InOrder(S \cup {m}), Cardinality(S) + 1) =
           <<from, IF m <= Len(t) /\ m > from /\ t[m - 1] = CR THEN m - 2 ELSE m - 1>>
<1> DEFINE c == Cardinality(S)
           a == InOrder(S \cup {m})
           b == InOrder(S)
<1>1. /\ c \in Nat
      /\ \A n \in 1..c : a[n] = b[n]
      /\ a[c + 1] = m
  BY InOrderTop
<1>2. from = (IF c = 0 THEN 1 ELSE b[c] + 1)
  OBVIOUS
<1> HIDE DEF a, b, c
<1>3. (c + 1 = 1 <=> c = 0) /\ (c + 1) - 1 = c /\ (c # 0 => c \in 1..c)
  BY <1>1
<1>4. (IF c + 1 = 1 THEN 1 ELSE a[(c + 1) - 1] + 1) = from
  BY <1>1, <1>2, <1>3
<1>5. Span(t, a, c + 1) =
        <<from, IF m <= Len(t) /\ m > from /\ t[m - 1] = CR THEN m - 2 ELSE m - 1>>
  BY <1>1, <1>4 DEF Span
<1> QED
  BY <1>5 DEF a, c

(* A record more: the lines before a place and the one that ends there.    *)
RecordsAre(t, ends, R) ==
  /\ Len(R) = Cardinality(ends)
  /\ \A n \in 1..Len(R) : ValuesIn(R[n]) = FieldsAt(t, Span(t, InOrder(ends), n))

WithLast(s) == Append(s.records, Append(s.cur, FieldOf(s)))

EndsAt(t, p, m) ==
  Span(t, InOrder(BreaksBefore(t, p) \cup {m}), Cardinality(BreaksBefore(t, p)) + 1)
    = <<LineStart(t, p), p - 1>>

LEMMA RecordsGrow ==
  ASSUME NEW t \in Text, NEW p \in Nat, p >= 1, NEW s \in Locals, Taken(t, p, s),
         NEW m \in Nat, p <= m, EndsAt(t, p, m)
  PROVE  RecordsAre(t, BreaksBefore(t, p) \cup {m}, WithLast(s))
<1> DEFINE S == BreaksBefore(t, p)
           c == Cardinality(S)
           a == InOrder(S \cup {m})
           R == WithLast(s)
<1>1. S \in SUBSET (1..(m - 1)) /\ m >= 1
  <2>1. S \in SUBSET (1..(p - 1))
    BY BeforeIs
  <2>2. \A k \in 1..(p - 1) : k \in 1..(m - 1)
    OBVIOUS
  <2> HIDE DEF S
  <2> QED
    BY <2>1, <2>2
<1>2. c \in Nat /\ Cardinality(S \cup {m}) = c + 1
  BY <1>1, InOrderTop
<1>3. \A n \in 1..c : Span(t, a, n) = Span(t, InOrder(S), n)
  <2> HIDE DEF S
  <2> QED
    BY <1>1, SpansGrow
<1>4. Span(t, a, c + 1) = <<LineStart(t, p), p - 1>>
  BY DEF EndsAt
<1>5. /\ Len(s.records) = c
      /\ \A n \in 1..c : ValuesIn(s.records[n]) = FieldsAt(t, Span(t, InOrder(S), n))
  BY DEF Taken
<1>6. /\ Len(R) = c + 1
      /\ \A n \in 1..c : R[n] = s.records[n]
      /\ R[c + 1] = Append(s.cur, FieldOf(s))
  <2>1. /\ s.records \in Seq(Seq(FieldRead))
        /\ s.cur \in Seq(FieldRead) /\ FieldOf(s) \in FieldRead
    BY FieldOfType, LocalsAre
  <2> DEFINE x == Append(s.cur, FieldOf(s))
  <2>2. x \in Seq(FieldRead)
    BY <2>1
  <2>3. R = Append(s.records, x)
    BY DEF WithLast
  <2> HIDE DEF R
  <2> HIDE DEF x
  <2>4. Len(R) = c + 1 /\ R[c + 1] = x
    BY <1>2, <1>5, <2>1, <2>2, <2>3
  <2>5. \A n \in 1..c : R[n] = s.records[n]
    BY <1>2, <1>5, <2>1, <2>2, <2>3
  <2> QED
    BY <2>4, <2>5 DEF x
<1>7. ValuesIn(Append(s.cur, FieldOf(s))) = FieldsAt(t, <<LineStart(t, p), p - 1>>)
  BY LineIs
<1> HIDE DEF S, c, a, R
<1>8. ASSUME NEW n \in 1..(c + 1)
      PROVE  ValuesIn(R[n]) = FieldsAt(t, Span(t, a, n))
  <2>1. CASE n = c + 1
    BY <1>4, <1>6, <1>7, <2>1
  <2>2. CASE n # c + 1
    <3>1. n \in 1..c
      BY <1>2, <2>2
    <3> QED
      BY <1>3, <1>5, <1>6, <3>1
  <2> QED
    BY <2>1, <2>2
<1>9. Len(R) = Cardinality(S \cup {m}) /\ \A n \in 1..Len(R) : ValuesIn(R[n]) = FieldsAt(t, Span(t, a, n))
  BY <1>2, <1>6, <1>8
<1> QED
  BY <1>9 DEF RecordsAre, S, a, R

(* The end of a line, which is one place or two.                           *)
LEMMA TakenBreak ==
  ASSUME NEW t \in Text, NEW p \in 1..Len(t), NEW s \in Locals, Taken(t, p, s),
         NEW m \in 1..Len(t), m \in Breaks(t),
         \/ m = p /\ (p > 1 => t[p - 1] # CR)
         \/ m = p + 1 /\ t[p] = CR,
         BreaksBefore(t, m) = BreaksBefore(t, p),
         NEW e, e.records = WithLast(s), e.cur = <<>>, e.val = <<>>
  PROVE  Taken(t, m + 1, e)
<1>1. /\ p \in Nat /\ p >= 1 /\ m \in Nat /\ m >= 1 /\ p <= m /\ m <= Len(t) /\ Len(t) \in Nat
      /\ (m + 1) - 1 = m /\ m + 1 \in 1..(m + 1)
      /\ \A k \in 1..p : k \in 1..m
  BY TextIs
<1>2. LineStart(t, m) = LineStart(t, p) /\ LineStart(t, m) \in 1..m /\ LineStart(t, p) \in 1..p
  BY <1>1 DEF Taken, LineStart
<1>3. /\ BreaksBefore(t, m + 1) = BreaksBefore(t, p) \cup {m}
      /\ LineStart(t, m + 1) = m + 1
      /\ CommasBefore(t, m + 1) = {}
      /\ FieldStart(t, m + 1) = m + 1
  BY <1>2, BeforeNext
<1>4. EndsAt(t, p, m)
  <2> DEFINE S == BreaksBefore(t, p)
             from == LineStart(t, p)
  <2>1. S \in SUBSET (1..(m - 1))
    BY <1>1, BeforeIs
  <2>2. from = (IF Cardinality(S) = 0 THEN 1 ELSE InOrder(S)[Cardinality(S)] + 1)
    BY DEF LineStart
  <2>3. from \in 1..p
    BY <1>2
  <2> HIDE DEF S, from
  <2>4. Span(t, InOrder(S \cup {m}), Cardinality(S) + 1) =
          <<from, IF m <= Len(t) /\ m > from /\ t[m - 1] = CR THEN m - 2 ELSE m - 1>>
    BY <1>1, <2>1, <2>2, LastSpan
  <2>5. CASE m = p /\ (p > 1 => t[p - 1] # CR)
    <3>1. ~(m > from /\ t[m - 1] = CR)
      BY <1>1, <2>3, <2>5
    <3> QED
      BY <2>4, <2>5, <3>1 DEF EndsAt, S, from
  <2>6. CASE m = p + 1 /\ t[p] = CR
    <3>1. m <= Len(t) /\ m > from /\ m - 1 = p /\ m - 2 = p - 1
      BY <1>1, <2>3, <2>6
    <3> QED
      BY <2>4, <2>6, <3>1 DEF EndsAt, S, from
  <2> QED
    BY <2>5, <2>6
<1>5. /\ Len(e.records) = Cardinality(BreaksBefore(t, m + 1))
      /\ \A n \in 1..Len(e.records) :
           ValuesIn(e.records[n]) = FieldsAt(t, Span(t, InOrder(BreaksBefore(t, m + 1)), n))
  <2>1. RecordsAre(t, BreaksBefore(t, p) \cup {m}, WithLast(s))
    BY <1>1, <1>4, RecordsGrow
  <2>2. RecordsAre(t, BreaksBefore(t, m + 1), e.records)
    BY <1>3, <2>1
  <2> QED
    BY <2>2 DEF RecordsAre
<1>6. Len(e.cur) = Cardinality(CommasBefore(t, m + 1)) /\ 1..Len(e.cur) = {}
  <2>1. Len(e.cur) = 0 /\ 1..0 = {}
    OBVIOUS
  <2>2. Cardinality({}) = 0
    BY FS_EmptySet
  <2> QED
    BY <1>3, <2>1, <2>2
<1>7. e.val = ValueAt(t, FieldStart(t, m + 1), (m + 1) - 1)
  BY <1>1, <1>3, ValueEmpty
<1> QED
  BY <1>1, <1>3, <1>5, <1>6, <1>7 DEF Taken

(* What has been taken when the whole text has been read.                  *)
LEMMA SplitIs ==
  ASSUME NEW t \in Text, NEW E, Ends(t) = E, NEW R, DOMAIN R = 1..Len(R), RecordsAre(t, E, R)
  PROVE  [r \in DOMAIN R |-> ValuesIn(R[r])] = Split(t)
<1>1. /\ DOMAIN InOrder(E) = 1..Len(R)
      /\ \A n \in 1..Len(R) : ValuesIn(R[n]) = FieldsAt(t, Span(t, InOrder(E), n))
  BY DEF InOrder, RecordsAre
<1>2. LineSpans(t) = [n \in 1..Len(R) |-> Span(t, InOrder(E), n)]
  BY <1>1 DEF LineSpans
<1>3. DOMAIN LineSpans(t) = 1..Len(R) /\ \A n \in 1..Len(R) : LineSpans(t)[n] = Span(t, InOrder(E), n)
  BY <1>2
<1>4. Split(t) = [n \in 1..Len(R) |-> FieldsAt(t, Span(t, InOrder(E), n))]
  BY <1>3 DEF Split
<1> QED
  BY <1>1, <1>4

LEMMA TakenAll ==
  ASSUME NEW t \in Text, NEW s \in Locals, Taken(t, Len(t) + 1, s), Flags(t, Len(t) + 1, s),
         ~s.inQuotes,
         NEW R, R = IF Blank(s) THEN s.records ELSE WithLast(s)
  PROVE  [r \in DOMAIN R |-> ValuesIn(R[r])] = Split(t)
<1> DEFINE p == Len(t) + 1
           S == BreaksBefore(t, p)
<1>1. p \in Nat /\ p >= 1 /\ p - 1 = Len(t) /\ Len(t) \in Nat /\ ~(p <= Len(t))
      /\ (p # 1 => Len(t) \in 1..Len(t))
  BY TextIs
<1>2. S = Breaks(t)
  <2>1. \A k \in 1..Len(t) : k < p
    BY <1>1
  <2> HIDE DEF p
  <2> QED
    BY <2>1, TextIs DEF BreaksBefore, Breaks
<1>3. t # <<>> <=> p # 1
  BY <1>1 DEF Text
<1>4. Outside(t, p) /\ (Blank(s) <=> LineCanStart(t, p))
  BY DEF Flags
<1>5. LineCanStart(t, p) <=> p = 1 \/ t[Len(t)] = LF
  BY <1>1 DEF LineCanStart
<1>6. p # 1 => (Len(t) \in Breaks(t) <=> t[Len(t)] = LF)
  <2>1. p # 1 /\ t[Len(t)] = LF => Outside(t, Len(t))
    BY <1>1, <1>4, OutsideStep, CharsDiffer
  <2> HIDE DEF p
  <2> QED
    BY <1>1, <2>1, TextIs DEF Breaks
<1>7. Ends(t) = IF Blank(s) THEN S ELSE S \cup {p}
  <2>1. CASE Blank(s)
    <3>1. ~(t # <<>> /\ Len(t) \notin Breaks(t))
      BY <1>3, <1>4, <1>5, <1>6, <2>1
    <3> QED
      BY <1>2, <2>1, <3>1 DEF Ends, When
  <2>2. CASE ~Blank(s)
    <3>1. t # <<>> /\ Len(t) \notin Breaks(t)
      BY <1>3, <1>4, <1>5, <1>6, <2>2
    <3> QED
      BY <1>2, <2>2, <3>1 DEF Ends, When
  <2> QED
    BY <2>1, <2>2
<1>8. CASE Blank(s)
  <2>1. R = s.records /\ Ends(t) = S
    BY <1>7, <1>8
  <2>2. DOMAIN R = 1..Len(R)
    BY <2>1, LocalsAre
  <2>3. RecordsAre(t, S, R)
    BY <2>1 DEF Taken, RecordsAre
  <2> HIDE DEF S
  <2> QED
    BY <2>1, <2>2, <2>3, SplitIs
<1>9. CASE ~Blank(s)
  <2>1. R = WithLast(s) /\ Ends(t) = S \cup {p}
    BY <1>7, <1>9
  <2>2. DOMAIN R = 1..Len(R)
    <3>1. /\ s.records \in Seq(Seq(FieldRead))
          /\ s.cur \in Seq(FieldRead) /\ FieldOf(s) \in FieldRead
      BY FieldOfType, LocalsAre
    <3> QED
      BY <2>1, <3>1 DEF WithLast
  <2>3. EndsAt(t, p, p)
    <3>1. S \in SUBSET (1..(p - 1))
      BY <1>1, BeforeIs
    <3>2. LineStart(t, p) = IF Cardinality(S) = 0 THEN 1 ELSE InOrder(S)[Cardinality(S)] + 1
      BY DEF LineStart
    <3> HIDE DEF p, S
    <3> QED
      BY <1>1, <3>1, <3>2, LastSpan DEF EndsAt, S
  <2>4. RecordsAre(t, S \cup {p}, R)
    <3>1. Taken(t, p, s) /\ p <= p
      BY <1>1
    <3> HIDE DEF p
    <3> QED
      BY <1>1, <2>1, <2>3, <3>1, RecordsGrow
  <2> DEFINE E == S \cup {p}
  <2>5. Ends(t) = E /\ RecordsAre(t, E, R)
    BY <2>1, <2>4
  <2> HIDE DEF S, p, E
  <2> QED
    BY <2>2, <2>5, SplitIs
<1> QED
  BY <1>8, <1>9

-----------------------------------------------------------------------------
(* One turn of the loop, as long as there is no error                      *)

LEMMA KeptHere ==
  ASSUME NEW t \in Text, NEW p \in 1..Len(t), NEW s, Flags(t, p, s), s.inQuotes \/ ~s.expectSep,
         NEW f \in 1..p
  PROVE  Kept(t, f, p) = Kept(t, f, p - 1) \cup (IF t[p] = Quote THEN {} ELSE {p})
<1>1. p \in Nat /\ p >= 1 /\ p <= Len(t)
  BY TextIs
<1>2. ASSUME p > 1
      PROVE  ~(t[p - 1] = Quote /\ ~Outside(t, p - 1)) /\ ~(t[p - 1] = CR /\ t[p] = LF)
  <2>1. p - 1 \in 1..Len(t) /\ (p - 1) + 1 = p
    BY <1>1, <1>2, PlacesAre, TextIs
  <2>2. Outside(t, p) <=> (IF t[p - 1] = Quote THEN ~Outside(t, p - 1) ELSE Outside(t, p - 1))
    BY <2>1, OutsideStep
  <2> QED
    BY <1>1, <1>2, <2>2 DEF Flags
<1> QED
  BY <1>2, KeptStep

LEMMA TakenOne ==
  ASSUME NEW t \in Text, NEW p \in 1..Len(t), NEW s \in Locals, Flags(t, p, s), Taken(t, p, s),
         s.inQuotes \/ ~s.expectSep, p \notin Breaks(t), p \notin Commas(t),
         NEW e, e.records = s.records, e.cur = s.cur,
         e.val = IF t[p] = Quote THEN s.val ELSE Append(s.val, IF t[p] = CR THEN LF ELSE t[p])
  PROVE  Taken(t, p + 1, e)
<1> DEFINE f == FieldStart(t, p)
<1>1. /\ p \in Nat /\ p >= 1 /\ p + 1 \in Nat /\ (p + 1) - 1 = p /\ p <= p + 1 /\ p >= p
  BY TextIs
<1>2. f \in 1..p /\ f \in Nat /\ f >= 1 /\ s.val = ValueAt(t, f, p - 1) /\ s.val \in Text
  BY <1>1, LocalsAre DEF Taken
<1>3. Kept(t, f, p) = Kept(t, f, p - 1) \cup (IF t[p] = Quote THEN {} ELSE {p})
  BY <1>2, KeptHere
<1> HIDE DEF f
<1>4. e.val = ValueAt(t, f, p)
  <2>1. CASE t[p] = Quote
    <3>1. Kept(t, f, p) = Kept(t, f, p - 1)
      BY <1>3, <2>1
    <3> QED
      BY <1>2, <2>1, <3>1 DEF ValueAt
  <2>2. CASE t[p] # Quote
    <3>1. Kept(t, f, p) = Kept(t, f, p - 1) \cup {p}
      BY <1>3, <2>2
    <3> DEFINE v == s.val
    <3>2. v \in Text /\ v = ValueAt(t, f, p - 1)
      BY <1>2
    <3> HIDE DEF v
    <3>3. ValueAt(t, f, p) = Append(v, IF t[p] = CR THEN LF ELSE t[p])
      BY <1>1, <1>2, <3>1, <3>2, ValueStep
    <3> QED
      BY <2>2, <3>3 DEF v
  <2> QED
    BY <2>1, <2>2
<1>5. BreaksBefore(t, p + 1) = BreaksBefore(t, p) /\ CommasBefore(t, p + 1) = CommasBefore(t, p)
  BY BeforeNext DEF Taken
<1>6. e.val = ValueAt(t, FieldStart(t, p), (p + 1) - 1)
  BY <1>1, <1>4 DEF f
<1> QED
  BY <1>1, <1>5, <1>6, TakenValue

LEMMA TakenTwo ==
  ASSUME NEW t \in Text, NEW p \in 1..Len(t), NEW s \in Locals, Flags(t, p, s), Taken(t, p, s),
         s.inQuotes, p + 1 <= Len(t),
         NEW e, e.records = s.records, e.cur = s.cur,
         \/ t[p] = Quote /\ t[p + 1] = Quote /\ e.val = Append(s.val, Quote)
         \/ t[p] = CR /\ t[p + 1] = LF /\ e.val = Append(s.val, LF)
  PROVE  Taken(t, p + 2, e)
<1> DEFINE f == FieldStart(t, p)
<1>1. /\ p \in Nat /\ p >= 1 /\ p + 2 \in Nat /\ (p + 2) - 1 = p + 1 /\ p <= p + 2
      /\ p + 1 \in 1..Len(t) /\ (p + 1) + 1 = p + 2 /\ p + 1 \in Nat /\ p + 1 >= p /\ p >= p
      /\ Len(t) \in Nat /\ p <= Len(t)
      /\ \A k \in 1..p : k \in 1..(p + 1)
  BY TextIs, PlacesAre
<1>2. f \in 1..p /\ f \in Nat /\ f >= 1 /\ s.val = ValueAt(t, f, p - 1) /\ s.val \in Text
  BY <1>1, LocalsAre DEF Taken
<1>3. ~Outside(t, p) /\ (p > 1 => ~(t[p - 1] = CR /\ t[p] = LF))
  BY <1>1 DEF Flags
<1>4. /\ t[p] = Quote /\ t[p + 1] = Quote => Kept(t, f, p + 1) = Kept(t, f, p - 1) \cup {p}
      /\ t[p] = CR /\ t[p + 1] = LF => Kept(t, f, p + 1) = Kept(t, f, p - 1) \cup {p + 1}
  BY <1>2, <1>3, KeptPair
<1> HIDE DEF f
<1>5. e.val = ValueAt(t, f, p + 1)
  <2> DEFINE v == s.val
  <2>1. v \in Text /\ v = ValueAt(t, f, p - 1)
    BY <1>2
  <2> HIDE DEF v
  <2>2. CASE t[p] = Quote /\ t[p + 1] = Quote /\ e.val = Append(s.val, Quote)
    <3>1. ValueAt(t, f, p + 1) = Append(v, IF t[p] = CR THEN LF ELSE t[p])
      BY <1>1, <1>2, <1>4, <2>1, <2>2, ValueStep, SMTT(40)
    <3> QED
      BY <2>2, <3>1, CharsDiffer DEF v
  <2>3. CASE t[p] = CR /\ t[p + 1] = LF /\ e.val = Append(s.val, LF)
    <3>1. ValueAt(t, f, p + 1) = Append(v, IF t[p + 1] = CR THEN LF ELSE t[p + 1])
      BY <1>1, <1>2, <1>4, <2>1, <2>3, ValueStep, SMTT(40)
    <3> QED
      BY <2>3, <3>1, CharsDiffer DEF v
  <2> QED
    BY <2>2, <2>3
<1>6. p \notin Breaks(t) /\ p \notin Commas(t) /\ p + 1 \notin Breaks(t) /\ p + 1 \notin Commas(t)
  <2>1. Outside(t, p + 1) <=> t[p] = Quote
    BY <1>3, OutsideStep
  <2>2. t[p + 1] # Comma
    BY CharsDiffer
  <2> QED
    BY <1>3, <2>1, <2>2, CharsDiffer DEF Breaks, Commas
<1>7. /\ BreaksBefore(t, p + 1) = BreaksBefore(t, p) /\ CommasBefore(t, p + 1) = CommasBefore(t, p)
      /\ LineStart(t, p + 1) = LineStart(t, p) /\ LineStart(t, p) \in 1..p
  BY <1>6, BeforeNext DEF Taken
<1>8. LineStart(t, p + 1) \in 1..(p + 1)
  BY <1>1, <1>7
<1>9. /\ BreaksBefore(t, (p + 1) + 1) = BreaksBefore(t, p + 1)
      /\ CommasBefore(t, (p + 1) + 1) = CommasBefore(t, p + 1)
  BY <1>1, <1>6, <1>8, BeforeNext
<1>10. BreaksBefore(t, p + 2) = BreaksBefore(t, p) /\ CommasBefore(t, p + 2) = CommasBefore(t, p)
  BY <1>1, <1>7, <1>9
<1>11. e.val = ValueAt(t, FieldStart(t, p), (p + 2) - 1)
  BY <1>1, <1>5 DEF f
<1> QED
  BY <1>1, <1>10, <1>11, TakenValue

\* As long as there is no error the locals are what the positions say; after
\* one there is a place that breaks a rule.
Clean == Flags(text, i, scan) /\ Taken(text, i, scan)
Broken == \E k \in 1..(i - 1) : ~Sound(text, k)

ScanInv ==
  /\ pc = "head" => i = 1 /\ scan = NewScan
  /\ pc = "scan" => IF scan.errors = {} THEN Clean ELSE Broken

LEMMA TurnScan ==
  ASSUME TInv, Turn, scan.errors = {} => Clean
  PROVE  /\ scan.errors \subseteq scan'.errors
         /\ i' \in Nat /\ i' >= i /\ text' = text /\ pc' = pc
         /\ scan.errors = {} => IF scan'.errors = {} THEN Clean' ELSE Broken'
<1> DEFINE Goal == /\ scan.errors \subseteq scan'.errors
                   /\ i' \in Nat /\ i' >= i /\ text' = text /\ pc' = pc
                   /\ scan.errors = {} => IF scan'.errors = {} THEN Clean' ELSE Broken'
<1>1. scan \in Locals /\ scan.inQuotes \in BOOLEAN /\ scan.expectSep \in BOOLEAN /\ scan.quoted \in BOOLEAN
  BY LocalsAre DEF TInv, ScanOK
<1>2. i <= Len(text)
  BY DEF Turn, EscapedQuote, ClosingQuote, QuotedBreak, QuotedAtom, Separator, LineFeed,
     CarriageReturn, LoneReturn, OpeningQuote, StrayQuote, Atom, InQuotes, Scanning
<1>3. /\ text[i] \in Char /\ i \in Nat /\ i >= 1 /\ Len(text) \in Nat /\ text \in Text
      /\ i \in 1..Len(text) /\ (i + 1) - 1 = i /\ (i + 2) - 1 = i + 1
      /\ i + 1 >= i /\ i + 2 >= i /\ i + 1 \in Nat /\ i + 2 \in Nat
  BY <1>2, AtomType DEF TInv
<1>4. /\ Ahead \in {CR, LF, Quote} => i + 1 <= Len(text) /\ text[i + 1] = Ahead /\ i < Len(text)
      /\ i < Len(text) => Ahead = text[i + 1]
  <2>1. i + 1 <= Len(text) => i < Len(text)
    BY <1>3
  <2> QED
    BY <1>2, <2>1, AtomType DEF Ahead
<1>5. /\ i \notin Breaks(text) <=> text[i] # LF \/ ~Outside(text, i)
      /\ i \notin Commas(text) <=> text[i] # Comma \/ ~Outside(text, i)
  BY <1>3, TextIs DEF Breaks, Commas
<1>6. Quote \in Char /\ LF \in Char
  BY AtomsAreChars
<1>7. ASSUME Others' = Others, i' = i + 1 \/ i' = i + 2, scan'.errors = scan.errors,
             scan.errors = {} => Flags(text, i', scan') /\ Taken(text, i', scan')
      PROVE  Goal
  <2>1. text' = text /\ pc' = pc
    BY <1>7 DEF Others, text
  <2>2. i' \in Nat /\ i' >= i
    BY <1>3, <1>7
  <2> QED
    BY <1>7, <2>1, <2>2 DEF Clean
<1>8. ASSUME Others' = Others, i' = i + 1 \/ i' = i + 2,
             scan'.errors = scan.errors \cup {Len(scan.records) + 1},
             scan.errors = {} => \E k \in 1..(i' - 1) : ~Sound(text, k)
      PROVE  Goal
  <2>1. text' = text /\ pc' = pc
    BY <1>8 DEF Others, text
  <2>2. i' \in Nat /\ i' >= i
    BY <1>3, <1>8
  <2>3. scan'.errors # {} /\ scan.errors \subseteq scan'.errors
    BY <1>8
  <2> QED
    BY <1>8, <2>1, <2>2, <2>3 DEF Broken
<1>9. ASSUME scan.errors = {}
      PROVE  /\ Flags(text, i, scan) /\ Taken(text, i, scan)
             /\ scan.inQuotes <=> ~Outside(text, i)
             /\ i > 1 => text[i - 1] # CR \/ text[i] # LF
  BY <1>2, <1>9 DEF Clean, Flags
<1> SUFFICES Goal
  OBVIOUS
<1> HIDE DEF Goal
<1>10. CASE EscapedQuote
  <2> DEFINE e == [scan EXCEPT !.val = Append(@, Quote)]
  <2>1. /\ e.cur = scan.cur /\ e.val = Append(scan.val, Quote) /\ e.inQuotes = scan.inQuotes
        /\ e.quoted = scan.quoted /\ e.started = scan.started
        /\ e.expectSep = scan.expectSep /\ e.records = scan.records /\ e.errors = scan.errors
    BY <1>1, <1>6, AppendIs
  <2>2. scan' = e /\ i' = i + 2 /\ Others' = Others /\ Ahead = Quote /\ scan.inQuotes /\ text[i] = Quote
    BY <1>10 DEF EscapedQuote, Advance, Others, InQuotes
  <2> HIDE DEF e
  <2>3. i + 1 <= Len(text) /\ text[i + 1] = Quote
    BY <1>4, <2>2
  <2>4. ASSUME scan.errors = {}
        PROVE  Flags(text, i + 2, e) /\ Taken(text, i + 2, e)
    <3>1. Flags(text, i + 2, e)
      BY <1>3, <1>9, <2>1, <2>2, <2>3, <2>4, FlagsPair
    <3>2. Taken(text, i + 2, e)
      BY <1>1, <1>3, <1>9, <2>1, <2>2, <2>3, <2>4, TakenTwo
    <3> QED
      BY <3>1, <3>2
  <2> QED
    BY <1>7, <2>1, <2>2, <2>4
<1>11. CASE ClosingQuote
  <2> DEFINE e == [scan EXCEPT !.inQuotes = FALSE, !.expectSep = TRUE]
  <2>1. /\ e.cur = scan.cur /\ e.val = scan.val /\ e.inQuotes = FALSE
        /\ e.quoted = scan.quoted /\ e.started = scan.started
        /\ e.expectSep = TRUE /\ e.records = scan.records /\ e.errors = scan.errors
    BY <1>1, CloseIs
  <2>2. scan' = e /\ i' = i + 1 /\ Others' = Others /\ Ahead # Quote /\ scan.inQuotes /\ text[i] = Quote
    BY <1>11 DEF ClosingQuote, Advance, Others, InQuotes
  <2> HIDE DEF e
  <2>3. i < Len(text) => text[i + 1] # Quote
    BY <1>4, <2>2
  <2>4. ASSUME scan.errors = {}
        PROVE  Flags(text, i + 1, e) /\ Taken(text, i + 1, e)
    <3>1. Flags(text, i + 1, e)
      BY <1>3, <1>9, <2>1, <2>2, <2>3, <2>4, FlagsClose
    <3>2. Taken(text, i + 1, e)
      BY <1>1, <1>3, <1>5, <1>9, <2>1, <2>2, <2>4, CharsDiffer, TakenOne
    <3> QED
      BY <3>1, <3>2
  <2> QED
    BY <1>7, <2>1, <2>2, <2>4
<1>12. CASE QuotedBreak
  <2> DEFINE e == [scan EXCEPT !.newline = TRUE, !.val = Append(@, LF)]
             two == text[i] = CR /\ Ahead = LF
  <2>1. /\ e.cur = scan.cur /\ e.val = Append(scan.val, LF) /\ e.inQuotes = scan.inQuotes
        /\ e.quoted = scan.quoted /\ e.started = scan.started
        /\ e.expectSep = scan.expectSep /\ e.records = scan.records /\ e.errors = scan.errors
    BY <1>1, <1>6, BreakIs
  <2>2. /\ scan' = e /\ Others' = Others /\ scan.inQuotes /\ text[i] \in {CR, LF}
        /\ i' = i + (IF two THEN 2 ELSE 1)
    BY <1>12 DEF QuotedBreak, Advance, Others, InQuotes
  <2> HIDE DEF e
  <2>3. CASE two
    <3>1. i + 1 <= Len(text) /\ text[i] = CR /\ text[i + 1] = LF /\ i' = i + 2
      BY <1>4, <2>2, <2>3
    <3>2. ASSUME scan.errors = {}
          PROVE  Flags(text, i + 2, e) /\ Taken(text, i + 2, e)
      <4>1. Flags(text, i + 2, e)
        BY <1>3, <1>9, <2>1, <2>2, <3>1, <3>2, FlagsPair
      <4>2. Taken(text, i + 2, e)
        BY <1>1, <1>3, <1>9, <2>1, <2>2, <3>1, <3>2, TakenTwo
      <4> QED
        BY <4>1, <4>2
    <3> QED
      BY <1>7, <2>1, <2>2, <3>1, <3>2
  <2>4. CASE ~two
    <3>1. i' = i + 1 /\ text[i] # Quote /\ (i < Len(text) /\ text[i] = CR => text[i + 1] # LF)
      BY <1>4, <2>2, <2>4, CharsDiffer
    <3>2. ASSUME scan.errors = {}
          PROVE  Flags(text, i + 1, e) /\ Taken(text, i + 1, e)
      <4>1. Flags(text, i + 1, e)
        BY <1>3, <1>9, <2>1, <2>2, <3>1, <3>2, FlagsInside
      <4>2. i \notin Breaks(text) /\ i \notin Commas(text)
        BY <1>5, <1>9, <2>2, <3>2
      <4>3. e.val = Append(scan.val, IF text[i] = CR THEN LF ELSE text[i])
        BY <2>1, <2>2
      <4>4. Taken(text, i + 1, e)
        BY <1>1, <1>3, <1>9, <2>1, <2>2, <3>1, <3>2, <4>2, <4>3, TakenOne
      <4> QED
        BY <4>1, <4>4
    <3> QED
      BY <1>7, <2>1, <2>2, <3>1, <3>2
  <2> QED
    BY <2>3, <2>4
<1>13. CASE QuotedAtom
  <2> DEFINE e == [scan EXCEPT !.val = Append(@, text[i])]
  <2>1. /\ e.cur = scan.cur /\ e.val = Append(scan.val, text[i]) /\ e.inQuotes = scan.inQuotes
        /\ e.quoted = scan.quoted /\ e.started = scan.started
        /\ e.expectSep = scan.expectSep /\ e.records = scan.records /\ e.errors = scan.errors
    BY <1>1, <1>3, AppendIs
  <2>2. /\ scan' = e /\ i' = i + 1 /\ Others' = Others /\ scan.inQuotes
        /\ text[i] # Quote /\ text[i] # CR /\ text[i] # LF
    BY <1>13 DEF QuotedAtom, Advance, Others, InQuotes
  <2> HIDE DEF e
  <2>3. ASSUME scan.errors = {}
        PROVE  Flags(text, i + 1, e) /\ Taken(text, i + 1, e)
    <3>1. Flags(text, i + 1, e)
      BY <1>3, <1>9, <2>1, <2>2, <2>3, FlagsInside
    <3>2. i \notin Breaks(text) /\ i \notin Commas(text)
      BY <1>5, <1>9, <2>2, <2>3
    <3>3. Taken(text, i + 1, e)
      BY <1>1, <1>3, <1>9, <2>1, <2>2, <2>3, <3>2, TakenOne
    <3> QED
      BY <3>1, <3>3
  <2> QED
    BY <1>7, <2>1, <2>2, <2>3
<1>14. CASE Separator
  <2> DEFINE f == EndField(scan)
             e == [f EXCEPT !.started = TRUE]
  <2>1. /\ f \in Locals /\ f.cur = Append(scan.cur, FieldOf(scan)) /\ f.val = <<>>
        /\ f.inQuotes = scan.inQuotes /\ f.quoted = FALSE /\ f.expectSep = FALSE
        /\ f.records = scan.records /\ f.errors = scan.errors
    BY <1>1, EndFieldIs
  <2>2. scan' = e /\ i' = i + 1 /\ Others' = Others /\ ~scan.inQuotes /\ text[i] = Comma
    BY <1>14 DEF Separator, Advance, Others, Scanning
  <2> HIDE DEF f
  <2>3. /\ e.cur = f.cur /\ e.val = f.val /\ e.inQuotes = f.inQuotes /\ e.quoted = f.quoted
        /\ e.started /\ e.expectSep = f.expectSep /\ e.records = f.records /\ e.errors = f.errors
    BY <2>1, StartIs
  <2> HIDE DEF e
  <2>4. ASSUME scan.errors = {}
        PROVE  Flags(text, i + 1, e) /\ Taken(text, i + 1, e)
    <3>1. Flags(text, i + 1, e)
      BY <1>3, <1>9, <2>1, <2>2, <2>3, <2>4, FlagsComma
    <3>2. Taken(text, i + 1, e)
      BY <1>1, <1>3, <1>9, <2>1, <2>2, <2>3, <2>4, TakenComma
    <3> QED
      BY <3>1, <3>2
  <2> QED
    BY <1>7, <2>1, <2>2, <2>3, <2>4
<1>a. LET e == EmitRecord(EndField(scan)) IN
        /\ e.records = WithLast(scan) /\ e.cur = <<>> /\ e.val = <<>> /\ e.inQuotes = scan.inQuotes
        /\ ~e.started /\ ~e.quoted /\ ~e.expectSep /\ e.errors = scan.errors
  <2> DEFINE f == EndField(scan)
  <2>1. /\ f \in Locals /\ f.cur = Append(scan.cur, FieldOf(scan)) /\ f.val = <<>>
        /\ f.inQuotes = scan.inQuotes /\ f.quoted = FALSE /\ f.expectSep = FALSE
        /\ f.records = scan.records /\ f.errors = scan.errors
    BY <1>1, EndFieldIs
  <2> HIDE DEF f
  <2> DEFINE e == EmitRecord(f)
  <2>2. /\ e.cur = <<>> /\ e.val = f.val /\ e.inQuotes = f.inQuotes
        /\ e.quoted = f.quoted /\ e.started = FALSE
        /\ e.expectSep = f.expectSep /\ e.records = Append(f.records, f.cur) /\ e.errors = f.errors
    BY <2>1, EmitRecordIs
  <2> HIDE DEF e
  <2>3. /\ e.records = WithLast(scan) /\ e.cur = <<>> /\ e.val = <<>> /\ e.inQuotes = scan.inQuotes
        /\ ~e.started /\ ~e.quoted /\ ~e.expectSep /\ e.errors = scan.errors
    BY <2>1, <2>2 DEF WithLast
  <2> QED
    BY <2>3 DEF e, f
<1>b. Err(scan).errors = scan.errors \cup {Len(scan.records) + 1} /\ Err(scan) \in Locals
  BY <1>1, ErrIs
<1>15. CASE LineFeed
  <2> DEFINE e == EndLine(scan)
  <2>1. scan' = e /\ i' = i + 1 /\ Others' = Others /\ ~scan.inQuotes /\ text[i] = LF
    BY <1>15 DEF LineFeed, Advance, Others, Scanning
  <2>2. CASE Blank(scan)
    <3>1. scan'.errors = scan.errors \cup {Len(scan.records) + 1}
      BY <1>b, <2>1, <2>2 DEF EndLine
    <3>2. scan.errors = {} => ~Sound(text, i)
      BY <1>3, <1>9, <2>1, <2>2, ErrorsAreUnsound
    <3>3. i \in 1..(i' - 1)
      BY <1>3, <2>1
    <3> QED
      BY <1>8, <2>1, <3>1, <3>2, <3>3
  <2>3. CASE ~Blank(scan)
    <3>1. /\ e.records = WithLast(scan) /\ e.cur = <<>> /\ e.val = <<>> /\ e.inQuotes = scan.inQuotes
          /\ ~e.started /\ ~e.quoted /\ ~e.expectSep /\ e.errors = scan.errors
      BY <1>a, <2>3 DEF EndLine
    <3> HIDE DEF e
    <3>2. ASSUME scan.errors = {}
          PROVE  Flags(text, i + 1, e) /\ Taken(text, i + 1, e)
      <4>1. Flags(text, i + 1, e)
        BY <1>3, <1>9, <2>1, <2>3, <3>1, <3>2, FlagsLineFeed
      <4>2. i \in Breaks(text) /\ (i > 1 => text[i - 1] # CR)
        BY <1>5, <1>9, <2>1, <3>2
      <4>3. Taken(text, i + 1, e)
        BY <1>1, <1>3, <1>9, <3>1, <3>2, <4>2, TakenBreak
      <4> QED
        BY <4>1, <4>3
    <3> QED
      BY <1>7, <2>1, <3>1, <3>2
  <2> QED
    BY <2>2, <2>3
<1>16. CASE CarriageReturn
  <2> DEFINE e == EndLine(scan)
  <2>1. scan' = e /\ i' = i + 2 /\ Others' = Others /\ ~scan.inQuotes /\ text[i] = CR /\ Ahead = LF
    BY <1>16 DEF CarriageReturn, Advance, Others, Scanning
  <2>2. i + 1 <= Len(text) /\ text[i + 1] = LF /\ i < Len(text)
    BY <1>4, <2>1
  <2>3. CASE Blank(scan)
    <3>1. scan'.errors = scan.errors \cup {Len(scan.records) + 1}
      BY <1>b, <2>1, <2>3 DEF EndLine
    <3>2. scan.errors = {} => ~Sound(text, i + 1)
      BY <1>3, <1>9, <2>1, <2>2, <2>3, ErrorsAreUnsound
    <3>3. i + 1 \in 1..(i' - 1)
      BY <1>3, <2>1
    <3> QED
      BY <1>8, <2>1, <3>1, <3>2, <3>3
  <2>4. CASE ~Blank(scan)
    <3>1. /\ e.records = WithLast(scan) /\ e.cur = <<>> /\ e.val = <<>> /\ e.inQuotes = scan.inQuotes
          /\ ~e.started /\ ~e.quoted /\ ~e.expectSep /\ e.errors = scan.errors
      BY <1>a, <2>4 DEF EndLine
    <3> HIDE DEF e
    <3>2. ASSUME scan.errors = {}
          PROVE  Flags(text, i + 2, e) /\ Taken(text, i + 2, e)
      <4>1. Flags(text, i + 2, e)
        BY <1>3, <1>9, <2>1, <2>2, <2>4, <3>1, <3>2, FlagsReturn
      <4>2. Outside(text, i) /\ Outside(text, i + 1)
        BY <1>3, <1>9, <2>1, <3>2, OutsideStep, CharsDiffer
      <4>3. i + 1 \in 1..Len(text) /\ (i + 1) + 1 = i + 2
        BY <1>3, <2>2
      <4>4. i + 1 \in Breaks(text) /\ i \notin Breaks(text)
        BY <1>3, <1>5, <2>1, <2>2, <4>2, <4>3, TextIs, CharsDiffer DEF Breaks
      <4>5. BreaksBefore(text, i + 1) = BreaksBefore(text, i)
        BY <1>3, <1>9, <3>2, <4>4, BeforeNext DEF Taken
      <4>6. Taken(text, (i + 1) + 1, e)
        BY <1>1, <1>3, <1>9, <2>1, <3>1, <3>2, <4>3, <4>4, <4>5, TakenBreak
      <4> QED
        BY <4>1, <4>3, <4>6
    <3> QED
      BY <1>7, <2>1, <3>1, <3>2
  <2> QED
    BY <2>3, <2>4
<1>17. CASE LoneReturn
  <2> DEFINE s == Err(scan)
             e == IF scan.expectSep THEN EmitRecord(EndField(s)) ELSE s
  <2>1. scan' = e /\ i' = i + 1 /\ Others' = Others /\ ~scan.inQuotes /\ text[i] = CR /\ Ahead # LF
    BY <1>17 DEF LoneReturn, Advance, Others, Scanning
  <2>2. s.errors = scan.errors \cup {Len(scan.records) + 1} /\ s \in Locals
    BY <1>b
  <2> HIDE DEF s
  <2>3. EndField(s) \in Locals /\ EndField(s).errors = s.errors
    BY <2>2, EndFieldIs
  <2>4. EmitRecord(EndField(s)).errors = s.errors
    BY <2>3, EmitRecordIs
  <2>5. scan'.errors = scan.errors \cup {Len(scan.records) + 1}
    BY <2>1, <2>2, <2>4
  <2>6. scan.errors = {} => ~Sound(text, i)
    BY <1>3, <1>4, <1>9, <2>1, ErrorsAreUnsound
  <2>7. i \in 1..(i' - 1)
    BY <1>3, <2>1
  <2> QED
    BY <1>8, <2>1, <2>5, <2>6, <2>7
<1>18. CASE OpeningQuote
  <2> DEFINE e == [scan EXCEPT !.inQuotes = TRUE, !.quoted = TRUE, !.started = TRUE]
  <2>1. /\ e.cur = scan.cur /\ e.val = scan.val /\ e.inQuotes /\ e.quoted /\ e.started
        /\ e.expectSep = scan.expectSep /\ e.records = scan.records /\ e.errors = scan.errors
    BY <1>1, OpenIs
  <2>2. /\ scan' = e /\ i' = i + 1 /\ Others' = Others /\ ~scan.inQuotes /\ text[i] = Quote
        /\ scan.val = <<>> /\ ~scan.quoted
    BY <1>18 DEF OpeningQuote, Advance, Others, Scanning
  <2> HIDE DEF e
  <2>3. ASSUME scan.errors = {}
        PROVE  Flags(text, i + 1, e) /\ Taken(text, i + 1, e)
    <3>1. Flags(text, i + 1, e)
      BY <1>3, <1>9, <2>1, <2>2, <2>3, FlagsOpen
    <3>2. i \notin Breaks(text) /\ i \notin Commas(text)
      BY <1>5, <2>2, CharsDiffer
    <3>3. ~scan.expectSep
      BY <1>9, <2>2, <2>3, CharsDiffer DEF Flags, FieldCanStart
    <3>4. Taken(text, i + 1, e)
      BY <1>1, <1>3, <1>9, <2>1, <2>2, <2>3, <3>2, <3>3, TakenOne
    <3> QED
      BY <3>1, <3>4
  <2> QED
    BY <1>7, <2>1, <2>2, <2>3
<1>19. CASE StrayQuote
  <2> DEFINE f == Err(scan)
             e == [f EXCEPT !.val = Append(@, Quote)]
  <2>1. /\ scan' = e /\ i' = i + 1 /\ Others' = Others /\ ~scan.inQuotes /\ text[i] = Quote
        /\ scan.val # <<>> \/ scan.quoted
    BY <1>19 DEF StrayQuote, Advance, Others, Scanning
  <2>2. f.errors = scan.errors \cup {Len(scan.records) + 1} /\ f \in Locals
    BY <1>b
  <2> HIDE DEF f
  <2>3. e.errors = f.errors
    BY <1>6, <2>2, AppendIs
  <2> HIDE DEF e
  <2>4. scan.errors = {} => ~Sound(text, i)
    BY <1>3, <1>9, <2>1, ErrorsAreUnsound
  <2>5. i \in 1..(i' - 1)
    BY <1>3, <2>1
  <2> QED
    BY <1>8, <2>1, <2>2, <2>3, <2>4, <2>5
<1>20. CASE Atom
  <2>0. /\ ~scan.inQuotes /\ text[i] \notin {Comma, Quote, CR, LF} /\ i' = i + 1 /\ Others' = Others
    BY <1>20 DEF Atom, Advance, Others
  <2>1. CASE scan.expectSep
    <3> DEFINE f == Err(scan)
               e == [f EXCEPT !.expectSep = FALSE, !.val = Append(@, text[i])]
    <3>1. scan' = e
      BY <1>20, <2>1 DEF Atom, Advance
    <3>2. f.errors = scan.errors \cup {Len(scan.records) + 1} /\ f \in Locals
      BY <1>b
    <3> HIDE DEF f
    <3>3. e.errors = f.errors
      BY <1>3, <3>2, PutAfterQuoteIs
    <3> HIDE DEF e
    <3>4. scan.errors = {} => ~Sound(text, i)
      BY <1>3, <1>9, <2>0, <2>1, ErrorsAreUnsound
    <3>5. i \in 1..(i' - 1)
      BY <1>3, <2>0
    <3> QED
      BY <1>8, <2>0, <3>1, <3>2, <3>3, <3>4, <3>5
  <2>2. CASE ~scan.expectSep
    <3> DEFINE e == [scan EXCEPT !.started = TRUE, !.val = Append(@, text[i])]
    <3>1. /\ e.cur = scan.cur /\ e.val = Append(scan.val, text[i]) /\ e.inQuotes = scan.inQuotes
          /\ e.started /\ e.expectSep = scan.expectSep
          /\ e.records = scan.records /\ e.errors = scan.errors
      BY <1>1, <1>3, PutIs
    <3>2. scan' = e
      BY <1>20, <2>2 DEF Atom, Advance
    <3> HIDE DEF e
    <3>3. Append(scan.val, text[i]) # <<>>
      BY <1>1, <1>3, LocalsAre DEF Text
    <3>4. ASSUME scan.errors = {}
          PROVE  Flags(text, i + 1, e) /\ Taken(text, i + 1, e)
      <4>1. Flags(text, i + 1, e)
        BY <1>3, <1>9, <2>0, <2>2, <3>1, <3>3, <3>4, FlagsAtom
      <4>2. i \notin Breaks(text) /\ i \notin Commas(text)
        BY <1>5, <2>0
      <4>3. Taken(text, i + 1, e)
        BY <1>1, <1>3, <1>9, <2>0, <2>2, <3>1, <3>4, <4>2, TakenOne
      <4> QED
        BY <4>1, <4>3
    <3> QED
      BY <1>7, <2>0, <3>1, <3>2, <3>4
  <2> QED
    BY <2>1, <2>2
<1> QED
  BY <1>10, <1>11, <1>12, <1>13, <1>14, <1>15, <1>16, <1>17, <1>18, <1>19, <1>20 DEF Turn

LEMMA StartClean == ASSUME TInv, i = 1, scan = NewScan PROVE scan.errors = {} /\ Clean
<1> DEFINE t == text
           s == scan
<1>1. t \in Text /\ Len(t) \in Nat /\ 1..(1 - 1) = {} /\ 1 \in 1..1 /\ ~(1 > 1)
  BY DEF TInv, Text
<1>2. /\ s.cur = <<>> /\ s.val = <<>> /\ s.inQuotes = FALSE /\ s.quoted = FALSE /\ s.started = FALSE
      /\ s.expectSep = FALSE /\ s.records = <<>> /\ s.errors = {}
  BY DEF NewScan
<1> HIDE DEF s
<1>3. Flags(t, 1, s)
  <2>1. Outside(t, 1)
    BY <1>1, OutsideStep
  <2>2. Blank(s) /\ LineCanStart(t, 1) /\ FieldCanStart(t, 1)
    BY <1>2 DEF Blank, LineCanStart, FieldCanStart
  <2> HIDE DEF t
  <2> QED
    BY <1>1, <1>2, <2>1, <2>2 DEF Flags
<1>4. BreaksBefore(t, 1) = {} /\ CommasBefore(t, 1) = {}
  BY <1>1, BeforeIs
<1>5. Cardinality({}) = 0
  BY FS_EmptySet
<1>6. LineStart(t, 1) = 1 /\ FieldStart(t, 1) = 1
  BY <1>4, <1>5 DEF LineStart, FieldStart
<1>7. ValueAt(t, 1, 1 - 1) = <<>>
  <2>1. ValueAt(t, 0 + 1, 0) = <<>>
    BY <1>1, ValueEmpty
  <2> QED
    BY <2>1
<1>8. Len(<<>>) = 0 /\ 1..0 = {}
  OBVIOUS
<1>9. Taken(t, 1, s)
  BY <1>1, <1>2, <1>4, <1>5, <1>6, <1>7, <1>8 DEF Taken
<1> QED
  BY <1>2, <1>3, <1>9 DEF Clean, t, s

ScanDone ==
  pc \in {"rows", "raised"} \/ (pc = "done" /\ ~HeadFails) =>
    /\ scan.errors = {} <=> WellFormed(text)
    /\ WellFormed(text) => [r \in DOMAIN scan.records |-> ValuesIn(scan.records[r])] = Split(text)

LEMMA EndScan ==
  ASSUME TInv, ScanInv, EndOfText
  PROVE  /\ scan'.errors = {} <=> WellFormed(text)
         /\ WellFormed(text) => [r \in DOMAIN scan'.records |-> ValuesIn(scan'.records[r])] = Split(text)
<1> DEFINE L == Len(text)
<1>1. scan \in Locals /\ scan.inQuotes \in BOOLEAN /\ text \in Text /\ L \in Nat /\ (L + 1) - 1 = L
  BY LocalsAre, TextIs DEF TInv, ScanOK
<1>2. pc = "scan" /\ i = L + 1 /\ scan' = Scanned(scan)
  BY DEF EndOfText
<1>3. WellFormed(text) <=> Outside(text, L + 1) /\ \A k \in 1..L : Sound(text, k)
  BY <1>1, WellFormedIs
<1>4. ASSUME NEW s \in Locals
      PROVE  EmitRecord(EndField(s)).errors = s.errors
             /\ EmitRecord(EndField(s)).records = WithLast(s)
  <2>1. /\ EndField(s) \in Locals /\ EndField(s).errors = s.errors
        /\ EndField(s).records = s.records /\ EndField(s).cur = Append(s.cur, FieldOf(s))
    BY EndFieldIs
  <2> QED
    BY <2>1, EmitRecordIs DEF WithLast
<1>5. Err(scan) \in Locals /\ Err(scan).errors = scan.errors \cup {Len(scan.records) + 1}
  BY <1>1, ErrIs
<1>6. CASE scan.errors # {}
  <2>1. Broken
    BY <1>2, <1>6 DEF ScanInv
  <2>2. ~WellFormed(text)
    BY <1>1, <1>2, <1>3, <2>1 DEF Broken
  <2>3. scan.errors \subseteq Scanned(scan).errors
    BY <1>1, <1>4, <1>5 DEF Scanned
  <2> QED
    BY <1>2, <1>6, <2>2, <2>3
<1>7. CASE scan.errors = {} /\ scan.inQuotes
  <2>1. Flags(text, L + 1, scan)
    BY <1>2, <1>7 DEF ScanInv, Clean
  <2>2. ~WellFormed(text)
    BY <1>3, <1>7, <2>1 DEF Flags
  <2>3. Len(scan.records) + 1 \in Scanned(scan).errors
    BY <1>4, <1>5, <1>7 DEF Scanned
  <2> QED
    BY <1>2, <2>2, <2>3
<1>8. CASE scan.errors = {} /\ ~scan.inQuotes
  <2> DEFINE R == IF Blank(scan) THEN scan.records ELSE WithLast(scan)
  <2>1. Flags(text, L + 1, scan) /\ Taken(text, L + 1, scan)
    BY <1>2, <1>8 DEF ScanInv, Clean
  <2>2. WellFormed(text)
    BY <1>1, <1>3, <1>8, <2>1 DEF Flags
  <2>3. Scanned(scan).errors = {} /\ Scanned(scan).records = R
    BY <1>1, <1>4, <1>8 DEF Scanned
  <2>4. [r \in DOMAIN R |-> ValuesIn(R[r])] = Split(text)
    BY <1>1, <1>8, <2>1, TakenAll
  <2> HIDE DEF R
  <2> QED
    BY <1>2, <2>2, <2>3, <2>4
<1> QED
  BY <1>6, <1>7, <1>8

LEMMA NextScan == TInv /\ ScanInv /\ ScanDone /\ [Next]_vars => (ScanInv /\ ScanDone)'
<1> SUFFICES ASSUME TInv, ScanInv, ScanDone, [Next]_vars PROVE (ScanInv /\ ScanDone)'
  OBVIOUS
<1>1. CASE Turn
  <2>1. pc = "scan"
    BY <1>1 DEF Turn, EscapedQuote, ClosingQuote, QuotedBreak, QuotedAtom, Separator, LineFeed,
       CarriageReturn, LoneReturn, OpeningQuote, StrayQuote, Atom, InQuotes, Scanning
  <2>2. scan.errors = {} => Clean
    BY <2>1 DEF ScanInv
  <2>3. /\ scan.errors \subseteq scan'.errors
        /\ i' \in Nat /\ i' >= i /\ text' = text /\ pc' = pc
        /\ scan.errors = {} => IF scan'.errors = {} THEN Clean' ELSE Broken'
    BY <1>1, <2>2, TurnScan
  <2>4. scan.errors # {} => Broken'
    <3> SUFFICES ASSUME scan.errors # {} PROVE Broken'
      OBVIOUS
    <3>1. PICK k \in 1..(i - 1) : ~Sound(text, k)
      BY <2>1 DEF ScanInv, Broken
    <3>2. k \in 1..(i' - 1)
      <4>1. i \in Nat
        BY TextIs DEF TInv
      <4>2. \A m \in Nat : m >= i => k \in 1..(m - 1)
        BY <3>1, <4>1
      <4> QED
        BY <2>3, <4>2
    <3> QED
      BY <2>3, <3>1, <3>2 DEF Broken
  <2>5. ScanInv'
    BY <2>1, <2>3, <2>4 DEF ScanInv
  <2> QED
    BY <2>1, <2>3, <2>5 DEF ScanDone
<1>2. CASE ReadHead
  <2>1. /\ pc = "head" /\ UNCHANGED <<file, profile, i, scan>>
        /\ IF HeadFails THEN pc' = "done" ELSE pc' = "scan"
    BY <1>2 DEF ReadHead
  <2>2. text' = text /\ HeadFails' = HeadFails
    BY <2>1 DEF text, HeadFails
  <2>3. Clean /\ scan.errors = {}
    BY <2>1, StartClean DEF ScanInv
  <2>4. ScanInv'
    BY <2>1, <2>2, <2>3 DEF ScanInv, Clean
  <2> QED
    BY <2>1, <2>2, <2>4 DEF ScanDone
<1>3. CASE EndOfText
  <2>1. pc' \in {"done", "raised", "rows"} /\ file' = file
    BY <1>3 DEF EndOfText
  <2>2. /\ scan'.errors = {} <=> WellFormed(text)
        /\ WellFormed(text) => [r \in DOMAIN scan'.records |-> ValuesIn(scan'.records[r])] = Split(text)
    BY <1>3, EndScan
  <2>3. text' = text
    BY <2>1 DEF text
  <2> QED
    BY <2>1, <2>2, <2>3 DEF ScanInv, ScanDone
<1>4. ASSUME UNCHANGED <<file, profile, scan>>, pc = "rows", pc' = pc \/ pc' = "done"
      PROVE  (ScanInv /\ ScanDone)'
  <2>1. text' = text /\ HeadFails' = HeadFails
    BY <1>4 DEF text, HeadFails
  <2> QED
    BY <1>4, <2>1 DEF ScanInv, ScanDone
<1>5. CASE WrongArity \/ ReadRow \/ FinishReading \/ PassUntagged \/ PassUndated \/ PassToRepair \/ ConvertRow
  <2>1. UNCHANGED <<file, profile, scan>> /\ pc = "rows" /\ (pc' = pc \/ pc' = "done")
    BY <1>5 DEF WrongArity, ReadRow, FinishReading, PassUntagged, PassUndated, PassToRepair,
       ConvertRow, Convert, Reading, IsLegacyRow
  <2> QED
    BY <1>4, <2>1
<1>6. CASE Rewrite
  <2>1. pc' = "head" /\ i' = 1 /\ scan' = NewScan
    BY <1>6 DEF Rewrite
  <2> QED
    BY <2>1 DEF ScanInv, ScanDone
<1>7. CASE UNCHANGED vars
  <2>1. text' = text /\ HeadFails' = HeadFails /\ UNCHANGED <<pc, i, scan>>
    BY <1>7 DEF vars, text, HeadFails
  <2> QED
    BY <2>1 DEF ScanInv, ScanDone, Clean, Broken
<1> QED
  BY <1>1, <1>2, <1>3, <1>5, <1>6, <1>7 DEF Next, Tokenize, Turn

\* The tokenizer, which looks at one character after the other and never back,
\* accepts exactly the texts that are RFC 4180 by position and takes them apart
\* as their positions say.  That holds of every text, and of one that the
\* writer has written as well (grammar.py:101-236).
THEOREM TokenizerIsExact == Spec => []TokenizerIsRFC4180
<1>1. Init => TInv /\ ScanInv /\ ScanDone
  BY InitTInv DEF Init, ScanInv, ScanDone
<1>2. TInv /\ ScanInv /\ ScanDone /\ [Next]_vars => (TInv /\ ScanInv /\ ScanDone)'
  BY NextTInv, NextScan
<1>3. ScanDone => TokenizerIsRFC4180
  BY DEF ScanDone, TokenizerIsRFC4180, ValuesIn
<1> QED
  BY <1>1, <1>2, <1>3, PTL DEF Spec

-----------------------------------------------------------------------------
(* What the reader accepts                                                 *)

(* A field is marked as broken over lines exactly when there is a line     *)
(* feed in its value.                                                      *)
Marked(f) == f.newline <=> LF \in ToSet(f.value)

AllMarked(s) ==
  /\ Marked(FieldOf(s))
  /\ \A c \in 1..Len(s.cur) : Marked(s.cur[c])
  /\ \A n \in 1..Len(s.records) : \A c \in 1..Len(s.records[n]) : Marked(s.records[n][c])

LEMMA AppendSet ==
  ASSUME NEW v \in Text, NEW x \in Char
  PROVE  LF \in ToSet(Append(v, x)) <=> LF \in ToSet(v) \/ x = LF
<1> DEFINE w == Append(v, x)
<1>1. /\ Len(v) \in Nat /\ DOMAIN v = 1..Len(v) /\ DOMAIN w = 1..(Len(v) + 1)
      /\ \A k \in 1..Len(v) : w[k] = v[k]
      /\ w[Len(v) + 1] = x
  BY DEF Text
<1>2. \A k : k \in 1..(Len(v) + 1) <=> k \in 1..Len(v) \/ k = Len(v) + 1
  BY <1>1
<1> HIDE DEF w
<1>3. LF \in ToSet(w) <=> LF \in ToSet(v) \/ x = LF
  BY <1>1, <1>2 DEF ToSet
<1> QED
  BY <1>3 DEF w

LEMMA EmptyUnmarked ==
  LF \notin ToSet(<<>>)
BY DEF ToSet

LEMMA SameFieldMarked ==
  ASSUME NEW s \in Locals, NEW e, AllMarked(s),
         e.cur = s.cur, e.records = s.records,
         e.newline <=> LF \in ToSet(e.val)
  PROVE  AllMarked(e)
BY DEF AllMarked, Marked, FieldOf

LEMMA EndFieldMarked ==
  ASSUME NEW s \in Locals, NEW e, AllMarked(s),
         e.cur = Append(s.cur, FieldOf(s)), e.records = s.records,
         e.val = <<>>, e.newline = FALSE
  PROVE  AllMarked(e)
<1>1. s.cur \in Seq(FieldRead) /\ FieldOf(s) \in FieldRead /\ Len(s.cur) \in Nat
  BY FieldOfType, LocalsAre
<1>2. /\ Len(e.cur) = Len(s.cur) + 1
      /\ \A c \in 1..Len(s.cur) : e.cur[c] = s.cur[c]
      /\ e.cur[Len(s.cur) + 1] = FieldOf(s)
  BY <1>1
<1>3. \A c \in 1..Len(e.cur) : c \in 1..Len(s.cur) \/ c = Len(s.cur) + 1
  BY <1>1, <1>2
<1>4. \A c \in 1..Len(e.cur) : Marked(e.cur[c])
  BY <1>2, <1>3 DEF AllMarked
<1>5. Marked(FieldOf(e))
  BY EmptyUnmarked DEF Marked, FieldOf
<1> QED
  BY <1>4, <1>5 DEF AllMarked

LEMMA EmitMarked ==
  ASSUME NEW s \in Locals, NEW e, AllMarked(s),
         e.cur = <<>>, e.records = Append(s.records, s.cur),
         e.val = s.val, e.newline = s.newline
  PROVE  AllMarked(e)
<1>1. /\ s.records \in Seq(Seq(FieldRead)) /\ s.cur \in Seq(FieldRead) /\ Len(s.records) \in Nat
      /\ Len(<<>>) = 0
  BY LocalsAre
<1>2. /\ Len(e.records) = Len(s.records) + 1
      /\ \A c \in 1..Len(s.records) : e.records[c] = s.records[c]
      /\ e.records[Len(s.records) + 1] = s.cur
  BY <1>1
<1>3. \A c \in 1..Len(e.records) : c \in 1..Len(s.records) \/ c = Len(s.records) + 1
  BY <1>1, <1>2
<1>4. \A n \in 1..Len(e.records) : \A c \in 1..Len(e.records[n]) : Marked(e.records[n][c])
  BY <1>2, <1>3 DEF AllMarked
<1>5. Marked(FieldOf(e)) /\ 1..Len(e.cur) = {}
  BY <1>1 DEF AllMarked, Marked, FieldOf
<1> QED
  BY <1>4, <1>5 DEF AllMarked

LEMMA RecordMarked ==
  ASSUME NEW s \in Locals, AllMarked(s)
  PROVE  LET e == EmitRecord(EndField(s)) IN e \in Locals /\ AllMarked(e)
<1> DEFINE f == EndField(s)
<1>1. /\ f \in Locals /\ f.cur = Append(s.cur, FieldOf(s)) /\ f.val = <<>>
      /\ f.newline = FALSE /\ f.records = s.records
  BY EndFieldIs
<1> HIDE DEF f
<1>2. AllMarked(f)
  BY <1>1, EndFieldMarked
<1> DEFINE e == EmitRecord(f)
<1>3. /\ e \in Locals /\ e.cur = <<>> /\ e.val = f.val /\ e.newline = f.newline
      /\ e.records = Append(f.records, f.cur)
  BY <1>1, EmitRecordIs
<1> HIDE DEF e
<1>4. e \in Locals /\ AllMarked(e)
  BY <1>1, <1>2, <1>3, EmitMarked
<1> QED
  BY <1>4 DEF e, f

LEMMA ErrMarked ==
  ASSUME NEW s \in Locals, AllMarked(s)
  PROVE  Err(s) \in Locals /\ AllMarked(Err(s))
<1> DEFINE e == Err(s)
<1>1. e \in Locals /\ e.cur = s.cur /\ e.val = s.val /\ e.newline = s.newline /\ e.records = s.records
  BY ErrIs
<1> HIDE DEF e
<1>2. e.newline <=> LF \in ToSet(e.val)
  BY <1>1 DEF AllMarked, Marked, FieldOf
<1>3. AllMarked(e)
  BY <1>1, <1>2, SameFieldMarked
<1> QED
  BY <1>1, <1>3 DEF e

LEMMA AppendMarked ==
  ASSUME NEW s \in Locals, NEW e, AllMarked(s), e.cur = s.cur, e.records = s.records,
         NEW x \in Char, e.val = Append(s.val, x),
         \/ x # LF /\ e.newline = s.newline
         \/ x = LF /\ e.newline = TRUE
  PROVE  AllMarked(e)
<1>1. LF \in ToSet(Append(s.val, x)) <=> LF \in ToSet(s.val) \/ x = LF
  BY LocalsAre, AppendSet
<1>2. s.newline <=> LF \in ToSet(s.val)
  BY DEF AllMarked, Marked, FieldOf
<1>3. e.newline <=> LF \in ToSet(e.val)
  BY <1>1, <1>2
<1> QED
  BY <1>3, SameFieldMarked

LEMMA KeepMarked ==
  ASSUME NEW s \in Locals, NEW e, AllMarked(s), e.cur = s.cur, e.records = s.records,
         e.val = s.val, e.newline = s.newline
  PROVE  AllMarked(e)
BY SameFieldMarked DEF AllMarked, Marked, FieldOf

LEMMA TurnMarked ==
  ASSUME TInv, AllMarked(scan), Turn
  PROVE  AllMarked(scan')
<1>1. scan \in Locals
  BY DEF TInv, ScanOK
<1>2. i <= Len(text)
  BY DEF Turn, EscapedQuote, ClosingQuote, QuotedBreak, QuotedAtom, Separator, LineFeed,
     CarriageReturn, LoneReturn, OpeningQuote, StrayQuote, Atom, InQuotes, Scanning
<1>3. text[i] \in Char /\ Quote \in Char /\ LF \in Char /\ Quote # LF
  BY <1>2, AtomType, AtomsAreChars, CharsDiffer
<1>4. Err(scan) \in Locals /\ AllMarked(Err(scan))
  BY <1>1, ErrMarked
<1>5. \A s \in Locals : AllMarked(s) => AllMarked(EmitRecord(EndField(s)))
  BY RecordMarked
<1>10. CASE EscapedQuote
  <2> DEFINE e == [scan EXCEPT !.val = Append(@, Quote)]
  <2>1. scan' = e
    BY <1>10 DEF EscapedQuote, Advance
  <2>2. /\ e.cur = scan.cur /\ e.val = Append(scan.val, Quote) /\ e.records = scan.records
        /\ e.newline = scan.newline
    BY <1>1, <1>3, AppendIs
  <2> HIDE DEF e
  <2> QED
    BY <1>1, <1>3, <2>1, <2>2, AppendMarked
<1>11. CASE ClosingQuote
  <2> DEFINE e == [scan EXCEPT !.inQuotes = FALSE, !.expectSep = TRUE]
  <2>1. scan' = e
    BY <1>11 DEF ClosingQuote, Advance
  <2>2. e.cur = scan.cur /\ e.val = scan.val /\ e.records = scan.records /\ e.newline = scan.newline
    BY <1>1, CloseIs
  <2> HIDE DEF e
  <2> QED
    BY <1>1, <2>1, <2>2, KeepMarked
<1>12. CASE QuotedBreak
  <2> DEFINE e == [scan EXCEPT !.newline = TRUE, !.val = Append(@, LF)]
  <2>1. scan' = e
    BY <1>12 DEF QuotedBreak, Advance
  <2>2. /\ e.cur = scan.cur /\ e.val = Append(scan.val, LF) /\ e.records = scan.records
        /\ e.newline = TRUE
    BY <1>1, <1>3, BreakIs
  <2> HIDE DEF e
  <2> QED
    BY <1>1, <1>3, <2>1, <2>2, AppendMarked
<1>13. CASE QuotedAtom
  <2> DEFINE e == [scan EXCEPT !.val = Append(@, text[i])]
  <2>1. scan' = e /\ text[i] # LF
    BY <1>13 DEF QuotedAtom, Advance
  <2>2. /\ e.cur = scan.cur /\ e.val = Append(scan.val, text[i]) /\ e.records = scan.records
        /\ e.newline = scan.newline
    BY <1>1, <1>3, AppendIs
  <2> HIDE DEF e
  <2> QED
    BY <1>1, <1>3, <2>1, <2>2, AppendMarked
<1>14. CASE Separator
  <2> DEFINE f == EndField(scan)
             e == [f EXCEPT !.started = TRUE]
  <2>1. scan' = e
    BY <1>14 DEF Separator, Advance
  <2>2. /\ f \in Locals /\ f.cur = Append(scan.cur, FieldOf(scan)) /\ f.val = <<>>
        /\ f.newline = FALSE /\ f.records = scan.records
    BY <1>1, EndFieldIs
  <2> HIDE DEF f
  <2>3. e.cur = f.cur /\ e.val = f.val /\ e.newline = f.newline /\ e.records = f.records
    BY <2>2, StartIs
  <2> HIDE DEF e
  <2> QED
    BY <1>1, <2>1, <2>2, <2>3, EndFieldMarked
<1>15. CASE LineFeed \/ CarriageReturn
  <2>1. scan' = EndLine(scan)
    BY <1>15 DEF LineFeed, CarriageReturn, Advance
  <2> QED
    BY <1>1, <1>4, <1>5, <2>1 DEF EndLine
<1>17. CASE LoneReturn
  <2>1. scan' = IF scan.expectSep THEN EmitRecord(EndField(Err(scan))) ELSE Err(scan)
    BY <1>17 DEF LoneReturn, Advance
  <2> QED
    BY <1>4, <1>5, <2>1
<1>18. CASE OpeningQuote
  <2> DEFINE e == [scan EXCEPT !.inQuotes = TRUE, !.quoted = TRUE, !.started = TRUE]
  <2>1. scan' = e
    BY <1>18 DEF OpeningQuote, Advance
  <2>2. e.cur = scan.cur /\ e.val = scan.val /\ e.records = scan.records /\ e.newline = scan.newline
    BY <1>1, OpenIs
  <2> HIDE DEF e
  <2> QED
    BY <1>1, <2>1, <2>2, KeepMarked
<1>19. CASE StrayQuote
  <2> DEFINE f == Err(scan)
             e == [f EXCEPT !.val = Append(@, Quote)]
  <2>1. scan' = e
    BY <1>19 DEF StrayQuote, Advance
  <2>2. f \in Locals /\ AllMarked(f)
    BY <1>4
  <2> HIDE DEF f
  <2>3. e.cur = f.cur /\ e.val = Append(f.val, Quote) /\ e.records = f.records /\ e.newline = f.newline
    BY <1>3, <2>2, AppendIs
  <2> HIDE DEF e
  <2> QED
    BY <1>3, <2>1, <2>2, <2>3, AppendMarked
<1>20. CASE Atom
  <2>0. text[i] # LF
    BY <1>20 DEF Atom
  <2>1. CASE scan.expectSep
    <3> DEFINE f == Err(scan)
               e == [f EXCEPT !.expectSep = FALSE, !.val = Append(@, text[i])]
    <3>1. scan' = e
      BY <1>20, <2>1 DEF Atom, Advance
    <3>2. f \in Locals /\ AllMarked(f)
      BY <1>4
    <3> HIDE DEF f
    <3>3. e.cur = f.cur /\ e.val = Append(f.val, text[i]) /\ e.records = f.records /\ e.newline = f.newline
      BY <1>3, <3>2, PutAfterQuoteIs
    <3> HIDE DEF e
    <3> QED
      BY <1>3, <2>0, <3>1, <3>2, <3>3, AppendMarked
  <2>2. CASE ~scan.expectSep
    <3> DEFINE e == [scan EXCEPT !.started = TRUE, !.val = Append(@, text[i])]
    <3>1. scan' = e
      BY <1>20, <2>2 DEF Atom, Advance
    <3>2. e.cur = scan.cur /\ e.val = Append(scan.val, text[i]) /\ e.records = scan.records /\ e.newline = scan.newline
      BY <1>1, <1>3, PutIs
    <3> HIDE DEF e
    <3> QED
      BY <1>1, <1>3, <2>0, <3>1, <3>2, AppendMarked
  <2> QED
    BY <2>1, <2>2
<1> QED
  BY <1>10, <1>11, <1>12, <1>13, <1>14, <1>15, <1>17, <1>18, <1>19, <1>20 DEF Turn

LEMMA ScannedMarked ==
  ASSUME NEW s \in Locals, AllMarked(s)
  PROVE  AllMarked(Scanned(s))
<1>1. \A e \in Locals : AllMarked(e) => AllMarked(EmitRecord(EndField(e)))
  BY RecordMarked
<1> QED
  BY <1>1, ErrMarked DEF Scanned

-----------------------------------------------------------------------------
(* A date is accepted when it is canonical: an offset lies between the     *)
(* outermost zones exactly when hours and minutes do.                      *)
LEMMA ZonesAre ==
  ASSUME NEW l \in Literal
  PROVE  IsOffset(l.zone) <=> IsWithinZones(l.zone)
<1> DEFINE h == l.zone.hours
           m == l.zone.minutes
<1>1. h \in Nat /\ m \in Nat
  BY DEF Literal
<1>2. OffsetOf(l.zone) = IF l.zone.sign = "-" THEN -(60 * h + m) ELSE 60 * h + m
  BY <1>1 DEF OffsetOf
<1>3. IsOffset(l.zone) <=> m <= 59 /\ OffsetOf(l.zone) \in -720..840
  BY DEF IsOffset
<1>4. IsWithinZones(l.zone) <=>
        /\ m \in 0..59
        /\ IF l.zone.sign = "-" THEN h < 12 \/ (h = 12 /\ m = 0) ELSE h < 14 \/ (h = 14 /\ m = 0)
  BY DEF IsWithinZones
<1> HIDE DEF h, m
<1>5. CASE l.zone.sign = "-"
  BY <1>1, <1>2, <1>3, <1>4, <1>5
<1>6. CASE l.zone.sign # "-"
  BY <1>1, <1>2, <1>3, <1>4, <1>6
<1> QED
  BY <1>5, <1>6

LEMMA LiteralAccepted ==
  ASSUME NEW w \in DOMAIN Date
  PROVE  ParseDate(Date[w]).error = "none" <=> IsCanonicalDate(w)
<1> DEFINE l == Date[w]
<1>1. l \in Literal
  BY DatesAreLiterals
<1>2. ParseDate(l).error = "none" <=>
        /\ l.form \in {"second", "day", "year"} /\ l.digits = 4
        /\ l.form = "second" => IsOffset(l.zone) /\ IsTime(l.hour, l.minute)
        /\ IsDay(l.year, l.month, l.day)
  <2>1. Error("CSV-TZ").error # "none" /\ Error("CSV-DATE").error # "none"
    BY DEF Error
  <2>2. \A e, o, p : Parsed(e, o, p).error = "none"
    BY DEF Parsed
  <2> HIDE DEF l
  <2> QED
    BY <2>1, <2>2 DEF ParseDate
<1>3. l.form \in {"day", "year"} => IsTime(l.hour, l.minute) /\ IsWithinZones(l.zone)
  <2> SUFFICES ASSUME l.form \in {"day", "year"} PROVE IsTime(l.hour, l.minute) /\ IsWithinZones(l.zone)
    OBVIOUS
  <2>1. /\ l.hour = 0 /\ l.minute = 0
        /\ l.zone.sign # "-" /\ l.zone.hours = 0 /\ l.zone.minutes = 0
    <3>1. l.hour = 0 /\ l.minute = 0 /\ l.zone = NoZone
      BY DaysAreMidnights DEF NoZone, Zone
    <3>2. NoZone.hours = 0 /\ NoZone.minutes = 0 /\ NoZone.sign = ""
      BY DEF NoZone, Zone
    <3>3. "" # "-"
      BY Zenon
    <3>4. l.zone.sign # "-"
      BY <3>1, <3>2, <3>3, Zenon
    <3> QED
      BY <3>1, <3>2, <3>4
  <2> HIDE DEF l
  <2>2. l.zone.sign # "-" /\ 0 \in 0..59 /\ 0 \in 0..23 /\ 0 < 14
    BY <2>1
  <2> QED
    BY <2>1, <2>2 DEF IsTime, IsWithinZones
<1>4. IsCanonicalDate(w) <=>
        /\ l.form \in {"second", "day", "year"} /\ l.digits = 4
        /\ IsDay(l.year, l.month, l.day) /\ IsTime(l.hour, l.minute) /\ IsWithinZones(l.zone)
  BY DEF IsCanonicalDate
<1> HIDE DEF l
<1>5. IsOffset(l.zone) <=> IsWithinZones(l.zone)
  BY <1>1, ZonesAre
<1> QED
  BY <1>2, <1>3, <1>4, <1>5 DEF l

LEMMA DateAccepted ==
  ASSUME NEW v \in Text, LF \notin ToSet(v)
  PROVE  ParseDate(DateLiteral(v)).error = "none" <=> Len(v) = 1 /\ IsCanonicalDate(v[1])
<1>1. Len(v) \in Nat /\ DOMAIN v = 1..Len(v) /\ (Len(v) = 0 => v = <<>>)
  BY DEF Text
<1>2. Len(v) = 2 => v[2] # LF
  BY <1>1 DEF ToSet
<1>3. ParseDate(NotADate).error # "none"
  <2>1. NotADate.form = "other"
    BY DEF NotADate
  <2> QED
    BY <2>1 DEF ParseDate, Error
<1>4. CASE Len(v) = 1 /\ v[1] \in DOMAIN Date
  <2>1. v # <<>>
    BY <1>4
  <2>2. DateLiteral(v) = Date[v[1]]
    BY <1>4, <2>1 DEF DateLiteral
  <2> QED
    BY <1>4, <2>2, LiteralAccepted
<1>5. CASE ~(Len(v) = 1 /\ v[1] \in DOMAIN Date)
  <2>1. DateLiteral(v) = NotADate
    BY <1>2, <1>5 DEF DateLiteral
  <2> QED
    BY <1>3, <1>5, <2>1 DEF IsCanonicalDate
<1> QED
  BY <1>4, <1>5

(* A reference that the reader goes on with is an instant.                 *)
BaselineIsInstant == reference # None => Baseline.precision = "second"

LEMMA FutureIs ==
  ASSUME TInv, BaselineIsInstant, NEW v \in Text, ParseDate(DateLiteral(v)).error = "none"
  PROVE  ~IsFuture(ParseDate(DateLiteral(v))) <=>
           (reference # None => UTCMinute(v[1]) <= UTCMinute(reference))
<1> DEFINE p == ParseDate(DateLiteral(v))
<1>1. p.epoch = UTCMinute(v[1])
  BY ReadDateIs
<1>2. p.epoch \in Int
  <2>1. p \in Moment
    BY DateLiteralType, ParseType DEF Text
  <2> QED
    BY <2>1 DEF Moment
<1>3. ASSUME reference # None
      PROVE  Baseline.epoch = UTCMinute(reference) /\ Baseline.epoch \in Int
  <2> DEFINE l == Date[reference]
  <2>0. reference \in DOMAIN Date
    BY <1>3, ReferencesAreDates DEF TInv
  <2>1. l \in Literal
    BY <2>0, DatesAreLiterals
  <2>2. ParseDate(l) \in Moment
    BY <2>1, ParseType
  <2>3. ParseDate(l).precision = "second"
    BY <1>3 DEF BaselineIsInstant, Baseline
  <2>4. \A code : Error(code).precision # "second"
    BY DEF Error
  <2>5. ParseDate(l) = Parsed(Instant(l, OffsetOf(l.zone)), OffsetOf(l.zone), l.form)
    <3> HIDE DEF l
    <3> QED
      BY <2>3, <2>4 DEF ParseDate
  <2>6. ParseDate(l).epoch = Instant(l, OffsetOf(l.zone))
    BY <2>5 DEF Parsed
  <2>7. Instant(l, OffsetOf(l.zone)) = UTCMinute(reference)
    BY DEF Instant, UTCMinute
  <2>8. ParseDate(l).epoch \in Int
    <3> HIDE DEF l
    <3> QED
      BY <2>2 DEF Moment
  <2> QED
    BY <2>6, <2>7, <2>8 DEF Baseline
<1>4. IsFuture(p) <=> reference # None /\ p.epoch > Baseline.epoch
  BY DEF IsFuture
<1> HIDE DEF p
<1>5. reference # None => (~(p.epoch > Baseline.epoch) <=> p.epoch <= Baseline.epoch)
  BY <1>2, <1>3
<1> QED
  BY <1>1, <1>3, <1>4, <1>5 DEF p

(* What the contract says of one record.                                   *)
ConformsRow(v) ==
  /\ Len(v) = NFields
  /\ \A c \in Validated : FieldErrors(c, v[c]) = {}
  /\ Len(v[2]) = 1 /\ IsCanonicalDate(v[2][1])
  /\ reference # None => UTCMinute(v[2][1]) <= UTCMinute(reference)

NoFails(S) == \A d \in S : d.severity # "FAIL"

LEMMA FailsAre ==
  /\ \A code, row : Fail(code, row).severity = "FAIL"
  /\ \A code, row : Diag(code, "WARN", row).severity # "FAIL" /\ Diag(code, "INFO", row).severity # "FAIL"
BY DEF Fail, Diag

LEMMA QuietRowIs ==
  ASSUME NEW v, NEW p
  PROVE  NoFails(RowDiags(v, p)) <=>
           /\ \A c \in Validated : FieldErrors(c, v[c]) = {}
           /\ \A k \in 1..4 : ~Record[k].newline
           /\ p.error = "none" /\ ~IsFuture(p)
<1> DEFINE a == UNION {{Fail(code, at) : code \in FieldErrors(c, v[c])} : c \in Validated}
           b == {Fail("CSV-FIELD", at) : c \in {k \in 1..4 : Record[k].newline}}
           e == When(p.error # "none", {Fail(p.error, at)})
           f == When(IsFuture(p), {Fail("CSV-DATE", at)})
           g == When(IsLate(p), {Diag("CSV-DATE-ORDER", "WARN", at)})
           h == When(\E k \in 1..NFields : Record[k].quoted /\ ~QuotingNeeded(v[k]),
                     {Diag("CSV-FIELD", "INFO", 0)})
<1>1. RowDiags(v, p) = a \cup b \cup e \cup f \cup g \cup h
  BY DEF RowDiags
<1>2. NoFails(a) <=> \A c \in Validated : FieldErrors(c, v[c]) = {}
  <2>1. ASSUME NoFails(a), NEW c \in Validated, NEW code \in FieldErrors(c, v[c])
        PROVE  FALSE
    <3>1. Fail(code, at) \in a
      BY <2>1
    <3> QED
      BY <2>1, <3>1, FailsAre DEF NoFails
  <2>2. ASSUME \A c \in Validated : FieldErrors(c, v[c]) = {}
        PROVE  NoFails(a)
    <3>1. a = {}
      BY <2>2
    <3> QED
      BY <3>1 DEF NoFails
  <2> QED
    BY <2>1, <2>2
<1>3. NoFails(b) <=> \A k \in 1..4 : ~Record[k].newline
  <2>1. ASSUME NEW k \in 1..4, Record[k].newline
        PROVE  Fail("CSV-FIELD", at) \in b
    BY <2>1
  <2>2. \A d \in b : \E k \in 1..4 : Record[k].newline
    OBVIOUS
  <2> HIDE DEF b
  <2> QED
    BY <2>1, <2>2, FailsAre DEF NoFails
<1>4. NoFails(e) <=> p.error = "none"
  BY FailsAre DEF NoFails, When
<1>5. NoFails(f) <=> ~IsFuture(p)
  BY FailsAre DEF NoFails, When
<1>6. NoFails(g) /\ NoFails(h)
  BY FailsAre DEF NoFails, When
<1> HIDE DEF a, b, e, f, g, h
<1>7. NoFails(RowDiags(v, p)) <=> NoFails(a) /\ NoFails(b) /\ NoFails(e) /\ NoFails(f) /\ NoFails(g) /\ NoFails(h)
  BY <1>1 DEF NoFails
<1> QED
  BY <1>2, <1>3, <1>4, <1>5, <1>6, <1>7

LEMMA BrokenFieldFails ==
  ASSUME NEW c \in {1, 3, 4}, NEW v, LF \in ToSet(v)
  PROVE  FieldErrors(c, v) # {}
<1>1. c # Message
  BY NFieldsIs
<1> QED
  BY <1>1 DEF FieldErrors

LEMMA RowAccepted ==
  ASSUME TInv, AllMarked(scan), BaselineIsInstant, at <= Len(scan.records), Len(Record) = 5
  PROVE  /\ NoFails(RowDiags(Values, DateRead)) <=> ConformsRow(Values)
         /\ ConformsRow(Values) => ~IsRefused
<1> DEFINE v == Values
           S == NoFails(RowDiags(v, DateRead))
<1>1. /\ v = [k \in 1..5 |-> Record[k].value] /\ Len(v) = 5 /\ at \in 1..Len(scan.records)
      /\ \A k \in 1..5 : v[k] = Record[k].value /\ v[k] \in Text
  <2>1. /\ v = [k \in 1..5 |-> Record[k].value]
        /\ at \in 1..Len(scan.records)
        /\ \A k \in 1..5 : v[k] \in Text
    BY RecordType
  <2>2. v \in [1..5 -> Text] /\ \A k \in 1..5 : v[k] = Record[k].value
    BY <2>1
  <2>3. Len(v) = 5
    BY <2>2, ListsAre
  <2> QED
    BY <2>1, <2>2, <2>3
<1>2. \A k \in 1..5 : Record[k].newline <=> LF \in ToSet(v[k])
  BY <1>1 DEF AllMarked, Marked, Record
<1>3. S <=> /\ \A c \in Validated : FieldErrors(c, v[c]) = {}
            /\ \A k \in 1..4 : ~Record[k].newline
            /\ DateRead.error = "none" /\ ~IsFuture(DateRead)
  BY QuietRowIs
<1>4. DateRead = ParseDate(DateLiteral(v[2]))
  BY DEF DateRead
<1> HIDE DEF v
<1>5. ASSUME \A c \in Validated : FieldErrors(c, v[c]) = {}
      PROVE  \A k \in {1, 3, 4} : ~Record[k].newline
  <2>1. {1, 3, 4} \subseteq Validated /\ {1, 3, 4} \subseteq 1..5
    BY NFieldsIs
  <2> QED
    BY <1>2, <1>5, <2>1, BrokenFieldFails
<1>6. IsCanonicalDate(v[2][1]) /\ Len(v[2]) = 1 => LF \notin ToSet(v[2])
  <2> SUFFICES ASSUME IsCanonicalDate(v[2][1]), Len(v[2]) = 1 PROVE LF \notin ToSet(v[2])
    OBVIOUS
  <2>1. v[2][1] # LF
    BY DatesAreWords DEF IsCanonicalDate
  <2>2. DOMAIN v[2] = {1}
    BY <1>1 DEF Text
  <2> QED
    BY <2>1, <2>2 DEF ToSet
<1>7. LF \notin ToSet(v[2]) =>
        (DateRead.error = "none" <=> Len(v[2]) = 1 /\ IsCanonicalDate(v[2][1]))
  BY <1>1, <1>4, DateAccepted
<1>8. DateRead.error = "none" =>
        (~IsFuture(DateRead) <=> (reference # None => UTCMinute(v[2][1]) <= UTCMinute(reference)))
  BY <1>1, <1>4, FutureIs
<1>9. ConformsRow(v) <=>
        /\ \A c \in Validated : FieldErrors(c, v[c]) = {}
        /\ Len(v[2]) = 1 /\ IsCanonicalDate(v[2][1])
        /\ reference # None => UTCMinute(v[2][1]) <= UTCMinute(reference)
  BY <1>1, NFieldsIs DEF ConformsRow
<1>10. S <=> ConformsRow(v)
  <2>1. ASSUME S PROVE ConformsRow(v)
    <3>1. ~Record[2].newline
      BY <1>3, <2>1
    <3>2. LF \notin ToSet(v[2])
      BY <1>2, <3>1
    <3> QED
      BY <1>3, <1>7, <1>8, <1>9, <2>1, <3>2
  <2>2. ASSUME ConformsRow(v) PROVE S
    <3>1. LF \notin ToSet(v[2])
      BY <1>6, <1>9, <2>2
    <3>2. ~Record[2].newline
      BY <1>2, <3>1
    <3>3. \A k \in 1..4 : ~Record[k].newline
      <4>1. \A k \in 1..4 : k = 2 \/ k \in {1, 3, 4}
        OBVIOUS
      <4> QED
        BY <1>5, <1>9, <2>2, <3>2, <4>1
    <3> QED
      BY <1>3, <1>7, <1>8, <1>9, <2>2, <3>1, <3>3
  <2> QED
    BY <2>1, <2>2
<1>11. IsRefused <=> \/ \E c \in Validated : FieldErrors(c, v[c]) # {}
                     \/ DateRead.error # "none" \/ IsFuture(DateRead)
  BY DEF IsRefused, v
<1>12. ConformsRow(v) => ~IsRefused
  BY <1>3, <1>10, <1>11
<1> QED
  BY <1>10, <1>12 DEF v

(* A text has lines exactly when it is not empty.                          *)
LEMMA LinesAre ==
  ASSUME NEW t \in Text
  PROVE  /\ Cardinality(Ends(t)) \in Nat /\ DOMAIN Split(t) = 1..Cardinality(Ends(t))
         /\ Cardinality(Ends(t)) = 0 <=> t = <<>>
<1>1. Len(t) \in Nat /\ DOMAIN t = 1..Len(t) /\ (t = <<>> <=> Len(t) = 0)
  BY DEF Text
<1>2. Ends(t) \subseteq 1..(Len(t) + 1)
  <2>1. \A k \in 1..Len(t) : k \in 1..(Len(t) + 1)
    BY <1>1
  <2>2. Breaks(t) \subseteq 1..(Len(t) + 1)
    BY <1>1, <2>1 DEF Breaks
  <2>3. Len(t) + 1 \in 1..(Len(t) + 1)
    BY <1>1
  <2> QED
    BY <2>2, <2>3 DEF Ends, When
<1>3. IsFiniteSet(Ends(t))
  <2>1. IsFiniteSet(1..(Len(t) + 1))
    BY <1>1, FS_Interval
  <2> QED
    BY <1>2, <2>1, FS_Subset
<1>4. Ends(t) = {} <=> t = <<>>
  <2>1. CASE t = <<>>
    <3>1. Breaks(t) = {}
      BY <1>1, <2>1 DEF Breaks
    <3> QED
      BY <2>1, <3>1 DEF Ends, When
  <2>2. CASE t # <<>>
    <3>1. Len(t) \in Breaks(t) \/ Len(t) + 1 \in Ends(t)
      BY <2>2 DEF Ends, When
    <3> QED
      BY <2>2, <3>1 DEF Ends
  <2> QED
    BY <2>1, <2>2
<1>5. DOMAIN LineSpans(t) = 1..Cardinality(Ends(t))
  BY DEF LineSpans, InOrder
<1>6. DOMAIN Split(t) = 1..Cardinality(Ends(t))
  BY <1>5 DEF Split
<1> QED
  BY <1>3, <1>4, <1>6, FS_CardinalityType, FS_EmptySet

(* The rows collide in a column when the records do.                       *)
LEMMA NoCollision ==
  ASSUME NEW R, NEW L, NEW column, NEW c, Len(R) \in Nat,
         DOMAIN R = 1..Len(R), DOMAIN L = 1..Len(R),
         \A k \in 1..Len(R) : R[k][column] = L[k][c]
  PROVE  Collisions(R, column) = {} <=> Distinct(L, c)
<1> DEFINE n == Len(R)
<1>0. n \in Nat /\ DOMAIN R = 1..n /\ DOMAIN L = 1..n /\ \A k \in 1..n : R[k][column] = L[k][c]
  OBVIOUS
<1> HIDE DEF n
<1>1. ASSUME Distinct(L, c), NEW k \in Collisions(R, column)
      PROVE  FALSE
  <2>1. k \in 1..n /\ \E j \in 1..(k - 1) : Fold(R[j][column]) = Fold(R[k][column])
    BY <1>0, <1>1 DEF Collisions
  <2>2. PICK j \in 1..(k - 1) : Fold(R[j][column]) = Fold(R[k][column])
    BY <2>1
  <2>3. j \in 1..n /\ j # k
    BY <1>0, <2>1, <2>2
  <2>4. Fold(L[j][c]) = Fold(L[k][c])
    BY <1>0, <2>1, <2>2, <2>3
  <2> QED
    BY <1>0, <1>1, <2>1, <2>3, <2>4 DEF Distinct
<1>2. ASSUME Collisions(R, column) = {}, NEW j \in 1..n, NEW k \in 1..n,
             Fold(L[j][c]) = Fold(L[k][c])
      PROVE  j = k
  <2>1. \A a, b \in 1..n : Fold(R[a][column]) = Fold(R[b][column]) => ~(a \in 1..(b - 1))
    BY <1>0, <1>2 DEF Collisions
  <2>2. Fold(R[j][column]) = Fold(R[k][column])
    BY <1>0, <1>2
  <2>3. ~(j \in 1..(k - 1)) /\ ~(k \in 1..(j - 1))
    BY <2>1, <2>2
  <2> QED
    BY <1>0, <2>3
<1> QED
  BY <1>0, <1>1, <1>2 DEF Distinct

ConformsUpTo(n) == \A k \in 1..n : ConformsRow(ValuesIn(scan.records[k]))

(* There is a row for each record so far.                                  *)
RowsMatch(n) ==
  /\ Len(rows) = n
  /\ \A k \in 1..n : /\ rows[k].number = k
                     /\ rows[k].directory = scan.records[k][1].value
                     /\ rows[k].tag = scan.records[k][4].value

(* The verdict so far, while the rows are read.                            *)
VerdictSoFar ==
  /\ ~HeadFails /\ BaselineIsInstant /\ scan.records # <<>>
  /\ Accepted <=> scan.errors = {} /\ ConformsUpTo(at - 1)
  /\ Accepted => RowsMatch(at - 1)

(* What is accepted, said of the records that were made of the text.       *)
AcceptsRecords ==
  IsRead("canonical") =>
    /\ Accepted <=> ~HeadFails /\ RecordsConform(text)
    /\ Accepted => /\ Len(rows) = Len(Split(text))
                   /\ \A n \in DOMAIN rows : rows[n].number = n

ContractInv ==
  /\ AllMarked(scan)
  /\ pc \in {"head", "scan"} => at = 1 /\ rows = <<>> /\ diags = {}
  /\ profile = "canonical" => /\ pc = "scan" => ~HeadFails
                              /\ pc = "rows" => VerdictSoFar
                              /\ AcceptsRecords

LEMMA DuplicatesAre ==
  ASSUME NEW R
  PROVE  /\ Duplicates(R) = {} <=> Collisions(R, "directory") = {} /\ Collisions(R, "tag") = {}
         /\ \A d \in Duplicates(R) : d.severity = "FAIL"
BY FailsAre DEF Duplicates

LEMMA Verdict ==
  ASSUME TInv, ScanDone, VerdictSoFar, pc = "rows", at > Len(scan.records)
  PROVE  /\ Accepted /\ Duplicates(rows) = {} <=> RecordsConform(text)
         /\ Accepted => /\ Len(rows) = Len(Split(text))
                        /\ \A n \in DOMAIN rows : rows[n].number = n
<1> DEFINE R == scan.records
           n == Len(R)
           L == Split(text)
<1>1. /\ R \in Seq(Seq(FieldRead)) /\ n \in Nat /\ DOMAIN R = 1..n /\ n # 0
      /\ at - 1 = n /\ text \in Text
  <2>1. R \in Seq(Seq(FieldRead)) /\ n \in Nat
    BY LocalsAre DEF TInv, ScanOK
  <2>2. at \in 1..(n + 1) /\ text \in Text
    BY DEF TInv
  <2>3. n # 0
    BY <2>1 DEF VerdictSoFar
  <2> QED
    BY <2>1, <2>2, <2>3
<1>2. /\ Accepted <=> WellFormed(text) /\ \A k \in 1..n : ConformsRow(ValuesIn(R[k]))
      /\ Accepted => RowsMatch(n)
  BY <1>1 DEF VerdictSoFar, ScanDone, ConformsUpTo
<1>3. WellFormed(text) => /\ DOMAIN L = 1..n /\ text # <<>> /\ Len(L) = n
                          /\ \A k \in 1..n : L[k] = ValuesIn(R[k])
  <2> SUFFICES ASSUME WellFormed(text)
               PROVE  /\ DOMAIN L = 1..n /\ text # <<>> /\ Len(L) = n
                      /\ \A k \in 1..n : L[k] = ValuesIn(R[k])
    OBVIOUS
  <2>1. L = [k \in 1..n |-> ValuesIn(R[k])]
    BY <1>1 DEF ScanDone
  <2>2. DOMAIN L = 1..n /\ \A k \in 1..n : L[k] = ValuesIn(R[k])
    BY <2>1
  <2> DEFINE S == {ValuesIn(R[k]) : k \in 1..n}
  <2>3. L \in [1..n -> S]
    BY <2>1
  <2>4. Len(L) = n
    <3> HIDE DEF S, L
    <3> QED
      BY <1>1, <2>3, ListsAre
  <2>5. text # <<>>
    <3>1. /\ Cardinality(Ends(text)) \in Nat /\ DOMAIN L = 1..Cardinality(Ends(text))
          /\ Cardinality(Ends(text)) = 0 <=> text = <<>>
      BY <1>1, LinesAre
    <3>2. \A m \in Nat : 1..m = 1..n => m # 0
      BY <1>1
    <3> QED
      BY <2>2, <3>1, <3>2
  <2> QED
    BY <2>2, <2>4, <2>5
<1>4. RecordsConform(text) <=> /\ WellFormed(text) /\ text # <<>>
                               /\ \A k \in DOMAIN L : ConformsRow(L[k])
                               /\ Distinct(L, 1) /\ Distinct(L, 4)
  BY DEF RecordsConform, ConformsRow
<1> HIDE DEF L
<1>5. CASE ~Accepted
  BY <1>2, <1>3, <1>4, <1>5
<1>6. CASE Accepted
  <2>1. /\ WellFormed(text) /\ RowsMatch(n)
        /\ \A k \in 1..n : ConformsRow(L[k])
    BY <1>2, <1>3, <1>6
  <2>2. DOMAIN rows = 1..n /\ Len(rows) = n
    BY <2>1 DEF RowsMatch, TInv
  <2>3. ASSUME NEW k \in 1..n
        PROVE  rows[k].directory = L[k][1] /\ rows[k].tag = L[k][4]
    <3>1. L[k] = ValuesIn(R[k]) /\ Len(L[k]) = 5
      BY <1>3, <2>1, NFieldsIs DEF ConformsRow
    <3>2. R[k] \in Seq(FieldRead)
      BY <1>1, ElementOfSeq
    <3>3. ValuesIn(R[k]) = [c \in 1..Len(R[k]) |-> R[k][c].value] /\ Len(R[k]) \in Nat
      BY <3>2 DEF ValuesIn
    <3>4. \A c \in 1..Len(R[k]) : R[k][c] \in FieldRead
      BY <3>2, ElementOfSeq
    <3>5. ValuesIn(R[k]) \in [1..Len(R[k]) -> Text]
      BY <3>3, <3>4 DEF FieldRead
    <3>6. Len(R[k]) = 5
      BY <3>1, <3>3, <3>5, ListsAre
    <3>7. 1 \in 1..Len(R[k]) /\ 4 \in 1..Len(R[k])
      BY <3>6
    <3>8. L[k][1] = R[k][1].value /\ L[k][4] = R[k][4].value
      BY <3>1, <3>3, <3>7
    <3> QED
      BY <2>1, <3>8 DEF RowsMatch
  <2>4. /\ Len(rows) \in Nat /\ DOMAIN rows = 1..Len(rows) /\ DOMAIN L = 1..Len(rows)
        /\ 1..n = 1..Len(rows)
    BY <1>1, <1>3, <2>1, <2>2
  <2>5. ASSUME NEW column, NEW c, \A k \in 1..Len(rows) : rows[k][column] = L[k][c]
        PROVE  Collisions(rows, column) = {} <=> Distinct(L, c)
    BY <2>4, <2>5, NoCollision
  <2>6. \A k \in 1..Len(rows) : rows[k]["directory"] = L[k][1]
    BY <2>3, <2>4
  <2>7. \A k \in 1..Len(rows) : rows[k]["tag"] = L[k][4]
    BY <2>3, <2>4
  <2>10. Collisions(rows, "directory") = {} <=> Distinct(L, 1)
    BY <2>5, <2>6
  <2>11. Collisions(rows, "tag") = {} <=> Distinct(L, 4)
    BY <2>5, <2>7
  <2>8. Duplicates(rows) = {} <=> Distinct(L, 1) /\ Distinct(L, 4)
    BY <2>10, <2>11, DuplicatesAre
  <2>9. \A k \in DOMAIN rows : rows[k].number = k
    BY <2>1, <2>2 DEF RowsMatch
  <2> QED
    BY <1>3, <1>4, <1>6, <2>1, <2>2, <2>8, <2>9 DEF L
<1> QED
  BY <1>5, <1>6

LEMMA NewIsMarked == AllMarked(NewScan)
<1> DEFINE s == NewScan
<1>1. s.newline = FALSE /\ s.val = <<>> /\ s.cur = <<>> /\ s.records = <<>> /\ Len(<<>>) = 0
  BY DEF NewScan
<1> HIDE DEF s
<1>2. Marked(FieldOf(s))
  BY <1>1, EmptyUnmarked DEF Marked, FieldOf
<1>3. 1..Len(s.cur) = {} /\ 1..Len(s.records) = {}
  BY <1>1
<1>4. AllMarked(s)
  BY <1>2, <1>3 DEF AllMarked
<1> QED
  BY <1>4 DEF s

LEMMA EndContract ==
  ASSUME TInv, ScanInv, ScanDone', ContractInv, EndOfText
  PROVE  ContractInv'
<1>1. /\ pc = "scan" /\ at' = at /\ rows' = rows /\ at = 1 /\ rows = <<>> /\ diags = {}
      /\ UNCHANGED <<file, profile, reference>> /\ scan' = Scanned(scan)
  BY DEF EndOfText, ContractInv
<1>2. AllMarked(scan')
  <2>1. scan \in Locals /\ AllMarked(scan)
    BY DEF TInv, ScanOK, ContractInv
  <2> QED
    BY <1>1, <2>1, ScannedMarked
<1>3. text' = text /\ HeadFails' = HeadFails /\ Baseline' = Baseline
  BY <1>1 DEF text, HeadFails, Baseline
<1>4. CASE profile # "canonical"
  <2>1. pc' \in {"rows", "raised"} /\ profile' # "canonical"
    BY <1>1, <1>4 DEF EndOfText
  <2> QED
    BY <1>2, <2>1 DEF ContractInv, AllMarked, Marked, FieldOf
<1>5. CASE profile = "canonical"
  <2>1. ~HeadFails
    BY <1>1, <1>5 DEF ContractInv
  <2>2. /\ diags' = {Fail("CSV-FIELD", r) : r \in scan'.errors}
                      \cup IF scan'.records = <<>> THEN {Fail("CSV-FIELD", 0)}
                           ELSE When(reference = None, {Diag("CSV-DATE", "INFO", 0)})
        /\ pc' = IF scan'.records = <<>> THEN "done"
                 ELSE IF reference # None /\ Baseline.precision # "second" THEN "raised"
                 ELSE "rows"
    BY <1>1, <1>5 DEF EndOfText
  <2>3. Accepted' <=> scan'.errors = {} /\ scan'.records # <<>>
    <3> DEFINE a == {Fail("CSV-FIELD", r) : r \in scan'.errors}
               b == IF scan'.records = <<>> THEN {Fail("CSV-FIELD", 0)}
                    ELSE When(reference = None, {Diag("CSV-DATE", "INFO", 0)})
    <3>1. NoFails(a) <=> scan'.errors = {}
      BY FailsAre DEF NoFails
    <3>2. NoFails(b) <=> scan'.records # <<>>
      BY FailsAre DEF NoFails, When
    <3>3. diags' = a \cup b
      BY <2>2
    <3> HIDE DEF a, b
    <3>4. Accepted' <=> NoFails(a) /\ NoFails(b)
      BY <3>3 DEF Accepted, NoFails
    <3> QED
      BY <3>1, <3>2, <3>4
  <2>4. CASE scan'.records = <<>>
    <3>1. pc' = "done" /\ ~Accepted'
      BY <2>2, <2>3, <2>4
    <3>2. ~RecordsConform(text)
      <4> SUFFICES ASSUME WellFormed(text) PROVE text = <<>>
        BY DEF RecordsConform
      <4>1. [r \in DOMAIN scan'.records |-> ValuesIn(scan'.records[r])] = Split(text)
        BY EndScan
      <4>2. DOMAIN Split(text) = DOMAIN scan'.records
        BY <4>1
      <4>3. DOMAIN <<>> = {}
        OBVIOUS
      <4>4. text \in Text
        BY DEF TInv
      <4>5. \A n \in Nat : 1..n = {} => n = 0
        OBVIOUS
      <4> QED
        BY <2>4, <4>2, <4>3, <4>4, <4>5, LinesAre
    <3>3. ~RecordsConform(text)'
      BY <1>1, <1>3, <3>2 DEF RecordsConform
    <3>4. AcceptsRecords'
      BY <3>1, <3>3 DEF AcceptsRecords
    <3> QED
      BY <1>2, <3>1, <3>4 DEF ContractInv, AllMarked, Marked, FieldOf
  <2>5. CASE scan'.records # <<>>
    <3>1. pc' \in {"raised", "rows"}
      BY <2>2, <2>5
    <3>2. AcceptsRecords'
      BY <3>1 DEF AcceptsRecords, IsRead
    <3>3. 1..(at' - 1) = {} /\ at' - 1 = 0 /\ Len(rows') = 0
      BY <1>1
    <3>4. ConformsUpTo(at - 1)' /\ RowsMatch(at - 1)'
      BY <3>3 DEF ConformsUpTo, RowsMatch
    <3>5. pc' = "rows" => BaselineIsInstant'
      BY <1>1, <1>3, <2>2, <2>5 DEF BaselineIsInstant
    <3>6. pc' = "rows" => VerdictSoFar'
      BY <1>3, <2>1, <2>3, <2>5, <3>4, <3>5 DEF VerdictSoFar
    <3> QED
      BY <1>2, <3>1, <3>2, <3>6 DEF ContractInv, AllMarked, Marked, FieldOf
  <2> QED
    BY <2>4, <2>5
<1> QED
  BY <1>4, <1>5

LEMMA FinishContract ==
  ASSUME TInv, ScanDone, ContractInv, FinishReading
  PROVE  ContractInv'
<1>1. /\ pc = "rows" /\ at > Len(scan.records) /\ pc' = "done"
      /\ UNCHANGED <<file, profile, reference, scan, at, rows>>
      /\ profile = "canonical" => diags' = diags \cup Duplicates(rows)
  BY DEF FinishReading
<1>2. text' = text /\ HeadFails' = HeadFails
  BY <1>1 DEF text, HeadFails
<1>3. profile = "canonical" => AcceptsRecords'
  <2> SUFFICES ASSUME profile = "canonical" PROVE AcceptsRecords'
    OBVIOUS
  <2>1. VerdictSoFar /\ ~HeadFails
    BY <1>1 DEF ContractInv, VerdictSoFar
  <2>2. /\ Accepted /\ Duplicates(rows) = {} <=> RecordsConform(text)
        /\ Accepted => /\ Len(rows) = Len(Split(text))
                       /\ \A n \in DOMAIN rows : rows[n].number = n
    BY <1>1, <2>1, Verdict
  <2>3. Accepted' <=> Accepted /\ Duplicates(rows) = {}
    BY <1>1, DuplicatesAre DEF Accepted
  <2>4. RecordsConform(text)' <=> RecordsConform(text)
    BY <1>1, <1>2 DEF RecordsConform
  <2> QED
    BY <1>1, <1>2, <2>1, <2>2, <2>3, <2>4 DEF AcceptsRecords
<1> QED
  BY <1>1, <1>3 DEF ContractInv

(* A record that is refused settles the verdict; one that is not adds a    *)
(* row.                                                                    *)
LEMMA RecordContract ==
  ASSUME TInv, VerdictSoFar, pc = "rows", at <= Len(scan.records), at' = at + 1,
         UNCHANGED <<file, profile, reference, scan>>,
         Accepted' <=> Accepted /\ ConformsRow(Values),
         ConformsRow(Values) => /\ rows' = Append(rows, RowMade) /\ RowMade.number = at
                                /\ RowOK(RowMade) /\ Len(Record) = 5
  PROVE  VerdictSoFar'
<1>1. /\ at \in 1..Len(scan.records) /\ Len(scan.records) \in Nat /\ at \in Nat /\ at' - 1 = at
      /\ at - 1 \in Nat /\ (at - 1) + 1 = at
      /\ \A k \in 1..at : k \in 1..(at - 1) \/ k = at
      /\ \A k \in 1..(at - 1) : k \in 1..at
      /\ at \in 1..at
  <2>1. at \in 1..Len(scan.records) /\ Len(scan.records) \in Nat
    BY RecordType, LocalsAre DEF TInv, ScanOK
  <2>2. at \in Nat /\ at >= 1
    BY <2>1
  <2> QED
    BY <2>1, <2>2
<1>2. scan' = scan /\ HeadFails' = HeadFails /\ (BaselineIsInstant' <=> BaselineIsInstant)
  BY DEF HeadFails, BaselineIsInstant, Baseline
<1>3. Values = ValuesIn(scan.records[at])
  BY DEF Values, ValuesIn, Record
<1>4. \A v : ConformsRow(v)' <=> ConformsRow(v)
  BY DEF ConformsRow
<1>5. ConformsUpTo(at - 1)' <=> ConformsUpTo(at - 1) /\ ConformsRow(Values)
  BY <1>1, <1>2, <1>3 DEF ConformsUpTo, ConformsRow
<1>6. Accepted' <=> scan.errors = {} /\ ConformsUpTo(at - 1)'
  BY <1>5 DEF VerdictSoFar
<1>7. ASSUME Accepted'
      PROVE  RowsMatch(at - 1)'
  <2>1. RowsMatch(at - 1) /\ ConformsRow(Values)
    BY <1>7 DEF VerdictSoFar
  <2>2. /\ rows' = Append(rows, RowMade) /\ RowMade.number = at /\ RowOK(RowMade)
        /\ Len(Record) = 5
    BY <2>1
  <2>3. /\ Len(Append(rows, RowMade)) = at /\ Len(rows) = at - 1
        /\ \A k \in 1..(at - 1) : Append(rows, RowMade)[k] = rows[k]
        /\ Append(rows, RowMade)[at] = RowMade
    <3>1. /\ Len(Append(rows, RowMade)) = Len(rows) + 1
          /\ \A k \in 1..Len(rows) : Append(rows, RowMade)[k] = rows[k]
          /\ Append(rows, RowMade)[Len(rows) + 1] = RowMade
      BY <2>2, AppendRow
    <3>2. Len(rows) = at - 1 /\ Len(rows) + 1 = at
      BY <1>1, <2>1 DEF RowsMatch
    <3> QED
      BY <3>1, <3>2
  <2>4. RowMade.directory = Record[1].value /\ RowMade.tag = Record[4].value
    <3>1. Values[1] = Record[1].value /\ Values[4] = Record[4].value
      <4>1. Values = [k \in 1..5 |-> Record[k].value]
        BY <2>2, RecordType
      <4> QED
        BY <4>1
    <3>2. RowMade.directory = Values[1] /\ RowMade.tag = Values[4]
      BY DEF RowMade, Row
    <3> QED
      BY <3>1, <3>2
  <2>5. \A k \in 1..at : /\ rows'[k].number = k
                         /\ rows'[k].directory = scan.records[k][1].value
                         /\ rows'[k].tag = scan.records[k][4].value
    <3> TAKE k \in 1..at
    <3>1. CASE k = at
      BY <2>2, <2>3, <2>4, <3>1 DEF Record
    <3>2. CASE k \in 1..(at - 1)
      BY <2>1, <2>2, <2>3, <3>2 DEF RowsMatch
    <3> QED
      BY <1>1, <3>1, <3>2
  <2> QED
    BY <1>1, <1>2, <2>2, <2>3, <2>5 DEF RowsMatch
<1> QED
  BY <1>2, <1>6, <1>7 DEF VerdictSoFar

LEMMA NextContract == TInv /\ ScanInv /\ ScanDone /\ ContractInv /\ [Next]_vars => ContractInv'
<1> SUFFICES ASSUME TInv, ScanInv, ScanDone, ContractInv, [Next]_vars PROVE ContractInv'
  OBVIOUS
<1>0. ScanDone'
  BY NextScan
<1>1. CASE Turn
  <2>1. pc = "scan" /\ UNCHANGED Others
    BY <1>1, TurnType DEF Turn, EscapedQuote, ClosingQuote, QuotedBreak, QuotedAtom, Separator, LineFeed,
       CarriageReturn, LoneReturn, OpeningQuote, StrayQuote, Atom, InQuotes, Scanning
  <2>2. AllMarked(scan')
    BY <1>1, TurnMarked DEF ContractInv
  <2>3. HeadFails' = HeadFails
    BY <2>1 DEF Others, HeadFails
  <2>4. AcceptsRecords'
    BY <2>1 DEF Others, AcceptsRecords, IsRead
  <2> QED
    BY <2>1, <2>2, <2>3, <2>4 DEF ContractInv, Others, AllMarked, Marked, FieldOf
<1>2. CASE ReadHead
  <2>1. /\ pc = "head" /\ UNCHANGED <<file, profile, scan, at, rows>>
        /\ IF HeadFails THEN pc' = "done" /\ \E c : diags' = {Fail(c, 0)}
           ELSE pc' = "scan" /\ diags' = diags
    BY <1>2 DEF ReadHead
  <2>2. HeadFails' = HeadFails /\ AllMarked(scan)
    BY <2>1 DEF HeadFails, ContractInv
  <2>3. HeadFails => ~Accepted'
    BY <2>1, FailsAre DEF Accepted
  <2>4. AcceptsRecords'
    BY <2>1, <2>2, <2>3 DEF AcceptsRecords, IsRead
  <2>5. AllMarked(scan)'
    BY <2>1, <2>2 DEF AllMarked, Marked, FieldOf
  <2> QED
    BY <2>1, <2>2, <2>4, <2>5 DEF ContractInv
<1>3. CASE EndOfText
  BY <1>0, <1>3, EndContract
<1>4. ASSUME pc = "rows", pc' = "rows", UNCHANGED <<file, profile, reference, scan>>,
             profile = "canonical" => VerdictSoFar'
      PROVE  ContractInv'
  <2>1. AllMarked(scan)'
    BY <1>4 DEF ContractInv, AllMarked, Marked, FieldOf
  <2>2. AcceptsRecords'
    BY <1>4 DEF AcceptsRecords, IsRead
  <2> QED
    BY <1>4, <2>1, <2>2 DEF ContractInv
<1>5. CASE WrongArity
  <2>1. /\ pc = "rows" /\ pc' = "rows" /\ at <= Len(scan.records) /\ Len(Record) # NFields /\ at' = at + 1
        /\ UNCHANGED <<file, profile, reference, scan>>
        /\ profile = "canonical" => diags' = diags \cup {Fail("CSV-FIELD", at)}
    BY <1>5 DEF WrongArity
  <2>2. ~ConformsRow(Values)
    <3>1. /\ Values = [k \in 1..Len(Record) |-> Record[k].value] /\ Len(Record) \in Nat
          /\ \A k \in 1..Len(Record) : Values[k] \in Text
      BY <2>1, RecordType
    <3>2. Values \in [1..Len(Record) -> Text]
      BY <3>1
    <3>3. Len(Values) = Len(Record)
      BY <3>1, <3>2, ListsAre
    <3> QED
      BY <2>1, <3>3 DEF ConformsRow
  <2>3. profile = "canonical" => VerdictSoFar'
    <3> SUFFICES ASSUME profile = "canonical" PROVE VerdictSoFar'
      OBVIOUS
    <3>1. VerdictSoFar
      BY <2>1 DEF ContractInv
    <3>2. ~Accepted'
      BY <2>1, FailsAre DEF Accepted
    <3> QED
      BY <2>1, <2>2, <3>1, <3>2, RecordContract
  <2> QED
    BY <1>4, <2>1, <2>3
<1>6. CASE ReadRow
  <2>1. /\ pc = "rows" /\ at <= Len(scan.records) /\ Len(Record) = 5 /\ at' = at + 1
        /\ UNCHANGED <<file, profile, reference, pc, scan>> /\ profile = "canonical"
        /\ diags' = diags \cup RowDiags(Values, DateRead)
        /\ rows' = IF IsRefused THEN rows ELSE Append(rows, RowMade)
    BY <1>6, ReadRowIs, NFieldsIs DEF Reading
  <2>2. VerdictSoFar /\ AllMarked(scan)
    BY <2>1 DEF ContractInv
  <2>3. /\ NoFails(RowDiags(Values, DateRead)) <=> ConformsRow(Values)
        /\ ConformsRow(Values) => ~IsRefused
    BY <2>1, <2>2, RowAccepted DEF VerdictSoFar
  <2>4. Accepted' <=> Accepted /\ NoFails(RowDiags(Values, DateRead))
    BY <2>1 DEF Accepted, NoFails
  <2>5. ~IsRefused => RowOK(RowMade) /\ RowMade.number = at
    <3>1. \A k \in 1..5 : Values[k] \in Text
      BY <2>1, RecordType
    <3>2. DateRead \in Moment /\ (DateRead.error = "none" => Dated(DateRead))
      BY <3>1, DatedIs DEF DateRead
    <3>3. at \in Nat
      BY <2>1, RecordType
    <3>4. DateRead.error = "none" => RowOK(RowMade) /\ RowMade.number = at
      BY <3>1, <3>2, <3>3, NotesAre, RowType DEF RowMade
    <3> QED
      BY <3>4 DEF IsRefused
  <2>6. VerdictSoFar'
    BY <2>1, <2>2, <2>3, <2>4, <2>5, RecordContract
  <2> QED
    BY <1>4, <2>1, <2>6
<1>7. CASE FinishReading
  BY <1>7, FinishContract
<1>8. CASE PassUntagged \/ PassUndated \/ PassToRepair \/ ConvertRow
  <2>1. /\ profile = "legacy" /\ pc = "rows" /\ pc' = "rows"
        /\ UNCHANGED <<file, profile, reference, scan>>
    BY <1>8 DEF PassUntagged, PassUndated, PassToRepair, ConvertRow, Convert, IsLegacyRow, Reading
  <2> QED
    BY <1>4, <2>1
<1>9. CASE Rewrite
  <2>1. pc' = "head" /\ scan' = NewScan /\ at' = 1 /\ rows' = <<>> /\ diags' = {}
    BY <1>9 DEF Rewrite
  <2>2. AllMarked(NewScan)
    BY NewIsMarked
  <2>3. AllMarked(scan)'
    BY <2>1, <2>2 DEF AllMarked, Marked, FieldOf
  <2>4. AcceptsRecords'
    BY <2>1 DEF AcceptsRecords, IsRead
  <2> QED
    BY <2>1, <2>3, <2>4 DEF ContractInv
<1>10. CASE UNCHANGED vars
  <2>1. UNCHANGED <<file, profile, reference, pc, scan, at, rows, diags>>
    BY <1>10 DEF vars
  <2>2. text' = text /\ HeadFails' = HeadFails /\ Accepted' = Accepted
        /\ (BaselineIsInstant' <=> BaselineIsInstant)
    BY <2>1 DEF text, HeadFails, Accepted, BaselineIsInstant, Baseline
  <2>3. RecordsConform(text)' <=> RecordsConform(text)
    BY <2>1, <2>2 DEF RecordsConform
  <2>4. AcceptsRecords' <=> AcceptsRecords
    BY <2>1, <2>2, <2>3 DEF AcceptsRecords, IsRead
  <2>5. AllMarked(scan)' <=> AllMarked(scan)
    BY <2>1 DEF AllMarked, Marked, FieldOf
  <2>6. ConformsUpTo(at - 1)' <=> ConformsUpTo(at - 1)
    BY <2>1 DEF ConformsUpTo, ConformsRow
  <2>7. RowsMatch(at - 1)' <=> RowsMatch(at - 1)
    BY <2>1 DEF RowsMatch
  <2>8. VerdictSoFar' <=> VerdictSoFar
    BY <2>1, <2>2, <2>6, <2>7 DEF VerdictSoFar
  <2> QED
    BY <2>1, <2>2, <2>4, <2>5, <2>8 DEF ContractInv
<1> QED
  BY <1>1, <1>2, <1>3, <1>5, <1>6, <1>7, <1>8, <1>9, <1>10 DEF Next, Tokenize, Turn

\* The canonical reader accepts a file exactly when the file conforms to the
\* contract, said of the whole text at once, or departs from it by a carriage
\* return alone inside quotes or by digits that are not ASCII and in no other
\* way; and then it has a row for each of the records, in their order: for any
\* text, any table of dates, any reference and any folding of names, and for a
\* text that the writer has written as well (grammar.py:146-150, 399-535,
\* dates.py:23-28).
THEOREM AcceptanceIsExact == Spec => []AcceptsTheContractAndTwoDepartures
<1>1. Init => TInv /\ ScanInv /\ ScanDone /\ ContractInv
  <2> SUFFICES ASSUME Init PROVE TInv /\ ScanInv /\ ScanDone /\ ContractInv
    OBVIOUS
  <2>1. TInv /\ ScanInv /\ ScanDone
    BY InitTInv DEF Init, ScanInv, ScanDone
  <2>2. pc = "head" /\ scan = NewScan /\ at = 1 /\ rows = <<>> /\ diags = {}
    BY DEF Init
  <2>3. AcceptsRecords
    BY <2>2 DEF AcceptsRecords, IsRead
  <2> QED
    BY <2>1, <2>2, <2>3, NewIsMarked DEF ContractInv
<1>2. TInv /\ ScanInv /\ ScanDone /\ ContractInv /\ [Next]_vars
        => (TInv /\ ScanInv /\ ScanDone /\ ContractInv)'
  BY NextTInv, NextScan, NextContract
<1>3. ContractInv => AcceptsTheContractAndTwoDepartures
  <2>1. RecordsConform(text) <=> Conforms(text) \/ Tolerated(text)
    BY DEF Conforms, Tolerated
  <2> QED
    BY <2>1 DEF ContractInv, AcceptsRecords, AcceptsTheContractAndTwoDepartures, IsRead
<1> QED
  BY <1>1, <1>2, <1>3, PTL DEF Spec

-----------------------------------------------------------------------------
(* What the converter says                                                 *)

LEMMA MonthsAre == \A y, m : DaysIn(y, m) \in {28, 29, 30, 31}
BY DEF DaysIn

(* The order of day and month that a slash date is read in is one that     *)
(* gives a date, when there is one, and month before day when that does.   *)
LEMMA SlashReadingIs ==
  ASSUME NEW l \in Literal
  PROVE  LET r == SlashReading(l) IN
         /\ r.year = l.year /\ r.hour = l.hour /\ r.minute = l.minute
         /\ IsDay(r.year, r.month, r.day) <=> ReadingsOf(l) # {}
         /\ IsDay(r.year, r.month, r.day) => <<r.month, r.day>> \in ReadingsOf(l)
         /\ IsDay(l.year, l.month, l.day) => r.month = l.month /\ r.day = l.day
         /\ Cardinality(ReadingsOf(l)) = 2 => Ambiguous(l)
<1> DEFINE r == SlashReading(l)
           y == l.year
           m == l.month
           d == l.day
           straight == Ambiguous(l) \/ (m \in 1..12 /\ d \in 13..31)
<1>1. y \in Nat /\ m \in Nat /\ d \in Nat
  BY DEF Literal
<1>2. /\ r.year = y /\ r.hour = l.hour /\ r.minute = l.minute
      /\ r.month = IF straight THEN m ELSE d
      /\ r.day = IF straight THEN d ELSE m
  BY DEF SlashReading, Literal
<1>3. Ambiguous(l) <=> m \in 1..12 /\ d \in 1..12
  BY DEF Ambiguous
<1>4. ReadingsOf(l) = {e \in {<<m, d>>, <<d, m>>} : IsDay(y, e[1], e[2])}
  BY SMTT(40) DEF ReadingsOf
<1> HIDE DEF r, y, m, d
<1>5. /\ IsDay(y, m, d) => y \in 1..9999 /\ m \in 1..12 /\ d \in 1..31
      /\ IsDay(y, d, m) => y \in 1..9999 /\ d \in 1..12 /\ m \in 1..31
      /\ y \in 1..9999 /\ m \in 1..12 /\ d \in 1..12 => IsDay(y, m, d) /\ IsDay(y, d, m)
  <2>1. DaysIn(y, m) \in {28, 29, 30, 31} /\ DaysIn(y, d) \in {28, 29, 30, 31}
    BY MonthsAre
  <2>2. /\ IsDay(y, m, d) => y \in 1..9999 /\ m \in 1..12 /\ d \in 1..31
        /\ y \in 1..9999 /\ m \in 1..12 /\ d \in 1..12 => IsDay(y, m, d)
    BY <1>1, <2>1, SMTT(40) DEF IsDay
  <2>3. /\ IsDay(y, d, m) => y \in 1..9999 /\ d \in 1..12 /\ m \in 1..31
        /\ y \in 1..9999 /\ d \in 1..12 /\ m \in 1..12 => IsDay(y, d, m)
    BY <1>1, <2>1 DEF IsDay
  <2> QED
    BY <2>2, <2>3, SMTT(40)
<1> DEFINE e1 == <<m, d>>
           e2 == <<d, m>>
<1>6. /\ e1 \in ReadingsOf(l) <=> IsDay(y, m, d)
      /\ e2 \in ReadingsOf(l) <=> IsDay(y, d, m)
      /\ ReadingsOf(l) \subseteq {e1, e2}
  <2>1. e1[1] = m /\ e1[2] = d /\ e2[1] = d /\ e2[2] = m
    OBVIOUS
  <2>2. ReadingsOf(l) = {e \in {e1, e2} : IsDay(y, e[1], e[2])}
    BY <1>4, SMTT(40)
  <2> HIDE DEF e1, e2
  <2> QED
    BY <2>1, <2>2
<1>7. IsDay(y, m, d) => straight
  BY <1>1, <1>3, <1>5, SMTT(40)
<1>8. straight /\ IsDay(y, d, m) => IsDay(y, m, d)
  BY <1>1, <1>3, <1>5
<1>9. IsDay(r.year, r.month, r.day) <=> IsDay(y, m, d) \/ IsDay(y, d, m)
  BY <1>2, <1>7, <1>8
<1>10. ReadingsOf(l) # {} <=> IsDay(y, m, d) \/ IsDay(y, d, m)
  BY <1>6
<1>11. IsDay(r.year, r.month, r.day) => <<r.month, r.day>> \in ReadingsOf(l)
  <2>1. <<r.month, r.day>> = IF straight THEN e1 ELSE e2
    BY <1>2
  <2> HIDE DEF e1, e2, straight
  <2> QED
    BY <1>6, <1>7, <1>8, <1>9, <2>1
<1>12. Cardinality(ReadingsOf(l)) = 2 => Ambiguous(l)
  <2> SUFFICES ASSUME ~Ambiguous(l), Cardinality(ReadingsOf(l)) = 2 PROVE FALSE
    OBVIOUS
  <2>1. ~IsDay(y, m, d) \/ ~IsDay(y, d, m)
    BY <1>1, <1>3, <1>5
  <2> HIDE DEF e1, e2
  <2>2. ReadingsOf(l) \subseteq {e1} \/ ReadingsOf(l) \subseteq {e2}
    BY <1>6, <2>1
  <2>3. ASSUME NEW x, NEW S \in SUBSET {x}
        PROVE  Cardinality(S) # 2
    <3>1. IsFiniteSet({x}) /\ Cardinality({x}) = 1
      BY FS_Singleton
    <3>2. S = {} \/ S = {x}
      OBVIOUS
    <3> QED
      BY <3>1, <3>2, FS_EmptySet
  <2> QED
    BY <2>2, <2>3, SMTT(40)
<1> QED
  BY <1>2, <1>7, <1>9, <1>10, <1>11, <1>12 DEF r, y, m, d

IsSlash(l) == l.form \in {"slash", "slash timed"}

(* The conversion of a slash date.                                         *)
LEMMA SlashConverted ==
  ASSUME NEW l \in Literal, IsSlash(l)
  PROVE  LET p == ConvertLegacyDate(l) IN
         /\ p.error # "none" <=> ReadingsOf(l) = {} \/ ~IsTime(l.hour, l.minute)
         /\ p.error = "none" =>
              /\ \E e \in ReadingsOf(l) : p.epoch = WallClock(l.year, e[1], e[2], l.hour, l.minute)
              /\ IsDay(l.year, l.month, l.day) =>
                   p.epoch = WallClock(l.year, l.month, l.day, l.hour, l.minute)
<1> DEFINE r == SlashReading(l)
           p == ConvertLegacyDate(l)
<1>1. /\ r.year = l.year /\ r.hour = l.hour /\ r.minute = l.minute
      /\ IsDay(r.year, r.month, r.day) <=> ReadingsOf(l) # {}
      /\ IsDay(r.year, r.month, r.day) => <<r.month, r.day>> \in ReadingsOf(l)
      /\ IsDay(l.year, l.month, l.day) => r.month = l.month /\ r.day = l.day
  BY SlashReadingIs
<1>2. PICK q : p = IF IsDay(r.year, r.month, r.day) /\ IsTime(r.hour, r.minute)
                   THEN Parsed(Instant(r, 0), 0, q) ELSE Error("undated")
  <2> DEFINE q == IF l.form = "slash" THEN "day" ELSE "second"
  <2>1. p = IF IsDay(r.year, r.month, r.day) /\ IsTime(r.hour, r.minute)
            THEN Parsed(Instant(r, 0), 0, q) ELSE Error("undated")
    BY DEF ConvertLegacyDate, IsSlash
  <2> HIDE DEF p, q, r
  <2> QED
    BY <2>1
<1>3. r \in Literal
  BY SlashType
<1> HIDE DEF r, p
<1>4. Error("undated").error # "none"
  BY DEF Error
<1>5. \A e, o, f : Parsed(e, o, f).error = "none" /\ Parsed(e, o, f).epoch = e
  BY DEF Parsed
<1>6. p.error = "none" <=> IsDay(r.year, r.month, r.day) /\ IsTime(r.hour, r.minute)
  BY <1>2, <1>4, <1>5
<1>7. p.error = "none" => p.epoch = WallClock(l.year, r.month, r.day, l.hour, l.minute)
  <2> SUFFICES ASSUME p.error = "none"
               PROVE  p.epoch = WallClock(l.year, r.month, r.day, l.hour, l.minute)
    OBVIOUS
  <2>1. p.epoch = Instant(r, 0)
    BY <1>2, <1>5, <1>6
  <2>2. Instant(r, 0) = WallClock(l.year, r.month, r.day, l.hour, l.minute) - 0
    BY <1>1 DEF Instant
  <2>3. WallClock(l.year, r.month, r.day, l.hour, l.minute) \in Int
    <3>0. \A e \in Literal : e.year \in Nat /\ e.hour \in Nat /\ e.minute \in Nat /\ e.day \in Nat
      BY DEF Literal
    <3>1. l.year \in Int /\ l.hour \in Int /\ l.minute \in Int /\ r.day \in Int
      BY <1>3, <3>0
    <3>2. r.month \in 1..12
      BY <1>6 DEF IsDay
    <3> QED
      BY <3>1, <3>2, WallClockType
  <2>4. \A x \in Int : x - 0 = x
    OBVIOUS
  <2> QED
    BY <2>1, <2>2, <2>3, <2>4
<1>8. p.error = "none" =>
        \E e \in ReadingsOf(l) : p.epoch = WallClock(l.year, e[1], e[2], l.hour, l.minute)
  <2> SUFFICES ASSUME p.error = "none"
               PROVE  \E e \in ReadingsOf(l) : p.epoch = WallClock(l.year, e[1], e[2], l.hour, l.minute)
    OBVIOUS
  <2> DEFINE e == <<r.month, r.day>>
  <2>1. e[1] = r.month /\ e[2] = r.day
    OBVIOUS
  <2>2. e \in ReadingsOf(l)
    BY <1>1, <1>6
  <2> HIDE DEF e
  <2> QED
    BY <1>7, <2>1, <2>2
<1> QED
  BY <1>1, <1>6, <1>7, <1>8 DEF p

(* What a row says of its record, with a worklist W and diagnostics D: the *)
(* parts of the property, row by row and record by record.                 *)
Remarked(r, W, note) == note \in r.notes \/ <<"stripped", r.number>> \in W

LacksZone(l) == l.form \in {"naive", "slash timed"}

RowIsHonest(R, r, W) ==
  LET v == [c \in 1..NFields |-> R[r.number][c].value]
  IN  /\ <<r.directory, r.author>> # <<v[1], v[2]>> => Remarked(r, W, "stripped")
      /\ r.tag # v[4] => Remarked(r, W, "tag")
      /\ r.message # v[5] => Remarked(r, W, "message")
      /\ r.date # ParseDate(DateLiteral(v[3])) => Remarked(r, W, "zone") \/ Remarked(r, W, "precision")
      /\ LacksZone(DateLiteral(v[3])) => Remarked(r, W, "zone")

SlashLiteral(R, n) == DateLiteral(Stripped(R[n][3].value))

Announced(n, D) == Diag("CSV-AMBIGUOUS-US-DATE", "WARN", n) \in D

SlashIsRead(R, r, D) ==
  LET l == SlashLiteral(R, r.number)
  IN  IsSlash(l) =>
        /\ \E e \in ReadingsOf(l) : r.date.epoch = WallClock(l.year, e[1], e[2], l.hour, l.minute)
        /\ Cardinality(ReadingsOf(l)) = 2 => Announced(r.number, D)
        /\ IsDay(l.year, l.month, l.day) =>
             r.date.epoch = WallClock(l.year, l.month, l.day, l.hour, l.minute)

UndatedIsSo(R, n, W) ==
  Len(R[n]) = NFields /\ IsSlash(SlashLiteral(R, n)) =>
    (<<"undated", n>> \in W <=>
       (ReadingsOf(SlashLiteral(R, n)) = {} \/ ~IsTime(SlashLiteral(R, n).hour, SlashLiteral(R, n).minute))
         /\ <<"empty-tag", n>> \notin W)

RowMadeOf(Q, n) == \E k \in 1..Len(Q) : Q[k].number = n
LostIn(n, W) == \E item \in Lost : <<item, n>> \in W

LEMMA RemarksGrow ==
  ASSUME NEW W, NEW V, W \subseteq V, NEW D, NEW E, D \subseteq E
  PROVE  /\ \A R, r : RowIsHonest(R, r, W) => RowIsHonest(R, r, V)
         /\ \A R, r : SlashIsRead(R, r, D) => SlashIsRead(R, r, E)
<1>1. \A r, note : Remarked(r, W, note) => Remarked(r, V, note)
  BY DEF Remarked
<1>2. \A n : Announced(n, D) => Announced(n, E)
  BY DEF Announced
<1>3. \A R, r : RowIsHonest(R, r, W) => RowIsHonest(R, r, V)
  BY <1>1 DEF RowIsHonest
<1>4. \A R, r : SlashIsRead(R, r, D) => SlashIsRead(R, r, E)
  BY <1>2 DEF SlashIsRead
<1> QED
  BY <1>3, <1>4

ConvertedRow == Row(at, Candidate(Tokens), LegacyDate(Tokens), ConversionNotes(Tokens))

LEMMA LegacyRecordIs ==
  ASSUME TInv, IsLegacyRow
  PROVE  /\ Len(Record) = 5 /\ at \in 1..Len(scan.records)
         /\ Values = [c \in 1..NFields |-> scan.records[at][c].value]
         /\ \A k \in 1..5 : Values[k] \in Text /\ Tokens[k] = Stripped(Values[k])
         /\ (\E k \in 1..5 : Values[k] # Tokens[k]) => <<"stripped", at>> \in StripItems
         /\ DateLiteral(Tokens[3]) = SlashLiteral(scan.records, at)
         /\ DateLiteral(Tokens[3]) \in Literal
<1>1. Len(Record) = 5 /\ at <= Len(scan.records)
  BY NFieldsIs DEF IsLegacyRow, Reading
<1>2. /\ at \in 1..Len(scan.records) /\ DOMAIN Record = 1..5
      /\ Values = [k \in 1..5 |-> Record[k].value]
      /\ \A k \in 1..5 : Values[k] \in Text
  BY <1>1, RecordType
<1>3. \A k \in 1..5 : Tokens[k] \in Text /\ Tokens[k] = Stripped(Values[k])
  BY TokensType
<1>4. StripItems = When(\E k \in 1..5 : Values[k] # Tokens[k], {<<"stripped", at>>})
  BY <1>2 DEF StripItems
<1>5. Tokens[3] = Stripped(scan.records[at][3].value)
  BY <1>2, <1>3 DEF Record
<1>6. DateLiteral(Tokens[3]) = SlashLiteral(scan.records, at) /\ DateLiteral(Tokens[3]) \in Literal
  BY <1>3, <1>5, DateLiteralType DEF SlashLiteral, Text
<1>7. Values = [c \in 1..NFields |-> scan.records[at][c].value]
  BY <1>2, NFieldsIs DEF Record
<1> QED
  BY <1>1, <1>2, <1>3, <1>4, <1>6, <1>7 DEF When

LEMMA NoBars ==
  ASSUME NEW v \in Text, "|" \notin ToSet(v)
  PROVE  LineBroken(v) = Stripped(v)
<1>1. \A k \in DOMAIN v : v[k] # "|"
  BY DEF ToSet
<1>2. [k \in DOMAIN v |-> IF v[k] = "|" THEN LF ELSE v[k]] = [k \in DOMAIN v |-> v[k]]
  BY <1>1
<1>3. [k \in DOMAIN v |-> v[k]] = v
  BY DEF Text
<1> QED
  BY <1>2, <1>3 DEF LineBroken

LEMMA RowIs ==
  /\ ConvertedRow.number = at /\ ConvertedRow.directory = Tokens[1] /\ ConvertedRow.author = Tokens[2]
  /\ ConvertedRow.tag = IF Tokens[4] = <<"*">> THEN Tokens[1] ELSE Tokens[4]
  /\ ConvertedRow.message = LineBroken(Tokens[5]) /\ ConvertedRow.date = LegacyDate(Tokens)
  /\ ConvertedRow.notes = ConversionNotes(Tokens)
<1> DEFINE v == Tokens
           w == Candidate(v)
<1>1. /\ w[1] = v[1] /\ w[3] = v[2] /\ w[4] = (IF v[4] = <<"*">> THEN v[1] ELSE v[4])
      /\ w[5] = LineBroken(v[5])
  <2> HIDE DEF v
  <2> QED
    BY DEF Candidate
<1>2. /\ ConvertedRow.number = at /\ ConvertedRow.directory = w[1] /\ ConvertedRow.author = w[3]
      /\ ConvertedRow.tag = w[4] /\ ConvertedRow.message = w[5] /\ ConvertedRow.date = LegacyDate(v)
      /\ ConvertedRow.notes = ConversionNotes(v)
  <2> HIDE DEF w
  <2> QED
    BY DEF ConvertedRow, Row, w
<1> QED
  BY <1>1, <1>2

(* A row that differs from its record says so.                             *)
LEMMA ConvertedIsHonest ==
  ASSUME TInv, IsLegacyRow, LegacyDate(Tokens).error = "none", NEW W, StripItems \subseteq W
  PROVE  RowIsHonest(scan.records, ConvertedRow, W)
<1> DEFINE r == ConvertedRow
           v == Values
           l == DateLiteral(Tokens[3])
<1>1. /\ v = [c \in 1..NFields |-> scan.records[at][c].value]
      /\ \A k \in 1..5 : v[k] \in Text /\ Tokens[k] = Stripped(v[k])
      /\ (\E k \in 1..5 : v[k] # Tokens[k]) => <<"stripped", at>> \in W
  BY LegacyRecordIs
<1>2. r.number = at
  BY RowIs, SMTT(40)
<1> SUFFICES /\ <<r.directory, r.author>> # <<v[1], v[2]>> => Remarked(r, W, "stripped")
             /\ r.tag # v[4] => Remarked(r, W, "tag")
             /\ r.message # v[5] => Remarked(r, W, "message")
             /\ r.date # ParseDate(DateLiteral(v[3])) => Remarked(r, W, "zone") \/ Remarked(r, W, "precision")
             /\ LacksZone(DateLiteral(v[3])) => Remarked(r, W, "zone")
  BY <1>1, <1>2 DEF RowIsHonest
<1>3. CASE <<"stripped", at>> \in W
  BY <1>2, <1>3 DEF Remarked
<1>4. CASE <<"stripped", at>> \notin W
  <2>1. v[1] = Tokens[1] /\ v[2] = Tokens[2] /\ v[3] = Tokens[3] /\ v[4] = Tokens[4] /\ v[5] = Tokens[5]
    BY <1>1, <1>4
  <2>2. r.notes = When(Tokens[4] = <<"*">>, {"tag"})
                    \cup When("|" \in ToSet(v[5]), {"message"})
                    \cup When(l.form \in {"naive", "slash timed"}, {"zone"})
                    \cup PrecisionNotes(LegacyDate(Tokens))
    BY RowIs DEF ConversionNotes
  <2> HIDE DEF r
  <2>3. Tokens[4] = <<"*">> => "tag" \in r.notes
    BY <2>2 DEF When
  <2>4. "|" \in ToSet(v[5]) => "message" \in r.notes
    BY <2>2 DEF When
  <2>5. LacksZone(l) => "zone" \in r.notes
    BY <2>2 DEF When, LacksZone
  <2>6. LegacyDate(Tokens).precision # "second" => "precision" \in r.notes
    BY <2>2 DEF When, PrecisionNotes
  <2>7. <<r.directory, r.author>> = <<v[1], v[2]>>
    BY <2>1, RowIs DEF r
  <2>8. r.tag # v[4] => "tag" \in r.notes
    BY <2>1, <2>3, RowIs DEF r
  <2>9. r.message # v[5] => "message" \in r.notes
    <3>1. "|" \notin ToSet(v[5]) => LineBroken(v[5]) = Stripped(v[5])
      BY <1>1, NoBars, SMTT(40)
    <3>2. r.message = LineBroken(v[5]) /\ v[5] = Stripped(v[5])
      BY <1>1, <2>1, RowIs DEF r
    <3> QED
      BY <2>4, <3>1, <3>2, SMTT(40)
  <2>10. r.date # ParseDate(l) => "zone" \in r.notes \/ "precision" \in r.notes
    <3>1. r.date = ConvertLegacyDate(l) /\ LegacyDate(Tokens) = ConvertLegacyDate(l)
      BY RowIs DEF r, LegacyDate
    <3>2. ConvertLegacyDate(l).error = "none"
      BY <3>1
    <3>3. CASE l.form = "slash"
      <4>1. ConvertLegacyDate(l).precision = "day"
        <5>1. \A e, o, q : Parsed(e, o, q).precision = q
          BY DEF Parsed
        <5>2. Error("undated").error # "none"
          BY DEF Error
        <5> HIDE DEF l
        <5> QED
          BY <3>2, <3>3, <5>1, <5>2 DEF ConvertLegacyDate
      <4> QED
        BY <2>6, <3>1, <4>1
    <3>4. CASE LacksZone(l)
      BY <2>5, <3>4
    <3>5. CASE l.form \notin {"slash", "slash timed", "naive"}
      <4>1. Error("undated").error # "none"
        BY DEF Error
      <4>2. ConvertLegacyDate(l) = ParseDate(l)
        <5> HIDE DEF l
        <5> QED
          BY <3>2, <3>5, <4>1 DEF ConvertLegacyDate
      <4> QED
        BY <3>1, <4>2
    <3> QED
      BY <3>3, <3>4, <3>5 DEF LacksZone
  <2>11. l = DateLiteral(v[3])
    BY <2>1
  <2> HIDE DEF l
  <2> QED
    BY <2>5, <2>7, <2>8, <2>9, <2>10, <2>11, SMTT(40) DEF Remarked, r
<1> QED
  BY <1>3, <1>4

LEMMA ConvertedIsRead ==
  ASSUME TInv, IsLegacyRow, LegacyDate(Tokens).error = "none", NEW D, AmbiguityOf(Tokens) \subseteq D
  PROVE  SlashIsRead(scan.records, ConvertedRow, D)
<1> DEFINE l == SlashLiteral(scan.records, at)
<1>1. ConvertedRow.number = at /\ ConvertedRow.date = ConvertLegacyDate(l) /\ l \in Literal
      /\ l = DateLiteral(Tokens[3]) /\ ConvertLegacyDate(l).error = "none"
  BY LegacyRecordIs, RowIs DEF LegacyDate
<1>2. Ambiguous(l) /\ IsSlash(l) => Announced(at, D)
  BY <1>1 DEF AmbiguityOf, IsSlash, When, Announced
<1>3. Cardinality(ReadingsOf(l)) = 2 => Ambiguous(l)
  BY <1>1, SlashReadingIs
<1> SUFFICES ASSUME IsSlash(l)
             PROVE  /\ \E e \in ReadingsOf(l) : ConvertedRow.date.epoch = WallClock(l.year, e[1], e[2], l.hour, l.minute)
                    /\ Cardinality(ReadingsOf(l)) = 2 => Announced(at, D)
                    /\ IsDay(l.year, l.month, l.day) =>
                         ConvertedRow.date.epoch = WallClock(l.year, l.month, l.day, l.hour, l.minute)
  BY <1>1 DEF SlashIsRead
<1>4. /\ \E e \in ReadingsOf(l) : ConvertLegacyDate(l).epoch = WallClock(l.year, e[1], e[2], l.hour, l.minute)
      /\ IsDay(l.year, l.month, l.day) =>
           ConvertLegacyDate(l).epoch = WallClock(l.year, l.month, l.day, l.hour, l.minute)
  BY <1>1, SlashConverted
<1> HIDE DEF l
<1> QED
  BY <1>1, <1>2, <1>3, <1>4

(* What holds while the records of a legacy file are converted.            *)
MalformedSaid == \A e \in scan.errors : <<"malformed", e>> \in worklist

LegacySoFar ==
  /\ MalformedSaid
  /\ \A n \in 1..(at - 1) : /\ RowMadeOf(rows, n) <=> ~LostIn(n, worklist)
                            /\ UndatedIsSo(scan.records, n, worklist)
  /\ \A n \in Nat : n >= at => ~LostIn(n, worklist)
  /\ \A k \in 1..Len(rows) : /\ RowIsHonest(scan.records, rows[k], worklist)
                             /\ SlashIsRead(scan.records, rows[k], diags)

LegacyInv ==
  profile = "legacy" =>
    /\ pc = "scan" => \A item, n : <<item, n>> \in worklist => item \notin Lost
    /\ pc = "rows" => LegacySoFar
    /\ NothingIsConvertedSilently

LEMMA LostAre ==
  /\ \A item \in {"malformed", "bom", "latin1", "stripped"} : item \notin Lost
  /\ \A item, other, n, m : <<item, n>> = <<other, m>> => item = other /\ n = m
BY SMTT(40) DEF Lost

(* The property, in parts.                                                 *)
IsSettled == \A n \in DOMAIN scan.records : (\E k \in DOMAIN rows : rows[k].number = n) <=> ~LostIn(n, worklist)
IsHonest == \A k \in DOMAIN rows : RowIsHonest(scan.records, rows[k], worklist)
IsMentioned == ~WellFormed(text) => \E n \in 1..(Len(scan.records) + 1) : <<"malformed", n>> \in worklist

LEMMA SilentlyIs ==
  NothingIsConvertedSilently <=>
    (IsRead("legacy") /\ Accepted => IsSettled /\ IsHonest /\ IsMentioned /\ SlashDatesAreReadings)
<1>1. IsHonest <=>
        \A k \in DOMAIN rows :
          LET r == rows[k]
              v == [c \in 1..NFields |-> scan.records[r.number][c].value]
              kept(note) == note \in r.notes \/ <<"stripped", r.number>> \in worklist
          IN  /\ <<r.directory, r.author>> # <<v[1], v[2]>> => kept("stripped")
              /\ r.tag # v[4] => kept("tag")
              /\ r.message # v[5] => kept("message")
              /\ r.date # ParseDate(DateLiteral(v[3])) => kept("zone") \/ kept("precision")
              /\ DateLiteral(v[3]).form \in {"naive", "slash timed"} => kept("zone")
  BY DEF IsHonest, RowIsHonest, Remarked, LacksZone
<1>2. IsSettled <=> \A n \in DOMAIN scan.records :
         (\E k \in DOMAIN rows : rows[k].number = n) <=> ~\E item \in Lost : <<item, n>> \in worklist
  BY DEF IsSettled, LostIn
<1> QED
  BY <1>1, <1>2 DEF NothingIsConvertedSilently, IsMentioned

(* What the property says of the rows and of the records one by one.       *)
LEMMA SilenceIs ==
  ASSUME TInv, ScanDone, LegacySoFar, pc = "rows", at > Len(scan.records)
  PROVE  IsSettled /\ IsHonest /\ IsMentioned /\ SlashDatesAreReadings
<1>1. /\ DOMAIN scan.records = 1..Len(scan.records) /\ at - 1 = Len(scan.records)
      /\ DOMAIN rows = 1..Len(rows)
  <2>1. scan.records \in Seq(Seq(FieldRead)) /\ Len(scan.records) \in Nat
    BY LocalsAre DEF TInv, ScanOK
  <2>2. at \in 1..(Len(scan.records) + 1) /\ rows \in Seq(RowRead)
    BY DEF TInv
  <2> QED
    BY <2>1, <2>2
<1>2. \A n \in 1..Len(scan.records) : RowMadeOf(rows, n) <=> ~LostIn(n, worklist)
  BY <1>1 DEF LegacySoFar
<1>3. IsSettled
  BY <1>1, <1>2 DEF IsSettled, RowMadeOf
<1>4. IsHonest
  BY <1>1 DEF IsHonest, LegacySoFar
<1>5. IsMentioned
  <2> SUFFICES ASSUME ~WellFormed(text)
               PROVE  \E n \in 1..(Len(scan.records) + 1) : <<"malformed", n>> \in worklist
    BY DEF IsMentioned
  <2>1. scan.errors # {}
    BY DEF ScanDone
  <2>2. PICK e \in scan.errors : TRUE
    BY <2>1
  <2>3. e \in 1..(Len(scan.records) + 1)
    BY DEF TInv, ScanOK
  <2>4. <<"malformed", e>> \in worklist
    BY SMTT(40) DEF LegacySoFar, MalformedSaid
  <2> QED
    BY <2>3, <2>4
<1>6. SlashDatesAreReadings
  <2> SUFFICES ASSUME NEW n \in 1..Len(scan.records)
               PROVE  LET l == DateLiteral(Stripped(scan.records[n][3].value))
                          r == CHOOSE q \in ToSet(rows) : q.number = n
                          announced == Diag("CSV-AMBIGUOUS-US-DATE", "WARN", n) \in diags
                      IN  Len(scan.records[n]) = NFields /\ l.form \in {"slash", "slash timed"} =>
                            /\ <<"undated", n>> \in worklist <=>
                                 (ReadingsOf(l) = {} \/ ~IsTime(l.hour, l.minute)) /\ <<"empty-tag", n>> \notin worklist
                            /\ (\E q \in ToSet(rows) : q.number = n) =>
                                 /\ \E e \in ReadingsOf(l) : r.date.epoch = WallClock(l.year, e[1], e[2], l.hour, l.minute)
                                 /\ Cardinality(ReadingsOf(l)) = 2 => announced
                                 /\ IsDay(l.year, l.month, l.day) =>
                                      r.date.epoch = WallClock(l.year, l.month, l.day, l.hour, l.minute)
    BY <1>1 DEF SlashDatesAreReadings
  <2> DEFINE l == SlashLiteral(scan.records, n)
             r == CHOOSE q \in ToSet(rows) : q.number = n
  <2>1. l = DateLiteral(Stripped(scan.records[n][3].value))
    BY DEF SlashLiteral
  <2>2. UndatedIsSo(scan.records, n, worklist)
    BY <1>1 DEF LegacySoFar
  <2>3. ASSUME \E q \in ToSet(rows) : q.number = n
        PROVE  SlashIsRead(scan.records, r, diags) /\ r.number = n
    <3>1. r \in ToSet(rows) /\ r.number = n
      BY <2>3
    <3>2. PICK k \in 1..Len(rows) : rows[k] = r
      <4> HIDE DEF r
      <4> QED
        BY <1>1, <3>1 DEF ToSet
    <3>3. SlashIsRead(scan.records, rows[k], diags)
      BY DEF LegacySoFar
    <3> QED
      BY <3>1, <3>2, <3>3
  <2>4. ASSUME \E q \in ToSet(rows) : q.number = n, IsSlash(l)
        PROVE  /\ \E e \in ReadingsOf(l) : r.date.epoch = WallClock(l.year, e[1], e[2], l.hour, l.minute)
               /\ Cardinality(ReadingsOf(l)) = 2 => Announced(n, diags)
               /\ IsDay(l.year, l.month, l.day) =>
                    r.date.epoch = WallClock(l.year, l.month, l.day, l.hour, l.minute)
    <3>1. SlashIsRead(scan.records, r, diags) /\ r.number = n
      BY <2>3, <2>4
    <3> HIDE DEF r
    <3> QED
      BY <2>4, <3>1 DEF SlashIsRead
  <2>5. Len(scan.records[n]) = NFields /\ IsSlash(l) =>
          (<<"undated", n>> \in worklist <=>
             (ReadingsOf(l) = {} \/ ~IsTime(l.hour, l.minute)) /\ <<"empty-tag", n>> \notin worklist)
    BY <2>2 DEF UndatedIsSo
  <2>6. IsSlash(l) <=> l.form \in {"slash", "slash timed"}
    BY DEF IsSlash
  <2> HIDE DEF l
  <2> QED
    BY <2>1, <2>4, <2>5, <2>6, ZenonT(60) DEF Announced
<1> QED
  BY <1>3, <1>4, <1>5, <1>6

(* One record more is settled.                                             *)
LEMMA RecordSettled ==
  ASSUME TInv, LegacySoFar, pc = "rows", at <= Len(scan.records), at' = at + 1,
         UNCHANGED <<file, scan>>, worklist \subseteq worklist', diags \subseteq diags',
         \A item, n : <<item, n>> \in worklist' => <<item, n>> \in worklist \/ n = at,
         \/ rows' = rows /\ LostIn(at, worklist')
         \/ /\ rows' = Append(rows, ConvertedRow) /\ ~LostIn(at, worklist')
            /\ RowOK(ConvertedRow) /\ ConvertedRow.number = at
            /\ RowIsHonest(scan.records, ConvertedRow, worklist')
            /\ SlashIsRead(scan.records, ConvertedRow, diags'),
         UndatedIsSo(scan.records, at, worklist')
  PROVE  LegacySoFar'
<1> DEFINE R == scan.records
           W == worklist'
           Q == rows'
<1>1. /\ at \in Nat /\ at >= 1 /\ at' - 1 = at /\ scan' = scan /\ Len(rows) \in Nat
      /\ \A n \in 1..at : n \in 1..(at - 1) \/ n = at
      /\ \A n \in 1..(at - 1) : n # at
      /\ \A n \in Nat : n >= at' => n >= at /\ n # at
  <2>1. at \in 1..Len(scan.records) /\ Len(scan.records) \in Nat
    BY RecordType, LocalsAre DEF TInv, ScanOK
  <2>2. at \in Nat /\ at >= 1
    BY <2>1
  <2>3. Len(rows) \in Nat
    BY DEF TInv
  <2>4. \A n \in Nat : n >= at + 1 => n >= at /\ n # at
    BY <2>2
  <2> QED
    BY <2>2, <2>3, <2>4
<1>2. \A n : n # at => (LostIn(n, W) <=> LostIn(n, worklist))
  BY DEF LostIn
<1>3. \A k \in 1..Len(rows) : rows[k].number \in 1..(at - 1)
  BY DEF TInv, NumberedUpTo
<1>4. \A n \in 1..(at - 1) : UndatedIsSo(R, n, W)
  <2>1. \A n \in 1..(at - 1) : UndatedIsSo(R, n, worklist)
    BY DEF LegacySoFar
  <2>2. \A item : \A n \in 1..(at - 1) : <<item, n>> \in W <=> <<item, n>> \in worklist
    BY <1>1
  <2> QED
    BY <2>1, <2>2 DEF UndatedIsSo
<1>5. \A k \in 1..Len(rows) : RowIsHonest(R, rows[k], W) /\ SlashIsRead(R, rows[k], diags')
  BY RemarksGrow DEF LegacySoFar
<1>6. \A n \in 1..(at - 1) : RowMadeOf(rows, n) <=> ~LostIn(n, worklist)
  BY DEF LegacySoFar
<1>7. ~RowMadeOf(rows, at)
  BY <1>1, <1>3 DEF RowMadeOf
<1>8. /\ \A n \in 1..at : RowMadeOf(Q, n) <=> ~LostIn(n, W)
      /\ \A k \in 1..Len(Q) : RowIsHonest(R, Q[k], W) /\ SlashIsRead(R, Q[k], diags')
  <2>1. CASE Q = rows /\ LostIn(at, W)
    <3>1. \A n \in 1..at : RowMadeOf(rows, n) <=> ~LostIn(n, W)
      BY <1>1, <1>2, <1>6, <1>7, <2>1
    <3> QED
      BY <1>5, <2>1, <3>1
  <2>2. CASE /\ Q = Append(rows, ConvertedRow) /\ ~LostIn(at, W)
             /\ RowOK(ConvertedRow) /\ ConvertedRow.number = at
             /\ RowIsHonest(R, ConvertedRow, W) /\ SlashIsRead(R, ConvertedRow, diags')
    <3> DEFINE A == Append(rows, ConvertedRow)
    <3>1. /\ Len(A) = Len(rows) + 1
          /\ \A k \in 1..Len(rows) : A[k] = rows[k]
          /\ A[Len(rows) + 1] = ConvertedRow
      BY <2>2, AppendRow
    <3>2. Q = A
      BY <2>2
    <3> HIDE DEF A, Q, W, R
    <3>3. \A k : k \in 1..Len(A) <=> k \in 1..Len(rows) \/ k = Len(rows) + 1
      BY <1>1, <3>1
    <3>4. \A n : RowMadeOf(A, n) <=> RowMadeOf(rows, n) \/ n = at
      BY <2>2, <3>1, <3>3 DEF RowMadeOf
    <3>5. \A n \in 1..at : RowMadeOf(A, n) <=> ~LostIn(n, W)
      BY <1>1, <1>2, <1>6, <2>2, <3>4
    <3>6. \A k \in 1..Len(A) : RowIsHonest(R, A[k], W) /\ SlashIsRead(R, A[k], diags')
      BY <1>5, <2>2, <3>1, <3>3
    <3> QED
      BY <3>2, <3>5, <3>6
  <2> QED
    BY <2>1, <2>2
<1>9. \A n \in 1..at : UndatedIsSo(R, n, W)
  BY <1>1, <1>4
<1>10. \A n \in Nat : n >= at' => ~LostIn(n, W)
  BY <1>1, <1>2 DEF LegacySoFar
<1>11. MalformedSaid'
  BY <1>1, ZenonT(60) DEF LegacySoFar, MalformedSaid
<1> QED
  BY <1>1, <1>8, <1>9, <1>10, <1>11 DEF LegacySoFar

LEMMA NotDone == ASSUME pc' # "done" PROVE NothingIsConvertedSilently'
BY DEF NothingIsConvertedSilently, IsRead

(* One record of the file is passed to the worklist, or converted.         *)
LEMMA RecordConverted ==
  ASSUME TInv, LegacySoFar, IsLegacyRow, NEW items, NEW warnings, NEW converted,
         items \subseteq Lost, Convert(items, warnings, converted),
         AmbiguityOf(Tokens) \subseteq warnings \/ Tokens[4] = <<>>,
         \/ converted = <<>> /\ items # {}
         \/ /\ converted = <<ConvertedRow>> /\ items = {} /\ RowOK(ConvertedRow)
            /\ LegacyDate(Tokens).error = "none" /\ Tokens[4] # <<>>,
         \/ items = {"empty-tag"}
         \/ /\ "empty-tag" \notin items
            /\ "undated" \in items <=> LegacyDate(Tokens).error # "none"
  PROVE  LegacySoFar'
<1>1. /\ pc = "rows" /\ at <= Len(scan.records) /\ at' = at + 1
      /\ UNCHANGED <<file, scan>>
      /\ worklist' = worklist \cup StripItems \cup {<<item, at>> : item \in items}
      /\ diags' = diags \cup warnings /\ rows' = rows \o converted
  BY DEF Convert, Reading
<1>2. /\ Len(Record) = 5 /\ at \in 1..Len(scan.records)
      /\ DateLiteral(Tokens[3]) = SlashLiteral(scan.records, at)
      /\ DateLiteral(Tokens[3]) \in Literal
  BY LegacyRecordIs
<1>3. StripItems \subseteq {<<"stripped", at>>}
  BY DEF StripItems, When
<1>4. \A item, n : <<item, n>> \in worklist' => <<item, n>> \in worklist \/ n = at
  <2> DEFINE S == {<<item, at>> : item \in items}
  <2>1. \A item, n : <<item, n>> \in S => n = at
    OBVIOUS
  <2>2. \A item, n : <<item, n>> \in StripItems => n = at
    BY <1>3
  <2>3. worklist' = worklist \cup StripItems \cup S
    BY <1>1
  <2> HIDE DEF S
  <2> QED
    BY <2>1, <2>2, <2>3
<1>5. \A item \in Lost : <<item, at>> \in worklist' <=> item \in items
  <2> DEFINE S == {<<item, at>> : item \in items}
  <2>1. \A item : <<item, at>> \in S <=> item \in items
    OBVIOUS
  <2>2. \A item \in Lost : <<item, at>> \notin StripItems
    BY <1>3, LostAre
  <2>3. at \in Nat /\ at >= at
    BY <1>2
  <2>4. \A item \in Lost : <<item, at>> \notin worklist
    BY <2>3 DEF LegacySoFar, LostIn
  <2>5. worklist' = worklist \cup StripItems \cup S
    BY <1>1
  <2> HIDE DEF S
  <2> QED
    BY <2>1, <2>2, <2>4, <2>5
<1>6. LostIn(at, worklist') <=> items # {}
  BY <1>5 DEF LostIn
<1>7. UndatedIsSo(scan.records, at, worklist')
  <2> DEFINE l == SlashLiteral(scan.records, at)
             d == <<"undated", at>>
             t == <<"empty-tag", at>>
             W == worklist'
             hopeless == ReadingsOf(l) = {} \/ ~IsTime(l.hour, l.minute)
  <2>1. d \in W <=> "undated" \in items
    BY <1>5 DEF Lost
  <2>2. t \in W <=> "empty-tag" \in items
    BY <1>5 DEF Lost
  <2>3. IsSlash(l) => (LegacyDate(Tokens).error # "none" <=> hopeless)
    <3>1. LegacyDate(Tokens) = ConvertLegacyDate(l) /\ l \in Literal
      BY <1>2 DEF LegacyDate
    <3> QED
      BY <3>1, SlashConverted
  <2> HIDE DEF hopeless
  <2>4. IsSlash(l) => (d \in W <=> hopeless /\ t \notin W)
    BY <2>1, <2>2, <2>3
  <2> QED
    BY <2>4 DEF UndatedIsSo, hopeless
<1>8. CASE converted = <<>> /\ items # {}
  <2>1. rows \o <<>> = rows
    BY DEF TInv
  <2> QED
    BY <1>1, <1>4, <1>6, <1>7, <1>8, <2>1, RecordSettled
<1>9. CASE /\ converted = <<ConvertedRow>> /\ items = {} /\ RowOK(ConvertedRow)
           /\ LegacyDate(Tokens).error = "none" /\ Tokens[4] # <<>>
  <2>1. rows' = Append(rows, ConvertedRow)
    <3>1. rows \o <<ConvertedRow>> = Append(rows, ConvertedRow)
      BY <1>9, AppendRow
    <3> QED
      BY <1>1, <1>9, <3>1
  <2>2. StripItems \subseteq worklist' /\ AmbiguityOf(Tokens) \subseteq diags'
    BY <1>1, <1>9
  <2>3. RowIsHonest(scan.records, ConvertedRow, worklist')
    BY <1>9, <2>2, ConvertedIsHonest
  <2>4. SlashIsRead(scan.records, ConvertedRow, diags')
    BY <1>9, <2>2, ConvertedIsRead
  <2>5. ConvertedRow.number = at /\ ~LostIn(at, worklist')
    BY <1>6, <1>9, RowIs
  <2> QED
    BY <1>1, <1>4, <1>7, <1>9, <2>1, <2>3, <2>4, <2>5, RecordSettled
<1> QED
  BY <1>8, <1>9

LEMMA ConversionSettled ==
  ASSUME TInv, LegacySoFar, PassUntagged \/ PassUndated \/ PassToRepair \/ ConvertRow
  PROVE  LegacySoFar'
<1>1. CASE PassUntagged
  BY <1>1, RecordConverted DEF PassUntagged, Lost
<1>2. CASE PassUndated
  BY <1>2, RecordConverted DEF PassUndated, Lost
<1>3. CASE PassToRepair
  BY <1>3, RecordConverted DEF PassToRepair, Lost
<1>4. CASE ConvertRow
  <2> DEFINE v == Tokens
  <2>1. /\ IsLegacyRow /\ LegacyDate(v).error = "none" /\ Tokens[4] # <<>>
        /\ Convert({}, AmbiguityOf(v), <<ConvertedRow>>)
    BY <1>4 DEF ConvertRow, ConvertedRow
  <2>2. \A k \in 1..5 : v[k] \in Text /\ Candidate(v)[k] \in Text
    BY <2>1, TokensType
  <2>3. LegacyDate(v) \in Moment /\ (LegacyDate(v).error = "none" => Dated(LegacyDate(v)))
    BY <2>2, DatedIs DEF LegacyDate
  <2>4. ConversionNotes(v) \in SUBSET Note
    BY NotesAre
  <2>5. at \in Nat
    BY <2>1, RecordType DEF IsLegacyRow, Reading
  <2>6. RowOK(ConvertedRow)
    BY <2>1, <2>2, <2>3, <2>4, <2>5, RowType DEF ConvertedRow
  <2> QED
    BY <2>1, <2>6, RecordConverted DEF Lost
<1> QED
  BY <1>1, <1>2, <1>3, <1>4

LEMMA NextLegacy ==
  TInv /\ ScanInv /\ ScanDone /\ ContractInv /\ LegacyInv /\ [Next]_vars => LegacyInv'
<1> SUFFICES ASSUME TInv, ScanInv, ScanDone, ContractInv, LegacyInv, [Next]_vars PROVE LegacyInv'
  OBVIOUS
<1>1. CASE Turn
  <2>1. pc = "scan" /\ UNCHANGED <<profile, pc, worklist>>
    BY <1>1, TurnType DEF Turn, EscapedQuote, ClosingQuote, QuotedBreak, QuotedAtom, Separator, LineFeed,
       CarriageReturn, LoneReturn, OpeningQuote, StrayQuote, Atom, InQuotes, Scanning, Others
  <2>2. NothingIsConvertedSilently'
    BY <2>1, NotDone
  <2> QED
    BY <2>1, <2>2 DEF LegacyInv
<1>2. CASE ReadHead
  <2>1. /\ pc = "head" /\ profile' = profile
        /\ IF HeadFails THEN pc' = "done" /\ \E c : diags' = {Fail(c, 0)} ELSE pc' = "scan"
        /\ profile = "legacy" => worklist' \subseteq {<<"bom", 0>>, <<"latin1", 0>>}
    BY <1>2 DEF ReadHead, When
  <2>2. pc' # "rows"
    BY <2>1
  <2>3. NothingIsConvertedSilently'
    <3>1. CASE HeadFails
      <4>1. ~Accepted'
        BY <2>1, <3>1, FailsAre DEF Accepted
      <4> QED
        BY <4>1 DEF NothingIsConvertedSilently
    <3>2. CASE ~HeadFails
      BY <2>1, <3>2, NotDone
    <3> QED
      BY <3>1, <3>2, SMTT(40)
  <2>4. profile = "legacy" => \A item, n : <<item, n>> \in worklist' => item \notin Lost
    BY <2>1, LostAre
  <2> QED
    BY <2>1, <2>2, <2>3, <2>4 DEF LegacyInv
<1>3. CASE EndOfText
  <2> SUFFICES ASSUME profile = "legacy" PROVE LegacyInv'
    BY <1>3 DEF EndOfText, LegacyInv
  <2>1. /\ pc = "scan" /\ at' = 1 /\ rows' = <<>> /\ pc' \in {"raised", "rows"}
        /\ worklist' = worklist \cup {<<"malformed", r>> : r \in scan'.errors}
    BY <1>3 DEF EndOfText, ContractInv
  <2>2. NothingIsConvertedSilently'
    BY <2>1, NotDone
  <2>3. MalformedSaid'
    BY <2>1 DEF MalformedSaid
  <2>4. \A n : ~LostIn(n, worklist')
    <3> DEFINE S == {<<"malformed", r>> : r \in scan'.errors}
    <3>1. \A item, n : <<item, n>> \in S => item \notin Lost
      BY LostAre
    <3>2. \A item, n : <<item, n>> \in worklist => item \notin Lost
      BY <2>1 DEF LegacyInv
    <3>3. worklist' = worklist \cup S
      BY <2>1
    <3> HIDE DEF S
    <3> QED
      BY <3>1, <3>2, <3>3 DEF LostIn
  <2>5. 1..(at' - 1) = {} /\ 1..Len(rows') = {}
    BY <2>1
  <2>6. LegacySoFar'
    BY <2>3, <2>4, <2>5 DEF LegacySoFar
  <2>7. pc' # "scan"
    BY <2>1
  <2> QED
    BY <2>2, <2>6, <2>7 DEF LegacyInv
<1>4. ASSUME pc = "rows", pc' = "rows", profile' = profile, profile = "legacy" => LegacySoFar'
      PROVE  LegacyInv'
  BY <1>4, NotDone DEF LegacyInv
<1>5. CASE WrongArity
  <2> DEFINE e == <<"arity", at>>
  <2>1. /\ pc = "rows" /\ pc' = "rows" /\ at <= Len(scan.records) /\ Len(Record) # NFields /\ at' = at + 1
        /\ UNCHANGED <<file, profile, scan, rows>>
        /\ profile # "canonical" => worklist' = worklist \cup {e} /\ diags' = diags
    BY <1>5 DEF WrongArity
  <2>2. profile = "legacy" => LegacySoFar'
    <3> SUFFICES ASSUME profile = "legacy" PROVE LegacySoFar'
      OBVIOUS
    <3>1. LegacySoFar
      BY <2>1 DEF LegacyInv
    <3>2. \A item, n : <<item, n>> = e => n = at
      OBVIOUS
    <3>3. \A item, n : <<item, n>> \in worklist' => <<item, n>> \in worklist \/ n = at
      <4> HIDE DEF e
      <4> QED
        BY <2>1, <3>2
    <3>4. LostIn(at, worklist')
      BY <2>1 DEF LostIn, Lost
    <3>5. UndatedIsSo(scan.records, at, worklist')
      BY <2>1 DEF UndatedIsSo, Record
    <3> QED
      BY <2>1, <3>1, <3>3, <3>4, <3>5, RecordSettled
  <2> QED
    BY <1>4, <2>1, <2>2
<1>6. CASE ReadRow
  <2>1. profile = "canonical" /\ profile' = profile
    BY <1>6 DEF ReadRow, Reading
  <2> QED
    BY <2>1 DEF LegacyInv
<1>7. CASE FinishReading
  <2>1. /\ pc = "rows" /\ at > Len(scan.records) /\ pc' = "done"
        /\ UNCHANGED <<file, profile, scan, rows, worklist>>
        /\ profile # "canonical" => diags' = diags
    BY <1>7 DEF FinishReading
  <2> SUFFICES ASSUME profile = "legacy" PROVE LegacyInv'
    BY <2>1 DEF LegacyInv
  <2>2. LegacySoFar /\ diags' = diags /\ text' = text
    BY <2>1 DEF LegacyInv, text
  <2>3. WellFormed(text') <=> WellFormed(text)
    BY <2>2
  <2>4. SlashDatesAreReadings' <=> SlashDatesAreReadings
    BY <2>1, <2>2 DEF SlashDatesAreReadings
  <2>5. IsSettled /\ IsHonest /\ IsMentioned /\ SlashDatesAreReadings
    BY <2>1, <2>2, SilenceIs
  <2>6. (IsSettled /\ IsHonest /\ IsMentioned)'
    BY <2>1, <2>2, <2>3, <2>5 DEF IsSettled, IsHonest, IsMentioned
  <2>7. NothingIsConvertedSilently'
    BY <2>4, <2>5, <2>6, SilentlyIs, PTL
  <2> QED
    BY <2>1, <2>7 DEF LegacyInv
<1>8. CASE PassUntagged \/ PassUndated \/ PassToRepair \/ ConvertRow
  <2>1. profile = "legacy" /\ pc = "rows" /\ UNCHANGED <<profile, pc>>
    BY <1>8 DEF PassUntagged, PassUndated, PassToRepair, ConvertRow, Convert, IsLegacyRow, Reading
  <2>2. LegacySoFar'
    BY <1>8, <2>1, ConversionSettled DEF LegacyInv
  <2> QED
    BY <1>4, <2>1, <2>2
<1>9. CASE Rewrite
  BY <1>9 DEF Rewrite, LegacyInv
<1>10. CASE UNCHANGED vars
  <2>1. UNCHANGED <<file, profile, pc, scan, at, rows, diags, worklist>>
    BY <1>10 DEF vars
  <2>2. text' = text /\ Accepted' = Accepted
    BY <2>1 DEF text, Accepted
  <2>3. SlashDatesAreReadings' <=> SlashDatesAreReadings
    BY <2>1, <2>2 DEF SlashDatesAreReadings
  <2>4. NothingIsConvertedSilently' <=> NothingIsConvertedSilently
    <3>1. /\ IsRead("legacy")' <=> IsRead("legacy")
          /\ IsSettled' <=> IsSettled
          /\ IsHonest' <=> IsHonest
          /\ IsMentioned' <=> IsMentioned
      BY <2>1, <2>2 DEF IsRead, IsSettled, IsHonest, IsMentioned
    <3>2. NothingIsConvertedSilently' <=>
            (IsRead("legacy")' /\ Accepted' => (IsSettled /\ IsHonest /\ IsMentioned /\ SlashDatesAreReadings)')
      BY SilentlyIs, PTL
    <3> QED
      BY <2>2, <2>3, <3>1, <3>2, SilentlyIs
  <2>5. LegacySoFar' <=> LegacySoFar
    BY <2>1 DEF LegacySoFar, MalformedSaid
  <2> QED
    BY <2>1, <2>4, <2>5 DEF LegacyInv
<1> QED
  BY <1>1, <1>2, <1>3, <1>5, <1>6, <1>7, <1>8, <1>9, <1>10 DEF Next, Tokenize, Turn

\* Nothing is converted silently: of every record of a legacy file the
\* converter makes a row or an item of the worklist, never both or neither; a
\* row that does not say what its record says carries a note, a warning or an
\* item; a text that is not RFC 4180 is mentioned; a slash date that is
\* converted is converted to a reading of it, and one with two readings is
\* announced.  For any text and any table of dates (legacy.py:61-96, 132-264).
THEOREM NothingIsSilent == Spec => []NothingIsConvertedSilently
<1>1. Init => TInv /\ ScanInv /\ ScanDone /\ ContractInv /\ LegacyInv
  <2> SUFFICES ASSUME Init PROVE TInv /\ ScanInv /\ ScanDone /\ ContractInv /\ LegacyInv
    OBVIOUS
  <2>1. TInv /\ ScanInv /\ ScanDone
    BY InitTInv DEF Init, ScanInv, ScanDone
  <2>2. pc = "head" /\ scan = NewScan /\ at = 1 /\ rows = <<>> /\ diags = {}
    BY DEF Init
  <2>3. AcceptsRecords /\ NothingIsConvertedSilently
    BY <2>2 DEF AcceptsRecords, NothingIsConvertedSilently, IsRead
  <2> QED
    BY <2>1, <2>2, <2>3, NewIsMarked DEF ContractInv, LegacyInv
<1>2. TInv /\ ScanInv /\ ScanDone /\ ContractInv /\ LegacyInv /\ [Next]_vars
        => (TInv /\ ScanInv /\ ScanDone /\ ContractInv /\ LegacyInv)'
  BY NextTInv, NextScan, NextContract, NextLegacy, SMTT(40)
<1>3. LegacyInv /\ TInv => NothingIsConvertedSilently
  BY DEF LegacyInv, TInv, NothingIsConvertedSilently, IsRead
<1> QED
  BY <1>1, <1>2, <1>3, PTL DEF Spec
=============================================================================
