-------------------------- MODULE VhcsvWriteProofs --------------------------
(***************************************************************************)
(* Proofs about what Vhcsv writes: that rewriting a file that was accepted *)
(* gives back its bytes exactly when SameBytes says so, and that what was  *)
(* written is read again with the same content.                            *)
(***************************************************************************)
EXTENDS VhcsvProofs

-----------------------------------------------------------------------------
(* What is written for a date *)

LEMMA QuotientIs ==
  \A x \in Nat, k \in {4, 100, 400} :
    x \div k \in Nat /\ k * (x \div k) <= x /\ x < k * (x \div k) + k
<1>1. \A x \in Nat : x \div 4 \in Nat /\ 4 * (x \div 4) <= x /\ x < 4 * (x \div 4) + 4
  OBVIOUS
<1>2. \A x \in Nat : x \div 100 \in Nat /\ 100 * (x \div 100) <= x /\ x < 100 * (x \div 100) + 100
  OBVIOUS
<1>3. \A x \in Nat : x \div 400 \in Nat /\ 400 * (x \div 400) <= x /\ x < 400 * (x \div 400) + 400
  OBVIOUS
<1> QED
  BY <1>1, <1>2, <1>3

(* The days before a year.                                                 *)
Days(n) == 365 * n + n \div 4 - n \div 100 + n \div 400

LengthOf(y) == IF Leap(y) THEN 366 ELSE 365

LEMMA LeapIsCounted ==
  ASSUME NEW y \in Nat \ {0}
  PROVE  Days(y) = Days(y - 1) + LengthOf(y)
<1>0. /\ y \in Nat /\ y - 1 \in Nat
      /\ y % 4 = y - 4 * (y \div 4) /\ y % 100 = y - 100 * (y \div 100)
      /\ y % 400 = y - 400 * (y \div 400)
  OBVIOUS
<1>1. y \div 4 = (y - 1) \div 4 + (IF y % 4 = 0 THEN 1 ELSE 0)
  <2> DEFINE a == (y - 1) \div 4
             b == y \div 4
  <2>1. /\ a \in Nat /\ 4 * a <= y - 1 /\ y - 1 < 4 * a + 4
        /\ b \in Nat /\ 4 * b <= y /\ y < 4 * b + 4
    BY <1>0, QuotientIs
  <2>2. y % 4 = y - 4 * b
    BY <1>0
  <2> HIDE DEF a, b
  <2>3. b >= a
    BY <1>0, <2>1
  <2>4. b <= a + 1
    BY <1>0, <2>1
  <2>5. CASE b = a
    <3>1. y - 4 * b # 0
      BY <1>0, <2>1, <2>5
    <3> QED
      BY <2>1, <2>2, <2>5, <3>1 DEF a, b
  <2>6. CASE b = a + 1
    <3>1. y - 4 * b = 0
      BY <1>0, <2>1, <2>6
    <3> QED
      BY <2>1, <2>2, <2>6, <3>1 DEF a, b
  <2> QED
    BY <2>1, <2>3, <2>4, <2>5, <2>6
<1>2. y \div 100 = (y - 1) \div 100 + (IF y % 100 = 0 THEN 1 ELSE 0)
  <2> DEFINE a == (y - 1) \div 100
             b == y \div 100
  <2>1. /\ a \in Nat /\ 100 * a <= y - 1 /\ y - 1 < 100 * a + 100
        /\ b \in Nat /\ 100 * b <= y /\ y < 100 * b + 100
    BY <1>0, QuotientIs
  <2>2. y % 100 = y - 100 * b
    BY <1>0
  <2> HIDE DEF a, b
  <2>3. b >= a
    BY <1>0, <2>1
  <2>4. b <= a + 1
    BY <1>0, <2>1
  <2>5. CASE b = a
    <3>1. y - 100 * b # 0
      BY <1>0, <2>1, <2>5
    <3> QED
      BY <2>1, <2>2, <2>5, <3>1 DEF a, b
  <2>6. CASE b = a + 1
    <3>1. y - 100 * b = 0
      BY <1>0, <2>1, <2>6
    <3> QED
      BY <2>1, <2>2, <2>6, <3>1 DEF a, b
  <2> QED
    BY <2>1, <2>3, <2>4, <2>5, <2>6
<1>3. y \div 400 = (y - 1) \div 400 + (IF y % 400 = 0 THEN 1 ELSE 0)
  <2> DEFINE a == (y - 1) \div 400
             b == y \div 400
  <2>1. /\ a \in Nat /\ 400 * a <= y - 1 /\ y - 1 < 400 * a + 400
        /\ b \in Nat /\ 400 * b <= y /\ y < 400 * b + 400
    BY <1>0, QuotientIs
  <2>2. y % 400 = y - 400 * b
    BY <1>0
  <2> HIDE DEF a, b
  <2>3. b >= a
    BY <1>0, <2>1
  <2>4. b <= a + 1
    BY <1>0, <2>1
  <2>5. CASE b = a
    <3>1. y - 400 * b # 0
      BY <1>0, <2>1, <2>5
    <3> QED
      BY <2>1, <2>2, <2>5, <3>1 DEF a, b
  <2>6. CASE b = a + 1
    <3>1. y - 400 * b = 0
      BY <1>0, <2>1, <2>6
    <3> QED
      BY <2>1, <2>2, <2>6, <3>1 DEF a, b
  <2> QED
    BY <2>1, <2>3, <2>4, <2>5, <2>6
<1>4. (y % 100 = 0 => y % 4 = 0) /\ (y % 400 = 0 => y % 100 = 0)
  <2> DEFINE a == y \div 4
             b == y \div 100
             c == y \div 400
  <2>1. /\ a \in Nat /\ 4 * a <= y /\ y < 4 * a + 4
        /\ b \in Nat /\ 100 * b <= y /\ y < 100 * b + 100
        /\ c \in Nat /\ 400 * c <= y /\ y < 400 * c + 400
    BY <1>0, QuotientIs
  <2>2. y % 4 = y - 4 * a /\ y % 100 = y - 100 * b /\ y % 400 = y - 400 * c
    BY <1>0
  <2> HIDE DEF a, b, c
  <2>3. ASSUME y - 100 * b = 0 PROVE y - 4 * a = 0
    <3>1. y = 4 * (25 * b)
      BY <1>0, <2>1, <2>3
    <3>2. a = 25 * b
      BY <1>0, <2>1, <3>1
    <3> QED
      BY <1>0, <2>1, <3>1, <3>2
  <2>4. ASSUME y - 400 * c = 0 PROVE y - 100 * b = 0
    <3>1. y = 100 * (4 * c)
      BY <1>0, <2>1, <2>4
    <3>2. b = 4 * c
      BY <1>0, <2>1, <3>1
    <3> QED
      BY <1>0, <2>1, <3>1, <3>2
  <2> QED
    BY <2>2, <2>3, <2>4
<1>5. /\ (y - 1) \div 4 \in Nat /\ (y - 1) \div 100 \in Nat /\ (y - 1) \div 400 \in Nat
  BY <1>0, QuotientIs
<1> QED
  BY <1>0, <1>1, <1>2, <1>3, <1>4, <1>5 DEF Leap, Days, LengthOf

LEMMA DaysGrow ==
  ASSUME NEW y \in Nat, NEW n \in Nat
  PROVE  Days(y) \in Int /\ Days(y) <= Days(y + n)
<1>1. \A z \in Nat : Days(z) \in Int
  BY QuotientIs DEF Days
<1> DEFINE S == {k \in Nat : Days(y) <= Days(y + k)}
<1>2. 0 \in S
  BY <1>1
<1>3. ASSUME NEW k \in 0..(n - 1), k \in S
      PROVE  k + 1 \in S
  <2>1. k \in Nat /\ y + (k + 1) \in Nat \ {0} /\ (y + (k + 1)) - 1 = y + k
    OBVIOUS
  <2>0. LengthOf(y + (k + 1)) \in {365, 366}
    BY DEF LengthOf
  <2>2. Days(y + (k + 1)) = Days(y + k) + LengthOf(y + (k + 1))
    BY <2>1, LeapIsCounted
  <2>3. Days(y + k) \in Int /\ Days(y) \in Int /\ Days(y) <= Days(y + k)
    BY <1>1, <1>3
  <2>4. Days(y) <= Days(y + (k + 1))
    BY <2>0, <2>2, <2>3
  <2> QED
    BY <2>1, <2>4
<1> HIDE DEF S
<1>4. \A k \in 0..n : k \in S
  BY <1>2, <1>3, Upwards
<1>5. n \in S
  BY <1>4
<1> QED
  BY <1>1, <1>5 DEF S

LEMMA DaysRise ==
  \A y \in Nat : \A m, n \in 1..12 :
    m < n => DaysBefore(y, m) + DaysIn(y, m) <= DaysBefore(y, n)
BY DEF DaysBefore, DaysIn

LEMMA DaysBounded ==
  \A y \in Nat : \A m \in 1..12 :
    /\ DaysBefore(y, m) \in Nat /\ DaysIn(y, m) \in Nat
    /\ DaysBefore(y, m) + DaysIn(y, m) <= LengthOf(y)
BY SMTT(40) DEF DaysBefore, DaysIn, LengthOf

LEMMA OrdinalIs ==
  ASSUME NEW y, NEW m, NEW d, IsDay(y, m, d)
  PROVE  /\ y \in Nat \ {0} /\ y \in 1..9999 /\ m \in 1..12 /\ d \in Nat /\ d >= 1 /\ d <= DaysIn(y, m)
         /\ Ordinal(y, m, d) = Days(y - 1) + DaysBefore(y, m) + d
         /\ Days(y - 1) \in Int /\ DaysBefore(y, m) \in Nat /\ DaysIn(y, m) \in Nat
         /\ Ordinal(y, m, d) \in Int /\ Ordinal(y, m, d) > Days(y - 1)
         /\ Ordinal(y, m, d) <= Days(y)
<1>1. y \in 1..9999 /\ m \in 1..12 /\ d \in 1..DaysIn(y, m)
  BY DEF IsDay
<1>2. /\ DaysBefore(y, m) \in Nat /\ DaysIn(y, m) \in Nat
      /\ DaysBefore(y, m) + DaysIn(y, m) <= LengthOf(y)
  <2>1. y \in Nat /\ m \in 1..12
    BY <1>1
  <2> QED
    BY <2>1, DaysBounded
<1>3. d \in Nat /\ d >= 1 /\ d <= DaysIn(y, m) /\ y \in Nat \ {0} /\ y - 1 \in Nat
  BY <1>1, <1>2
<1>4. Days(y - 1) \in Int
  BY <1>3, DaysGrow
<1>5. Ordinal(y, m, d) = Days(y - 1) + DaysBefore(y, m) + d
  BY DEF Ordinal, Days
<1>6. Days(y) = Days(y - 1) + LengthOf(y) /\ LengthOf(y) \in {365, 366}
  BY <1>3, LeapIsCounted DEF LengthOf
<1> QED
  BY <1>1, <1>2, <1>3, <1>4, <1>5, <1>6, SMTT(40)

LEMMA EarlierYear ==
  ASSUME NEW y, NEW m, NEW d, IsDay(y, m, d), NEW z, NEW n, NEW e, IsDay(z, n, e), y < z
  PROVE  Ordinal(y, m, d) # Ordinal(z, n, e)
<1>1. y \in Nat /\ z \in Nat /\ (z - 1) - y \in Nat /\ y + ((z - 1) - y) = z - 1
  BY OrdinalIs
<1>2. Days(y) \in Int /\ Days(y) <= Days(z - 1)
  BY <1>1, DaysGrow
<1>3. /\ Ordinal(y, m, d) \in Int /\ Ordinal(y, m, d) <= Days(y)
      /\ Ordinal(z, n, e) \in Int /\ Ordinal(z, n, e) > Days(z - 1) /\ Days(z - 1) \in Int
  BY OrdinalIs, SMTT(40)
<1> QED
  BY <1>2, <1>3

LEMMA EarlierMonth ==
  ASSUME NEW y, NEW m, NEW d, IsDay(y, m, d), NEW n, NEW e, IsDay(y, n, e), m < n
  PROVE  Ordinal(y, m, d) # Ordinal(y, n, e)
<1>1. DaysBefore(y, m) + DaysIn(y, m) <= DaysBefore(y, n)
  <2>1. y \in Nat /\ m \in 1..12 /\ n \in 1..12
    BY OrdinalIs
  <2> QED
    BY <2>1, DaysRise
<1>2. /\ Ordinal(y, m, d) = Days(y - 1) + DaysBefore(y, m) + d
      /\ d \in Nat /\ d <= DaysIn(y, m) /\ DaysBefore(y, m) \in Nat /\ DaysIn(y, m) \in Nat
      /\ Days(y - 1) \in Int
  BY OrdinalIs
<1>3. /\ Ordinal(y, n, e) = Days(y - 1) + DaysBefore(y, n) + e
      /\ e \in Nat /\ e >= 1 /\ DaysBefore(y, n) \in Nat
  BY OrdinalIs, SMTT(40)
<1> QED
  BY <1>1, <1>2, <1>3

(* A wall clock shows one day and one time.                                *)
LEMMA WallClockTells ==
  ASSUME NEW y, NEW m, NEW d, IsDay(y, m, d), NEW h, NEW mi, IsTime(h, mi),
         NEW z, NEW n, NEW e, IsDay(z, n, e), NEW g, NEW mj, IsTime(g, mj),
         WallClock(y, m, d, h, mi) = WallClock(z, n, e, g, mj)
  PROVE  y = z /\ m = n /\ d = e /\ h = g /\ mi = mj
<1> DEFINE a == Ordinal(y, m, d)
           b == Ordinal(z, n, e)
           o == Ordinal(1970, 1, 1)
<1>1. a \in Int /\ b \in Int /\ o \in Int
  <2>1. IsDay(1970, 1, 1)
    BY DEF IsDay, DaysIn
  <2> QED
    BY <2>1, OrdinalIs, SMTT(40)
<1>2. h \in 0..23 /\ mi \in 0..59 /\ g \in 0..23 /\ mj \in 0..59
  BY DEF IsTime
<1>3. 1440 * (a - o) + 60 * h + mi = 1440 * (b - o) + 60 * g + mj
  BY DEF WallClock
<1> HIDE DEF a, b, o
<1>4. a = b
  <2>1. ~(a < b)
    BY <1>1, <1>2, <1>3
  <2>2. ~(b < a)
    BY <1>1, <1>2, <1>3
  <2> QED
    BY <1>1, <2>1, <2>2
<1>5. 60 * h + mi = 60 * g + mj
  BY <1>1, <1>2, <1>3, <1>4
<1>6. h = g
  <2>1. ~(h < g)
    BY <1>2, <1>5
  <2>2. ~(g < h)
    BY <1>2, <1>5
  <2> QED
    BY <1>2, <2>1, <2>2
<1>7. mi = mj
  BY <1>2, <1>5, <1>6
<1>8. y \in Nat /\ z \in Nat /\ m \in 1..12 /\ n \in 1..12
  BY OrdinalIs
<1>9. y = z
  <2>1. ~(y < z)
    BY <1>4, EarlierYear DEF a, b
  <2>2. ~(z < y)
    BY <1>4, EarlierYear DEF a, b
  <2> QED
    BY <1>8, <2>1, <2>2
<1>10. m = n
  <2>1. ~(m < n)
    BY <1>4, <1>9, EarlierMonth DEF a, b
  <2>2. ~(n < m)
    BY <1>4, <1>9, EarlierMonth DEF a, b
  <2> QED
    BY <1>8, <2>1, <2>2
<1>11. d = e
  <2>1. a = Days(y - 1) + DaysBefore(y, m) + d /\ d \in Nat
        /\ Days(y - 1) \in Int /\ DaysBefore(y, m) \in Nat
    BY OrdinalIs DEF a
  <2>2. b = Days(y - 1) + DaysBefore(y, m) + e /\ e \in Nat
    BY <1>9, <1>10, OrdinalIs DEF b
  <2> QED
    <3> DEFINE p == Days(y - 1)
               q == DaysBefore(y, m)
    <3>1. /\ p \in Int /\ q \in Nat /\ d \in Nat /\ e \in Nat
          /\ p + q + d = p + q + e
      BY <1>4, <2>1, <2>2
    <3> HIDE DEF p, q
    <3> QED
      BY <3>1
<1> QED
  BY <1>6, <1>7, <1>9, <1>10, <1>11

(* What a date that has been read says.                                    *)
LEMMA ParsedIs ==
  ASSUME NEW w \in DOMAIN Date, ParseDate(Date[w]).error = "none"
  PROVE  LET l == Date[w]  p == ParseDate(l)
         IN  /\ l.form \in {"second", "day", "year"} /\ l.digits = 4
             /\ IsDay(l.year, l.month, l.day) /\ IsTime(l.hour, l.minute)
             /\ p.precision = l.form /\ p.offset = OffsetOf(l.zone)
             /\ p.epoch + p.offset = WallClock(l.year, l.month, l.day, l.hour, l.minute)
             /\ l.form = "second" => IsOffset(l.zone)
<1> DEFINE l == Date[w]
           c == WallClock(l.year, l.month, l.day, l.hour, l.minute)
<1>1. l \in Literal
  BY DatesAreLiterals
<1>2. l.form \in {"day", "year"} => l.hour = 0 /\ l.minute = 0
  BY DaysAreMidnights
<1> HIDE DEF l
<1>3. Error("CSV-TZ").error # "none" /\ Error("CSV-DATE").error # "none"
  BY DEF Error
<1>4. /\ l.form \in {"second", "day", "year"} /\ l.digits = 4
      /\ l.form = "second" => IsOffset(l.zone) /\ IsTime(l.hour, l.minute)
      /\ IsDay(l.year, l.month, l.day)
      /\ ParseDate(l) = Parsed(Instant(l, OffsetOf(l.zone)), OffsetOf(l.zone), l.form)
  BY <1>3 DEF ParseDate, l
<1>5. IsTime(l.hour, l.minute)
  <2>1. IsTime(0, 0)
    BY DEF IsTime
  <2> QED
    BY <1>2, <1>4, <2>1
<1>6. c \in Int /\ OffsetOf(l.zone) \in Int /\ Instant(l, OffsetOf(l.zone)) = c - OffsetOf(l.zone)
  <2>1. Instant(l, 0) \in Int /\ OffsetOf(l.zone) \in Int
    BY <1>1, <1>4, InstantType, OffsetType
  <2>2. Instant(l, 0) = c - 0 /\ Instant(l, OffsetOf(l.zone)) = c - OffsetOf(l.zone)
    BY DEF Instant
  <2>3. c \in Int
    <3> DEFINE y == l.year
               d == l.day
    <3>1. y \in Int /\ l.month \in 1..12 /\ d \in Int
      <4>1. IsDay(y, l.month, d)
        BY <1>4, SMTT(40)
      <4> HIDE DEF y, d
      <4>2. y \in 1..9999 /\ l.month \in 1..12 /\ d \in Nat
        BY <4>1, OrdinalIs
      <4> QED
        BY <4>2
    <3>2. l.hour \in Int /\ l.minute \in Int
      <4>1. l.hour \in 0..23 /\ l.minute \in 0..59
        BY <1>5 DEF IsTime
      <4> QED
        BY <4>1
    <3> QED
      BY <3>1, <3>2, WallClockType
  <2> QED
    BY <2>1, <2>2, <2>3
<1> DEFINE o == OffsetOf(l.zone)
           n == Instant(l, o)
<1>7. /\ ParseDate(l).precision = l.form /\ ParseDate(l).offset = o /\ ParseDate(l).epoch = n
  BY <1>4 DEF Parsed
<1> HIDE DEF c, o
<1>8. n = c - o /\ c \in Int /\ o \in Int
  BY <1>6 DEF o
<1> HIDE DEF n
<1>9. ParseDate(l).epoch + ParseDate(l).offset = c
  BY <1>7, <1>8
<1> QED
  BY <1>4, <1>5, <1>7, <1>9 DEF l, c, o

(* The zone that is shown for an offset, and the offset of that zone.      *)
Plus == "+"
Minus == "-"

LEMMA SignsDiffer == Plus # Minus
BY Zenon DEF Plus, Minus

LEMMA ZoneIs ==
  \A p, q, r, p2, q2, r2 : Zone(p, q, r) = Zone(p2, q2, r2) <=> p = p2 /\ q = q2 /\ r = r2
BY DEF Zone

LEMMA ZoneSign == \A p, q, r : Zone(p, q, r).sign = p
BY DEF Zone

LEMMA ShownIs ==
  ASSUME NEW z, NEW s, NEW h \in Nat, NEW m \in Nat, m <= 59, z = Zone(s, h, m)
  PROVE  LET o == OffsetOf(z)
         IN  /\ o \in Int
             /\ IF o >= 0 THEN Shown(o) = Zone(Plus, h, m) ELSE Shown(o) = Zone(Minus, h, m)
             /\ o >= 0 <=> s # Minus \/ (h = 0 /\ m = 0)
<1> DEFINE o == OffsetOf(z)
           a == IF o >= 0 THEN o ELSE -o
           q == a \div 60
           r == a % 60
           sign == IF o >= 0 THEN Plus ELSE Minus
<1>1. z.sign = s /\ z.hours = h /\ z.minutes = m
  BY DEF Zone
<1>2. o = IF s = Minus THEN -(60 * h + m) ELSE 60 * h + m
  <2>1. o = (IF s = Minus THEN -1 ELSE 1) * (60 * h + m)
    BY <1>1 DEF OffsetOf, Minus
  <2>2. 60 * h + m \in Nat
    OBVIOUS
  <2> HIDE DEF o
  <2> QED
    BY <2>1, <2>2
<1>3. Shown(o) = Zone(sign, q, r)
  BY Zenon DEF Shown, Plus, Minus
<1> HIDE DEF o
<1>5. a = 60 * h + m /\ a \in Nat /\ o \in Int /\ (o >= 0 <=> s # Minus \/ (h = 0 /\ m = 0))
  <2>1. CASE s = Minus
    <3>1. o = -(60 * h + m) /\ 60 * h + m \in Nat
      BY <1>2, <2>1
    <3>2. o >= 0 <=> h = 0 /\ m = 0
      BY <3>1
    <3> QED
      BY <2>1, <3>1, <3>2
  <2>2. CASE s # Minus
    <3>1. o = 60 * h + m /\ o \in Nat
      BY <1>2, <2>2
    <3> QED
      BY <2>2, <3>1
  <2> QED
    BY <2>1, <2>2
<1>6. q = h /\ r = m
  <2>1. q \in Int /\ r \in 0..59 /\ a = 60 * q + r
    BY <1>5
  <2> HIDE DEF q, r, a
  <2>2. ~(q < h)
    BY <1>5, <2>1
  <2>3. ~(h < q)
    BY <1>5, <2>1
  <2>4. q = h
    BY <2>1, <2>2, <2>3
  <2> QED
    BY <1>5, <2>1, <2>4
<1> HIDE DEF q, r, a
<1>7. Shown(o) = Zone(sign, h, m)
  BY <1>3, <1>6
<1> QED
  BY <1>5, <1>7 DEF o

LEMMA ShownOffset ==
  ASSUME NEW o \in Int
  PROVE  OffsetOf(Shown(o)) = o /\ Shown(o).minutes <= 59
<1> DEFINE a == IF o >= 0 THEN o ELSE -o
           q == a \div 60
           r == a % 60
           sign == IF o >= 0 THEN Plus ELSE Minus
<1>1. Shown(o) = Zone(sign, q, r)
  BY Zenon DEF Shown, Plus, Minus
<1>2. a \in Nat
  OBVIOUS
<1> HIDE DEF a
<1>3. q \in Nat /\ r \in 0..59 /\ a = 60 * q + r
  BY <1>2
<1> HIDE DEF q, r
<1>4. sign = Minus <=> ~(o >= 0)
  BY SignsDiffer
<1> HIDE DEF sign
<1>5. Shown(o).sign = sign /\ Shown(o).hours = q /\ Shown(o).minutes = r
  BY <1>1 DEF Zone
<1>6. OffsetOf(Shown(o)) = (IF sign = Minus THEN -1 ELSE 1) * (60 * q + r)
  BY <1>5 DEF OffsetOf, Minus
<1>7. OffsetOf(Shown(o)) = o
  <2>1. OffsetOf(Shown(o)) = IF sign = Minus THEN -1 * a ELSE 1 * a
    BY <1>3, <1>6
  <2>2. CASE o >= 0
    BY <1>2, <1>4, <2>1, <2>2 DEF a
  <2>3. CASE ~(o >= 0)
    BY <1>2, <1>4, <2>1, <2>3 DEF a
  <2> QED
    BY <2>2, <2>3
<1> QED
  BY <1>3, <1>5, <1>7

LEMMA DayIs ==
  ASSUME NEW w \in DOMAIN Date, Date[w].form \in {"day", "year"}
  PROVE  Date[w].zone = NoZone /\ Date[w].zone.hours = 0 /\ Date[w].zone.minutes = 0
<1>1. Date[w].zone = NoZone
  BY DaysAreMidnights DEF NoZone, Zone
<1>2. NoZone.hours = 0 /\ NoZone.minutes = 0
  BY DEF NoZone, Zone
<1> QED
  BY <1>1, <1>2

(* A date that a row can have.                                             *)
IsMoment(p) ==
  /\ p = Parsed(p.epoch, p.offset, p.precision)
  /\ p.precision \in {"second", "day", "year"} /\ p.epoch \in Int /\ p.offset \in Int
  /\ p.precision = "second" => p.offset \in -720..840
  /\ p.precision # "second" => p.offset = 0

Offset == -720..840
Full == {"second", "day", "year"}

LEMMA MomentIs ==
  \A e \in Int : \A o \in Offset : \A f \in Full :
    (f # "second" => o = 0) => IsMoment(Parsed(e, o, f))
<1> SUFFICES ASSUME NEW e \in Int, NEW o \in Offset, NEW f \in Full, f # "second" => o = 0
             PROVE  IsMoment(Parsed(e, o, f))
  OBVIOUS
<1> DEFINE p == Parsed(e, o, f)
<1>1. p.epoch = e /\ p.offset = o /\ p.precision = f
  BY DEF Parsed
<1>2. o \in Int /\ o \in -720..840 /\ f \in {"second", "day", "year"}
  BY DEF Offset, Full
<1> HIDE DEF p
<1>3. p = Parsed(p.epoch, p.offset, p.precision)
  BY <1>1 DEF p
<1>4. IsMoment(p)
  BY <1>1, <1>2, <1>3 DEF IsMoment
<1> QED
  BY <1>4 DEF p

LEMMA DatedMoment ==
  ASSUME NEW p, Dated(p)
  PROVE  IsMoment(p)
<1>2. ASSUME NEW w \in DOMAIN Date, p = ParseDate(Date[w])
      PROVE  IsMoment(p)
  <2> DEFINE l == Date[w]
             o == OffsetOf(l.zone)
             e == Instant(l, o)
  <2>0. ParseDate(Date[w]).error = "none"
    BY <1>2 DEF Dated
  <2>1. /\ l.form \in {"second", "day", "year"} /\ IsDay(l.year, l.month, l.day)
        /\ p.precision = l.form /\ p.offset = o
        /\ l.form = "second" => IsOffset(l.zone)
    BY <1>2, <2>0, ParsedIs
  <2>2. l \in Literal
    BY DatesAreLiterals
  <2>3. l.form # "second" => l.form \in {"day", "year"} /\ l.zone.hours = 0 /\ l.zone.minutes = 0
    <3>1. l.form \in {"day", "year"} => l.zone.hours = 0 /\ l.zone.minutes = 0
      BY DayIs
    <3> QED
      BY <2>1, <3>1
  <2>4. p = Parsed(e, o, l.form)
    <3> HIDE DEF l
    <3>1. Error("CSV-TZ").error # "none" /\ Error("CSV-DATE").error # "none"
      BY DEF Error
    <3> QED
      BY <1>2, <2>0, <3>1 DEF ParseDate, l
  <2> HIDE DEF l
  <2>5. o \in -720..840 /\ (l.form # "second" => o = 0)
    <3>1. l.form = "second" => o \in -720..840
      BY <2>1 DEF IsOffset
    <3>2. l.form # "second" => o = 0
      BY <2>3 DEF OffsetOf
    <3> QED
      BY <3>1, <3>2
  <2>6. e \in Int
    <3>1. o \in Int
      BY <2>5
    <3> QED
      BY <2>1, <2>2, <3>1, InstantType
  <2> HIDE DEF e, o
  <2>7. l.form \in Full /\ o \in Offset /\ (l.form # "second" => o = 0)
    BY <2>1, <2>5 DEF Full, Offset
  <2>8. IsMoment(Parsed(e, o, l.form))
    BY <2>6, <2>7, MomentIs, Zenon
  <2> QED
    BY <2>4, <2>8
<1>3. ASSUME NEW w \in DOMAIN Date, p = ConvertLegacyDate(Date[w]), p # ParseDate(Date[w])
      PROVE  IsMoment(p)
  <2> DEFINE l == Date[w]
             r == IF l.form = "naive" THEN l ELSE SlashReading(l)
             f == IF l.form = "slash" THEN "day" ELSE "second"
  <2>1. Error("undated").error # "none" /\ p.error = "none"
    BY DEF Error, Dated
  <2>2. l \in Literal /\ r \in Literal
    <3>1. l \in Literal
      BY DatesAreLiterals
    <3> HIDE DEF l
    <3> QED
      BY <3>1, SlashType
  <2>3. IsDay(r.year, r.month, r.day) /\ p = Parsed(Instant(r, 0), 0, f)
    <3> HIDE DEF l
    <3> QED
      BY <1>3, <2>1 DEF ConvertLegacyDate, l
  <2> HIDE DEF l, r
  <2>4. Instant(r, 0) \in Int /\ 0 \in Offset
    BY <2>2, <2>3, InstantType DEF Offset
  <2>5. f \in Full
    BY DEF Full
  <2> HIDE DEF f
  <2>6. IsMoment(Parsed(Instant(r, 0), 0, f))
    BY <2>4, <2>5, MomentIs, Zenon
  <2> QED
    BY <2>3, <2>6
<1> QED
  BY <1>2, <1>3 DEF Dated

(* What has been written for a date is read as that date, unless its year  *)
(* has been printed with fewer than four digits.                           *)
LEMMA RereadIs ==
  ASSUME NEW p, Dated(p)
  PROVE  LET l == Date[Serialized(p)]
             good == Padded \/ p.precision = "year" \/ l.year >= 1000
         IN  /\ ParseDate(l).error = "none" <=> good
             /\ good => ParseDate(l) = p
<1> DEFINE w == Serialized(p)
           l == Date[w]
           o == OffsetOf(l.zone)
           good == Padded \/ p.precision = "year" \/ l.year >= 1000
<1>1. w \in DOMAIN Date /\ Shows(l, p)
  BY SerializedType
<1>2. l \in Literal
  BY <1>1, DatesAreLiterals
<1> HIDE DEF w, l
<1>3. /\ p = Parsed(p.epoch, p.offset, p.precision)
      /\ p.precision \in {"second", "day", "year"} /\ p.epoch \in Int /\ p.offset \in Int
      /\ p.precision = "second" => p.offset \in -720..840
      /\ p.precision # "second" => p.offset = 0
  BY DatedMoment DEF IsMoment
<1>4. /\ l.form = p.precision /\ Prints(l)
      /\ IsDay(l.year, l.month, l.day) /\ IsTime(l.hour, l.minute)
      /\ WallClock(l.year, l.month, l.day, l.hour, l.minute) = p.epoch + p.offset
      /\ l.form = "second" => l.zone = Shown(p.offset)
  BY <1>1 DEF Shows
<1>5. l.digits = 4 <=> good
  <2>1. l.year \in Nat
    BY <1>2 DEF Literal
  <2>2. YearDigits(l.year) = 4 <=> l.year >= 1000
    BY <2>1 DEF YearDigits
  <2> QED
    BY <1>4, <2>2 DEF Prints
<1>6. o = p.offset /\ (l.form = "second" => IsOffset(l.zone))
  <2>1. CASE l.form = "second"
    <3>1. l.zone = Shown(p.offset) /\ OffsetOf(l.zone) = p.offset /\ l.zone.minutes <= 59
      BY <1>3, <1>4, <2>1, ShownOffset
    <3> QED
      BY <1>3, <1>4, <2>1, <3>1 DEF IsOffset
  <2>2. CASE l.form # "second"
    <3>1. l.zone.hours = 0 /\ l.zone.minutes = 0
      <4>1. l.form \in {"day", "year"}
        BY <1>3, <1>4, <2>2
      <4> QED
        BY <1>1, <4>1, DayIs DEF l
    <3>2. o = 0
      BY <3>1 DEF OffsetOf
    <3> QED
      BY <1>3, <1>4, <2>2, <3>2
  <2> QED
    BY <2>1, <2>2
<1>7. Instant(l, o) = p.epoch
  <2>1. Instant(l, o) = WallClock(l.year, l.month, l.day, l.hour, l.minute) - o
    BY DEF Instant
  <2>2. \A a, b \in Int : (a + b) - b = a
    OBVIOUS
  <2> QED
    BY <1>3, <1>4, <1>6, <2>1, <2>2
<1> HIDE DEF o, good
<1>8. CASE good
  <2>1. ParseDate(l) = Parsed(Instant(l, o), o, l.form)
    BY <1>3, <1>4, <1>5, <1>6, <1>8 DEF ParseDate, o
  <2>2. ParseDate(l) = p
    BY <1>3, <1>4, <1>6, <1>7, <2>1
  <2>3. p.error = "none"
    BY DEF Dated
  <2> QED
    BY <1>8, <2>2, <2>3 DEF good, l, w
<1>9. CASE ~good
  <2>1. ParseDate(l) = Error("CSV-DATE")
    BY <1>3, <1>4, <1>5, <1>9 DEF ParseDate
  <2>2. ParseDate(l).error # "none"
    BY <2>1 DEF Error
  <2> QED
    BY <1>9, <2>2 DEF good, l, w
<1> QED
  BY <1>8, <1>9

LEMMA RecordsEqual ==
  ASSUME NEW F, NEW A, NEW D, NEW Z,
         NEW a \in [form : F, ascii : A, digits : D, year : Nat, month : Nat, day : Nat, hour : Nat,
                    minute : Nat, zone : Z],
         NEW b \in [form : F, ascii : A, digits : D, year : Nat, month : Nat, day : Nat, hour : Nat,
                    minute : Nat, zone : Z],
         a.form = b.form, a.ascii = b.ascii, a.digits = b.digits, a.year = b.year, a.month = b.month,
         a.day = b.day, a.hour = b.hour, a.minute = b.minute, a.zone = b.zone
  PROVE  a = b
OBVIOUS

LEMMA LiteralIs ==
  ASSUME NEW a \in Literal, NEW b \in Literal,
         a.form = b.form, a.ascii = b.ascii, a.digits = b.digits, a.year = b.year, a.month = b.month,
         a.day = b.day, a.hour = b.hour, a.minute = b.minute, a.zone = b.zone
  PROVE  a = b
BY RecordsEqual, Zenon DEF Literal

(* The writer gives a date back exactly when it is in the normal form.     *)
LEMMA OwnTextIs ==
  ASSUME NEW w \in DOMAIN Date, ParseDate(Date[w]).error = "none"
  PROVE  Serialized(ParseDate(Date[w])) = w <=> IsNormalDate(Date[w])
<1> DEFINE l == Date[w]
           p == ParseDate(l)
           v == Serialized(p)
           k == Date[v]
           h == l.zone.hours
           m == l.zone.minutes
           s == l.zone.sign
           o == OffsetOf(l.zone)
<1>1. /\ l.form \in {"second", "day", "year"} /\ l.digits = 4
      /\ IsDay(l.year, l.month, l.day) /\ IsTime(l.hour, l.minute)
      /\ p.precision = l.form /\ p.offset = o
      /\ p.epoch + p.offset = WallClock(l.year, l.month, l.day, l.hour, l.minute)
      /\ l.form = "second" => IsOffset(l.zone)
  BY ParsedIs
<1>2. l \in Literal
  BY DatesAreLiterals
<1>3. v \in DOMAIN Date /\ Shows(k, p)
  <2>1. Dated(p)
    BY DEF Dated
  <2> QED
    BY <2>1, SerializedType
<1>4. k \in Literal
  BY <1>3, DatesAreLiterals
<1>5. l = k => v = w
  <2>1. k.ascii
    BY <1>3 DEF Shows
  <2> QED
    BY <1>1, <1>3, <2>1, DatesAreDistinct
<1>6. v = w => k = l
  OBVIOUS
<1>7. l.form = "second" => s # ""
  BY DaysAreMidnights
<1>8. l.form \in {"day", "year"} => l.zone = NoZone
  BY DaysAreMidnights DEF NoZone, Zone
<1> HIDE DEF k, v
<1> HIDE DEF p
<1> HIDE DEF l
<1>9. Padded \/ l.form = "year" \/ l.year >= 1000 <=> Prints(l)
  <2>1. l.year \in Nat
    BY <1>2 DEF Literal
  <2>2. YearDigits(l.year) = 4 <=> l.year >= 1000
    BY <2>1 DEF YearDigits
  <2> QED
    BY <1>1, <2>2 DEF Prints
<1>10. l.zone = (IF l.form = "second" THEN Shown(o) ELSE NoZone)
         <=> s # "Z" /\ l.zone # Zone(Minus, 0, 0)
  <2>1. CASE l.form # "second"
    <3>1. l.zone = NoZone
      BY <1>1, <1>8, <2>1
    <3>2. s = ""
      BY <3>1, ZoneSign, ZenonT(60) DEF NoZone
    <3>3. s # "Z" /\ s # Minus
      BY <3>2, Zenon DEF Minus
    <3>4. Zone(Minus, 0, 0).sign = Minus
      BY DEF Zone
    <3> QED
      BY <2>1, <3>1, <3>3, <3>4
  <2>2. CASE l.form = "second"
    <3>1. h \in Nat /\ m \in Nat /\ m <= 59 /\ l.zone = Zone(s, h, m)
      <4>1. h \in Nat /\ m \in Nat
        BY <1>2 DEF Literal
      <4>2. m <= 59
        BY <1>1, <2>2 DEF IsOffset
      <4>3. l.zone = Zone(s, h, m)
        BY <1>2, Zenon DEF Literal, Zone
      <4> QED
        BY <4>1, <4>2, <4>3
    <3>2. s = "Z" \/ s = Plus \/ s = Minus
      <4>1. s \in {"", "Z", "+", "-"}
        BY <1>2, Zenon DEF Literal
      <4> QED
        BY <1>7, <2>2, <4>1, Zenon DEF Plus, Minus
    <3>3. "Z" # Plus /\ "Z" # Minus
      BY Zenon DEF Plus, Minus
    <3>4. /\ IF o >= 0 THEN Shown(o) = Zone(Plus, h, m) ELSE Shown(o) = Zone(Minus, h, m)
          /\ o >= 0 <=> s # Minus \/ (h = 0 /\ m = 0)
      BY <3>1, ShownIs
    <3> HIDE DEF o, h, m, s
    <3>5. l.zone = Shown(o) <=> s = IF o >= 0 THEN Plus ELSE Minus
      BY <3>1, <3>4, ZoneIs
    <3>6. l.zone # Zone(Minus, 0, 0) <=> ~(s = Minus /\ h = 0 /\ m = 0)
      BY <3>1, ZoneIs
    <3> QED
      BY <2>2, <3>2, <3>3, <3>4, <3>5, <3>6, SignsDiffer
  <2> QED
    BY <2>1, <2>2
<1>11. Shows(l, p) <=> IsNormalDate(l)
  <2>1. Shows(l, p) <=> l.ascii /\ Prints(l) /\ l.zone = (IF l.form = "second" THEN Shown(o) ELSE NoZone)
    BY <1>1 DEF Shows
  <2>2. IsNormalDate(l) <=> /\ l.ascii /\ s # "Z" /\ l.zone # Zone(Minus, 0, 0)
                            /\ Padded \/ l.form = "year" \/ l.year >= 1000
    BY DEF IsNormalDate, Minus
  <2> QED
    BY <1>9, <1>10, <2>1, <2>2
<1>12. Shows(l, p) /\ Shows(k, p) => l = k
  <2> SUFFICES ASSUME Shows(l, p), Shows(k, p) PROVE l = k
    OBVIOUS
  <2>1. /\ k.form = p.precision /\ k.ascii /\ Prints(k)
        /\ IsDay(k.year, k.month, k.day) /\ IsTime(k.hour, k.minute)
        /\ WallClock(k.year, k.month, k.day, k.hour, k.minute) = p.epoch + p.offset
        /\ k.zone = IF k.form = "second" THEN Shown(p.offset) ELSE NoZone
    BY DEF Shows
  <2>2. /\ l.form = p.precision /\ l.ascii /\ Prints(l)
        /\ l.zone = IF l.form = "second" THEN Shown(p.offset) ELSE NoZone
    BY DEF Shows
  <2>3. k.year = l.year /\ k.month = l.month /\ k.day = l.day /\ k.hour = l.hour /\ k.minute = l.minute
    <3> DEFINE y == k.year
               mo == k.month
               d == k.day
               g == k.hour
               n == k.minute
               y2 == l.year
               mo2 == l.month
               d2 == l.day
               g2 == l.hour
               n2 == l.minute
    <3>1. IsDay(y, mo, d) /\ IsTime(g, n) /\ IsDay(y2, mo2, d2) /\ IsTime(g2, n2)
          /\ WallClock(y, mo, d, g, n) = WallClock(y2, mo2, d2, g2, n2)
      BY <1>1, <2>1
    <3> HIDE DEF y, mo, d, g, n, y2, mo2, d2, g2, n2
    <3>2. y = y2 /\ mo = mo2 /\ d = d2 /\ g = g2 /\ n = n2
      BY <3>1, WallClockTells
    <3> QED
      BY <3>2 DEF y, mo, d, g, n, y2, mo2, d2, g2, n2
  <2>4. k.form = l.form /\ k.zone = l.zone
    BY <2>1, <2>2
  <2>6. k.ascii = TRUE /\ l.ascii = TRUE
    <3>1. k.ascii \in BOOLEAN /\ l.ascii \in BOOLEAN
      BY <1>2, <1>4 DEF Literal
    <3> QED
      BY <2>1, <2>2, <3>1, Zenon
  <2>5. k.digits = l.digits
    BY <2>1, <2>2, <2>3, <2>4 DEF Prints
  <2> QED
    BY <1>2, <1>4, <2>3, <2>4, <2>5, <2>6, LiteralIs
<1>13. v = w <=> IsNormalDate(l)
  BY <1>3, <1>5, <1>6, <1>11, <1>12
<1> QED
  BY <1>13 DEF v, p, l

-----------------------------------------------------------------------------
(* What is written, piece by piece *)

(* The first k pieces put together, for each k.                            *)
IsPartial(f, s, S) ==
  /\ f \in [0..Len(s) -> Seq(S)] /\ f[0] = <<>>
  /\ \A k \in 1..Len(s) : f[k] = f[k - 1] \o s[k]

LEMMA JoinIs ==
  ASSUME NEW S, NEW u \in Seq(S), NEW v \in Seq(S), NEW w \in Seq(S)
  PROVE  /\ (u \o v) \o w = u \o (v \o w)
         /\ u \o <<>> = u /\ <<>> \o u = u /\ <<>> \in Seq(S)
         /\ u \o v \in Seq(S) /\ Len(u \o v) = Len(u) + Len(v) /\ Len(u) \in Nat
BY SMTT(40)

LEMMA JoinSplits ==
  ASSUME NEW S, NEW u \in Seq(S), NEW v \in Seq(S), NEW x \in Seq(S), NEW y \in Seq(S),
         u \o v = x \o y, Len(u) <= Len(x), Len(v) <= Len(y)
  PROVE  u = x /\ v = y
<1> DEFINE a == u \o v
           b == x \o y
<1>1. /\ Len(u) \in Nat /\ Len(v) \in Nat /\ Len(x) \in Nat /\ Len(y) \in Nat
      /\ Len(a) = Len(u) + Len(v) /\ Len(b) = Len(x) + Len(y)
  OBVIOUS
<1>2. Len(u) = Len(x) /\ Len(v) = Len(y)
  BY <1>1
<1>3. /\ \A k \in 1..Len(u) : a[k] = u[k]
      /\ \A k \in 1..Len(v) : a[Len(u) + k] = v[k]
  BY SMTT(40)
<1>4. /\ \A k \in 1..Len(x) : b[k] = x[k]
      /\ \A k \in 1..Len(y) : b[Len(x) + k] = y[k]
  OBVIOUS
<1>5. a = b
  OBVIOUS
<1> HIDE DEF a, b
<1>6. \A k \in 1..Len(u) : u[k] = x[k]
  BY <1>2, <1>3, <1>4, <1>5
<1>7. \A k \in 1..Len(v) : v[k] = y[k]
  BY <1>2, <1>3, <1>4, <1>5
<1>8. u = x
  BY <1>2, <1>6, SeqEqual
<1>9. v = y
  BY <1>2, <1>7, SeqEqual
<1> QED
  BY <1>8, <1>9

LEMMA PartialIs ==
  ASSUME NEW S, NEW s \in Seq(Seq(S)), NEW f, IsPartial(f, s, S)
  PROVE  FlattenSeq(s) = f[Len(s)]
<1>0. Len(s) \in Nat
  OBVIOUS
<1>1. CASE Len(s) = 0
  <2>1. s = <<>>
    BY <1>1
  <2> QED
    BY <1>1, <2>1 DEF FlattenSeq, IsPartial
<1>2. CASE Len(s) # 0
  <2> DEFINE g == CHOOSE h : IsFlattening(h, s)
             G == {0} \cup {n \in 1..Len(s) : g[n] = f[n]}
  <2>1. FlattenSeq(s) = g[Len(s)]
    BY <1>2 DEF FlattenSeq, IsFlattening
  <2>2. IsFlattening(g, s)
    BY FlatteningExists, SMTT(40)
  <2>3. \A k \in 1..Len(s) : g[k] = IF k = 1 THEN s[k] ELSE g[k - 1] \o s[k]
    BY <2>2 DEF IsFlattening
  <2> HIDE DEF g
  <2>4. ASSUME NEW n \in 0..(Len(s) - 1), n \in G
        PROVE  n + 1 \in G
    <3>1. n + 1 \in 1..Len(s) /\ n \in Nat /\ (n + 1) - 1 = n
      BY <1>0
    <3>2. s[n + 1] \in Seq(S)
      BY <3>1, ElementOfSeq
    <3>3. f[n + 1] = f[n] \o s[n + 1] /\ f[0] = <<>>
      BY <3>1 DEF IsPartial
    <3>4. CASE n = 0
      <4>0. n + 1 = 1
        BY <3>4
      <4>a. g[n + 1] = s[n + 1]
        BY <2>3, <3>1, <4>0
      <4>1. g[n + 1] = s[n + 1] /\ f[n + 1] = <<>> \o s[n + 1]
        BY <3>3, <3>4, <4>a
      <4>2. <<>> \o s[n + 1] = s[n + 1]
        BY <3>2
      <4> QED
        BY <3>1, <4>1, <4>2
    <3>5. CASE n # 0
      <4>1. g[n] = f[n]
        BY <2>4, <3>5
      <4>2. n + 1 # 1
        BY <3>1, <3>5
      <4>3. g[n + 1] = g[n] \o s[n + 1]
        BY <2>3, <3>1, <4>2
      <4> QED
        BY <3>1, <3>3, <4>1, <4>3
    <3> QED
      BY <3>4, <3>5
  <2>5. 0 \in G
    OBVIOUS
  <2> HIDE DEF G
  <2>6. \A k \in 0..(Len(s) - 1) : k \in G => k + 1 \in G
    BY <2>4
  <2>7. \A k \in 0..Len(s) : k \in G
    BY <1>0, <2>5, <2>6, Upwards
  <2>8. Len(s) \in G
    BY <1>0, <2>7
  <2> QED
    BY <1>2, <2>1, <2>8 DEF G
<1> QED
  BY <1>1, <1>2

LEMMA PartialExists ==
  ASSUME NEW S, NEW s \in Seq(Seq(S))
  PROVE  \E f : IsPartial(f, s, S)
<1>0. Len(s) \in Nat
  OBVIOUS
<1> DEFINE Part(f, n) == /\ f \in [0..n -> Seq(S)] /\ f[0] = <<>>
                         /\ \A k \in 1..n : f[k] = f[k - 1] \o s[k]
           G == {n \in Nat : \E f : Part(f, n)}
<1>1. 0 \in G
  <2>1. Part([k \in 0..0 |-> <<>>], 0)
    OBVIOUS
  <2> QED
    BY <2>1
<1>2. ASSUME NEW n \in 0..(Len(s) - 1), n \in G
      PROVE  n + 1 \in G
  <2>1. PICK f : Part(f, n)
    BY <1>2
  <2>2. n \in Nat /\ n + 1 \in 1..Len(s) /\ n \in 0..n
    BY <1>0
  <2>3. s[n + 1] \in Seq(S) /\ f[n] \in Seq(S)
    BY <2>1, <2>2, ElementOfSeq
  <2> DEFINE x == f[n] \o s[n + 1]
             g == [k \in 0..(n + 1) |-> IF k = n + 1 THEN x ELSE f[k]]
  <2>4. x \in Seq(S)
    BY <2>3
  <2> HIDE DEF x
  <2>5. \A k \in 0..(n + 1) : k = n + 1 \/ k \in 0..n
    BY <2>2
  <2>6. g \in [0..(n + 1) -> Seq(S)]
    BY <2>1, <2>4, <2>5
  <2>7. g[0] = <<>>
    BY <2>1, <2>2
  <2>8. \A k \in 1..(n + 1) : g[k] = g[k - 1] \o s[k]
    <3> TAKE k \in 1..(n + 1)
    <3>1. k \in 0..(n + 1) /\ k - 1 \in 0..(n + 1) /\ k - 1 # n + 1
      BY <2>2
    <3>2. g[k - 1] = f[k - 1] /\ g[k] = IF k = n + 1 THEN x ELSE f[k]
      BY <3>1
    <3> HIDE DEF g
    <3>3. CASE k = n + 1
      <4>1. k - 1 = n
        BY <2>2, <3>3
      <4> QED
        BY <3>1, <3>2, <3>3, <4>1 DEF x
    <3>4. CASE k # n + 1
      <4>1. k \in 1..n
        BY <2>2, <3>4
      <4> QED
        BY <2>1, <3>1, <3>2, <3>4, <4>1
    <3> QED
      BY <3>3, <3>4
  <2> HIDE DEF g
  <2>9. Part(g, n + 1)
    BY <2>6, <2>7, <2>8
  <2>10. n + 1 \in Nat
    BY <2>2
  <2> HIDE DEF Part
  <2> QED
    BY <2>9, <2>10
<1>3. Len(s) \in G
  <2> HIDE DEF G
  <2>1. \A k \in 0..(Len(s) - 1) : k \in G => k + 1 \in G
    BY <1>2
  <2>2. \A k \in 0..Len(s) : k \in G
    BY <1>0, <1>1, <2>1, Upwards
  <2> QED
    BY <1>0, <2>2
<1>4. PICK f : Part(f, Len(s))
  BY <1>3
<1>5. IsPartial(f, s, S)
  BY <1>4 DEF IsPartial
<1> QED
  BY <1>5

LEMMA FlattenIs ==
  ASSUME NEW S, NEW s \in Seq(Seq(S))
  PROVE  \E f : IsPartial(f, s, S) /\ FlattenSeq(s) = f[Len(s)]
BY PartialExists, PartialIs

(* One piece more.                                                         *)
LEMMA FlattenGrows ==
  ASSUME NEW S, NEW n \in Nat, NEW s \in Seq(Seq(S)), NEW t \in Seq(Seq(S)),
         Len(s) = n, Len(t) = n + 1, \A k \in 1..n : t[k] = s[k]
  PROVE  FlattenSeq(t) = FlattenSeq(s) \o t[n + 1]
<1>1. PICK f : IsPartial(f, t, S) /\ FlattenSeq(t) = f[n + 1]
  BY FlattenIs
<1>2. /\ f \in [0..(n + 1) -> Seq(S)] /\ f[0] = <<>>
      /\ \A k \in 1..(n + 1) : f[k] = f[k - 1] \o t[k]
  BY <1>1 DEF IsPartial
<1> DEFINE g == [k \in 0..n |-> f[k]]
<1>3. g \in [0..n -> Seq(S)] /\ g[0] = <<>> /\ g[n] = f[n]
  BY <1>2
<1>4. \A k \in 1..n : g[k] = g[k - 1] \o s[k]
  <2> TAKE k \in 1..n
  <2>1. k \in 1..(n + 1) /\ k \in 0..n /\ k - 1 \in 0..n
    OBVIOUS
  <2>2. f[k] = f[k - 1] \o t[k]
    BY <1>2, <2>1
  <2> QED
    BY <2>1, <2>2
<1> HIDE DEF g
<1>5. IsPartial(g, s, S)
  BY <1>3, <1>4 DEF IsPartial
<1>6. FlattenSeq(s) = f[n]
  BY <1>3, <1>5, PartialIs
<1>7. n + 1 \in 1..(n + 1) /\ (n + 1) - 1 = n
  OBVIOUS
<1> QED
  BY <1>1, <1>2, <1>6, <1>7

(* Pieces that are no longer than the others, one by one, and yet give the *)
(* same text, are the others.                                              *)
LEMMA FlattenCompares ==
  ASSUME NEW S, NEW n \in Nat, NEW s \in Seq(Seq(S)), NEW t \in Seq(Seq(S)),
         Len(s) = n, Len(t) = n, \A k \in 1..n : Len(s[k]) <= Len(t[k]),
         FlattenSeq(s) = FlattenSeq(t)
  PROVE  \A k \in 1..n : s[k] = t[k]
<1>1. PICK f : IsPartial(f, s, S) /\ FlattenSeq(s) = f[n]
  BY FlattenIs
<1>2. PICK g : IsPartial(g, t, S) /\ FlattenSeq(t) = g[n]
  BY FlattenIs
<1>3. /\ f \in [0..n -> Seq(S)] /\ f[0] = <<>>
      /\ \A k \in 1..n : f[k] = f[k - 1] \o s[k]
  BY <1>1 DEF IsPartial
<1>4. /\ g \in [0..n -> Seq(S)] /\ g[0] = <<>>
      /\ \A k \in 1..n : g[k] = g[k - 1] \o t[k]
  BY <1>2 DEF IsPartial
<1>5. \A k \in 0..n : f[k] \in Seq(S) /\ g[k] \in Seq(S) /\ Len(f[k]) \in Nat /\ Len(g[k]) \in Nat
  <2> TAKE k \in 0..n
  <2>1. f[k] \in Seq(S) /\ g[k] \in Seq(S)
    BY <1>3, <1>4
  <2> QED
    BY <2>1
<1>6. \A k \in 1..n : s[k] \in Seq(S) /\ t[k] \in Seq(S) /\ Len(s[k]) \in Nat /\ Len(t[k]) \in Nat
  <2> TAKE k \in 1..n
  <2>1. s[k] \in Seq(S) /\ t[k] \in Seq(S)
    BY ElementOfSeq
  <2> QED
    BY <2>1
<1>7. \A k \in 0..n : Len(f[k]) <= Len(g[k])
  <2> DEFINE G == {k \in 0..n : Len(f[k]) <= Len(g[k])}
  <2>1. 0 \in G
    BY <1>3, <1>4
  <2>2. ASSUME NEW k \in 0..(n - 1), k \in G
        PROVE  k + 1 \in G
    <3>1. k + 1 \in 1..n /\ (k + 1) - 1 = k /\ k \in 0..n /\ k + 1 \in 0..n
      OBVIOUS
    <3>2. f[k + 1] = f[k] \o s[k + 1] /\ g[k + 1] = g[k] \o t[k + 1]
      BY <1>3, <1>4, <3>1
    <3> DEFINE u == f[k]
               v == g[k]
               x == s[k + 1]
               y == t[k + 1]
    <3>3. u \in Seq(S) /\ v \in Seq(S) /\ x \in Seq(S) /\ y \in Seq(S)
          /\ Len(u) <= Len(v) /\ Len(x) <= Len(y)
      BY <1>5, <1>6, <2>2, <3>1
    <3>4. f[k + 1] = u \o x /\ g[k + 1] = v \o y
      BY <3>2
    <3> HIDE DEF u, v, x, y
    <3>5. Len(u \o x) = Len(u) + Len(x) /\ Len(v \o y) = Len(v) + Len(y)
          /\ Len(u) \in Nat /\ Len(v) \in Nat /\ Len(x) \in Nat /\ Len(y) \in Nat
      BY <3>3
    <3>6. Len(f[k + 1]) <= Len(g[k + 1])
      BY <3>3, <3>4, <3>5
    <3> QED
      BY <3>1, <3>6
  <2> HIDE DEF G
  <2>3. \A k \in 0..n : k \in G
    BY <2>1, <2>2, Upwards
  <2> QED
    BY <2>3 DEF G
<1>8. ASSUME NEW k \in 1..n, f[k] = g[k]
      PROVE  f[k - 1] = g[k - 1] /\ s[k] = t[k]
  <2>1. k - 1 \in 0..n
    OBVIOUS
  <2>2. f[k - 1] \o s[k] = g[k - 1] \o t[k]
    BY <1>3, <1>4, <1>8
  <2>3. /\ f[k - 1] \in Seq(S) /\ g[k - 1] \in Seq(S) /\ s[k] \in Seq(S) /\ t[k] \in Seq(S)
        /\ Len(f[k - 1]) <= Len(g[k - 1]) /\ Len(s[k]) <= Len(t[k])
    BY <1>5, <1>6, <1>7, <2>1
  <2> QED
    BY <2>2, <2>3, JoinSplits
<1>9. \A k \in 0..n : f[n - k] = g[n - k]
  <2> DEFINE G == {k \in 0..n : f[n - k] = g[n - k]}
  <2>1. 0 \in G
    <3>1. f[n] = g[n]
      BY <1>1, <1>2, Zenon
    <3>2. n - 0 = n /\ 0 \in 0..n
      OBVIOUS
    <3> QED
      BY <3>1, <3>2
  <2>2. ASSUME NEW k \in 0..(n - 1), k \in G
        PROVE  k + 1 \in G
    <3>1. n - k \in 1..n /\ (n - k) - 1 = n - (k + 1) /\ k + 1 \in 0..n
      OBVIOUS
    <3>2. f[n - k] = g[n - k]
      BY <2>2
    <3>3. f[(n - k) - 1] = g[(n - k) - 1]
      BY <1>8, <3>1, <3>2
    <3> QED
      BY <3>1, <3>3
  <2> HIDE DEF G
  <2>3. \A k \in 0..n : k \in G
    BY <2>1, <2>2, Upwards
  <2> QED
    BY <2>3 DEF G
<1>10. ASSUME NEW k \in 1..n
       PROVE  s[k] = t[k]
  <2>1. n - k \in 0..n /\ n - (n - k) = k
    OBVIOUS
  <2>2. f[k] = g[k]
    BY <1>9, <2>1
  <2> QED
    BY <1>8, <2>2
<1> QED
  BY <1>10

(* Pieces that are single atoms.                                           *)
LEMMA FlattenSingles ==
  ASSUME NEW S, NEW v \in Seq(S), NEW s \in Seq(Seq(S)),
         Len(s) = Len(v), \A k \in 1..Len(v) : s[k] = <<v[k]>>
  PROVE  FlattenSeq(s) = v
<1> DEFINE n == Len(v)
           f == [k \in 0..n |-> SubSeq(v, 1, k)]
<1>1. n \in Nat /\ 0 \in 0..n /\ n \in 0..n
  OBVIOUS
<1>2. \A k \in 0..n : SubSeq(v, 1, k) \in Seq(S)
  OBVIOUS
<1>3. f \in [0..n -> Seq(S)] /\ f[0] = <<>>
  <2>1. SubSeq(v, 1, 0) = <<>>
    OBVIOUS
  <2> QED
    BY <1>1, <1>2, <2>1
<1>4. \A k \in 1..n : f[k] = f[k - 1] \o s[k]
  <2> TAKE k \in 1..n
  <2>1. k \in 0..n /\ k - 1 \in 0..n
    BY <1>1
  <2>2. SubSeq(v, 1, k) = SubSeq(v, 1, k - 1) \o <<v[k]>>
    OBVIOUS
  <2> QED
    BY <2>1, <2>2
<1>5. f[n] = v
  <2>1. SubSeq(v, 1, n) = v
    OBVIOUS
  <2> QED
    BY <1>1, <2>1
<1> HIDE DEF f
<1>6. IsPartial(f, s, S)
  BY <1>3, <1>4 DEF IsPartial
<1> QED
  BY <1>5, <1>6, PartialIs

-----------------------------------------------------------------------------
(* The text that the tokenizer has read, from the records that it has made *)

Doubling(x) == IF x = Quote THEN <<Quote, Quote>> ELSE <<x>>
Doubled(v) == FlattenSeq([k \in DOMAIN v |-> Doubling(v[k])])

FieldText(f) == IF f.quoted THEN (<<Quote>> \o Doubled(f.value)) \o <<Quote>> ELSE f.value

Before(c) == IF c = 1 THEN <<>> ELSE <<Comma>>

Parts(r) == [c \in 1..Len(r) |-> Before(c) \o FieldText(r[c])]
RecordText(r) == FlattenSeq(Parts(r))

Lines(R) == [k \in 1..Len(R) |-> RecordText(R[k]) \o <<LF>>]
RecordsText(R) == FlattenSeq(Lines(R))

OpenText(s) == IF s.inQuotes THEN <<Quote>> \o Doubled(s.val) ELSE FieldText(FieldOf(s))

SoFar(s) == RecordsText(s.records) \o (RecordText(s.cur) \o (Before(Len(s.cur) + 1) \o OpenText(s)))

(* Texts may be put together in any order.                                 *)
LEMMA JoinTexts ==
  /\ \A u, v, w \in Text : (u \o v) \o w = u \o (v \o w)
  /\ \A u \in Text : u \o <<>> = u /\ <<>> \o u = u
  /\ \A u, v \in Text : u \o v \in Text
  /\ \A v \in Text, x \in Char : Append(v, x) = v \o <<x>> /\ Append(v, x) \in Text
  /\ <<>> \in Text /\ <<Comma>> \in Text /\ <<Quote>> \in Text /\ <<LF>> \in Text
  /\ \A x \in Char : <<x>> \in Text
<1>1. ASSUME NEW u \in Text, NEW v \in Text, NEW w \in Text
      PROVE  (u \o v) \o w = u \o (v \o w)
  BY SMTT(60) DEF Text
<1>2. \A u \in Text : u \o <<>> = u /\ <<>> \o u = u
  BY JoinIs DEF Text
<1>3. \A u, v \in Text : u \o v \in Text
  BY JoinIs DEF Text
<1>4. \A v \in Text, x \in Char : Append(v, x) = v \o <<x>> /\ Append(v, x) \in Text
  BY DEF Text
<1> QED
  BY <1>1, <1>2, <1>3, <1>4, SinglesAreTexts, AtomsAreChars

(* One text after another, and four of them, as operators that the provers *)
(* take as they stand.                                                     *)
Join(u, v) == u \o v
Four(u, v, w, x) == u \o (v \o (w \o x))

LEMMA JoinType ==
  ASSUME NEW u \in Text, NEW v \in Text
  PROVE  Join(u, v) \in Text
BY DEF Join, Text

Turns(u, v, w) == Join(Join(u, v), w) = Join(u, Join(v, w))

FourLaws(u, v, w, x, y) ==
  /\ Four(u, v, w, Join(x, y)) = Join(Four(u, v, w, x), y)
  /\ Four(u, Join(v, Join(w, x)), y, <<>>) = Join(Four(u, v, w, x), y)
  /\ Four(Join(u, Join(Join(v, Join(w, x)), y)), <<>>, <<>>, <<>>) = Join(Four(u, v, w, x), y)
  /\ Join(Four(u, v, w, x), y) \in Text

LEMMA JoinTurns ==
  ASSUME NEW u \in Text, NEW v \in Text, NEW w \in Text
  PROVE  Turns(u, v, w)
<1>1. (u \o v) \o w = u \o (v \o w)
  BY DEF Text
<1> QED
  BY <1>1, Zenon DEF Join, Turns

LEMMA FourIs ==
  ASSUME NEW u \in Text, NEW v \in Text, NEW w \in Text, NEW x \in Text, NEW y \in Text
  PROVE  FourLaws(u, v, w, x, y)
<1>1. PICK a : a = Join(w, x)
  OBVIOUS
<1>2. a \in Text
  BY <1>1, JoinType
<1>3. Join(a, y) = Join(w, Join(x, y))
  <2>1. Turns(w, x, y)
    BY JoinTurns, Zenon
  <2> QED
    BY <1>1, <2>1 DEF Turns
<1>4. PICK b : b = Join(v, a)
  OBVIOUS
<1>5. b \in Text
  BY <1>2, <1>4, JoinType
<1>6. Join(b, y) = Join(v, Join(a, y))
  <2>1. Turns(v, a, y)
    BY <1>2, JoinTurns, Zenon
  <2> QED
    BY <1>4, <2>1 DEF Turns
<1>7. PICK c : c = Join(u, b)
  OBVIOUS
<1>8. c \in Text
  BY <1>5, <1>7, JoinType
<1>9. Join(c, y) = Join(u, Join(b, y))
  <2>1. Turns(u, b, y)
    BY <1>5, JoinTurns, Zenon
  <2> QED
    BY <1>7, <2>1 DEF Turns
<1>10. PICK d : d = Join(c, y)
  OBVIOUS
<1>11. d \in Text /\ y \o <<>> = y /\ d \o (<<>> \o (<<>> \o <<>>)) = d
  <2>1. d \in Text
    BY <1>8, <1>10, JoinType
  <2> QED
    BY <2>1 DEF Text
<1>12. Four(u, v, w, x) = c
  <2>1. Four(u, v, w, x) = Join(u, Join(v, Join(w, x)))
    BY Zenon DEF Four, Join
  <2> QED
    BY <1>1, <1>4, <1>7, <2>1
<1>13. Four(u, v, w, Join(x, y)) = d
  <2>1. Four(u, v, w, Join(x, y)) = Join(u, Join(v, Join(w, Join(x, y))))
    BY Zenon DEF Four, Join
  <2> QED
    BY <1>3, <1>6, <1>9, <1>10, <2>1
<1>14. Four(u, Join(v, Join(w, x)), y, <<>>) = d
  <2>1. Four(u, b, y, <<>>) = Join(u, Join(b, y))
    BY <1>11, Zenon DEF Four, Join
  <2> QED
    BY <1>1, <1>4, <1>9, <1>10, <2>1
<1>15. Four(Join(u, Join(Join(v, Join(w, x)), y)), <<>>, <<>>, <<>>) = d
  <2>1. Four(d, <<>>, <<>>, <<>>) = d
    BY <1>11, Zenon DEF Four
  <2>2. Join(u, Join(Join(v, Join(w, x)), y)) = d
    BY <1>1, <1>4, <1>9, <1>10
  <2> QED
    BY <2>1, <2>2
<1> QED
  BY <1>10, <1>11, <1>12, <1>13, <1>14, <1>15 DEF FourLaws

LEMMA DoubledType ==
  ASSUME NEW v \in Text
  PROVE  Doubled(v) \in Text
<1> DEFINE m == [k \in DOMAIN v |-> Doubling(v[k])]
<1>1. Len(v) \in Nat /\ DOMAIN v = 1..Len(v)
  BY DEF Text
<1>2. \A k \in 1..Len(v) : v[k] \in Char
  BY ElementOfSeq DEF Text
<1>3. \A k \in 1..Len(v) : Doubling(v[k]) \in Text
  BY <1>2, AtomsAreChars, SinglesAreTexts DEF Doubling
<1>4. m \in [1..Len(v) -> Text]
  BY <1>1, <1>3
<1>5. FlattenSeq(m) \in Text
  BY <1>1, <1>4, ListsAre, FlattenType DEF Text
<1> QED
  BY <1>5 DEF Doubled

LEMMA DoubledGrows ==
  ASSUME NEW v \in Text, NEW x \in Char
  PROVE  Doubled(v \o <<x>>) = Doubled(v) \o Doubling(x)
<1> DEFINE n == Len(v)
           w == v \o <<x>>
           s == [k \in 1..n |-> Doubling(v[k])]
           t == [k \in 1..(n + 1) |-> Doubling(w[k])]
<1>1. n \in Nat /\ DOMAIN v = 1..n /\ DOMAIN w = 1..(n + 1)
      /\ w[n + 1] = x /\ \A k \in 1..n : w[k] = v[k]
  BY DEF Text
<1>2. w \in Text /\ Len(w) = n + 1
  BY <1>1 DEF Text
<1> HIDE DEF w
<1>3. \A y \in Char : Doubling(y) \in Text
  BY AtomsAreChars, SinglesAreTexts DEF Doubling
<1>4. (\A k \in 1..n : v[k] \in Char) /\ (\A k \in 1..(n + 1) : w[k] \in Char)
  BY <1>2, ElementOfSeq DEF Text
<1>5. s \in [1..n -> Text] /\ t \in [1..(n + 1) -> Text]
  BY <1>3, <1>4
<1>6. /\ s \in Seq(Text) /\ Len(s) = n /\ t \in Seq(Text) /\ Len(t) = n + 1
  <2> HIDE DEF s, t
  <2>1. n + 1 \in Nat
    BY <1>1
  <2> HIDE DEF n
  <2> QED
    BY <1>1, <1>5, <2>1, ListsAre
<1>7. (\A k \in 1..n : t[k] = s[k]) /\ t[n + 1] = Doubling(x)
  BY <1>1
<1>8. Doubled(v) = FlattenSeq(s) /\ Doubled(w) = FlattenSeq(t)
  BY <1>1 DEF Doubled
<1> HIDE DEF s, t
<1>9. FlattenSeq(t) = FlattenSeq(s) \o t[n + 1]
  BY <1>1, <1>6, <1>7, FlattenGrows DEF Text
<1> QED
  BY <1>7, <1>8, <1>9 DEF w

LEMMA DoubledEmpty == Doubled(<<>>) = <<>>
<1> DEFINE s == [k \in DOMAIN <<>> |-> Doubling(<<>>[k])]
<1>1. s = <<>> /\ Len(<<>>) = 0
  OBVIOUS
<1>2. Doubled(<<>>) = FlattenSeq(s)
  BY DEF Doubled
<1> HIDE DEF s
<1> QED
  BY <1>1, <1>2 DEF FlattenSeq

LEMMA DoubledSame ==
  ASSUME NEW v \in Text, Quote \notin ToSet(v)
  PROVE  Doubled(v) = v
<1> DEFINE n == Len(v)
           s == [k \in 1..n |-> Doubling(v[k])]
<1>1. n \in Nat /\ DOMAIN v = 1..n /\ \A k \in 1..n : v[k] \in Char
  BY ElementOfSeq DEF Text
<1>2. \A k \in 1..n : v[k] # Quote
  BY <1>1 DEF ToSet
<1>3. \A k \in 1..n : s[k] = <<v[k]>> /\ s[k] \in Text
  BY <1>1, <1>2, SinglesAreTexts DEF Doubling
<1>4. s \in [1..n -> Text]
  BY <1>3
<1>5. Doubled(v) = FlattenSeq(s)
  BY <1>1 DEF Doubled
<1> HIDE DEF s
<1>6. s \in Seq(Text) /\ Len(s) = n
  <2> HIDE DEF n
  <2> QED
    BY <1>1, <1>4, ListsAre
<1>7. FlattenSeq(s) = v
  BY <1>3, <1>6, FlattenSingles DEF Text
<1> QED
  BY <1>5, <1>7

LEMMA QuotedIs ==
  \A v : Quoted(v) = IF QuotingNeeded(v) THEN (<<Quote>> \o Doubled(v)) \o <<Quote>> ELSE v
BY DEF Quoted, Doubled, Doubling

LEMMA FieldIs ==
  ASSUME NEW f \in FieldRead
  PROVE  f.value \in Text /\ f.quoted \in BOOLEAN /\ FieldText(f) \in Text
<1>1. f.value \in Text /\ f.quoted \in BOOLEAN
  BY DEF FieldRead
<1>2. Doubled(f.value) \in Text
  BY <1>1, DoubledType
<1>3. (<<Quote>> \o Doubled(f.value)) \o <<Quote>> \in Text
  BY <1>2, JoinTexts
<1> QED
  BY <1>1, <1>3 DEF FieldText

LEMMA BeforeType == \A c : Before(c) \in Text
BY JoinTexts DEF Before

LEMMA PartsAre ==
  ASSUME NEW r \in Seq(FieldRead)
  PROVE  /\ Len(r) \in Nat /\ Parts(r) \in Seq(Text) /\ Len(Parts(r)) = Len(r)
         /\ \A c \in 1..Len(r) : Parts(r)[c] = Before(c) \o FieldText(r[c])
         /\ RecordText(r) \in Text
<1>1. Len(r) \in Nat /\ \A c \in 1..Len(r) : r[c] \in FieldRead
  BY ElementOfSeq
<1>2. \A c \in 1..Len(r) : Before(c) \o FieldText(r[c]) \in Text
  BY <1>1, FieldIs, BeforeType, JoinTexts
<1>3. Parts(r) \in [1..Len(r) -> Text]
  BY <1>2 DEF Parts
<1>4. \A c \in 1..Len(r) : Parts(r)[c] = Before(c) \o FieldText(r[c])
  BY DEF Parts
<1>5. Parts(r) \in Seq(Text) /\ Len(Parts(r)) = Len(r)
  BY <1>1, <1>3, ListsAre
<1>6. RecordText(r) \in Text
  BY <1>5, FlattenType DEF RecordText, Text
<1> QED
  BY <1>1, <1>4, <1>5, <1>6

LEMMA RecordTextGrows ==
  ASSUME NEW r \in Seq(FieldRead), NEW f \in FieldRead
  PROVE  RecordText(Append(r, f)) = RecordText(r) \o (Before(Len(r) + 1) \o FieldText(f))
<1> DEFINE q == Append(r, f)
           n == Len(r)
<1>1. /\ n \in Nat /\ q \in Seq(FieldRead) /\ Len(q) = n + 1 /\ q[n + 1] = f
      /\ \A c \in 1..n : q[c] = r[c]
  OBVIOUS
<1> HIDE DEF q
<1>2. /\ Parts(r) \in Seq(Text) /\ Len(Parts(r)) = n /\ Parts(q) \in Seq(Text) /\ Len(Parts(q)) = n + 1
      /\ \A c \in 1..n : Parts(r)[c] = Before(c) \o FieldText(r[c])
      /\ \A c \in 1..(n + 1) : Parts(q)[c] = Before(c) \o FieldText(q[c])
  BY <1>1, PartsAre
<1>3. n + 1 \in 1..(n + 1) /\ \A c \in 1..n : c \in 1..(n + 1)
  BY <1>1
<1>4. /\ \A c \in 1..n : Parts(q)[c] = Parts(r)[c]
      /\ Parts(q)[n + 1] = Before(n + 1) \o FieldText(f)
  BY <1>1, <1>2, <1>3
<1>5. FlattenSeq(Parts(q)) = FlattenSeq(Parts(r)) \o Parts(q)[n + 1]
  <2> DEFINE s == Parts(r)
             t == Parts(q)
  <2>1. /\ n \in Nat /\ s \in Seq(Seq(Char)) /\ t \in Seq(Seq(Char))
        /\ Len(s) = n /\ Len(t) = n + 1 /\ \A k \in 1..n : t[k] = s[k]
    BY <1>1, <1>2, <1>4 DEF Text
  <2> HIDE DEF s, t
  <2>2. FlattenSeq(t) = FlattenSeq(s) \o t[n + 1]
    BY <2>1, FlattenGrows
  <2> QED
    BY <2>2 DEF s, t
<1>6. RecordText(q) = FlattenSeq(Parts(q)) /\ RecordText(r) = FlattenSeq(Parts(r))
  BY DEF RecordText
<1>7. RecordText(q) = RecordText(r) \o (Before(n + 1) \o FieldText(f))
  BY <1>4, <1>5, <1>6, Zenon
<1> QED
  BY <1>7, Zenon DEF q, n

LEMMA LinesAreRecords ==
  ASSUME NEW R \in Seq(Seq(FieldRead))
  PROVE  /\ Len(R) \in Nat /\ Lines(R) \in Seq(Text) /\ Len(Lines(R)) = Len(R)
         /\ \A k \in 1..Len(R) : Lines(R)[k] = RecordText(R[k]) \o <<LF>>
         /\ RecordsText(R) \in Text
<1>1. Len(R) \in Nat /\ \A k \in 1..Len(R) : R[k] \in Seq(FieldRead)
  BY ElementOfSeq
<1>2. \A k \in 1..Len(R) : RecordText(R[k]) \o <<LF>> \in Text
  BY <1>1, PartsAre, JoinTexts
<1>3. Lines(R) \in [1..Len(R) -> Text]
  BY <1>2 DEF Lines
<1>4. \A k \in 1..Len(R) : Lines(R)[k] = RecordText(R[k]) \o <<LF>>
  BY DEF Lines
<1>5. Lines(R) \in Seq(Text) /\ Len(Lines(R)) = Len(R)
  BY <1>1, <1>3, ListsAre
<1>6. RecordsText(R) \in Text
  BY <1>5, FlattenType DEF RecordsText, Text
<1> QED
  BY <1>1, <1>4, <1>5, <1>6

LEMMA RecordsTextGrows ==
  ASSUME NEW R \in Seq(Seq(FieldRead)), NEW r \in Seq(FieldRead)
  PROVE  RecordsText(Append(R, r)) = RecordsText(R) \o (RecordText(r) \o <<LF>>)
<1> DEFINE Q == Append(R, r)
           n == Len(R)
<1>1. /\ n \in Nat /\ Q \in Seq(Seq(FieldRead)) /\ Len(Q) = n + 1 /\ Q[n + 1] = r
      /\ \A k \in 1..n : Q[k] = R[k]
  OBVIOUS
<1> HIDE DEF Q
<1>2. /\ Lines(R) \in Seq(Text) /\ Len(Lines(R)) = n /\ Lines(Q) \in Seq(Text) /\ Len(Lines(Q)) = n + 1
      /\ \A k \in 1..n : Lines(R)[k] = RecordText(R[k]) \o <<LF>>
      /\ \A k \in 1..(n + 1) : Lines(Q)[k] = RecordText(Q[k]) \o <<LF>>
  BY <1>1, LinesAreRecords
<1>3. n + 1 \in 1..(n + 1) /\ \A k \in 1..n : k \in 1..(n + 1)
  BY <1>1
<1>4. /\ \A k \in 1..n : Lines(Q)[k] = Lines(R)[k]
      /\ Lines(Q)[n + 1] = RecordText(r) \o <<LF>>
  BY <1>1, <1>2, <1>3
<1>5. FlattenSeq(Lines(Q)) = FlattenSeq(Lines(R)) \o Lines(Q)[n + 1]
  <2> DEFINE P == Lines(R)
             T == Lines(Q)
  <2>1. /\ n \in Nat /\ P \in Seq(Seq(Char)) /\ T \in Seq(Seq(Char))
        /\ Len(P) = n /\ Len(T) = n + 1 /\ \A k \in 1..n : T[k] = P[k]
    BY <1>1, <1>2, <1>4 DEF Text
  <2> HIDE DEF P, T, n
  <2>2. FlattenSeq(T) = FlattenSeq(P) \o T[n + 1]
    BY <2>1, FlattenGrows
  <2> QED
    BY <2>2 DEF P, T
<1> QED
  BY <1>4, <1>5 DEF RecordsText, Q

LEMMA NothingSoFar ==
  RecordText(<<>>) = <<>> /\ RecordsText(<<>>) = <<>>
<1>1. Len(<<>>) = 0 /\ 1..0 = {}
  OBVIOUS
<1>2. Parts(<<>>) = <<>> /\ Lines(<<>>) = <<>>
  <2>1. <<>> \in Seq(FieldRead) /\ <<>> \in Seq(Seq(FieldRead))
    OBVIOUS
  <2>2. \A s \in Seq(Text) : Len(s) = 0 => s = <<>>
    OBVIOUS
  <2> QED
    BY <1>1, <2>1, <2>2, PartsAre, LinesAreRecords
<1> QED
  BY <1>1, <1>2 DEF RecordText, RecordsText, FlattenSeq

LEMMA OpenTextType ==
  ASSUME NEW s \in Locals
  PROVE  OpenText(s) \in Text
<1>1. FieldText(FieldOf(s)) \in Text
  BY FieldOfType, FieldIs
<1>2. <<Quote>> \o Doubled(s.val) \in Text
  BY LocalsAre, DoubledType, JoinTexts
<1> QED
  BY <1>1, <1>2 DEF OpenText

LEMMA SoFarParts ==
  ASSUME NEW s \in Locals
  PROVE  /\ RecordsText(s.records) \in Text /\ RecordText(s.cur) \in Text
         /\ Before(Len(s.cur) + 1) \in Text /\ OpenText(s) \in Text /\ SoFar(s) \in Text
<1>1. /\ RecordsText(s.records) \in Text /\ RecordText(s.cur) \in Text
      /\ Before(Len(s.cur) + 1) \in Text /\ OpenText(s) \in Text
  BY LocalsAre, LinesAreRecords, PartsAre, BeforeType, OpenTextType
<1>2. Before(Len(s.cur) + 1) \o OpenText(s) \in Text
  BY <1>1, JoinTexts
<1>3. RecordText(s.cur) \o (Before(Len(s.cur) + 1) \o OpenText(s)) \in Text
  BY <1>1, <1>2, JoinTexts
<1>4. SoFar(s) \in Text
  BY <1>1, <1>3, JoinTexts DEF SoFar
<1> QED
  BY <1>1, <1>4

LEMMA SoFarPut ==
  ASSUME NEW s \in Locals, NEW e, e.cur = s.cur, e.records = s.records,
         NEW x \in Text, OpenText(e) = OpenText(s) \o x
  PROVE  SoFar(e) = SoFar(s) \o x
<1> DEFINE A == RecordsText(s.records)
           B == RecordText(s.cur)
           C == Before(Len(s.cur) + 1)
           D == OpenText(s)
<1>1. A \in Text /\ B \in Text /\ C \in Text /\ D \in Text
  BY SoFarParts
<1>2. SoFar(s) = Four(A, B, C, D) /\ SoFar(e) = Four(A, B, C, Join(D, x))
  BY DEF SoFar, Four, Join
<1> HIDE DEF A, B, C, D
<1>3. FourLaws(A, B, C, D, x)
  BY <1>1, FourIs, Zenon
<1>4. SoFar(e) = Join(SoFar(s), x)
  BY <1>2, <1>3 DEF FourLaws
<1> QED
  BY <1>4 DEF Join

LEMMA EmptyOpen ==
  ASSUME NEW e, e.val = <<>>, e.quoted = FALSE, e.inQuotes = FALSE
  PROVE  OpenText(e) = <<>>
<1>1. FieldOf(e).quoted = FALSE /\ FieldOf(e).value = <<>>
  BY DEF FieldOf
<1> QED
  BY <1>1 DEF OpenText, FieldText

LEMMA SoFarComma ==
  ASSUME NEW s \in Locals, ~s.inQuotes, NEW e, e.cur = Append(s.cur, FieldOf(s)),
         e.records = s.records, e.val = <<>>, e.quoted = FALSE, e.inQuotes = FALSE
  PROVE  SoFar(e) = SoFar(s) \o <<Comma>>
<1> DEFINE A == RecordsText(s.records)
           B == RecordText(s.cur)
           C == Before(Len(s.cur) + 1)
           D == OpenText(s)
           y == <<Comma>>
<1>1. A \in Text /\ B \in Text /\ C \in Text /\ D \in Text /\ y \in Text
  BY SoFarParts, SinglesAreTexts, AtomsAreChars
<1>2. D = FieldText(FieldOf(s)) /\ OpenText(e) = <<>>
  BY EmptyOpen DEF OpenText
<1>3. RecordText(e.cur) = B \o (C \o D)
  BY <1>2, FieldOfType, LocalsAre, RecordTextGrows
<1>4. Before(Len(e.cur) + 1) = y
  <2>1. Len(e.cur) = Len(s.cur) + 1 /\ Len(s.cur) \in Nat
    BY LocalsAre
  <2>2. Len(e.cur) + 1 # 1
    BY <2>1
  <2> QED
    BY <2>2 DEF Before
<1>5. SoFar(s) = Four(A, B, C, D) /\ SoFar(e) = Four(A, Join(B, Join(C, D)), y, <<>>)
  BY <1>2, <1>3, <1>4 DEF SoFar, Four, Join
<1> HIDE DEF A, B, C, D
<1>6. SoFar(e) = Join(SoFar(s), y)
  <2> HIDE DEF y
  <2>1. FourLaws(A, B, C, D, y)
    BY <1>1, FourIs, Zenon
  <2> QED
    BY <1>5, <2>1 DEF FourLaws
<1> QED
  BY <1>6 DEF Join

LEMMA SoFarLine ==
  ASSUME NEW s \in Locals, ~s.inQuotes, NEW e, e.cur = <<>>,
         e.records = Append(s.records, Append(s.cur, FieldOf(s))),
         e.val = <<>>, e.quoted = FALSE, e.inQuotes = FALSE
  PROVE  SoFar(e) = SoFar(s) \o <<LF>>
<1> DEFINE A == RecordsText(s.records)
           B == RecordText(s.cur)
           C == Before(Len(s.cur) + 1)
           D == OpenText(s)
           y == <<LF>>
           r == Append(s.cur, FieldOf(s))
<1>1. A \in Text /\ B \in Text /\ C \in Text /\ D \in Text /\ y \in Text
  BY SoFarParts, SinglesAreTexts, AtomsAreChars
<1>2. D = FieldText(FieldOf(s)) /\ OpenText(e) = <<>>
  BY EmptyOpen DEF OpenText
<1>3. r \in Seq(FieldRead) /\ s.cur \in Seq(FieldRead) /\ s.records \in Seq(Seq(FieldRead))
  BY FieldOfType, LocalsAre
<1>4. RecordText(r) = B \o (C \o D)
  BY <1>2, <1>3, FieldOfType, RecordTextGrows
<1>5. RecordsText(e.records) = A \o (RecordText(r) \o y)
  <2>1. e.records = Append(s.records, r)
    OBVIOUS
  <2> HIDE DEF r
  <2>2. RecordsText(Append(s.records, r)) = A \o (RecordText(r) \o y)
    BY <1>3, RecordsTextGrows
  <2> QED
    BY <2>1, <2>2
<1>6. Before(Len(e.cur) + 1) = <<>> /\ RecordText(e.cur) = <<>>
  BY NothingSoFar DEF Before
<1>7. SoFar(s) = Four(A, B, C, D) /\ SoFar(e) = Four(Join(A, Join(Join(B, Join(C, D)), y)), <<>>, <<>>, <<>>)
  BY <1>2, <1>4, <1>5, <1>6 DEF SoFar, Four, Join
<1> HIDE DEF A, B, C, D
<1>8. SoFar(e) = Join(SoFar(s), y)
  <2> HIDE DEF y
  <2>1. FourLaws(A, B, C, D, y)
    BY <1>1, FourIs, Zenon
  <2> QED
    BY <1>7, <2>1 DEF FourLaws
<1> QED
  BY <1>8 DEF Join

(* What has been read of a text at a place.                                *)
Behind(t, p) == SubSeq(t, 1, p - 1)

LEMMA BehindStep ==
  ASSUME NEW t \in Text, NEW p \in 1..Len(t)
  PROVE  Behind(t, p) \in Text /\ Behind(t, p + 1) = Behind(t, p) \o <<t[p]>>
<1>1. Len(t) \in Nat /\ (p + 1) - 1 = p
  BY TextIs
<1>2. SubSeq(t, 1, p) = SubSeq(t, 1, p - 1) \o <<t[p]>>
  BY DEF Text
<1>3. SubSeq(t, 1, p - 1) \in Text
  BY DEF Text
<1> QED
  BY <1>1, <1>2, <1>3 DEF Behind

LEMMA BehindTwo ==
  ASSUME NEW t \in Text, NEW p \in 1..Len(t), p + 1 <= Len(t)
  PROVE  Behind(t, p + 2) = Behind(t, p) \o <<t[p], t[p + 1]>>
<1>1. Len(t) \in Nat /\ p + 1 \in 1..Len(t) /\ (p + 1) + 1 = p + 2
  BY TextIs
<1> DEFINE u == Behind(t, p)
           x == t[p]
           y == t[p + 1]
<1>2. u \in Text /\ Behind(t, p + 1) = u \o <<x>> /\ Behind(t, p + 2) = Behind(t, p + 1) \o <<y>>
  BY <1>1, BehindStep
<1>3. x \in Char /\ y \in Char
  BY <1>1, ElementOfSeq DEF Text
<1> HIDE DEF u, x, y
<1>4. (u \o <<x>>) \o <<y>> = u \o <<x, y>>
  BY <1>2, <1>3, SMTT(40) DEF Text
<1> QED
  BY <1>2, <1>4 DEF u, x, y

(* A field that was made without an error holds no carriage return, and    *)
(* needs no quotes when it had none.                                       *)
Tidy(f) == CR \notin ToSet(f.value) /\ (QuotingNeeded(f.value) => f.quoted)

AllTidy(s) ==
  /\ Tidy(FieldOf(s))
  /\ \A c \in 1..Len(s.cur) : Tidy(s.cur[c])
  /\ \A n \in 1..Len(s.records) : \A c \in 1..Len(s.records[n]) : Tidy(s.records[n][c])

LEMMA AppendSetIs ==
  ASSUME NEW v \in Text, NEW x \in Char
  PROVE  ToSet(Append(v, x)) = ToSet(v) \cup {x}
<1> DEFINE w == Append(v, x)
<1>1. /\ Len(v) \in Nat /\ DOMAIN v = 1..Len(v) /\ DOMAIN w = 1..(Len(v) + 1)
      /\ \A k \in 1..Len(v) : w[k] = v[k]
      /\ w[Len(v) + 1] = x
  BY DEF Text
<1>2. \A k : k \in 1..(Len(v) + 1) <=> k \in 1..Len(v) \/ k = Len(v) + 1
  BY <1>1
<1> HIDE DEF w
<1>3. ToSet(w) = ToSet(v) \cup {x}
  BY <1>1, <1>2 DEF ToSet
<1> QED
  BY <1>3 DEF w

LEMMA EmptyTidy ==
  ASSUME NEW f, f.value = <<>>
  PROVE  Tidy(f)
BY DEF Tidy, QuotingNeeded, ToSet

LEMMA SameTidy ==
  ASSUME NEW s \in Locals, NEW e, AllTidy(s),
         e.cur = s.cur, e.records = s.records, Tidy(FieldOf(e))
  PROVE  AllTidy(e)
BY DEF AllTidy

(* An atom more, in quotes or outside of them.                             *)
LEMMA AppendTidy ==
  ASSUME NEW s \in Locals, NEW e, AllTidy(s), e.cur = s.cur, e.records = s.records,
         NEW x \in Char, e.val = Append(s.val, x), x # CR,
         e.quoted \/ (x \notin {Comma, Quote, LF} /\ ~s.quoted)
  PROVE  AllTidy(e)
<1>1. ToSet(e.val) = ToSet(s.val) \cup {x}
  BY LocalsAre, AppendSetIs
<1>2. CR \notin ToSet(s.val) /\ (QuotingNeeded(s.val) => s.quoted)
  BY DEF AllTidy, Tidy, FieldOf
<1>3. CR \notin ToSet(e.val) /\ (QuotingNeeded(e.val) => e.quoted)
  BY <1>1, <1>2 DEF QuotingNeeded
<1>4. Tidy(FieldOf(e))
  BY <1>3 DEF Tidy, FieldOf
<1> QED
  BY <1>4, SameTidy

LEMMA KeepTidy ==
  ASSUME NEW s \in Locals, NEW e, AllTidy(s), e.cur = s.cur, e.records = s.records,
         e.val = s.val, s.quoted => e.quoted
  PROVE  AllTidy(e)
<1>1. Tidy(FieldOf(e))
  BY DEF AllTidy, Tidy, FieldOf
<1> QED
  BY <1>1, SameTidy

LEMMA EndFieldTidy ==
  ASSUME NEW s \in Locals, NEW e, AllTidy(s),
         e.cur = Append(s.cur, FieldOf(s)), e.records = s.records, e.val = <<>>
  PROVE  AllTidy(e)
<1>1. s.cur \in Seq(FieldRead) /\ FieldOf(s) \in FieldRead /\ Len(s.cur) \in Nat
  BY FieldOfType, LocalsAre
<1>2. /\ Len(e.cur) = Len(s.cur) + 1
      /\ \A c \in 1..Len(s.cur) : e.cur[c] = s.cur[c]
      /\ e.cur[Len(s.cur) + 1] = FieldOf(s)
  BY <1>1
<1>3. \A c \in 1..Len(e.cur) : c \in 1..Len(s.cur) \/ c = Len(s.cur) + 1
  BY <1>1, <1>2
<1>4. \A c \in 1..Len(e.cur) : Tidy(e.cur[c])
  BY <1>2, <1>3 DEF AllTidy
<1>5. Tidy(FieldOf(e))
  <2>1. FieldOf(e).value = <<>>
    BY DEF FieldOf
  <2> QED
    BY <2>1, EmptyTidy
<1> QED
  BY <1>4, <1>5 DEF AllTidy

LEMMA EmitTidy ==
  ASSUME NEW s \in Locals, NEW e, AllTidy(s),
         e.cur = <<>>, e.records = Append(s.records, s.cur), e.val = <<>>
  PROVE  AllTidy(e)
<1>1. /\ s.records \in Seq(Seq(FieldRead)) /\ s.cur \in Seq(FieldRead) /\ Len(s.records) \in Nat
      /\ Len(<<>>) = 0
  BY LocalsAre
<1>2. /\ Len(e.records) = Len(s.records) + 1
      /\ \A c \in 1..Len(s.records) : e.records[c] = s.records[c]
      /\ e.records[Len(s.records) + 1] = s.cur
  BY <1>1
<1>3. \A c \in 1..Len(e.records) : c \in 1..Len(s.records) \/ c = Len(s.records) + 1
  BY <1>1, <1>2
<1>4. \A n \in 1..Len(e.records) : \A c \in 1..Len(e.records[n]) : Tidy(e.records[n][c])
  BY <1>2, <1>3 DEF AllTidy
<1>5. 1..Len(e.cur) = {}
  BY <1>1
<1>6. Tidy(FieldOf(e))
  <2>1. FieldOf(e).value = <<>>
    BY DEF FieldOf
  <2> QED
    BY <2>1, EmptyTidy
<1> QED
  BY <1>4, <1>5, <1>6 DEF AllTidy

(* What the end of a line makes of the locals.                             *)
LEMMA LineEndIs ==
  ASSUME NEW s \in Locals
  PROVE  LET e == EmitRecord(EndField(s)) IN
         /\ e \in Locals /\ e.cur = <<>> /\ e.val = <<>> /\ e.quoted = FALSE
         /\ e.inQuotes = s.inQuotes /\ e.records = Append(s.records, Append(s.cur, FieldOf(s)))
         /\ e.errors = s.errors
<1> DEFINE f == EndField(s)
<1>1. /\ f \in Locals /\ f.cur = Append(s.cur, FieldOf(s)) /\ f.val = <<>> /\ f.quoted = FALSE
      /\ f.inQuotes = s.inQuotes /\ f.records = s.records /\ f.errors = s.errors
  BY EndFieldIs
<1> HIDE DEF f
<1> DEFINE e == EmitRecord(f)
<1>2. /\ e \in Locals /\ e.cur = <<>> /\ e.val = f.val /\ e.inQuotes = f.inQuotes
      /\ e.quoted = f.quoted /\ e.records = Append(f.records, f.cur) /\ e.errors = f.errors
  BY <1>1, EmitRecordIs
<1> HIDE DEF e
<1>3. /\ e \in Locals /\ e.cur = <<>> /\ e.val = <<>> /\ e.quoted = FALSE
      /\ e.inQuotes = s.inQuotes /\ e.records = Append(s.records, Append(s.cur, FieldOf(s)))
      /\ e.errors = s.errors
  BY <1>1, <1>2
<1> QED
  BY <1>3 DEF e, f

LEMMA LineTidy ==
  ASSUME NEW s \in Locals, AllTidy(s)
  PROVE  AllTidy(EmitRecord(EndField(s)))
<1> DEFINE f == EndField(s)
<1>1. /\ f \in Locals /\ f.cur = Append(s.cur, FieldOf(s)) /\ f.val = <<>> /\ f.records = s.records
  BY EndFieldIs
<1> HIDE DEF f
<1>2. AllTidy(f)
  BY <1>1, EndFieldTidy
<1> DEFINE e == EmitRecord(f)
<1>3. e.cur = <<>> /\ e.val = f.val /\ e.records = Append(f.records, f.cur)
  BY <1>1, EmitRecordIs
<1> HIDE DEF e
<1>4. AllTidy(e)
  BY <1>1, <1>2, <1>3, EmitTidy
<1> QED
  BY <1>4 DEF e, f

(* What the turns of the loop add to the text of the open field.           *)
LEMMA OpenGrowsInside ==
  ASSUME NEW s \in Locals, NEW e, s.inQuotes, e.inQuotes, NEW x \in Char, e.val = Append(s.val, x)
  PROVE  OpenText(e) = OpenText(s) \o Doubling(x)
<1> DEFINE d == Doubled(s.val)
           y == Doubling(x)
           q == <<Quote>>
<1>1. s.val \in Text /\ e.val = s.val \o <<x>>
  <2>1. s.val \in Text
    BY LocalsAre
  <2> QED
    BY <2>1, JoinTexts
<1>2. d \in Text /\ y \in Text /\ q \in Text
  BY <1>1, DoubledType, AtomsAreChars, SinglesAreTexts DEF Doubling
<1>3. Doubled(e.val) = Join(d, y)
  <2>1. Doubled(s.val \o <<x>>) = d \o y
    BY <1>1, DoubledGrows
  <2> QED
    BY <1>1, <2>1 DEF Join
<1>4. OpenText(s) = Join(q, d) /\ OpenText(e) = Join(q, Doubled(e.val))
  BY DEF OpenText, Join
<1>5. Turns(q, d, y)
  <2> HIDE DEF q, d, y
  <2> QED
    BY <1>2, JoinTurns, Zenon
<1> HIDE DEF q, d, y
<1>6. OpenText(e) = Join(OpenText(s), y)
  BY <1>3, <1>4, <1>5 DEF Turns
<1> QED
  BY <1>6 DEF Join, y

LEMMA OpenCloses ==
  ASSUME NEW s, NEW e, s.inQuotes, ~e.inQuotes, e.quoted, e.val = s.val
  PROVE  OpenText(e) = OpenText(s) \o <<Quote>>
<1>1. FieldOf(e).quoted = e.quoted /\ FieldOf(e).value = s.val
  BY DEF FieldOf
<1>2. OpenText(e) = FieldText(FieldOf(e)) /\ OpenText(s) = <<Quote>> \o Doubled(s.val)
  BY DEF OpenText
<1> QED
  BY <1>1, <1>2 DEF FieldText

LEMMA OpenOpens ==
  ASSUME NEW s, NEW e, ~s.inQuotes, s.quoted = FALSE, s.val = <<>>, e.inQuotes, e.val = <<>>
  PROVE  OpenText(e) = OpenText(s) \o <<Quote>>
<1>1. FieldOf(s).quoted = FALSE /\ FieldOf(s).value = <<>>
  BY DEF FieldOf
<1>2. OpenText(s) = <<>>
  BY <1>1 DEF OpenText, FieldText
<1>3. OpenText(e) = <<Quote>> \o <<>>
  BY DoubledEmpty DEF OpenText
<1>4. <<Quote>> \o <<>> = <<Quote>> /\ <<>> \o <<Quote>> = <<Quote>>
  BY JoinTexts
<1> QED
  BY <1>2, <1>3, <1>4

LEMMA OpenGrows ==
  ASSUME NEW s \in Locals, NEW e, ~s.inQuotes, ~e.inQuotes, s.quoted = FALSE, e.quoted = FALSE,
         NEW x \in Char, e.val = Append(s.val, x)
  PROVE  OpenText(e) = OpenText(s) \o <<x>>
<1>1. FieldOf(s).quoted = FALSE /\ FieldOf(s).value = s.val /\ FieldOf(e).quoted = FALSE /\ FieldOf(e).value = e.val
  BY DEF FieldOf
<1>2. OpenText(s) = s.val /\ OpenText(e) = e.val
  BY <1>1 DEF OpenText, FieldText
<1>3. s.val \in Text
  BY LocalsAre
<1>4. Append(s.val, x) = s.val \o <<x>>
  BY <1>3 DEF Text
<1> QED
  BY <1>2, <1>4

(* A quoted field is open, or it waits for its separator; and a text       *)
(* without carriage returns is what was made of it so far.                 *)
Waits(s) == s.quoted => s.inQuotes \/ s.expectSep
Copied(t, p, s) == CR \notin ToSet(t) => Behind(t, p) = SoFar(s)
CopyScan(t, p, s) == AllTidy(s) /\ Waits(s) /\ Copied(t, p, s)

LEMMA CopiedPut ==
  ASSUME NEW s \in Locals, NEW e, e.cur = s.cur, e.records = s.records,
         NEW x \in Text, OpenText(e) = OpenText(s) \o x,
         NEW t, NEW p, NEW q, Behind(t, q) = Behind(t, p) \o x, Copied(t, p, s)
  PROVE  Copied(t, q, e)
<1>1. SoFar(e) = SoFar(s) \o x
  BY SoFarPut
<1>2. ASSUME CR \notin ToSet(t)
      PROVE  Behind(t, q) = SoFar(e)
  <2>1. Behind(t, p) = SoFar(s)
    BY <1>2 DEF Copied
  <2> QED
    BY <1>1, <2>1
<1> QED
  BY <1>2 DEF Copied

LEMMA CopiedEnd ==
  ASSUME NEW s, NEW e, NEW x, SoFar(e) = SoFar(s) \o x,
         NEW t, NEW p, NEW q, Behind(t, q) = Behind(t, p) \o x, Copied(t, p, s)
  PROVE  Copied(t, q, e)
<1>1. ASSUME CR \notin ToSet(t)
      PROVE  Behind(t, q) = SoFar(e)
  <2>1. Behind(t, p) = SoFar(s)
    BY <1>1 DEF Copied
  <2> QED
    BY <2>1
<1> QED
  BY <1>1 DEF Copied

LEMMA TurnCopies ==
  ASSUME TInv, Turn, scan.errors = {}, scan'.errors = {}, Flags(text, i, scan),
         CopyScan(text, i, scan)
  PROVE  CopyScan(text, i', scan')
<1>1. /\ scan \in Locals /\ scan.inQuotes \in BOOLEAN /\ scan.expectSep \in BOOLEAN
      /\ scan.quoted \in BOOLEAN /\ scan.val \in Text
  BY LocalsAre DEF TInv, ScanOK
<1>2. i <= Len(text)
  BY DEF Turn, EscapedQuote, ClosingQuote, QuotedBreak, QuotedAtom, Separator, LineFeed,
     CarriageReturn, LoneReturn, OpeningQuote, StrayQuote, Atom, InQuotes, Scanning
<1>3. /\ text[i] \in Char /\ Quote \in Char /\ LF \in Char /\ CR \in Char /\ Comma \in Char
      /\ text \in Text /\ i \in 1..Len(text) /\ Len(text) \in Nat
      /\ Ahead = Quote => i + 1 <= Len(text) /\ text[i + 1] = Quote
  BY <1>2, AtomType, AtomsAreChars DEF TInv
<1>4. /\ Quote # LF /\ Quote # CR /\ LF # CR /\ Comma # CR /\ Comma # LF
  BY CharsDiffer
<1>5. AllTidy(scan) /\ Waits(scan) /\ Copied(text, i, scan)
  BY DEF CopyScan
<1>6. scan.inQuotes => scan.quoted
  BY DEF Flags
<1>7. Behind(text, i + 1) = Behind(text, i) \o <<text[i]>>
  BY <1>3, BehindStep
<1>8. ASSUME NEW s \in Locals
      PROVE  Err(s).errors # {}
  BY <1>8, ErrIs
<1>9. text[i] = CR => CR \in ToSet(text)
  BY <1>3 DEF ToSet
<1>10. CASE EscapedQuote
  <2> DEFINE e == [scan EXCEPT !.val = Append(@, Quote)]
  <2>1. scan' = e /\ i' = i + 2 /\ scan.inQuotes /\ text[i] = Quote /\ Ahead = Quote
    BY <1>10 DEF EscapedQuote, Advance, InQuotes
  <2>2. /\ e.cur = scan.cur /\ e.val = Append(scan.val, Quote) /\ e.records = scan.records
        /\ e.inQuotes = scan.inQuotes /\ e.quoted = scan.quoted
    BY <1>1, <1>3, AppendIs
  <2> HIDE DEF e
  <2>3. AllTidy(e) /\ Waits(e)
    BY <1>1, <1>3, <1>4, <1>5, <1>6, <2>1, <2>2, AppendTidy DEF Waits
  <2>4. OpenText(e) = OpenText(scan) \o <<Quote, Quote>>
    BY <1>1, <1>3, <2>1, <2>2, OpenGrowsInside DEF Doubling
  <2>5. Behind(text, i + 2) = Behind(text, i) \o <<Quote, Quote>>
    BY <1>3, <2>1, BehindTwo
  <2>6. <<Quote, Quote>> \in Text
    BY <1>3 DEF Text
  <2>7. Copied(text, i + 2, e)
    <3> DEFINE x == <<Quote, Quote>>
               q == i + 2
    <3>1. x \in Text /\ OpenText(e) = OpenText(scan) \o x /\ Behind(text, q) = Behind(text, i) \o x
      BY <2>4, <2>5, <2>6
    <3>2. scan \in Locals /\ e.cur = scan.cur /\ e.records = scan.records /\ Copied(text, i, scan)
      BY <1>1, <1>5, <2>2
    <3> HIDE DEF x, q
    <3>3. Copied(text, q, e)
      BY <3>1, <3>2, CopiedPut
    <3> QED
      BY <3>3 DEF q
  <2> QED
    BY <2>1, <2>3, <2>7 DEF CopyScan
<1>11. CASE ClosingQuote
  <2> DEFINE e == [scan EXCEPT !.inQuotes = FALSE, !.expectSep = TRUE]
  <2>1. scan' = e /\ i' = i + 1 /\ scan.inQuotes /\ text[i] = Quote
    BY <1>11 DEF ClosingQuote, Advance, InQuotes
  <2>2. /\ e.cur = scan.cur /\ e.val = scan.val /\ e.records = scan.records
        /\ e.inQuotes = FALSE /\ e.quoted = scan.quoted /\ e.expectSep = TRUE
    BY <1>1, CloseIs
  <2> HIDE DEF e
  <2>3. AllTidy(e) /\ Waits(e)
    BY <1>1, <1>5, <2>2, KeepTidy DEF Waits
  <2>4. OpenText(e) = OpenText(scan) \o <<Quote>>
    BY <1>6, <2>1, <2>2, OpenCloses
  <2>5. Copied(text, i + 1, e)
    BY <1>1, <1>3, <1>5, <1>7, <2>1, <2>2, <2>4, SinglesAreTexts, CopiedPut
  <2> QED
    BY <2>1, <2>3, <2>5 DEF CopyScan
<1>12. CASE QuotedBreak
  <2> DEFINE e == [scan EXCEPT !.newline = TRUE, !.val = Append(@, LF)]
  <2>1. scan' = e /\ scan.inQuotes /\ text[i] \in {CR, LF} /\ (text[i] # CR => i' = i + 1)
    BY <1>12 DEF QuotedBreak, Advance, InQuotes
  <2>2. /\ e.cur = scan.cur /\ e.val = Append(scan.val, LF) /\ e.records = scan.records
        /\ e.inQuotes = scan.inQuotes /\ e.quoted = scan.quoted
    BY <1>1, <1>3, BreakIs, ZenonT(60)
  <2> HIDE DEF e
  <2>3. AllTidy(e) /\ Waits(e)
    BY <1>1, <1>3, <1>4, <1>5, <1>6, <2>1, <2>2, AppendTidy DEF Waits
  <2>4. CASE text[i] = CR
    <3>1. Copied(text, i', e)
      BY <1>9, <2>4 DEF Copied
    <3> QED
      BY <2>1, <2>3, <3>1 DEF CopyScan
  <2>5. CASE text[i] = LF
    <3>1. OpenText(e) = OpenText(scan) \o <<LF>>
      BY <1>1, <1>3, <1>4, <2>1, <2>2, OpenGrowsInside DEF Doubling
    <3>2. Copied(text, i + 1, e)
      BY <1>1, <1>3, <1>5, <1>7, <2>2, <2>5, <3>1, SinglesAreTexts, CopiedPut
    <3> QED
      BY <1>4, <2>1, <2>3, <2>5, <3>2 DEF CopyScan
  <2> QED
    BY <2>1, <2>4, <2>5
<1>13. CASE QuotedAtom
  <2> DEFINE x == text[i]
             e == [scan EXCEPT !.val = Append(@, x)]
  <2>1. scan' = e /\ i' = i + 1 /\ scan.inQuotes /\ x \notin {Quote, CR, LF}
    BY <1>13 DEF QuotedAtom, Advance, InQuotes
  <2>2. /\ e.cur = scan.cur /\ e.val = Append(scan.val, x) /\ e.records = scan.records
        /\ e.inQuotes = scan.inQuotes /\ e.quoted = scan.quoted /\ x \in Char
    BY <1>1, <1>3, AppendIs
  <2>3. Behind(text, i + 1) = Behind(text, i) \o <<x>>
    BY <1>7
  <2> HIDE DEF e, x
  <2>4. AllTidy(e) /\ Waits(e)
    BY <1>1, <1>5, <1>6, <2>1, <2>2, AppendTidy DEF Waits
  <2>5. OpenText(e) = OpenText(scan) \o <<x>>
    BY <1>1, <2>1, <2>2, OpenGrowsInside DEF Doubling
  <2>6. Copied(text, i + 1, e)
    BY <1>1, <1>5, <2>2, <2>3, <2>5, SinglesAreTexts, CopiedPut
  <2> QED
    BY <2>1, <2>4, <2>6 DEF CopyScan
<1>14. CASE Separator
  <2> DEFINE f == EndField(scan)
             e == [f EXCEPT !.started = TRUE]
  <2>1. scan' = e /\ i' = i + 1 /\ scan.inQuotes = FALSE /\ text[i] = Comma
    BY <1>14 DEF Separator, Advance, Scanning
  <2>2. /\ f \in Locals /\ f.cur = Append(scan.cur, FieldOf(scan)) /\ f.val = <<>>
        /\ f.quoted = FALSE /\ f.inQuotes = scan.inQuotes /\ f.records = scan.records
    BY <1>1, EndFieldIs
  <2> HIDE DEF f
  <2>3. /\ e.cur = f.cur /\ e.val = f.val /\ e.records = f.records
        /\ e.inQuotes = f.inQuotes /\ e.quoted = f.quoted
    BY <2>2, StartIs
  <2> HIDE DEF e
  <2>4. AllTidy(e) /\ Waits(e)
    BY <1>1, <1>5, <2>2, <2>3, EndFieldTidy DEF Waits
  <2>5. SoFar(e) = SoFar(scan) \o <<Comma>>
    BY <1>1, <2>1, <2>2, <2>3, SoFarComma
  <2>6. Copied(text, i + 1, e)
    BY <1>5, <1>7, <2>1, <2>5, CopiedEnd
  <2> QED
    BY <2>1, <2>4, <2>6 DEF CopyScan
<1>15. CASE LineFeed \/ CarriageReturn
  <2> DEFINE e == EmitRecord(EndField(scan))
  <2>1. /\ scan' = EndLine(scan) /\ scan.inQuotes = FALSE
        /\ \/ text[i] = LF /\ i' = i + 1
           \/ text[i] = CR
    BY <1>15 DEF LineFeed, CarriageReturn, Advance, Scanning
  <2>2. scan' = e
    <3>1. Err(scan).errors # {}
      BY <1>1, <1>8
    <3> QED
      BY <2>1, <3>1 DEF EndLine
  <2>3. /\ e.cur = <<>> /\ e.val = <<>> /\ e.quoted = FALSE /\ e.inQuotes = scan.inQuotes
        /\ e.records = Append(scan.records, Append(scan.cur, FieldOf(scan)))
    BY <1>1, LineEndIs
  <2>4. AllTidy(e)
    BY <1>1, <1>5, LineTidy
  <2> HIDE DEF e
  <2>5. Waits(e)
    BY <2>3 DEF Waits
  <2>6. CASE text[i] = CR
    <3>1. Copied(text, i', e)
      BY <1>9, <2>6 DEF Copied
    <3> QED
      BY <2>2, <2>4, <2>5, <3>1 DEF CopyScan
  <2>7. CASE text[i] = LF
    <3>1. SoFar(e) = SoFar(scan) \o <<LF>>
      BY <1>1, <2>1, <2>3, SoFarLine
    <3>2. Copied(text, i + 1, e)
      BY <1>5, <1>7, <2>7, <3>1, CopiedEnd
    <3> QED
      BY <1>4, <2>1, <2>2, <2>4, <2>5, <2>7, <3>2 DEF CopyScan
  <2> QED
    BY <2>1, <2>6, <2>7
<1>17. CASE LoneReturn
  <2>1. scan' = IF scan.expectSep THEN EmitRecord(EndField(Err(scan))) ELSE Err(scan)
    BY <1>17 DEF LoneReturn, Advance
  <2>2. Err(scan) \in Locals /\ Err(scan).errors # {}
    BY <1>1, <1>8, ErrIs
  <2>3. EmitRecord(EndField(Err(scan))).errors = Err(scan).errors
    BY <2>2, LineEndIs
  <2> QED
    BY <2>1, <2>2, <2>3
<1>18. CASE OpeningQuote
  <2> DEFINE e == [scan EXCEPT !.inQuotes = TRUE, !.quoted = TRUE, !.started = TRUE]
  <2>1. /\ scan' = e /\ i' = i + 1 /\ text[i] = Quote
        /\ scan.inQuotes = FALSE /\ scan.val = <<>> /\ scan.quoted = FALSE
    BY <1>1, <1>18 DEF OpeningQuote, Advance, Scanning
  <2>2. /\ e.cur = scan.cur /\ e.val = scan.val /\ e.records = scan.records
        /\ e.inQuotes = TRUE /\ e.quoted = TRUE
    BY <1>1, OpenIs
  <2> HIDE DEF e
  <2>3. AllTidy(e) /\ Waits(e)
    BY <1>1, <1>5, <2>2, KeepTidy DEF Waits
  <2>4. OpenText(e) = OpenText(scan) \o <<Quote>>
    BY <2>1, <2>2, OpenOpens
  <2>5. Copied(text, i + 1, e)
    BY <1>1, <1>3, <1>5, <1>7, <2>1, <2>2, <2>4, SinglesAreTexts, CopiedPut
  <2> QED
    BY <2>1, <2>3, <2>5 DEF CopyScan
<1>19. CASE StrayQuote
  <2> DEFINE f == Err(scan)
             e == [f EXCEPT !.val = Append(@, Quote)]
  <2>1. scan' = e
    BY <1>19 DEF StrayQuote, Advance
  <2>2. f \in Locals /\ f.errors # {}
    BY <1>1, <1>8, ErrIs
  <2> HIDE DEF f
  <2>3. e.errors = f.errors
    BY <1>3, <2>2, AppendIs
  <2> HIDE DEF e
  <2> QED
    BY <2>1, <2>2, <2>3
<1>20. CASE Atom
  <2> DEFINE x == text[i]
  <2>0. x \notin {Comma, Quote, CR, LF} /\ ~scan.inQuotes /\ x \in Char
    BY <1>3, <1>20 DEF Atom
  <2>1. CASE scan.expectSep
    <3> DEFINE f == Err(scan)
               e == [f EXCEPT !.expectSep = FALSE, !.val = Append(@, x)]
    <3>1. scan' = e
      BY <1>20, <2>1 DEF Atom, Advance
    <3>2. f \in Locals /\ f.errors # {}
      BY <1>1, <1>8, ErrIs
    <3> HIDE DEF f
    <3>3. e.errors = f.errors
      BY <2>0, <3>2, PutAfterQuoteIs
    <3> HIDE DEF e
    <3> QED
      BY <3>1, <3>2, <3>3
  <2>2. CASE ~scan.expectSep
    <3> DEFINE e == [scan EXCEPT !.started = TRUE, !.val = Append(@, x)]
    <3>1. scan' = e /\ i' = i + 1
      BY <1>20, <2>2 DEF Atom, Advance
    <3>2. /\ e.cur = scan.cur /\ e.val = Append(scan.val, x) /\ e.records = scan.records
          /\ e.inQuotes = scan.inQuotes /\ e.quoted = scan.quoted
      BY <1>1, <2>0, PutIs, ZenonT(60)
    <3>3. Behind(text, i + 1) = Behind(text, i) \o <<x>>
      BY <1>7
    <3> HIDE DEF e, x
    <3>4. scan.quoted = FALSE
      BY <1>1, <1>5, <2>0, <2>2 DEF Waits
    <3>5. AllTidy(e) /\ Waits(e)
      BY <1>1, <1>5, <2>0, <3>2, <3>4, AppendTidy DEF Waits
    <3>6. OpenText(e) = OpenText(scan) \o <<x>>
      BY <1>1, <2>0, <3>2, <3>4, OpenGrows
    <3>7. Copied(text, i + 1, e)
      BY <1>1, <1>5, <2>0, <3>2, <3>3, <3>6, SinglesAreTexts, CopiedPut
    <3> QED
      BY <3>1, <3>5, <3>7 DEF CopyScan
  <2> QED
    BY <2>1, <2>2
<1> QED
  BY <1>10, <1>11, <1>12, <1>13, <1>14, <1>15, <1>17, <1>18, <1>19, <1>20 DEF Turn

-----------------------------------------------------------------------------
(* What is written of what was read                                        *)

IsNeedless(f) == f.quoted /\ ~QuotingNeeded(f.value)

(* A field is written without quotes that were needless, and otherwise as  *)
(* it was.                                                                 *)
LEMMA FieldWritten ==
  ASSUME NEW f \in FieldRead, Tidy(f)
  PROVE  /\ Len(Quoted(f.value)) <= Len(FieldText(f))
         /\ Quoted(f.value) = FieldText(f) <=> ~IsNeedless(f)
<1> DEFINE v == f.value
           d == Doubled(v)
           q == (<<Quote>> \o d) \o <<Quote>>
<1>1. v \in Text /\ f.quoted \in BOOLEAN /\ FieldText(f) \in Text /\ d \in Text /\ Len(v) \in Nat
  BY FieldIs, DoubledType DEF Text
<1>2. Quoted(v) = IF QuotingNeeded(v) THEN q ELSE v
  BY QuotedIs
<1>3. FieldText(f) = IF f.quoted THEN q ELSE v
  BY DEF FieldText
<1>4. QuotingNeeded(v) => f.quoted
  BY DEF Tidy
<1>5. q \in Text /\ Len(q) = Len(d) + 2 /\ Len(q) \in Nat /\ Len(d) \in Nat
  BY <1>1, AtomsAreChars DEF Text
<1>6. ~QuotingNeeded(v) => d = v
  <2>1. ~QuotingNeeded(v) => Quote \notin ToSet(v)
    BY DEF QuotingNeeded
  <2> QED
    BY <1>1, <2>1, DoubledSame
<1> HIDE DEF v, d, q
<1>7. IsNeedless(f) <=> f.quoted /\ ~QuotingNeeded(v)
  BY DEF IsNeedless, v
<1>8. CASE IsNeedless(f)
  <2>1. Quoted(v) = v /\ FieldText(f) = q /\ d = v
    BY <1>2, <1>3, <1>6, <1>7, <1>8
  <2>2. Len(q) = Len(v) + 2
    BY <1>5, <2>1
  <2>3. q # v
    BY <1>1, <2>2
  <2>4. Len(v) <= Len(q)
    BY <1>1, <2>2
  <2> QED
    BY <1>8, <2>1, <2>3, <2>4 DEF v
<1>9. CASE ~IsNeedless(f)
  <2>1. Quoted(v) = FieldText(f)
    BY <1>2, <1>3, <1>4, <1>7, <1>9
  <2>2. Len(FieldText(f)) \in Nat
    BY <1>1 DEF Text
  <2> QED
    BY <1>9, <2>1, <2>2 DEF v
<1> QED
  BY <1>8, <1>9

(* A date is written in the form of the writer.                            *)
LEMMA DateWritten ==
  ASSUME NEW f \in FieldRead, Tidy(f), NEW w \in DOMAIN Date, f.value = <<w>>,
         ParseDate(Date[w]).error = "none"
  PROVE  LET x == Quoted(<<Serialized(ParseDate(Date[w]))>>) IN
         /\ x \in Text /\ Len(x) <= Len(FieldText(f))
         /\ x = FieldText(f) <=> ~IsNeedless(f) /\ IsNormalDate(Date[w])
<1> DEFINE y == Serialized(ParseDate(Date[w]))
<1>1. y \in DOMAIN Date /\ (y = w <=> IsNormalDate(Date[w]))
  <2>1. Dated(ParseDate(Date[w]))
    BY DEF Dated
  <2> QED
    BY <2>1, SerializedType, OwnTextIs
<1> HIDE DEF y
<1>2. ASSUME NEW u \in DOMAIN Date
      PROVE  <<u>> \in Text /\ ToSet(<<u>>) = {u} /\ ~QuotingNeeded(<<u>>) /\ Quoted(<<u>>) = <<u>>
  <2>1. u \in Char
    BY CharsAreEnough
  <2>2. <<u>> \in Text /\ ToSet(<<u>>) = {u}
    BY <2>1, SinglesAreTexts DEF ToSet
  <2>3. u \notin {Comma, Quote, LF, CR}
    BY DatesAreWords
  <2>4. ~QuotingNeeded(<<u>>)
    BY <2>2, <2>3 DEF QuotingNeeded
  <2> QED
    BY <2>2, <2>4, QuotedIs
<1>3. Quoted(<<y>>) = <<y>> /\ <<y>> \in Text /\ Quoted(f.value) = <<w>> /\ <<w>> \in Text
  BY <1>1, <1>2
<1>4. Len(<<w>>) <= Len(FieldText(f)) /\ (<<w>> = FieldText(f) <=> ~IsNeedless(f))
  BY <1>3, FieldWritten
<1>5. FieldText(f) \in Text
  BY FieldIs
<1>6. Len(<<y>>) = 1 /\ Len(<<w>>) = 1 /\ (<<y>> = <<w>> <=> y = w)
  OBVIOUS
<1>7. <<y>> = FieldText(f) => FieldText(f) = <<w>>
  <2> SUFFICES ASSUME <<y>> = FieldText(f) PROVE FieldText(f) = <<w>>
    OBVIOUS
  <2>1. CASE f.quoted
    <3>1. FieldText(f) = (<<Quote>> \o Doubled(f.value)) \o <<Quote>>
      BY <2>1 DEF FieldText
    <3>2. Doubled(f.value) \in Text
      BY FieldIs, DoubledType
    <3>3. Len((<<Quote>> \o Doubled(f.value)) \o <<Quote>>) >= 2
      BY <3>2, AtomsAreChars DEF Text
    <3> QED
      BY <1>6, <3>1, <3>3
  <2>2. CASE ~f.quoted
    BY <2>2 DEF FieldText
  <2> QED
    BY <2>1, <2>2
<1>8. <<y>> = FieldText(f) <=> ~IsNeedless(f) /\ IsNormalDate(Date[w])
  BY <1>1, <1>4, <1>6, <1>7
<1> QED
  BY <1>3, <1>4, <1>6, <1>8 DEF y

(* Pieces that are no longer than the others, one by one, are no longer    *)
(* when they are put together.                                             *)
LEMMA FlattenShorter ==
  ASSUME NEW S, NEW n \in Nat, NEW s \in Seq(Seq(S)), NEW t \in Seq(Seq(S)),
         Len(s) = n, Len(t) = n, \A k \in 1..n : Len(s[k]) <= Len(t[k])
  PROVE  Len(FlattenSeq(s)) <= Len(FlattenSeq(t))
<1>1. PICK f : IsPartial(f, s, S) /\ FlattenSeq(s) = f[n]
  BY FlattenIs
<1>2. PICK g : IsPartial(g, t, S) /\ FlattenSeq(t) = g[n]
  BY FlattenIs
<1>3. /\ f \in [0..n -> Seq(S)] /\ f[0] = <<>>
      /\ \A k \in 1..n : f[k] = f[k - 1] \o s[k]
  BY <1>1 DEF IsPartial
<1>4. /\ g \in [0..n -> Seq(S)] /\ g[0] = <<>>
      /\ \A k \in 1..n : g[k] = g[k - 1] \o t[k]
  BY <1>2 DEF IsPartial
<1>5. \A k \in 0..n : f[k] \in Seq(S) /\ g[k] \in Seq(S)
  BY <1>3, <1>4
<1>6. \A k \in 1..n : s[k] \in Seq(S) /\ t[k] \in Seq(S)
  BY ElementOfSeq
<1> DEFINE G == {k \in 0..n : Len(f[k]) <= Len(g[k])}
<1>7. 0 \in G
  BY <1>3, <1>4
<1>8. ASSUME NEW k \in 0..(n - 1), k \in G
      PROVE  k + 1 \in G
  <2>1. k + 1 \in 1..n /\ (k + 1) - 1 = k /\ k \in 0..n /\ k + 1 \in 0..n
    OBVIOUS
  <2>2. f[k + 1] = f[k] \o s[k + 1] /\ g[k + 1] = g[k] \o t[k + 1]
    BY <1>3, <1>4, <2>1
  <2> DEFINE u == f[k]
             v == g[k]
             x == s[k + 1]
             y == t[k + 1]
  <2>3. u \in Seq(S) /\ v \in Seq(S) /\ x \in Seq(S) /\ y \in Seq(S)
        /\ Len(u) <= Len(v) /\ Len(x) <= Len(y)
    BY <1>5, <1>6, <1>8, <2>1
  <2>4. f[k + 1] = u \o x /\ g[k + 1] = v \o y
    BY <2>2
  <2> HIDE DEF u, v, x, y
  <2>5. Len(u \o x) = Len(u) + Len(x) /\ Len(v \o y) = Len(v) + Len(y)
        /\ Len(u) \in Nat /\ Len(v) \in Nat /\ Len(x) \in Nat /\ Len(y) \in Nat
    BY <2>3
  <2>6. Len(f[k + 1]) <= Len(g[k + 1])
    BY <2>3, <2>4, <2>5
  <2> QED
    BY <2>1, <2>6
<1> HIDE DEF G
<1>9. \A k \in 0..n : k \in G
  BY <1>7, <1>8, Upwards
<1>10. n \in 0..n
  OBVIOUS
<1> QED
  BY <1>1, <1>2, <1>9, <1>10 DEF G

(* Pieces with the same beginning, or the same end.                        *)
LEMMA SameBeginning ==
  ASSUME NEW a \in Text, NEW u \in Text, NEW v \in Text, Len(u) <= Len(v)
  PROVE  a \o u = a \o v <=> u = v
<1>1. Len(a) \in Nat /\ Len(a) <= Len(a)
  BY DEF Text
<1>2. a \o u = a \o v => u = v
  BY <1>1, JoinSplits DEF Text
<1> QED
  BY <1>2

LEMMA SameEnd ==
  ASSUME NEW b \in Text, NEW u \in Text, NEW v \in Text, Len(u) <= Len(v)
  PROVE  u \o b = v \o b <=> u = v
<1>1. Len(b) \in Nat /\ Len(b) <= Len(b)
  BY DEF Text
<1>2. u \o b = v \o b => u = v
  BY <1>1, JoinSplits DEF Text
<1> QED
  BY <1>2

LEMMA LongerTogether ==
  ASSUME NEW a \in Text, NEW b \in Text, NEW u \in Text, NEW v \in Text,
         Len(a) <= Len(b), Len(u) <= Len(v)
  PROVE  Len(a \o u) <= Len(b \o v)
<1>1. /\ Len(a \o u) = Len(a) + Len(u) /\ Len(b \o v) = Len(b) + Len(v)
      /\ Len(a) \in Nat /\ Len(u) \in Nat /\ Len(v) \in Nat /\ Len(b) \in Nat
  BY DEF Text
<1> QED
  BY <1>1

LEMMA FlattenAgrees ==
  ASSUME NEW n \in Nat, NEW s \in Seq(Text), NEW t \in Seq(Text), Len(s) = n, Len(t) = n,
         \A k \in 1..n : Len(s[k]) <= Len(t[k])
  PROVE  /\ FlattenSeq(s) \in Text /\ FlattenSeq(t) \in Text
         /\ Len(FlattenSeq(s)) <= Len(FlattenSeq(t))
         /\ FlattenSeq(s) = FlattenSeq(t) <=> \A k \in 1..n : s[k] = t[k]
<1>1. s \in Seq(Seq(Char)) /\ t \in Seq(Seq(Char))
  BY DEF Text
<1>2. FlattenSeq(s) \in Text /\ FlattenSeq(t) \in Text
  BY <1>1, FlattenType DEF Text
<1>3. Len(FlattenSeq(s)) <= Len(FlattenSeq(t))
  BY <1>1, FlattenShorter
<1>4. FlattenSeq(s) = FlattenSeq(t) => \A k \in 1..n : s[k] = t[k]
  BY <1>1, FlattenCompares
<1>5. (\A k \in 1..n : s[k] = t[k]) => s = t
  BY SeqEqual
<1> QED
  BY <1>2, <1>3, <1>4, <1>5

(* A row has what is in a record.                                          *)
Copies(r, f) ==
  /\ r.directory = f[1].value /\ r.author = f[3].value
  /\ r.tag = f[4].value /\ r.message = f[5].value
  /\ r.raw = f[2].value /\ r.date = ParseDate(Date[f[2].value[1]])

Untouched(f) ==
  /\ \A c \in 1..5 : ~IsNeedless(f[c])
  /\ IsNormalDate(Date[f[2].value[1]])

LEMMA RecordWritten ==
  ASSUME NEW r, RowOK(r), NEW f \in Seq(FieldRead), Len(f) = 5, Copies(r, f),
         \A c \in 1..5 : Tidy(f[c]),
         NEW w \in DOMAIN Date, f[2].value = <<w>>, ParseDate(Date[w]).error = "none"
  PROVE  LET x == RecordText(f) \o <<LF>> IN
         /\ Line(r) \in Text /\ x \in Text /\ Len(Line(r)) <= Len(x)
         /\ Line(r) = x <=> Untouched(f)
<1> DEFINE P == [c \in 1..5 |-> Before(c) \o Quoted(Fields(r)[c])]
           Q == Parts(f)
           E(c) == Quoted(Fields(r)[c])
           T(c) == FieldText(f[c])
<1>1. /\ Line(r) = FlattenSeq(P) \o <<LF>> /\ RecordText(f) = FlattenSeq(Q)
  BY NFieldsIs DEF Line, RecordText, Before
<1>2. /\ Q \in Seq(Text) /\ Len(Q) = 5 /\ \A c \in 1..5 : Q[c] = Before(c) \o T(c)
  BY PartsAre
<1>3. \A c \in 1..5 : f[c] \in FieldRead /\ T(c) \in Text
  <2>1. \A c \in 1..5 : f[c] \in FieldRead
    BY ElementOfSeq
  <2> QED
    BY <2>1, FieldIs
<1>4. /\ Fields(r)[1] = f[1].value /\ Fields(r)[3] = f[3].value
      /\ Fields(r)[4] = f[4].value /\ Fields(r)[5] = f[5].value
      /\ Fields(r)[2] = <<Serialized(ParseDate(Date[w]))>>
  <2>1. f[2].value[1] = w
    OBVIOUS
  <2>2. r.date = ParseDate(Date[w])
    BY <2>1 DEF Copies
  <2> QED
    BY <2>2 DEF Copies, Fields
<1>5. ASSUME NEW c \in {1, 3, 4, 5}
      PROVE  E(c) \in Text /\ Len(E(c)) <= Len(T(c)) /\ (E(c) = T(c) <=> ~IsNeedless(f[c]))
  <2>1. c \in 1..5 /\ Fields(r)[c] = f[c].value
    BY <1>4
  <2>2. f[c] \in FieldRead /\ Tidy(f[c])
    BY <1>3, <2>1
  <2>3. f[c].value \in Text
    BY <2>2, FieldIs
  <2>4. Quoted(f[c].value) \in Text
    BY <2>3, QuotedType
  <2> QED
    BY <2>1, <2>2, <2>4, FieldWritten
<1>6. /\ E(2) \in Text /\ Len(E(2)) <= Len(T(2))
      /\ E(2) = T(2) <=> ~IsNeedless(f[2]) /\ IsNormalDate(Date[w])
  <2>1. f[2] \in FieldRead /\ Tidy(f[2])
    BY <1>3
  <2> QED
    BY <1>4, <2>1, DateWritten
<1> HIDE DEF E, T
<1>7. ASSUME NEW c \in 1..5
      PROVE  E(c) \in Text /\ Len(E(c)) <= Len(T(c))
  <2>1. c = 2 \/ c \in {1, 3, 4, 5}
    OBVIOUS
  <2> QED
    BY <1>5, <1>6, <2>1
<1>8. Untouched(f) <=> \A c \in 1..5 : E(c) = T(c)
  <2>1. f[2].value[1] = w
    OBVIOUS
  <2>2. Untouched(f) <=> IsNormalDate(Date[w]) /\ \A c \in 1..5 : ~IsNeedless(f[c])
    BY <2>1 DEF Untouched
  <2>3. \A c \in 1..5 : c = 2 \/ c \in {1, 3, 4, 5}
    OBVIOUS
  <2> QED
    BY <1>5, <1>6, <2>2, <2>3, SMTT(40)
<1>9. \A c \in 1..5 : P[c] = Before(c) \o E(c)
  BY DEF E
<1>10. ASSUME NEW c \in 1..5
       PROVE  P[c] \in Text /\ Len(P[c]) <= Len(Q[c]) /\ (P[c] = Q[c] <=> E(c) = T(c))
  <2> DEFINE a == Before(c)
             u == E(c)
             v == T(c)
  <2>1. a \in Text /\ u \in Text /\ v \in Text /\ Len(u) <= Len(v)
    BY <1>3, <1>7, BeforeType
  <2>2. P[c] = a \o u /\ Q[c] = a \o v
    BY <1>2, <1>9
  <2> HIDE DEF a, u, v, P, Q
  <2>3. a \o u \in Text
    BY <2>1, SinglesAreTexts
  <2>4. a \o u = a \o v <=> u = v
    BY <2>1, SameBeginning
  <2>5. Len(a) <= Len(a)
    BY <2>1 DEF Text
  <2>6. Len(a \o u) <= Len(a \o v)
    BY <2>1, <2>5, LongerTogether
  <2> QED
    BY <2>2, <2>3, <2>4, <2>6 DEF u, v
<1>11. P \in Seq(Text) /\ Len(P) = 5
  <2> DEFINE m == 5
  <2>1. P \in [1..m -> Text] /\ m \in Nat
    BY <1>10
  <2> HIDE DEF P, m
  <2>2. P \in Seq(Text) /\ Len(P) = m
    BY <2>1, ListsAre
  <2> QED
    BY <2>2 DEF m
<1> HIDE DEF P, Q
<1>12. /\ FlattenSeq(P) \in Text /\ FlattenSeq(Q) \in Text
       /\ Len(FlattenSeq(P)) <= Len(FlattenSeq(Q))
       /\ FlattenSeq(P) = FlattenSeq(Q) <=> \A c \in 1..5 : P[c] = Q[c]
  <2> DEFINE m == 5
  <2>1. /\ P \in Seq(Text) /\ Q \in Seq(Text) /\ m \in Nat /\ Len(P) = m /\ Len(Q) = m
        /\ \A c \in 1..m : Len(P[c]) <= Len(Q[c])
    BY <1>2, <1>10, <1>11
  <2> HIDE DEF m
  <2>2. /\ FlattenSeq(P) \in Text /\ FlattenSeq(Q) \in Text
        /\ Len(FlattenSeq(P)) <= Len(FlattenSeq(Q))
        /\ FlattenSeq(P) = FlattenSeq(Q) <=> \A c \in 1..m : P[c] = Q[c]
    BY <2>1, FlattenAgrees
  <2> QED
    BY <2>2 DEF m
<1> DEFINE A == FlattenSeq(P)
           B == FlattenSeq(Q)
           z == <<LF>>
<1>15. A \in Text /\ B \in Text /\ Len(A) <= Len(B) /\ z \in Text
  BY <1>12, AtomsAreChars, SinglesAreTexts
<1>16. Line(r) = A \o z /\ RecordText(f) \o <<LF>> = B \o z
  BY <1>1
<1>17. A = B <=> Untouched(f)
  BY <1>8, <1>10, <1>12
<1> HIDE DEF A, B, z
<1>18. /\ A \o z \in Text /\ B \o z \in Text
       /\ Len(A \o z) <= Len(B \o z) /\ (A \o z = B \o z <=> A = B)
  <2>1. A \o z \in Text /\ B \o z \in Text
    BY <1>15, SinglesAreTexts
  <2>2. A \o z = B \o z <=> A = B
    BY <1>15, SameEnd
  <2>3. Len(z) <= Len(z)
    BY <1>15 DEF Text
  <2>4. Len(A \o z) <= Len(B \o z)
    BY <1>15, <2>3, LongerTogether
  <2> QED
    BY <2>1, <2>2, <2>4
<1> QED
  BY <1>16, <1>17, <1>18

(* A row has the values of a record, and its date is the record's.         *)
CopiedRow(r, f) ==
  /\ RowOK(r) /\ Len(f) = 5 /\ Copies(r, f)
  /\ Len(f[2].value) = 1 /\ f[2].value[1] \in DOMAIN Date
  /\ ParseDate(Date[f[2].value[1]]).error = "none"

TidyRecord(f) == \A c \in 1..Len(f) : Tidy(f[c])

LEMMA RowsWritten ==
  ASSUME NEW n \in Nat, NEW Q \in Seq(RowRead), Len(Q) = n,
         NEW R \in Seq(Seq(FieldRead)), Len(R) = n,
         \A k \in 1..n : CopiedRow(Q[k], R[k]) /\ TidyRecord(R[k])
  PROVE  Written(Q) = RecordsText(R) <=> \A k \in 1..n : Untouched(R[k])
<1> DEFINE s == [k \in 1..n |-> Line(Q[k])]
           t == Lines(R)
<1>1. /\ Written(Q) = FlattenSeq(s) /\ RecordsText(R) = FlattenSeq(t)
  <2>1. DOMAIN Q = 1..n
    OBVIOUS
  <2> QED
    BY <2>1 DEF Written, RecordsText
<1>2. /\ t \in Seq(Text) /\ Len(t) = n
      /\ \A k \in 1..n : t[k] = RecordText(R[k]) \o <<LF>>
  BY LinesAreRecords
<1>3. \A k \in 1..n : R[k] \in Seq(FieldRead)
  BY ElementOfSeq
<1> HIDE DEF t
<1>4. ASSUME NEW k \in 1..n
      PROVE  /\ s[k] \in Text /\ Len(s[k]) <= Len(t[k])
             /\ s[k] = t[k] <=> Untouched(R[k])
  <2> DEFINE f == R[k]
             r == Q[k]
             w == f[2].value[1]
  <2>1. /\ RowOK(r) /\ f \in Seq(FieldRead) /\ Len(f) = 5 /\ Copies(r, f)
        /\ w \in DOMAIN Date /\ ParseDate(Date[w]).error = "none" /\ Len(f[2].value) = 1
    BY <1>3 DEF CopiedRow
  <2>2. \A c \in 1..5 : Tidy(f[c])
    BY <2>1 DEF TidyRecord
  <2>3. s[k] = Line(r) /\ t[k] = RecordText(f) \o <<LF>>
    BY <1>2
  <2> HIDE DEF f, r, s
  <2>4. f[2].value = <<w>>
    <3>0. 2 \in 1..Len(f)
      BY <2>1
    <3>1. f[2] \in FieldRead
      BY <2>1, <3>0, ElementOfSeq
    <3>2. f[2].value \in Text
      BY <3>1, FieldIs
    <3> QED
      BY <2>1, <3>2 DEF Text
  <2> HIDE DEF w
  <2> DEFINE x == RecordText(f) \o <<LF>>
  <2>5. /\ Line(r) \in Text /\ x \in Text /\ Len(Line(r)) <= Len(x)
        /\ Line(r) = x <=> Untouched(f)
    BY <2>1, <2>2, <2>4, RecordWritten
  <2> HIDE DEF x
  <2>6. t[k] = x
    BY <2>3 DEF x
  <2> QED
    BY <2>3, <2>5, <2>6 DEF f
<1>5. s \in [1..n -> Text]
  BY <1>4
<1> HIDE DEF s
<1>6. s \in Seq(Text) /\ Len(s) = n
  BY <1>5, ListsAre
<1>7. FlattenSeq(s) = FlattenSeq(t) <=> \A k \in 1..n : s[k] = t[k]
  <2>1. \A k \in 1..n : Len(s[k]) <= Len(t[k])
    BY <1>4
  <2> QED
    BY <1>2, <1>6, <2>1, FlattenAgrees
<1> QED
  BY <1>1, <1>4, <1>7

(* What is written holds no carriage return, and ends in a line feed.      *)
Plain == Char \ {CR}

LEMMA PlainIs ==
  ASSUME NEW v \in Text
  PROVE  v \in Seq(Plain) <=> CR \notin ToSet(v)
<1>1. Len(v) \in Nat /\ DOMAIN v = 1..Len(v) /\ v \in [1..Len(v) -> Char]
  BY DEF Text
<1>2. ASSUME v \in Seq(Plain)
      PROVE  CR \notin ToSet(v)
  <2>1. \A k \in 1..Len(v) : v[k] \in Plain
    BY <1>2, ElementOfSeq
  <2> QED
    BY <1>1, <2>1 DEF ToSet, Plain
<1>3. ASSUME CR \notin ToSet(v)
      PROVE  v \in Seq(Plain)
  <2>1. \A k \in 1..Len(v) : v[k] \in Plain
    BY <1>1, <1>3 DEF ToSet, Plain
  <2>2. v \in [1..Len(v) -> Plain]
    BY <1>1, <2>1
  <2> QED
    BY <1>1, <2>2, ListsAre
<1> QED
  BY <1>2, <1>3

LEMMA PlainTexts ==
  /\ Quote \in Plain /\ Comma \in Plain /\ LF \in Plain /\ DOMAIN Date \subseteq Plain
  /\ \A x \in Plain : <<x>> \in Seq(Plain) /\ <<x, x>> \in Seq(Plain)
  /\ \A u, v \in Seq(Plain) : u \o v \in Seq(Plain)
  /\ <<>> \in Seq(Plain)
<1>1. /\ Quote \in Plain /\ Comma \in Plain /\ LF \in Plain /\ DOMAIN Date \subseteq Plain
  BY CharsDiffer, CharsAreEnough, DatesAreWords DEF Plain
<1> QED
  BY <1>1

LEMMA QuotedPlain ==
  ASSUME NEW v \in Seq(Plain)
  PROVE  Quoted(v) \in Seq(Plain)
<1> DEFINE m == [k \in DOMAIN v |-> Doubling(v[k])]
<1>1. Len(v) \in Nat /\ DOMAIN v = 1..Len(v)
  OBVIOUS
<1>2. \A k \in 1..Len(v) : v[k] \in Plain
  BY ElementOfSeq
<1>3. \A k \in 1..Len(v) : Doubling(v[k]) \in Seq(Plain)
  BY <1>2, PlainTexts DEF Doubling
<1>4. m \in [1..Len(v) -> Seq(Plain)]
  BY <1>1, <1>3
<1>5. FlattenSeq(m) \in Seq(Plain)
  BY <1>1, <1>4, ListsAre, FlattenType
<1>6. Doubled(v) \in Seq(Plain)
  BY <1>5 DEF Doubled
<1>7. (<<Quote>> \o Doubled(v)) \o <<Quote>> \in Seq(Plain)
  BY <1>6, PlainTexts
<1> QED
  BY <1>7, QuotedIs

LEMMA LinePlain ==
  ASSUME NEW r, RowOK(r), \A c \in 1..5 : Fields(r)[c] \in Seq(Plain)
  PROVE  \E x \in Seq(Plain) : Line(r) = x \o <<LF>>
<1> DEFINE P == [c \in 1..5 |-> Before(c) \o Quoted(Fields(r)[c])]
<1>1. \A c \in 1..5 : Before(c) \in Seq(Plain)
  BY PlainTexts DEF Before
<1>2. \A c \in 1..5 : Quoted(Fields(r)[c]) \in Seq(Plain)
  BY QuotedPlain
<1>3. \A c \in 1..5 : Before(c) \o Quoted(Fields(r)[c]) \in Seq(Plain)
  BY <1>1, <1>2, PlainTexts
<1>4. P \in [1..5 -> Seq(Plain)] /\ 5 \in Nat
  BY <1>3
<1>5. Line(r) = FlattenSeq(P) \o <<LF>>
  BY NFieldsIs DEF Line, Before
<1> HIDE DEF P
<1>6. FlattenSeq(P) \in Seq(Plain)
  BY <1>4, ListsAre, FlattenType
<1> QED
  BY <1>5, <1>6

LEMMA LastOfJoin ==
  ASSUME NEW S, NEW u \in Seq(S), NEW x \in Seq(S), NEW y \in S
  PROVE  LET z == u \o (x \o <<y>>) IN z \in Seq(S) /\ Len(z) >= 1 /\ z[Len(z)] = y
<1> DEFINE w == x \o <<y>>
<1>1. w \in Seq(S) /\ Len(w) \in Nat /\ Len(w) >= 1 /\ w[Len(w)] = y
  OBVIOUS
<1> HIDE DEF w
<1> DEFINE z == u \o w
<1>2. z \in Seq(S) /\ Len(z) = Len(u) + Len(w) /\ Len(u) \in Nat /\ z[Len(u) + Len(w)] = w[Len(w)]
  BY <1>1
<1> HIDE DEF z
<1>3. z \in Seq(S) /\ Len(z) >= 1 /\ z[Len(z)] = y
  BY <1>1, <1>2
<1> QED
  BY <1>3 DEF z, w

LEMMA WrittenPlain ==
  ASSUME NEW n \in Nat, n >= 1, NEW Q \in Seq(RowRead), Len(Q) = n,
         \A k \in 1..n : RowOK(Q[k]) /\ \A c \in 1..5 : Fields(Q[k])[c] \in Seq(Plain)
  PROVE  LET t == Written(Q) IN t \in Seq(Plain) /\ Len(t) >= 1 /\ t[Len(t)] = LF
<1> DEFINE s == [k \in 1..n |-> Line(Q[k])]
           m == n - 1
           a == SubSeq(s, 1, m)
           t == Written(Q)
<1>1. t = FlattenSeq(s)
  <2>1. DOMAIN Q = 1..n
    OBVIOUS
  <2> QED
    BY <2>1 DEF Written
<1>2. \A k \in 1..n : \E x \in Seq(Plain) : s[k] = x \o <<LF>>
  BY LinePlain
<1>3. \A k \in 1..n : s[k] \in Seq(Plain)
  BY <1>2, PlainTexts, ZenonT(60)
<1>4. s \in [1..n -> Seq(Plain)]
  BY <1>3
<1> HIDE DEF s, t
<1>5. s \in Seq(Seq(Plain)) /\ Len(s) = n
  BY <1>4, ListsAre
<1>6. m \in Nat /\ m + 1 = n /\ n \in 1..n
  OBVIOUS
<1>7. a \in Seq(Seq(Plain)) /\ Len(a) = m /\ \A k \in 1..m : s[k] = a[k]
  BY <1>5, <1>6
<1> HIDE DEF a, m
<1>8. FlattenSeq(s) = FlattenSeq(a) \o s[m + 1]
  <2>1. s \in Seq(Seq(Plain)) /\ Len(s) = m + 1 /\ m \in Nat
    BY <1>5, <1>6
  <2>2. a \in Seq(Seq(Plain)) /\ Len(a) = m
    BY <1>7
  <2>3. \A k \in 1..m : s[k] = a[k]
    BY <1>7
  <2> QED
    BY <2>1, <2>2, <2>3, FlattenGrows
<1>9. FlattenSeq(a) \in Seq(Plain)
  BY <1>7, FlattenType
<1>10. PICK x \in Seq(Plain) : s[n] = x \o <<LF>>
  BY <1>2, <1>6
<1> DEFINE u == FlattenSeq(a)
<1>11. t = u \o (x \o <<LF>>)
  BY <1>1, <1>6, <1>8, <1>10
<1> HIDE DEF u
<1>12. t \in Seq(Plain) /\ Len(t) >= 1 /\ t[Len(t)] = LF
  BY <1>9, <1>11, PlainTexts, LastOfJoin DEF u
<1> QED
  BY <1>12 DEF t

-----------------------------------------------------------------------------
(* Writing what was accepted                                               *)

AllRecordsTidy(R) == \A n \in 1..Len(R) : TidyRecord(R[n])

(* The records are a text when it has line feeds alone, one at its end.    *)
SourceIs(t, R) == CR \notin ToSet(t) /\ Len(t) >= 1 /\ t[Len(t)] = LF => t = RecordsText(R)

LEMMA SoFarDone ==
  ASSUME NEW s \in Locals, s.cur = <<>>, OpenText(s) = <<>>
  PROVE  SoFar(s) = RecordsText(s.records)
<1>1. RecordsText(s.records) \in Text /\ Len(<<>>) + 1 = 1
  BY SoFarParts
<1>2. RecordText(s.cur) = <<>> /\ Before(Len(s.cur) + 1) = <<>>
  BY <1>1, NothingSoFar DEF Before
<1>3. /\ <<>> \o (<<>> \o <<>>) = <<>>
      /\ RecordsText(s.records) \o <<>> = RecordsText(s.records)
  BY <1>1, JoinTexts
<1> QED
  BY <1>2, <1>3 DEF SoFar

LEMMA StartCopies ==
  ASSUME NEW t \in Text
  PROVE  CopyScan(t, 1, NewScan)
<1> DEFINE s == NewScan
<1>1. s \in Locals
  BY NewScanType DEF ScanOK
<1>2. /\ s.cur = <<>> /\ s.val = <<>> /\ s.inQuotes = FALSE /\ s.quoted = FALSE /\ s.records = <<>>
  BY DEF NewScan
<1> HIDE DEF s
<1>3. OpenText(s) = <<>>
  BY <1>2, EmptyOpen
<1>4. SoFar(s) = <<>>
  BY <1>1, <1>2, <1>3, SoFarDone, NothingSoFar
<1>5. Behind(t, 1) = <<>>
  BY DEF Behind, Text
<1>6. FieldOf(s).value = <<>>
  BY <1>2 DEF FieldOf
<1>7. Len(<<>>) = 0 /\ 1..0 = {}
  OBVIOUS
<1>8. AllTidy(s)
  BY <1>2, <1>6, <1>7, EmptyTidy DEF AllTidy
<1>9. CopyScan(t, 1, s)
  BY <1>2, <1>4, <1>5, <1>8 DEF CopyScan, Copied, Waits
<1> QED
  BY <1>9 DEF s

LEMMA EndCopies ==
  ASSUME TInv, ScanInv, EndOfText, scan'.errors = {}, scan.errors = {} => CopyScan(text, i, scan)
  PROVE  AllRecordsTidy(scan'.records) /\ SourceIs(text, scan'.records)
<1> DEFINE s == scan
           L == Len(text)
           t == text
<1>1. /\ s \in Locals /\ s.inQuotes \in BOOLEAN /\ s.quoted \in BOOLEAN /\ t \in Text
      /\ L \in Nat /\ (L + 1) - 1 = L /\ pc = "scan" /\ i = L + 1 /\ scan' = Scanned(s)
  BY LocalsAre, TextIs DEF TInv, ScanOK, EndOfText
<1>2. ~s.inQuotes
  <2> SUFFICES ASSUME s.inQuotes PROVE FALSE
    BY <1>1
  <2> DEFINE f == Err(s)
  <2>1. f \in Locals /\ f.errors = s.errors \cup {Len(s.records) + 1}
    BY <1>1, ErrIs
  <2>2. scan' = EmitRecord(EndField(f))
    BY <1>1 DEF Scanned
  <2> HIDE DEF f
  <2>3. scan'.errors = f.errors
    BY <2>1, <2>2, LineEndIs
  <2> QED
    BY <2>1, <2>3
<1>3. scan' = IF Blank(s) THEN s ELSE EmitRecord(EndField(s))
  BY <1>1, <1>2 DEF Scanned
<1>4. s.errors = {}
  BY <1>1, <1>3, LineEndIs
<1>5. /\ AllTidy(s) /\ Copied(t, L + 1, s) /\ Flags(t, L + 1, s)
  BY <1>1, <1>4 DEF CopyScan, ScanInv, Clean
<1>6. AllTidy(scan')
  BY <1>1, <1>3, <1>5, LineTidy
<1>7. AllRecordsTidy(scan'.records)
  BY <1>6 DEF AllTidy, AllRecordsTidy, TidyRecord
<1>8. ASSUME CR \notin ToSet(t), L >= 1, t[L] = LF
      PROVE  t = RecordsText(scan'.records)
  <2>1. LineCanStart(t, L + 1) /\ FieldCanStart(t, L + 1)
    BY <1>1, <1>8 DEF LineCanStart, FieldCanStart
  <2>2. Blank(s) /\ s.val = <<>> /\ ~s.quoted
    BY <1>2, <1>5, <2>1 DEF Flags
  <2>3. s.cur = <<>> /\ scan' = s /\ s.quoted = FALSE /\ s.inQuotes = FALSE
    BY <1>1, <1>2, <1>3, <2>2 DEF Blank
  <2>4. OpenText(s) = <<>>
    BY <2>2, <2>3, EmptyOpen
  <2>5. SoFar(s) = RecordsText(s.records)
    BY <1>1, <2>3, <2>4, SoFarDone
  <2>6. Behind(t, L + 1) = SoFar(s)
    BY <1>5, <1>8 DEF Copied
  <2>7. Behind(t, L + 1) = t
    BY <1>1 DEF Behind, Text
  <2> QED
    BY <2>3, <2>5, <2>6, <2>7
<1> QED
  BY <1>7, <1>8 DEF SourceIs

Noted == Diag("CSV-FIELD", "INFO", 0) \in diags
NotedRecord(f) == \E c \in 1..5 : IsNeedless(f[c])

(* The rows so far, and what the reader noted of their quotes.             *)
RowsCopy(n) ==
  /\ AllRecordsTidy(scan.records) /\ SourceIs(text, scan.records)
  /\ \A k \in 1..n : CopiedRow(rows[k], scan.records[k])
  /\ Noted <=> \E k \in 1..n : NotedRecord(scan.records[k])

LEMMA NotesOfRow ==
  ASSUME Values = [k \in 1..5 |-> Record[k].value], NEW p
  PROVE  Diag("CSV-FIELD", "INFO", 0) \in RowDiags(Values, p) <=> NotedRecord(Record)
<1> DEFINE x == Diag("CSV-FIELD", "INFO", 0)
           v == Values
           a == UNION {{Fail(code, at) : code \in FieldErrors(c, v[c])} : c \in Validated}
           b == {Fail("CSV-FIELD", at) : c \in {k \in 1..4 : Record[k].newline}}
           e == When(p.error # "none", {Fail(p.error, at)})
           f == When(IsFuture(p), {Fail("CSV-DATE", at)})
           g == When(IsLate(p), {Diag("CSV-DATE-ORDER", "WARN", at)})
           h == When(\E k \in 1..NFields : Record[k].quoted /\ ~QuotingNeeded(v[k]), {x})
<1>1. RowDiags(v, p) = a \cup b \cup e \cup f \cup g \cup h
  BY DEF RowDiags
<1>2. /\ \A code, row : x # Fail(code, row)
      /\ \A code, row : x # Diag(code, "WARN", row)
  <2>1. x.severity = "INFO"
    BY DEF Diag
  <2>2. /\ \A code, row : Fail(code, row).severity = "FAIL"
        /\ \A code, row : Diag(code, "WARN", row).severity = "WARN"
    BY DEF Diag, Fail
  <2>3. "INFO" # "FAIL" /\ "INFO" # "WARN"
    OBVIOUS
  <2> HIDE DEF x
  <2> QED
    BY <2>1, <2>2, <2>3
<1>3. h = IF \E k \in 1..5 : Record[k].quoted /\ ~QuotingNeeded(v[k]) THEN {x} ELSE {}
  BY NFieldsIs DEF When
<1> HIDE DEF x
<1>4. x \notin a /\ x \notin b
  BY <1>2
<1>5. x \notin e /\ x \notin f /\ x \notin g
  BY <1>2 DEF When
<1> HIDE DEF a, b, e, f, g, h
<1>6. x \in h <=> \E k \in 1..5 : Record[k].quoted /\ ~QuotingNeeded(v[k])
  BY <1>3
<1>7. \A k \in 1..5 : v[k] = Record[k].value
  OBVIOUS
<1> HIDE DEF v
<1>8. NotedRecord(Record) <=> \E k \in 1..5 : Record[k].quoted /\ ~QuotingNeeded(v[k])
  BY <1>7 DEF NotedRecord, IsNeedless
<1> QED
  BY <1>1, <1>4, <1>5, <1>6, <1>8 DEF x, v

(* A record that is accepted is copied.                                    *)
LEMMA RecordCopied ==
  ASSUME TInv, at <= Len(scan.records), Len(Record) = 5, RowOK(RowMade),
         ConformsRow(Values), DateRead.error = "none"
  PROVE  CopiedRow(RowMade, Record)
<1>1. \A k \in 1..5 : Values[k] = Record[k].value /\ Values[k] \in Text
  BY RecordType
<1> DEFINE v == Values
           w == v[2][1]
<1>2. Len(v[2]) = 1 /\ IsCanonicalDate(w)
  BY DEF ConformsRow
<1>3. w \in DOMAIN Date
  BY <1>2 DEF IsCanonicalDate
<1>4. DateRead = ParseDate(Date[w])
  <2>1. v[2] # <<>>
    BY <1>2
  <2>2. DateLiteral(v[2]) = Date[w]
    BY <1>2, <1>3, <2>1 DEF DateLiteral
  <2> QED
    BY <2>2 DEF DateRead
<1>5. /\ RowMade.directory = v[1] /\ RowMade.author = v[3] /\ RowMade.tag = v[4] /\ RowMade.message = v[5]
      /\ RowMade.raw = v[2] /\ RowMade.date = DateRead
  BY DEF RowMade, Row
<1> HIDE DEF v, w
<1>6. w = Record[2].value[1] /\ Len(Record[2].value) = 1
  BY <1>1, <1>2 DEF v, w
<1>7. Copies(RowMade, Record)
  BY <1>1, <1>4, <1>5, <1>6 DEF Copies, v
<1> QED
  BY <1>3, <1>4, <1>6, <1>7 DEF CopiedRow

LEMMA ReadCopies ==
  ASSUME TInv, ContractInv, ReadRow, Accepted', Accepted => RowsCopy(at - 1)
  PROVE  RowsCopy(at - 1)'
<1>1. /\ pc = "rows" /\ profile = "canonical" /\ at <= Len(scan.records) /\ Len(Record) = 5 /\ at' = at + 1
      /\ UNCHANGED <<file, profile, reference, scan>>
      /\ diags' = diags \cup RowDiags(Values, DateRead)
      /\ rows' = IF IsRefused THEN rows ELSE Append(rows, RowMade)
  BY ReadRowIs, NFieldsIs DEF Reading
<1>2. VerdictSoFar /\ AllMarked(scan)
  BY <1>1 DEF ContractInv
<1>3. Accepted /\ NoFails(RowDiags(Values, DateRead))
  BY <1>1 DEF Accepted, NoFails
<1>4. ConformsRow(Values) /\ ~IsRefused
  BY <1>1, <1>2, <1>3, RowAccepted DEF VerdictSoFar
<1>5. /\ at \in 1..Len(scan.records) /\ at \in Nat /\ Len(scan.records) \in Nat
      /\ (\A k \in 1..5 : Values[k] \in Text)
      /\ Values = [k \in 1..5 |-> Record[k].value]
      /\ Record = scan.records[at]
  BY <1>1, RecordType, LocalsAre DEF TInv, ScanOK, Record
<1>6. DateRead.error = "none"
  BY <1>4 DEF IsRefused
<1>7. RowOK(RowMade)
  <2>1. DateRead \in Moment /\ Dated(DateRead)
    BY <1>5, <1>6, DatedIs DEF DateRead
  <2> QED
    BY <1>5, <1>6, <2>1, NotesAre, RowType DEF RowMade
<1>8. CopiedRow(RowMade, Record)
  BY <1>1, <1>4, <1>6, <1>7, RecordCopied
<1>9. /\ Len(rows) = at - 1 /\ (at - 1) + 1 = at
      /\ \A k \in 1..(at - 1) : rows'[k] = rows[k]
      /\ rows'[at] = RowMade
  <2>1. Len(rows) = at - 1
    BY <1>2, <1>3 DEF VerdictSoFar, RowsMatch
  <2>2. rows' = Append(rows, RowMade)
    BY <1>1, <1>4
  <2>3. /\ \A k \in 1..Len(rows) : rows'[k] = rows[k]
        /\ rows'[Len(rows) + 1] = RowMade
    BY <1>7, <2>2, AppendRow
  <2>4. (at - 1) + 1 = at
    BY <1>5
  <2> QED
    BY <2>1, <2>3, <2>4
<1>10. at' - 1 = at /\ at \in 1..at /\ (\A k \in 1..at : k \in 1..(at - 1) \/ k = at)
       /\ \A k \in 1..(at - 1) : k \in 1..at
  BY <1>1, <1>5
<1>11. RowsCopy(at - 1)
  BY <1>3
<1>12. AllRecordsTidy(scan'.records) /\ SourceIs(text', scan'.records)
  BY <1>1, <1>11 DEF RowsCopy, text
<1>13. \A k \in 1..at : CopiedRow(rows'[k], scan'.records[k])
  BY <1>1, <1>5, <1>8, <1>9, <1>10, <1>11 DEF RowsCopy
<1>14. Noted' <=> Noted \/ NotedRecord(Record)
  BY <1>1, <1>5, NotesOfRow DEF Noted
<1>15. Noted' <=> \E k \in 1..at : NotedRecord(scan'.records[k])
  <2>1. Noted <=> \E k \in 1..(at - 1) : NotedRecord(scan.records[k])
    BY <1>11 DEF RowsCopy
  <2>2. scan' = scan
    BY <1>1
  <2> QED
    BY <1>5, <1>10, <1>14, <2>1, <2>2
<1> QED
  BY <1>10, <1>12, <1>13, <1>15 DEF RowsCopy

LEMMA SameBytesAtEnd ==
  ASSUME TInv, VerdictSoFar, ScanDone, pc = "rows", at > Len(scan.records), Accepted, RowsCopy(at - 1)
  PROVE  Written(rows) = text <=>
           /\ ~Noted
           /\ CR \notin ToSet(text)
           /\ text[Len(text)] = LF
           /\ \A n \in DOMAIN rows : IsNormalDate(Date[rows[n].raw[1]])
<1> DEFINE R == scan.records
           n == Len(R)
           t == text
           W == Written(rows)
<1>1. /\ R \in Seq(Seq(FieldRead)) /\ n \in Nat /\ t \in Text /\ n >= 1 /\ at - 1 = n
  <2>1. R \in Seq(Seq(FieldRead)) /\ n \in Nat /\ t \in Text /\ R # <<>> /\ at \in 1..(n + 1)
    BY LocalsAre DEF TInv, ScanOK, VerdictSoFar
  <2>2. n >= 1
    BY <2>1
  <2> HIDE DEF n
  <2>3. at - 1 = n
    BY <2>1 DEF n
  <2> QED
    BY <2>1, <2>2, <2>3
<1>2. /\ rows \in Seq(RowRead) /\ Len(rows) = n /\ DOMAIN rows = 1..n
      /\ \A k \in 1..n : CopiedRow(rows[k], R[k]) /\ TidyRecord(R[k])
      /\ SourceIs(t, R)
      /\ Noted <=> \E k \in 1..n : NotedRecord(R[k])
  <2>1. rows \in Seq(RowRead)
    BY DEF TInv
  <2>2. Len(rows) = n
    BY <1>1 DEF VerdictSoFar, RowsMatch
  <2>3. DOMAIN rows = 1..n
    BY <2>1, <2>2
  <2> QED
    BY <1>1, <2>1, <2>2, <2>3 DEF RowsCopy, AllRecordsTidy
<1>3. t # <<>> /\ Len(t) \in Nat /\ Len(t) >= 1
  <2>1. WellFormed(t)
    BY DEF VerdictSoFar, ScanDone
  <2>2. DOMAIN Split(t) = DOMAIN R
    <3>1. [r \in DOMAIN R |-> ValuesIn(R[r])] = Split(t)
      BY <2>1 DEF ScanDone
    <3> QED
      BY <3>1
  <2>3. DOMAIN R = 1..n
    BY <1>1
  <2>4. 1 \in DOMAIN Split(t)
    BY <1>1, <2>2, <2>3
  <2>5. t # <<>>
    <3>1. 1..0 = {}
      OBVIOUS
    <3> QED
      BY <1>1, <2>4, <3>1, LinesAre
  <2> QED
    BY <1>1, <2>5 DEF Text
<1>4. \A k \in 1..n : R[k] \in Seq(FieldRead)
  BY <1>1, ElementOfSeq
<1>5. ASSUME NEW k \in 1..n
      PROVE  /\ Untouched(R[k]) <=> ~NotedRecord(R[k]) /\ IsNormalDate(Date[rows[k].raw[1]])
             /\ RowOK(rows[k])
             /\ \A c \in 1..5 : Fields(rows[k])[c] \in Seq(Plain)
  <2> DEFINE f == R[k]
             r == rows[k]
             w == f[2].value[1]
  <2>1. /\ RowOK(r) /\ f \in Seq(FieldRead) /\ Len(f) = 5 /\ Copies(r, f)
        /\ w \in DOMAIN Date /\ ParseDate(Date[w]).error = "none"
    BY <1>2, <1>4 DEF CopiedRow
  <2>2. \A c \in 1..5 : Tidy(f[c])
    BY <1>2, <2>1 DEF TidyRecord
  <2> HIDE DEF f, r
  <2>3. r.raw[1] = w
    BY <2>1 DEF Copies
  <2>4. Untouched(f) <=> ~NotedRecord(f) /\ IsNormalDate(Date[r.raw[1]])
    BY <2>3 DEF Untouched, NotedRecord
  <2>5. \A c \in 1..5 : f[c].value \in Seq(Plain)
    <3> SUFFICES ASSUME NEW c \in 1..5 PROVE f[c].value \in Seq(Plain)
      OBVIOUS
    <3>1. f[c] \in FieldRead
      BY <2>1, ElementOfSeq
    <3>2. f[c].value \in Text
      BY <3>1, FieldIs
    <3>3. CR \notin ToSet(f[c].value)
      BY <2>2 DEF Tidy
    <3> QED
      BY <3>2, <3>3, PlainIs
  <2>6. <<Serialized(r.date)>> \in Seq(Plain)
    <3>1. Serialized(r.date) \in DOMAIN Date
      BY <2>1, SerializedType DEF RowOK
    <3> QED
      BY <3>1, PlainTexts
  <2>7. ASSUME NEW c \in 1..5
        PROVE  Fields(r)[c] \in Seq(Plain)
    <3>1. /\ Fields(r)[1] = f[1].value /\ Fields(r)[3] = f[3].value
          /\ Fields(r)[4] = f[4].value /\ Fields(r)[5] = f[5].value
          /\ Fields(r)[2] = <<Serialized(r.date)>>
      BY <2>1 DEF Copies, Fields
    <3>2. c = 1 \/ c = 2 \/ c = 3 \/ c = 4 \/ c = 5
      OBVIOUS
    <3>3. /\ f[1].value \in Seq(Plain) /\ f[3].value \in Seq(Plain)
          /\ f[4].value \in Seq(Plain) /\ f[5].value \in Seq(Plain)
      BY <2>5
    <3> QED
      BY <2>6, <3>1, <3>2, <3>3
  <2> QED
    BY <2>1, <2>4, <2>7, SMTT(40) DEF f, r
<1>6. W = RecordsText(R) <=> \A k \in 1..n : Untouched(R[k])
  <2> HIDE DEF n, R
  <2>1. Len(R) = n
    BY DEF n
  <2> QED
    BY <1>1, <1>2, <2>1, RowsWritten
<1>7. W \in Seq(Plain) /\ W[Len(W)] = LF /\ W \in Text
  <2> HIDE DEF n
  <2>1. W \in Seq(Plain) /\ W[Len(W)] = LF
    BY <1>1, <1>2, <1>5, WrittenPlain
  <2>2. W \in Text
    BY <1>2, <1>5, WrittenType
  <2> QED
    BY <2>1, <2>2
<1>8. W = t => CR \notin ToSet(t) /\ t[Len(t)] = LF
  BY <1>1, <1>7, PlainIs
<1> HIDE DEF W, R, n
<1>9. CR \notin ToSet(t) /\ t[Len(t)] = LF => t = RecordsText(R)
  BY <1>2, <1>3 DEF SourceIs
<1>10. (\A k \in 1..n : Untouched(R[k])) <=>
         ~Noted /\ \A k \in DOMAIN rows : IsNormalDate(Date[rows[k].raw[1]])
  BY <1>2, <1>5
<1>11. W = t <=> /\ ~Noted /\ CR \notin ToSet(t) /\ t[Len(t)] = LF
                 /\ \A k \in DOMAIN rows : IsNormalDate(Date[rows[k].raw[1]])
  BY <1>6, <1>8, <1>9, <1>10
<1> QED
  BY <1>11 DEF W

CopyInv ==
  /\ pc = "scan" /\ scan.errors = {} => CopyScan(text, i, scan)
  /\ pc = "rows" /\ profile = "canonical" /\ Accepted => RowsCopy(at - 1)
  /\ SameBytes

LEMMA NotAtEnd == pc # "done" => SameBytes
BY DEF SameBytes, IsRead

LEMMA EndStarts ==
  ASSUME TInv, ScanInv, ContractInv, ContractInv', CopyInv, EndOfText,
         pc' = "rows", profile' = "canonical", Accepted'
  PROVE  RowsCopy(at - 1)'
<1>1. /\ pc = "scan" /\ at' = at /\ at = 1 /\ diags = {} /\ profile = "canonical" /\ text' = text
  BY DEF EndOfText, ContractInv, text
<1>2. scan'.errors = {}
  BY DEF ContractInv, VerdictSoFar
<1>3. AllRecordsTidy(scan'.records) /\ SourceIs(text, scan'.records)
  BY <1>1, <1>2, EndCopies DEF CopyInv
<1>4. ~Noted'
  <2> DEFINE x == Diag("CSV-FIELD", "INFO", 0)
  <2>1. /\ \A code, row : x # Fail(code, row)
        /\ x # Diag("CSV-DATE", "INFO", 0)
    <3>1. x.severity = "INFO" /\ x.code = "CSV-FIELD"
      BY DEF Diag
    <3>2. /\ \A code, row : Fail(code, row).severity = "FAIL"
          /\ Diag("CSV-DATE", "INFO", 0).code = "CSV-DATE"
      BY DEF Diag, Fail
    <3>3. "INFO" # "FAIL" /\ "CSV-FIELD" # "CSV-DATE"
      OBVIOUS
    <3> HIDE DEF x
    <3> QED
      BY <3>1, <3>2, <3>3
  <2>2. diags' = {Fail("CSV-FIELD", r) : r \in scan'.errors}
                   \cup IF scan'.records = <<>> THEN {Fail("CSV-FIELD", 0)}
                        ELSE When(reference = None, {Diag("CSV-DATE", "INFO", 0)})
    BY <1>1 DEF EndOfText
  <2> HIDE DEF x
  <2>3. x \notin diags'
    BY <2>1, <2>2 DEF When
  <2> QED
    BY <2>3 DEF Noted, x
<1>5. at' - 1 = 0 /\ 1..0 = {}
  BY <1>1
<1> QED
  BY <1>1, <1>3, <1>4, <1>5 DEF RowsCopy

LEMMA FinishCopies ==
  ASSUME TInv, ScanDone, ContractInv, CopyInv, FinishReading
  PROVE  SameBytes'
<1>1. /\ pc = "rows" /\ at > Len(scan.records) /\ pc' = "done"
      /\ UNCHANGED <<file, profile, reference, scan, at, rows>>
      /\ profile = "canonical" => diags' = diags \cup Duplicates(rows)
  BY DEF FinishReading
<1> SUFFICES ASSUME profile = "canonical", Accepted'
             PROVE  Written(rows) = text <=>
                      /\ ~Noted'
                      /\ CR \notin ToSet(text)
                      /\ text[Len(text)] = LF
                      /\ \A n \in DOMAIN rows : IsNormalDate(Date[rows[n].raw[1]])
  BY <1>1 DEF SameBytes, IsRead, Noted, text
<1>2. VerdictSoFar
  BY <1>1 DEF ContractInv
<1>3. Accepted /\ Duplicates(rows) = {}
  BY <1>1, DuplicatesAre DEF Accepted
<1>4. diags' = diags
  BY <1>1, <1>3
<1>5. RowsCopy(at - 1)
  BY <1>1, <1>3 DEF CopyInv
<1>6. Noted' <=> Noted
  BY <1>4 DEF Noted
<1> QED
  BY <1>1, <1>2, <1>3, <1>5, <1>6, SameBytesAtEnd

LEMMA NextCopies ==
  TInv /\ ScanInv /\ ScanDone /\ ContractInv /\ ContractInv' /\ CopyInv /\ [Next]_vars => CopyInv'
<1> SUFFICES ASSUME TInv, ScanInv, ScanDone, ContractInv, ContractInv', CopyInv, [Next]_vars
             PROVE  CopyInv'
  OBVIOUS
<1>1. CASE Turn
  <2>1. pc = "scan" /\ pc' = "scan" /\ text' = text
    <3>1. pc = "scan" /\ UNCHANGED Others
      BY <1>1, TurnType DEF Turn, EscapedQuote, ClosingQuote, QuotedBreak, QuotedAtom, Separator, LineFeed,
         CarriageReturn, LoneReturn, OpeningQuote, StrayQuote, Atom, InQuotes, Scanning
    <3> QED
      BY <3>1 DEF Others, text
  <2>2. SameBytes'
    BY <2>1, NotAtEnd DEF SameBytes, IsRead
  <2>3. ASSUME scan'.errors = {}
        PROVE  CopyScan(text', i', scan')
    <3>1. scan.errors = {} => Clean
      BY <2>1 DEF ScanInv
    <3>2. scan.errors \subseteq scan'.errors
      BY <1>1, <3>1, TurnScan
    <3>3. scan.errors = {}
      BY <2>3, <3>2
    <3>4. Flags(text, i, scan) /\ CopyScan(text, i, scan)
      BY <2>1, <3>1, <3>3 DEF Clean, CopyInv
    <3>5. CopyScan(text, i', scan')
      BY <1>1, <2>3, <3>3, <3>4, TurnCopies
    <3> QED
      BY <2>1, <3>5
  <2> QED
    BY <2>1, <2>2, <2>3 DEF CopyInv
<1>2. CASE ReadHead
  <2>1. /\ pc = "head" /\ UNCHANGED <<file, profile, i, scan, rows>>
        /\ IF HeadFails THEN pc' = "done" /\ \E c : diags' = {Fail(c, 0)}
           ELSE pc' = "scan"
    BY <1>2 DEF ReadHead
  <2>2. text' = text /\ i = 1 /\ scan = NewScan /\ text \in Text
    BY <2>1 DEF text, ScanInv, TInv
  <2>3. CopyScan(text', i', scan')
    BY <2>1, <2>2, StartCopies
  <2>4. HeadFails => ~Accepted'
    BY <2>1, FailsAre DEF Accepted
  <2>5. SameBytes'
    BY <2>1, <2>4 DEF SameBytes, IsRead
  <2> QED
    BY <2>1, <2>3, <2>5 DEF CopyInv
<1>3. CASE EndOfText
  <2>1. pc' = "done" => ~(profile' = "canonical" /\ Accepted')
    <3> SUFFICES ASSUME pc' = "done", profile' = "canonical" PROVE ~Accepted'
      OBVIOUS
    <3>1. Fail("CSV-FIELD", 0) \in diags'
      BY <1>3 DEF EndOfText
    <3> QED
      BY <3>1, FailsAre DEF Accepted
  <2>2. SameBytes'
    BY <2>1 DEF SameBytes, IsRead
  <2>3. pc' # "scan"
    BY <1>3 DEF EndOfText
  <2>4. pc' = "rows" /\ profile' = "canonical" /\ Accepted' => RowsCopy(at - 1)'
    BY <1>3, EndStarts
  <2> QED
    BY <2>2, <2>3, <2>4 DEF CopyInv
<1>4. ASSUME pc = "rows", pc' = "rows",
             profile' = "canonical" /\ Accepted' => RowsCopy(at - 1)'
      PROVE  CopyInv'
  <2>1. SameBytes'
    BY <1>4 DEF SameBytes, IsRead
  <2> QED
    BY <1>4, <2>1 DEF CopyInv
<1>5. CASE WrongArity
  <2>1. /\ pc = "rows" /\ pc' = "rows" /\ profile' = profile
        /\ profile = "canonical" => diags' = diags \cup {Fail("CSV-FIELD", at)}
    BY <1>5 DEF WrongArity
  <2>2. profile = "canonical" => ~Accepted'
    BY <2>1, FailsAre DEF Accepted
  <2> QED
    BY <1>4, <2>1, <2>2
<1>6. CASE ReadRow
  <2>1. pc = "rows" /\ pc' = "rows" /\ profile = "canonical" /\ profile' = profile
    BY <1>6 DEF ReadRow, Reading
  <2>2. Accepted => RowsCopy(at - 1)
    BY <2>1 DEF CopyInv
  <2>3. Accepted' => RowsCopy(at - 1)'
    BY <1>6, <2>2, ReadCopies
  <2> QED
    BY <1>4, <2>1, <2>3
<1>7. CASE FinishReading
  <2>1. pc' = "done"
    BY <1>7 DEF FinishReading
  <2>2. SameBytes'
    BY <1>7, FinishCopies
  <2> QED
    BY <2>1, <2>2 DEF CopyInv
<1>8. CASE PassUntagged \/ PassUndated \/ PassToRepair \/ ConvertRow
  <2>1. profile = "legacy" /\ profile' = profile /\ pc = "rows" /\ pc' = "rows"
    BY <1>8 DEF PassUntagged, PassUndated, PassToRepair, ConvertRow, Convert, IsLegacyRow, Reading
  <2> QED
    BY <1>4, <2>1
<1>9. CASE Rewrite
  <2>1. pc' = "head"
    BY <1>9 DEF Rewrite
  <2> QED
    BY <2>1 DEF CopyInv, SameBytes, IsRead
<1>10. CASE UNCHANGED vars
  <2>1. UNCHANGED <<file, profile, reference, pc, i, scan, at, rows, diags>>
    BY <1>10 DEF vars
  <2>2. text' = text /\ (Accepted' <=> Accepted) /\ (Noted' <=> Noted)
    BY <2>1 DEF text, Accepted, Noted
  <2>3. SameBytes' <=> SameBytes
    BY <2>1, <2>2 DEF SameBytes, IsRead
  <2>4. RowsCopy(at - 1)' <=> RowsCopy(at - 1)
    BY <2>1, <2>2 DEF RowsCopy
  <2>5. CopyScan(text, i, scan)' <=> CopyScan(text, i, scan)
    BY <2>1, <2>2
  <2> QED
    BY <2>1, <2>2, <2>3, <2>4, <2>5 DEF CopyInv
<1> QED
  BY <1>1, <1>2, <1>3, <1>5, <1>6, <1>7, <1>8, <1>9, <1>10 DEF Next, Tokenize, Turn

\* Writing the rows of an accepted file gives back its bytes exactly when the
\* reader noted no needless quote, the file has line feeds alone and one at its
\* end, and each of its dates has the form of the writer: for any text, any
\* table of dates that meets the assumptions, and a file that was written
\* before as well (grammar.py:528-532, 583-590).
THEOREM RewritingIsExact == Spec => []SameBytes
<1>1. Init => TInv /\ ScanInv /\ ScanDone /\ ContractInv /\ CopyInv
  <2> SUFFICES ASSUME Init PROVE TInv /\ ScanInv /\ ScanDone /\ ContractInv /\ CopyInv
    OBVIOUS
  <2>1. TInv /\ ScanInv /\ ScanDone
    BY InitTInv DEF Init, ScanInv, ScanDone
  <2>2. pc = "head" /\ scan = NewScan /\ at = 1 /\ rows = <<>> /\ diags = {}
    BY DEF Init
  <2>3. AcceptsRecords /\ SameBytes
    BY <2>2 DEF AcceptsRecords, SameBytes, IsRead
  <2> QED
    BY <2>1, <2>2, <2>3, NewIsMarked DEF ContractInv, CopyInv
<1>2. TInv /\ ScanInv /\ ScanDone /\ ContractInv /\ CopyInv /\ [Next]_vars
        => (TInv /\ ScanInv /\ ScanDone /\ ContractInv /\ CopyInv)'
  BY NextTInv, NextScan, NextContract, NextCopies
<1>3. CopyInv => SameBytes
  BY DEF CopyInv
<1> QED
  BY <1>1, <1>2, <1>3, PTL DEF Spec

-----------------------------------------------------------------------------
(* What is read holds no carriage return, in a text with errors as well    *)

(* A value without a carriage return, and locals with such values alone.   *)
Bare(f) == CR \notin ToSet(f.value)

AllBare(s) ==
  /\ Bare(FieldOf(s))
  /\ \A c \in 1..Len(s.cur) : Bare(s.cur[c])
  /\ \A n \in 1..Len(s.records) : \A c \in 1..Len(s.records[n]) : Bare(s.records[n][c])

LEMMA SameFieldBare ==
  ASSUME NEW s \in Locals, NEW e, AllBare(s),
         e.cur = s.cur, e.records = s.records, CR \notin ToSet(e.val)
  PROVE  AllBare(e)
BY DEF AllBare, Bare, FieldOf

LEMMA EndFieldBare ==
  ASSUME NEW s \in Locals, NEW e, AllBare(s),
         e.cur = Append(s.cur, FieldOf(s)), e.records = s.records, e.val = <<>>
  PROVE  AllBare(e)
<1>1. s.cur \in Seq(FieldRead) /\ FieldOf(s) \in FieldRead /\ Len(s.cur) \in Nat
  BY FieldOfType, LocalsAre
<1>2. /\ Len(e.cur) = Len(s.cur) + 1
      /\ \A c \in 1..Len(s.cur) : e.cur[c] = s.cur[c]
      /\ e.cur[Len(s.cur) + 1] = FieldOf(s)
  BY <1>1
<1>3. \A c \in 1..Len(e.cur) : c \in 1..Len(s.cur) \/ c = Len(s.cur) + 1
  BY <1>1, <1>2
<1>4. \A c \in 1..Len(e.cur) : Bare(e.cur[c])
  BY <1>2, <1>3 DEF AllBare
<1>5. Bare(FieldOf(e))
  BY DEF Bare, FieldOf, ToSet
<1> QED
  BY <1>4, <1>5 DEF AllBare

LEMMA EmitBare ==
  ASSUME NEW s \in Locals, NEW e, AllBare(s),
         e.cur = <<>>, e.records = Append(s.records, s.cur), e.val = s.val
  PROVE  AllBare(e)
<1>1. /\ s.records \in Seq(Seq(FieldRead)) /\ s.cur \in Seq(FieldRead) /\ Len(s.records) \in Nat
      /\ Len(<<>>) = 0
  BY LocalsAre
<1>2. /\ Len(e.records) = Len(s.records) + 1
      /\ \A c \in 1..Len(s.records) : e.records[c] = s.records[c]
      /\ e.records[Len(s.records) + 1] = s.cur
  BY <1>1
<1>3. \A c \in 1..Len(e.records) : c \in 1..Len(s.records) \/ c = Len(s.records) + 1
  BY <1>1, <1>2
<1>4. \A n \in 1..Len(e.records) : \A c \in 1..Len(e.records[n]) : Bare(e.records[n][c])
  BY <1>2, <1>3 DEF AllBare
<1>5. Bare(FieldOf(e)) /\ 1..Len(e.cur) = {}
  BY <1>1 DEF AllBare, Bare, FieldOf
<1> QED
  BY <1>4, <1>5 DEF AllBare

LEMMA RecordBare ==
  ASSUME NEW s \in Locals, AllBare(s)
  PROVE  LET e == EmitRecord(EndField(s)) IN e \in Locals /\ AllBare(e)
<1> DEFINE f == EndField(s)
<1>1. /\ f \in Locals /\ f.cur = Append(s.cur, FieldOf(s)) /\ f.val = <<>> /\ f.records = s.records
  BY EndFieldIs
<1> HIDE DEF f
<1>2. AllBare(f)
  BY <1>1, EndFieldBare
<1> DEFINE e == EmitRecord(f)
<1>3. /\ e \in Locals /\ e.cur = <<>> /\ e.val = f.val /\ e.records = Append(f.records, f.cur)
  BY <1>1, EmitRecordIs
<1> HIDE DEF e
<1>4. e \in Locals /\ AllBare(e)
  BY <1>1, <1>2, <1>3, EmitBare
<1> QED
  BY <1>4 DEF e, f

LEMMA ErrBare ==
  ASSUME NEW s \in Locals, AllBare(s)
  PROVE  Err(s) \in Locals /\ AllBare(Err(s))
<1> DEFINE e == Err(s)
<1>1. e \in Locals /\ e.cur = s.cur /\ e.val = s.val /\ e.records = s.records
  BY ErrIs
<1> HIDE DEF e
<1>2. CR \notin ToSet(e.val)
  BY <1>1 DEF AllBare, Bare, FieldOf
<1>3. AllBare(e)
  BY <1>1, <1>2, SameFieldBare
<1> QED
  BY <1>1, <1>3 DEF e

LEMMA AppendBare ==
  ASSUME NEW s \in Locals, NEW e, AllBare(s), e.cur = s.cur, e.records = s.records,
         NEW x \in Char, x # CR, e.val = Append(s.val, x)
  PROVE  AllBare(e)
<1>1. ToSet(e.val) = ToSet(s.val) \cup {x}
  BY LocalsAre, AppendSetIs
<1>2. CR \notin ToSet(e.val)
  BY <1>1 DEF AllBare, Bare, FieldOf
<1> QED
  BY <1>2, SameFieldBare

LEMMA KeepBare ==
  ASSUME NEW s \in Locals, NEW e, AllBare(s), e.cur = s.cur, e.records = s.records, e.val = s.val
  PROVE  AllBare(e)
BY SameFieldBare DEF AllBare, Bare, FieldOf

(* Each turn of the loop keeps them so: what follows a carriage return in  *)
(* quotes is taken as a line feed.                                         *)
LEMMA TurnBare ==
  ASSUME TInv, AllBare(scan), Turn
  PROVE  AllBare(scan')
<1>1. scan \in Locals
  BY DEF TInv, ScanOK
<1>2. i <= Len(text)
  BY DEF Turn, EscapedQuote, ClosingQuote, QuotedBreak, QuotedAtom, Separator, LineFeed,
     CarriageReturn, LoneReturn, OpeningQuote, StrayQuote, Atom, InQuotes, Scanning
<1>3. text[i] \in Char /\ Quote \in Char /\ LF \in Char /\ Quote # CR /\ LF # CR
  BY <1>2, AtomType, AtomsAreChars, CharsDiffer
<1>4. Err(scan) \in Locals /\ AllBare(Err(scan))
  BY <1>1, ErrBare
<1>5. \A s \in Locals : AllBare(s) => AllBare(EmitRecord(EndField(s)))
  BY RecordBare
<1>10. CASE EscapedQuote
  <2> DEFINE e == [scan EXCEPT !.val = Append(@, Quote)]
  <2>1. scan' = e
    BY <1>10 DEF EscapedQuote, Advance
  <2>2. /\ e.cur = scan.cur /\ e.val = Append(scan.val, Quote) /\ e.records = scan.records
    BY <1>1, <1>3, AppendIs
  <2> HIDE DEF e
  <2> QED
    BY <1>1, <1>3, <2>1, <2>2, AppendBare
<1>11. CASE ClosingQuote
  <2> DEFINE e == [scan EXCEPT !.inQuotes = FALSE, !.expectSep = TRUE]
  <2>1. scan' = e
    BY <1>11 DEF ClosingQuote, Advance
  <2>2. e.cur = scan.cur /\ e.val = scan.val /\ e.records = scan.records
    BY <1>1, CloseIs
  <2> HIDE DEF e
  <2> QED
    BY <1>1, <2>1, <2>2, KeepBare
<1>12. CASE QuotedBreak
  <2> DEFINE e == [scan EXCEPT !.newline = TRUE, !.val = Append(@, LF)]
  <2>1. scan' = e
    BY <1>12, SMTT(40) DEF QuotedBreak, Advance
  <2>2. /\ e.cur = scan.cur /\ e.val = Append(scan.val, LF) /\ e.records = scan.records
    BY <1>1, <1>3, BreakIs
  <2> HIDE DEF e
  <2> QED
    BY <1>1, <1>3, <2>1, <2>2, AppendBare
<1>13. CASE QuotedAtom
  <2> DEFINE e == [scan EXCEPT !.val = Append(@, text[i])]
  <2>1. scan' = e /\ text[i] # CR
    BY <1>13 DEF QuotedAtom, Advance
  <2>2. /\ e.cur = scan.cur /\ e.val = Append(scan.val, text[i]) /\ e.records = scan.records
    BY <1>1, <1>3, AppendIs
  <2> HIDE DEF e
  <2> QED
    BY <1>1, <1>3, <2>1, <2>2, AppendBare
<1>14. CASE Separator
  <2> DEFINE f == EndField(scan)
             e == [f EXCEPT !.started = TRUE]
  <2>1. scan' = e
    BY <1>14 DEF Separator, Advance
  <2>2. /\ f \in Locals /\ f.cur = Append(scan.cur, FieldOf(scan)) /\ f.val = <<>>
        /\ f.records = scan.records
    BY <1>1, EndFieldIs
  <2> HIDE DEF f
  <2>3. e.cur = f.cur /\ e.val = f.val /\ e.records = f.records
    BY <2>2, StartIs
  <2> HIDE DEF e
  <2> QED
    BY <1>1, <2>1, <2>2, <2>3, EndFieldBare
<1>15. CASE LineFeed \/ CarriageReturn
  <2>1. scan' = EndLine(scan)
    BY <1>15 DEF LineFeed, CarriageReturn, Advance
  <2> QED
    BY <1>1, <1>4, <1>5, <2>1 DEF EndLine
<1>17. CASE LoneReturn
  <2>1. scan' = IF scan.expectSep THEN EmitRecord(EndField(Err(scan))) ELSE Err(scan)
    BY <1>17 DEF LoneReturn, Advance
  <2> QED
    BY <1>4, <1>5, <2>1
<1>18. CASE OpeningQuote
  <2> DEFINE e == [scan EXCEPT !.inQuotes = TRUE, !.quoted = TRUE, !.started = TRUE]
  <2>1. scan' = e
    BY <1>18 DEF OpeningQuote, Advance
  <2>2. e.cur = scan.cur /\ e.val = scan.val /\ e.records = scan.records
    BY <1>1, OpenIs
  <2> HIDE DEF e
  <2> QED
    BY <1>1, <2>1, <2>2, KeepBare
<1>19. CASE StrayQuote
  <2> DEFINE f == Err(scan)
             e == [f EXCEPT !.val = Append(@, Quote)]
  <2>1. scan' = e
    BY <1>19 DEF StrayQuote, Advance
  <2>2. f \in Locals /\ AllBare(f)
    BY <1>4
  <2> HIDE DEF f
  <2>3. e.cur = f.cur /\ e.val = Append(f.val, Quote) /\ e.records = f.records
    BY <1>3, <2>2, AppendIs
  <2> HIDE DEF e
  <2> QED
    BY <1>3, <2>1, <2>2, <2>3, AppendBare
<1>20. CASE Atom
  <2>0. text[i] # CR
    BY <1>20 DEF Atom
  <2>1. CASE scan.expectSep
    <3> DEFINE f == Err(scan)
               e == [f EXCEPT !.expectSep = FALSE, !.val = Append(@, text[i])]
    <3>1. scan' = e
      BY <1>20, <2>1, SMTT(40) DEF Atom, Advance
    <3>2. f \in Locals /\ AllBare(f)
      BY <1>4
    <3> HIDE DEF f
    <3>3. e.cur = f.cur /\ e.val = Append(f.val, text[i]) /\ e.records = f.records
      BY <1>3, <3>2, PutAfterQuoteIs
    <3> HIDE DEF e
    <3> QED
      BY <1>3, <2>0, <3>1, <3>2, <3>3, AppendBare
  <2>2. CASE ~scan.expectSep
    <3> DEFINE e == [scan EXCEPT !.started = TRUE, !.val = Append(@, text[i])]
    <3>1. scan' = e
      BY <1>20, <2>2, SMTT(40) DEF Atom, Advance
    <3>2. e.cur = scan.cur /\ e.val = Append(scan.val, text[i]) /\ e.records = scan.records
      BY <1>1, <1>3, PutIs
    <3> HIDE DEF e
    <3> QED
      BY <1>1, <1>3, <2>0, <3>1, <3>2, AppendBare
  <2> QED
    BY <2>1, <2>2
<1> QED
  BY <1>10, <1>11, <1>12, <1>13, <1>14, <1>15, <1>17, <1>18, <1>19, <1>20 DEF Turn

LEMMA ScannedBare ==
  ASSUME NEW s \in Locals, AllBare(s)
  PROVE  AllBare(Scanned(s))
<1>1. \A e \in Locals : AllBare(e) => AllBare(EmitRecord(EndField(e)))
  BY RecordBare
<1> QED
  BY <1>1, ErrBare DEF Scanned

-----------------------------------------------------------------------------
(* What is left to read of a text that was written                         *)

(* One piece more at the beginning.                                        *)
LEMMA FlattenStarts ==
  ASSUME NEW S, NEW n \in Nat, NEW s \in Seq(Seq(S)), NEW t \in Seq(Seq(S)),
         Len(s) = n, Len(t) = n + 1, \A k \in 1..n : t[k + 1] = s[k]
  PROVE  FlattenSeq(t) = t[1] \o FlattenSeq(s)
<1>1. PICK f : IsPartial(f, t, S) /\ FlattenSeq(t) = f[n + 1]
  BY FlattenIs
<1>2. PICK g : IsPartial(g, s, S) /\ FlattenSeq(s) = g[n]
  BY FlattenIs
<1>3. /\ f[0] = <<>> /\ \A k \in 1..(n + 1) : f[k] = f[k - 1] \o t[k]
      /\ g \in [0..n -> Seq(S)] /\ g[0] = <<>> /\ \A k \in 1..n : g[k] = g[k - 1] \o s[k]
  BY <1>1, <1>2 DEF IsPartial
<1> DEFINE a == t[1]
           G == {k \in 0..n : f[k + 1] = a \o g[k]}
<1>4. a \in Seq(S)
  BY ElementOfSeq
<1>5. 0 \in G
  <2>1. f[1] = f[0] \o t[1]
    <3>1. 1 \in 1..(n + 1) /\ 1 - 1 = 0
      OBVIOUS
    <3> QED
      BY <1>3, <3>1
  <2>2. f[1] = a /\ a \o g[0] = a
    BY <1>3, <1>4, <2>1
  <2>3. 0 \in 0..n /\ 0 + 1 = 1
    OBVIOUS
  <2> HIDE DEF a
  <2> QED
    BY <2>2, <2>3
<1>6. ASSUME NEW k \in 0..(n - 1), k \in G
      PROVE  k + 1 \in G
  <2>1. k \in 0..n /\ k + 1 \in 1..n /\ k + 1 \in 0..n /\ (k + 1) - 1 = k
        /\ (k + 1) + 1 \in 1..(n + 1) /\ ((k + 1) + 1) - 1 = k + 1
    BY SMTT(40)
  <2>2. f[k + 1] = a \o g[k]
    BY <1>6
  <2>3. f[(k + 1) + 1] = f[k + 1] \o t[(k + 1) + 1] /\ g[k + 1] = g[k] \o s[k + 1]
    BY <1>3, <2>1
  <2>4. t[(k + 1) + 1] = s[k + 1]
    BY <2>1
  <2>5. s[k + 1] \in Seq(S) /\ g[k] \in Seq(S)
    BY <1>3, <2>1, ElementOfSeq
  <2> DEFINE u == g[k]
             v == s[k + 1]
  <2>6. f[(k + 1) + 1] = (a \o u) \o v /\ g[k + 1] = u \o v
    BY <2>2, <2>3, <2>4
  <2>7. (a \o u) \o v = a \o (u \o v)
    <3> HIDE DEF a, u, v
    <3>1. a \in Seq(S) /\ u \in Seq(S) /\ v \in Seq(S)
      BY <1>4, <2>5 DEF u, v
    <3> QED
      BY <3>1, SMTT(40)
  <2> HIDE DEF u, v
  <2>8. f[(k + 1) + 1] = a \o g[k + 1]
    BY <2>6, <2>7
  <2> QED
    BY <2>1, <2>8
<1> HIDE DEF a
<1>7. n \in G
  <2> HIDE DEF G
  <2>1. \A k \in 0..n : k \in G
    BY <1>5, <1>6, Upwards
  <2> QED
    BY <2>1
<1> QED
  BY <1>1, <1>2, <1>7 DEF a

(* No piece at all.                                                        *)
LEMMA FlattenNothing == FlattenSeq(<<>>) = <<>>
BY DEF FlattenSeq

LEMMA DoubledStarts ==
  ASSUME NEW v \in Text, NEW x \in Char
  PROVE  Doubled(<<x>> \o v) = Doubling(x) \o Doubled(v)
<1> DEFINE n == Len(v)
           w == <<x>> \o v
           s == [k \in 1..n |-> Doubling(v[k])]
           t == [k \in 1..(n + 1) |-> Doubling(w[k])]
<1>1. n \in Nat /\ DOMAIN v = 1..n /\ DOMAIN w = 1..(n + 1)
      /\ w[1] = x /\ \A k \in 1..n : w[k + 1] = v[k]
  BY DEF Text
<1>2. w \in Text /\ Len(w) = n + 1
  BY <1>1 DEF Text
<1> HIDE DEF w
<1>3. \A y \in Char : Doubling(y) \in Text
  BY AtomsAreChars, SinglesAreTexts DEF Doubling
<1>4. (\A k \in 1..n : v[k] \in Char) /\ (\A k \in 1..(n + 1) : w[k] \in Char)
  BY <1>2, ElementOfSeq DEF Text
<1>5. s \in [1..n -> Text] /\ t \in [1..(n + 1) -> Text]
  BY <1>3, <1>4
<1>6. /\ s \in Seq(Text) /\ Len(s) = n /\ t \in Seq(Text) /\ Len(t) = n + 1
  <2> HIDE DEF s, t
  <2>1. n + 1 \in Nat
    BY <1>1
  <2> HIDE DEF n
  <2> QED
    BY <1>1, <1>5, <2>1, ListsAre
<1>7. (\A k \in 1..n : t[k + 1] = s[k]) /\ t[1] = Doubling(x)
  BY <1>1
<1>8. Doubled(v) = FlattenSeq(s) /\ Doubled(w) = FlattenSeq(t)
  BY <1>1 DEF Doubled
<1> HIDE DEF s, t
<1>9. FlattenSeq(t) = t[1] \o FlattenSeq(s)
  BY <1>1, <1>6, <1>7, FlattenStarts DEF Text
<1> QED
  BY <1>7, <1>8, <1>9 DEF w

(* What is left of a text at a place.                                      *)
Left(t, p) == SubSeq(t, p, Len(t))

(* What is left after one atom of it.                                      *)
LEMMA LeftStep ==
  ASSUME NEW t \in Text, NEW p \in 1..(Len(t) + 1), NEW x \in Char, NEW y \in Text,
         Left(t, p) = <<x>> \o y
  PROVE  p <= Len(t) /\ t[p] = x /\ Left(t, p + 1) = y
<1> DEFINE n == Len(t)
           w == <<x>> \o y
<1>1. n \in Nat /\ t \in Seq(Char) /\ y \in Seq(Char) /\ Len(y) \in Nat
  BY DEF Text
<1>2. w \in Seq(Char) /\ Len(w) = Len(y) + 1 /\ w[1] = x /\ \A k \in 1..Len(y) : w[k + 1] = y[k]
  BY <1>1
<1> HIDE DEF w, n
<1>3. w = SubSeq(t, p, n)
  BY DEF Left, w, n
<1>4. p \in Nat /\ p >= 1 /\ p <= n + 1 /\ n = Len(t)
  BY <1>1 DEF n
<1>5. Len(SubSeq(t, p, n)) = n - p + 1 /\ \A k \in 1..(n - p + 1) : SubSeq(t, p, n)[k] = t[p + k - 1]
  BY <1>1, <1>4
<1>6. Len(y) + 1 = n - p + 1
  BY <1>2, <1>3, <1>5
<1>7. p <= n
  BY <1>1, <1>4, <1>6
<1>8. x = t[p]
  <2>1. 1 \in 1..(n - p + 1) /\ p + 1 - 1 = p
    BY <1>1, <1>4, <1>7
  <2> QED
    BY <1>2, <1>3, <1>5, <2>1
<1> DEFINE q == p + 1
           z == SubSeq(t, p + 1, n)
<1>9. z \in Seq(Char) /\ Len(z) = n - (p + 1) + 1 /\ \A k \in 1..(n - (p + 1) + 1) : z[k] = t[(p + 1) + k - 1]
  <2>1. q \in Nat /\ q >= 1 /\ q <= n + 1
    BY <1>4, <1>7
  <2> HIDE DEF q
  <2>2. /\ SubSeq(t, q, n) \in Seq(Char) /\ Len(SubSeq(t, q, n)) = n - q + 1
        /\ \A k \in 1..(n - q + 1) : SubSeq(t, q, n)[k] = t[q + k - 1]
    BY <1>1, <1>4, <2>1
  <2> QED
    BY <2>2 DEF q
<1> HIDE DEF z
<1>10. Len(z) = Len(y)
  <2>1. Len(z) = n - (p + 1) + 1
    BY <1>9
  <2>2. \A a, b, c \in Int : a + 1 = b - c + 1 => b - (c + 1) + 1 = a
    OBVIOUS
  <2>3. Len(y) \in Int /\ n \in Int /\ p \in Int
    BY <1>1, <1>4
  <2> QED
    BY <1>6, <2>1, <2>2, <2>3, ZenonT(60)
<1>11. ASSUME NEW k \in 1..Len(y) PROVE z[k] = y[k]
  <2>1. k + 1 \in 1..(n - p + 1) /\ p + (k + 1) - 1 = (p + 1) + k - 1 /\ k \in 1..(n - (p + 1) + 1)
    BY <1>1, <1>4, <1>6
  <2>2. y[k] = w[k + 1]
    BY <1>2
  <2> QED
    BY <1>3, <1>5, <1>9, <2>1, <2>2
<1>12. z = y
  BY <1>1, <1>9, <1>10, <1>11, SeqEqual
<1> QED
  BY <1>4, <1>7, <1>8, <1>12 DEF Left, z, n

(* A text is empty or has a first atom.                                    *)
LEMMA FirstAtom ==
  ASSUME NEW u \in Text
  PROVE  u = <<>> \/ \E x \in Char : \E w \in Text : u = <<x>> \o w /\ ToSet(u) = {x} \cup ToSet(w)
<1> SUFFICES ASSUME u # <<>>
             PROVE  \E x \in Char : \E w \in Text : u = <<x>> \o w /\ ToSet(u) = {x} \cup ToSet(w)
  OBVIOUS
<1> DEFINE x == u[1]
           w == SubSeq(u, 2, Len(u))
           z == <<x>> \o w
<1>1. u \in Seq(Char) /\ Len(u) \in Nat /\ Len(u) >= 1 /\ DOMAIN u = 1..Len(u)
  BY DEF Text
<1>2. x \in Char /\ x = u[1]
  BY <1>1, ElementOfSeq
<1>3. w \in Seq(Char) /\ Len(w) = Len(u) - 1 /\ \A k \in 1..(Len(u) - 1) : w[k] = u[k + 1]
  BY <1>1
<1> HIDE DEF w, x
<1>4. z \in Seq(Char) /\ Len(z) = Len(u) /\ z[1] = x /\ \A k \in 1..(Len(u) - 1) : z[k + 1] = w[k]
  <2>1. Len(w) \in Nat
    BY <1>3
  <2>2. z \in Seq(Char) /\ Len(z) = 1 + Len(w) /\ z[1] = x /\ \A k \in 1..Len(w) : z[1 + k] = w[k]
    BY <1>2, <1>3
  <2> HIDE DEF z
  <2>3. \A k \in 1..Len(w) : 1 + k = k + 1
    BY <2>1
  <2> QED
    BY <1>1, <1>3, <2>1, <2>2, <2>3
<1> HIDE DEF z
<1>5. ASSUME NEW k \in 1..Len(u) PROVE z[k] = u[k]
  <2>1. k = 1 \/ (k - 1 \in 1..(Len(u) - 1) /\ (k - 1) + 1 = k)
    BY <1>1
  <2> QED
    BY <1>2, <1>3, <1>4, <2>1
<1>6. z = u
  BY <1>1, <1>4, <1>5, SeqEqual
<1>7. ToSet(u) = {x} \cup ToSet(w)
  <2>1. DOMAIN w = 1..(Len(u) - 1)
    BY <1>1, <1>3
  <2>2. \A y : y \in ToSet(u) <=> \E k \in 1..Len(u) : u[k] = y
    BY <1>1 DEF ToSet
  <2>3. \A y : y \in ToSet(w) <=> \E k \in 1..(Len(u) - 1) : w[k] = y
    BY <2>1 DEF ToSet
  <2>4. ASSUME NEW y, y \in ToSet(u) PROVE y = x \/ y \in ToSet(w)
    <3>1. PICK k \in 1..Len(u) : u[k] = y
      BY <2>2, <2>4
    <3>2. k = 1 \/ (k - 1 \in 1..(Len(u) - 1) /\ (k - 1) + 1 = k)
      BY <1>1
    <3> QED
      BY <1>2, <1>3, <2>3, <3>1, <3>2
  <2>5. ASSUME NEW y, y \in ToSet(w) PROVE y \in ToSet(u)
    <3>1. PICK k \in 1..(Len(u) - 1) : w[k] = y
      BY <2>3, <2>5
    <3>2. k + 1 \in 1..Len(u)
      BY <1>1
    <3> QED
      BY <1>3, <2>2, <3>1, <3>2
  <2>6. x \in ToSet(u)
    <3>1. 1 \in 1..Len(u)
      BY <1>1
    <3> QED
      BY <1>2, <2>2, <3>1
  <2> QED
    BY <2>4, <2>5, <2>6
<1>8. w \in Text /\ u = <<x>> \o w
  BY <1>3, <1>6 DEF Text, z
<1> HIDE DEF x
<1> QED
  BY <1>2, <1>7, <1>8

(* What a turn is, by the atom that it looks at and by whether the field is *)
(* quoted, where there is no error.                                        *)
LEMMA TurnIs ==
  ASSUME TInv, Turn
  PROVE  /\ pc = "scan" /\ i <= Len(text)
         /\ scan.inQuotes =>
              /\ text[i] = Quote /\ Ahead = Quote => Advance([scan EXCEPT !.val = Append(@, Quote)], 2)
              /\ text[i] = Quote /\ Ahead # Quote =>
                   Advance([scan EXCEPT !.inQuotes = FALSE, !.expectSep = TRUE], 1)
              /\ text[i] = LF => Advance([scan EXCEPT !.newline = TRUE, !.val = Append(@, LF)], 1)
              /\ text[i] \notin {Quote, CR, LF} => Advance([scan EXCEPT !.val = Append(@, text[i])], 1)
         /\ ~scan.inQuotes =>
              /\ text[i] = Comma => Advance([EndField(scan) EXCEPT !.started = TRUE], 1)
              /\ text[i] = LF => Advance(EndLine(scan), 1)
              /\ text[i] = Quote /\ scan.val = <<>> /\ ~scan.quoted =>
                   Advance([scan EXCEPT !.inQuotes = TRUE, !.quoted = TRUE, !.started = TRUE], 1)
              /\ text[i] \notin {Comma, Quote, CR, LF} /\ ~scan.expectSep =>
                   Advance([scan EXCEPT !.started = TRUE, !.val = Append(@, text[i])], 1)
<1>1. pc = "scan" /\ i <= Len(text)
  BY DEF Turn, EscapedQuote, ClosingQuote, QuotedBreak, QuotedAtom, Separator, LineFeed,
     CarriageReturn, LoneReturn, OpeningQuote, StrayQuote, Atom, InQuotes, Scanning
<1>2. Comma # Quote /\ Comma # CR /\ Comma # LF /\ Quote # CR /\ Quote # LF /\ CR # LF
  BY CharsDiffer
<1>3. CASE scan.inQuotes
  <2>1. EscapedQuote \/ ClosingQuote \/ QuotedBreak \/ QuotedAtom
    BY <1>3 DEF Turn, Separator, LineFeed, CarriageReturn, LoneReturn, OpeningQuote, StrayQuote,
       Atom, Scanning
  <2>2. text[i] = Quote /\ Ahead = Quote => EscapedQuote
    BY <1>2, <2>1 DEF EscapedQuote, ClosingQuote, QuotedBreak, QuotedAtom
  <2>3. text[i] = Quote /\ Ahead # Quote => ClosingQuote
    BY <1>2, <2>1 DEF EscapedQuote, ClosingQuote, QuotedBreak, QuotedAtom
  <2>4. text[i] = LF => QuotedBreak
    BY <1>2, <2>1 DEF EscapedQuote, ClosingQuote, QuotedBreak, QuotedAtom
  <2>5. text[i] \notin {Quote, CR, LF} => QuotedAtom
    BY <1>2, <2>1 DEF EscapedQuote, ClosingQuote, QuotedBreak, QuotedAtom
  <2>6. text[i] = LF => Advance([scan EXCEPT !.newline = TRUE, !.val = Append(@, LF)], 1)
    BY <1>2, <2>4 DEF QuotedBreak
  <2> QED
    BY <1>1, <1>3, <2>2, <2>3, <2>5, <2>6 DEF EscapedQuote, ClosingQuote, QuotedAtom
<1>4. CASE ~scan.inQuotes
  <2>1. Separator \/ LineFeed \/ CarriageReturn \/ LoneReturn \/ OpeningQuote \/ StrayQuote \/ Atom
    BY <1>4 DEF Turn, EscapedQuote, ClosingQuote, QuotedBreak, QuotedAtom, InQuotes
  <2>2. text[i] = Comma => Separator
    BY <1>2, <2>1 DEF LineFeed, CarriageReturn, LoneReturn, OpeningQuote, StrayQuote, Atom, Scanning
  <2>3. text[i] = LF => LineFeed
    BY <1>2, <2>1 DEF Separator, CarriageReturn, LoneReturn, OpeningQuote, StrayQuote, Atom, Scanning
  <2>4. text[i] = Quote /\ scan.val = <<>> /\ ~scan.quoted => OpeningQuote
    BY <1>2, <2>1 DEF Separator, LineFeed, CarriageReturn, LoneReturn, StrayQuote, Atom, Scanning
  <2>5. text[i] \notin {Comma, Quote, CR, LF} => Atom
    BY <1>2, <2>1 DEF Separator, LineFeed, CarriageReturn, LoneReturn, OpeningQuote, StrayQuote, Scanning
  <2> QED
    BY <1>1, <1>4, <2>2, <2>3, <2>4, <2>5 DEF Separator, LineFeed, OpeningQuote, Atom
<1> QED
  BY <1>3, <1>4

(* A text that begins with an atom.                                        *)
Begins(w, x, y) == w = <<x>> \o y

LEMMA LeftBegins ==
  ASSUME NEW t \in Text, NEW p \in 1..(Len(t) + 1), NEW x \in Char, NEW y \in Text,
         Begins(Left(t, p), x, y)
  PROVE  p <= Len(t) /\ t[p] = x /\ Left(t, p + 1) = y
<1>1. Left(t, p) = <<x>> \o y
  BY DEF Begins
<1> QED
  BY <1>1, LeftStep, SMTT(40)

LEMMA LeftHere ==
  ASSUME TInv, NEW x \in Char, NEW y \in Text, Begins(Left(text, i), x, y)
  PROVE  text[i] = x /\ Left(text, i + 1) = y
<1>1. text \in Text /\ i \in 1..(Len(text) + 1)
  BY DEF TInv
<1> QED
  BY <1>1, LeftBegins, SMTT(40)

(* The next atom, where there is one.                                      *)
LEMMA AheadIs ==
  ASSUME TInv, NEW x \in Char, NEW z \in Char, NEW y \in Text, NEW w \in Text,
         Begins(Left(text, i), x, w), Begins(w, z, y)
  PROVE  text[i] = x /\ Ahead = z /\ Left(text, i + 1) = w /\ Left(text, i + 2) = y
<1>1. text \in Text /\ i \in 1..(Len(text) + 1) /\ Len(text) \in Nat
  BY DEF TInv, Text
<1>2. Begins(Left(text, i), x, w)
  OBVIOUS
<1>3. i <= Len(text) /\ text[i] = x /\ Left(text, i + 1) = w
  BY <1>1, <1>2, LeftBegins, SMTT(40)
<1>4. i + 1 \in 1..(Len(text) + 1) /\ (i + 1) + 1 = i + 2
  BY <1>1, <1>3
<1>5. Begins(Left(text, i + 1), z, y)
  BY <1>3
<1>6. i + 1 <= Len(text) /\ text[i + 1] = z /\ Left(text, (i + 1) + 1) = y
  <2> DEFINE q == i + 1
  <2>1. q \in 1..(Len(text) + 1) /\ Begins(Left(text, q), z, y)
    BY <1>4, <1>5
  <2> HIDE DEF q
  <2>2. q <= Len(text) /\ text[q] = z /\ Left(text, q + 1) = y
    <3>1. text \in Text /\ y \in Text /\ z \in Char
      BY <1>1
    <3> QED
      BY <2>1, <3>1, LeftBegins, SMTT(40)
  <2> QED
    BY <2>2 DEF q
<1>7. i < Len(text)
  BY <1>1, <1>6
<1>8. Ahead = z
  BY <1>6, <1>7 DEF Ahead
<1>9. Left(text, i + 2) = y
  BY <1>4, <1>6
<1> QED
  BY <1>3, <1>8, <1>9

(* Where the tokenizer is in a field that was written for a value, and what *)
(* is left of it: outside of quotes, before them, in them or after them.   *)
IsPlain(s, v, y) ==
  ~s.inQuotes /\ ~s.quoted /\ ~s.expectSep /\ ~QuotingNeeded(v) /\ v = s.val \o y

IsFresh(s, v, y) ==
  ~s.inQuotes /\ ~s.quoted /\ ~s.expectSep /\ s.val = <<>> /\ QuotingNeeded(v) /\ y = Quoted(v)

IsInside(s, v, y) ==
  /\ s.inQuotes /\ s.quoted /\ ~s.expectSep
  /\ \E u \in Text : v = s.val \o u /\ y = Doubled(u) \o <<Quote>>

IsClosed(s, v, y) ==
  ~s.inQuotes /\ s.quoted /\ s.expectSep /\ s.val = v /\ y = <<>>

InField(s, v, y) ==
  y \in Text /\ (IsPlain(s, v, y) \/ IsFresh(s, v, y) \/ IsInside(s, v, y) \/ IsClosed(s, v, y))

(* A turn stays in the field, or it is the one that ends it.               *)
GoesOn(v, rest) ==
  /\ scan'.cur = scan.cur /\ scan'.records = scan.records /\ scan'.errors = scan.errors
  /\ \E y \in Text : InField(scan', v, y) /\ Left(text, i') = y \o rest

EndsField(v, z, r) ==
  /\ ~scan.inQuotes /\ scan.val = v /\ Left(text, i') = r
  /\ z = Comma => scan' = [EndField(scan) EXCEPT !.started = TRUE]
  /\ z = LF => scan' = EndLine(scan)

LEMMA FieldEnds ==
  ASSUME TInv, Turn, NEW v \in Text, NEW z \in {Comma, LF}, NEW r \in Text,
         ~scan.inQuotes, scan.val = v, Left(text, i) = <<z>> \o r
  PROVE  EndsField(v, z, r)
<1>1. z \in Char /\ text \in Text /\ i \in 1..(Len(text) + 1)
  BY AtomsAreChars DEF TInv
<1>2. text[i] = z /\ Left(text, i + 1) = r
  <2>1. Begins(Left(text, i), z, r)
    BY DEF Begins
  <2> QED
    BY <1>1, <2>1, LeftHere, ZenonT(60)
<1>3. z = Comma => Advance([EndField(scan) EXCEPT !.started = TRUE], 1)
  BY <1>2, TurnIs
<1>4. z = LF => Advance(EndLine(scan), 1)
  BY <1>2, TurnIs
<1>5. i' = i + 1
  BY <1>3, <1>4 DEF Advance
<1> QED
  BY <1>2, <1>3, <1>4, <1>5 DEF Advance, EndsField

(* Neither a comma nor a quote nor a line break is in a value that is      *)
(* written without quotes.                                                 *)
LEMMA PlainAtom ==
  ASSUME NEW v \in Text, NEW w \in Text, NEW u \in Text, v = w \o u,
         NEW x \in ToSet(u)
  PROVE  x \in ToSet(v)
<1>1. Len(w) \in Nat /\ Len(u) \in Nat /\ Len(v) = Len(w) + Len(u)
      /\ \A k \in 1..Len(u) : v[Len(w) + k] = u[k]
  BY DEF Text
<1>2. PICK k \in 1..Len(u) : u[k] = x
  BY DEF ToSet, Text
<1>3. Len(w) + k \in 1..Len(v)
  BY <1>1
<1>4. DOMAIN v = 1..Len(v)
  BY DEF Text
<1> QED
  BY <1>1, <1>2, <1>3, <1>4 DEF ToSet

LEMMA PlainTurn ==
  ASSUME TInv, Turn, NEW v \in Text, NEW z \in {Comma, LF}, NEW r \in Text, NEW y \in Text,
         IsPlain(scan, v, y), Left(text, i) = y \o (<<z>> \o r)
  PROVE  GoesOn(v, <<z>> \o r) \/ EndsField(v, z, r)
<1> DEFINE rest == <<z>> \o r
<1>1. rest \in Text /\ text \in Text /\ i \in 1..(Len(text) + 1) /\ scan \in Locals /\ scan.val \in Text
  BY JoinTexts, AtomsAreChars, LocalsAre DEF TInv, ScanOK
<1>2. ~scan.inQuotes /\ ~scan.quoted /\ ~scan.expectSep /\ ~QuotingNeeded(v) /\ v = scan.val \o y
  BY DEF IsPlain
<1>3. CASE y = <<>>
  <2>1. scan.val = v /\ Left(text, i) = <<z>> \o r
    BY <1>1, <1>2, <1>3, JoinTexts
  <2> QED
    BY <1>2, <2>1, FieldEnds
<1>4. ASSUME NEW x \in Char, NEW u \in Text, y = <<x>> \o u, ToSet(y) = {x} \cup ToSet(u)
      PROVE  GoesOn(v, rest)
  <2>1. x \in ToSet(v)
    BY <1>1, <1>2, <1>4, PlainAtom
  <2>2. x \notin {Comma, Quote, CR, LF}
    BY <1>2, <2>1 DEF QuotingNeeded
  <2> DEFINE m == u \o rest
  <2>3. m \in Text /\ <<x>> \in Text
    BY <1>1, JoinTexts
  <2>4. Left(text, i) = <<x>> \o m
    <3>1. Left(text, i) = (<<x>> \o u) \o rest /\ rest \in Text
      BY <1>1, <1>4
    <3> HIDE DEF rest
    <3>2. Turns(<<x>>, u, rest)
      BY <2>3, <3>1, JoinTurns
    <3> QED
      BY <3>1, <3>2 DEF Turns, Join
  <2> HIDE DEF m
  <2>5. text[i] = x /\ Left(text, i + 1) = m
    BY <2>3, <2>4, LeftHere DEF Begins
  <2> DEFINE e == [scan EXCEPT !.started = TRUE, !.val = Append(@, x)]
  <2>6. scan' = e /\ i' = i + 1 /\ text' = text
    <3>1. Advance([scan EXCEPT !.started = TRUE, !.val = Append(@, text[i])], 1)
      BY <1>2, <2>2, <2>5, TurnIs, SMTT(40)
    <3> QED
      BY <2>5, <3>1 DEF Advance, text
  <2>7. /\ e.cur = scan.cur /\ e.val = Append(scan.val, x) /\ e.inQuotes = scan.inQuotes
        /\ e.quoted = scan.quoted /\ e.expectSep = scan.expectSep
        /\ e.records = scan.records /\ e.errors = scan.errors
    BY <1>1, PutIs, ZenonT(60)
  <2> HIDE DEF e
  <2>8. v = e.val \o u
    <3>1. e.val = scan.val \o <<x>>
      BY <1>1, <2>7, JoinTexts
    <3>2. v = scan.val \o (<<x>> \o u)
      BY <1>2, <1>4
    <3>3. scan.val \in Text
      BY <1>1
    <3>4. Turns(scan.val, <<x>>, u)
      BY <2>3, <3>3, JoinTurns
    <3> HIDE DEF rest
    <3> QED
      BY <3>1, <3>2, <3>4 DEF Turns, Join
  <2>9. InField(e, v, u)
    BY <1>2, <2>7, <2>8 DEF InField, IsPlain
  <2> HIDE DEF rest
  <2> QED
    BY <2>5, <2>6, <2>7, <2>9 DEF GoesOn, m
<1> QED
  BY <1>3, <1>4, FirstAtom, ZenonT(60)

LEMMA FreshTurn ==
  ASSUME TInv, Turn, NEW v \in Text, NEW rest \in Text, NEW y \in Text,
         IsFresh(scan, v, y), Left(text, i) = y \o rest
  PROVE  GoesOn(v, rest)
<1>1. text \in Text /\ i \in 1..(Len(text) + 1) /\ scan \in Locals
  BY DEF TInv, ScanOK
<1>2. ~scan.inQuotes /\ ~scan.quoted /\ ~scan.expectSep /\ scan.val = <<>> /\ QuotingNeeded(v)
  BY DEF IsFresh
<1> DEFINE d == Doubled(v)
           f == d \o <<Quote>>
           m == f \o rest
<1>3. d \in Text
  BY DoubledType
<1> HIDE DEF d
<1>4. f \in Text /\ m \in Text /\ <<Quote>> \in Text
  BY <1>3, JoinTexts
<1>5. y = (<<Quote>> \o d) \o <<Quote>>
  BY <1>2, QuotedIs DEF IsFresh, d
<1>6. Left(text, i) = <<Quote>> \o m
  <2>1. y = <<Quote>> \o f
    BY <1>3, <1>4, <1>5, JoinTexts, SMTT(40)
  <2> HIDE DEF f
  <2> QED
    BY <1>4, <2>1, JoinTexts, SMTT(40)
<1> HIDE DEF m, f
<1>7. text[i] = Quote /\ Left(text, i + 1) = m
  <2>1. Begins(Left(text, i), Quote, m) /\ Quote \in Char
    BY <1>6, AtomsAreChars DEF Begins
  <2> QED
    BY <1>1, <1>4, <2>1, LeftHere, ZenonT(60)
<1> DEFINE e == [scan EXCEPT !.inQuotes = TRUE, !.quoted = TRUE, !.started = TRUE]
<1>8. scan' = e /\ i' = i + 1
  BY <1>2, <1>7, TurnIs, SMTT(40) DEF Advance
<1>9. /\ e.cur = scan.cur /\ e.val = scan.val /\ e.inQuotes = TRUE /\ e.quoted = TRUE
      /\ e.expectSep = scan.expectSep /\ e.records = scan.records /\ e.errors = scan.errors
  BY <1>1, OpenIs
<1> HIDE DEF e
<1>10. v = e.val \o v
  BY <1>2, <1>9, JoinTexts
<1>11. IsInside(e, v, f)
  BY <1>2, <1>9, <1>10 DEF IsInside, f, d
<1>12. InField(e, v, f)
  BY <1>4, <1>11 DEF InField
<1> QED
  BY <1>4, <1>7, <1>8, <1>9, <1>12 DEF GoesOn, m

LEMMA InsideTurn ==
  ASSUME TInv, Turn, NEW v \in Text, CR \notin ToSet(v), NEW z \in {Comma, LF}, NEW r \in Text,
         NEW y \in Text, IsInside(scan, v, y), Left(text, i) = y \o (<<z>> \o r)
  PROVE  GoesOn(v, <<z>> \o r)
<1> DEFINE rest == <<z>> \o r
<1>1. rest \in Text /\ text \in Text /\ i \in 1..(Len(text) + 1) /\ scan \in Locals /\ scan.val \in Text
      /\ <<Quote>> \in Text /\ z \in Char /\ Quote \in Char /\ LF \in Char /\ z # Quote
  BY JoinTexts, AtomsAreChars, LocalsAre, CharsDiffer DEF TInv, ScanOK
<1>2. scan.inQuotes /\ scan.quoted /\ ~scan.expectSep
  BY DEF IsInside
<1>3. PICK u \in Text : v = scan.val \o u /\ y = Doubled(u) \o <<Quote>>
  BY DEF IsInside
<1>4. CASE u = <<>>
  <2>1. y = <<Quote>> /\ v = scan.val
    <3>1. <<>> \o <<Quote>> = <<Quote>> /\ scan.val \o <<>> = scan.val
      BY <1>1, JoinTexts
    <3> QED
      BY <1>3, <1>4, <3>1, DoubledEmpty
  <2>2. text[i] = Quote /\ Ahead = z /\ Left(text, i + 1) = rest
    <3>1. rest \in Text /\ Begins(rest, z, r) /\ Begins(Left(text, i), Quote, rest)
      BY <1>1, <2>1 DEF Begins
    <3> HIDE DEF rest
    <3> QED
      BY <1>1, <3>1, AheadIs
  <2> DEFINE e == [scan EXCEPT !.inQuotes = FALSE, !.expectSep = TRUE]
  <2>4. scan' = e /\ i' = i + 1
    BY <1>1, <1>2, <2>2, TurnIs DEF Advance
  <2>5. /\ e.cur = scan.cur /\ e.val = scan.val /\ e.inQuotes = FALSE /\ e.quoted = scan.quoted
        /\ e.expectSep = TRUE /\ e.records = scan.records /\ e.errors = scan.errors
    BY <1>1, CloseIs
  <2> HIDE DEF e, rest
  <2>6. InField(e, v, <<>>)
    BY <1>2, <2>1, <2>5, JoinTexts DEF InField, IsClosed
  <2>7. Left(text, i') = <<>> \o rest
    BY <1>1, <2>2, <2>4, JoinTexts
  <2>8. GoesOn(v, rest)
    BY <2>4, <2>5, <2>6, <2>7, JoinTexts DEF GoesOn
  <2> QED
    BY <2>8 DEF rest
<1>5. ASSUME NEW x \in Char, NEW w \in Text, u = <<x>> \o w, ToSet(u) = {x} \cup ToSet(w)
      PROVE  GoesOn(v, rest)
  <2>1. x # CR
    <3>1. x \in ToSet(v)
      BY <1>1, <1>3, <1>5, PlainAtom
    <3> QED
      BY <3>1
  <2> DEFINE f == Doubled(w) \o <<Quote>>
             m == f \o rest
             b == Doubling(x)
             g == Append(scan.val, x)
  <2>2. f \in Text /\ m \in Text /\ b \in Text /\ Doubled(w) \in Text
    <3>1. Doubled(w) \in Text
      BY DoubledType
    <3>2. b \in Text
      BY SinglesAreTexts, AtomsAreChars DEF Doubling
    <3>3. f \in Text
      BY <1>1, <3>1, JoinTexts
    <3> HIDE DEF f
    <3> QED
      BY <1>1, <3>1, <3>2, <3>3, JoinTexts
  <2>3. Left(text, i) = b \o m
    <3> DEFINE d == Doubled(w)
    <3>1. y = (b \o d) \o <<Quote>>
      BY <1>3, <1>5, DoubledStarts
    <3>2. d \in Text /\ f = d \o <<Quote>>
      BY <2>2
    <3>a. b \in Text /\ <<Quote>> \in Text
      BY <1>1, <2>2
    <3> HIDE DEF d, b
    <3>b. Turns(b, d, <<Quote>>)
      BY <3>a, <3>2, JoinTurns
    <3>3. y = b \o (d \o <<Quote>>)
      BY <3>1, <3>b DEF Turns, Join
    <3>4. y = b \o f
      BY <3>2, <3>3
    <3>5. f \in Text /\ rest \in Text
      BY <1>1, <2>2
    <3> HIDE DEF f
    <3>6. Left(text, i) = (b \o f) \o rest
      BY <3>4
    <3> HIDE DEF rest
    <3>7. Turns(b, f, rest)
      BY <3>a, <3>5, JoinTurns, SMTT(40)
    <3> QED
      BY <3>6, <3>7 DEF Turns, Join
  <2>4. v = g \o w
    <3>1. g = scan.val \o <<x>> /\ <<x>> \in Text
      BY <1>1, JoinTexts
    <3>2. v = scan.val \o (<<x>> \o w)
      BY <1>3, <1>5
    <3>3. scan.val \in Text
      BY <1>1
    <3> HIDE DEF g
    <3>4. Turns(scan.val, <<x>>, w)
      BY <3>1, <3>3, JoinTurns
    <3> QED
      BY <3>1, <3>2, <3>4 DEF Turns, Join
  <2>5. ASSUME NEW e, e.cur = scan.cur, e.val = g, e.inQuotes, e.quoted, ~e.expectSep,
               e.records = scan.records, e.errors = scan.errors,
               scan' = e, Left(text, i') = m
        PROVE  GoesOn(v, rest)
    <3> HIDE DEF rest, m
    <3>1. IsInside(e, v, f)
      BY <2>4, <2>5 DEF IsInside
    <3>2. InField(e, v, f)
      BY <2>2, <3>1 DEF InField
    <3> QED
      BY <2>2, <2>5, <3>2 DEF GoesOn, m
  <2> HIDE DEF f, m, g, rest
  <2>6. CASE x = Quote
    <3>1. b = <<Quote, Quote>>
      BY <2>6 DEF Doubling
    <3> DEFINE o == <<Quote>>
               q == o \o m
    <3>2. <<Quote, Quote>> = o \o o
      OBVIOUS
    <3>3. o \in Text /\ m \in Text /\ q \in Text
      BY <1>1, <2>2, JoinTexts
    <3> HIDE DEF o
    <3>4. Turns(o, o, m)
      BY <3>3, JoinTurns
    <3>5. Left(text, i) = o \o q
      BY <2>3, <3>1, <3>2, <3>4 DEF Turns, Join
    <3>6. Begins(q, Quote, m)
      BY DEF Begins, o
    <3> HIDE DEF q
    <3>7. Begins(Left(text, i), Quote, q)
      BY <3>5 DEF Begins, o
    <3>8. text[i] = Quote /\ Ahead = Quote /\ Left(text, i + 2) = m
      BY <1>1, <3>3, <3>6, <3>7, <2>2, AheadIs
    <3> DEFINE e == [scan EXCEPT !.val = Append(@, Quote)]
    <3>9. scan' = e /\ i' = i + 2
      BY <1>2, <3>8, TurnIs DEF Advance
    <3>10. /\ e.cur = scan.cur /\ e.val = g /\ e.inQuotes = scan.inQuotes /\ e.quoted = scan.quoted
          /\ e.expectSep = scan.expectSep /\ e.records = scan.records /\ e.errors = scan.errors
      <4>1. scan \in Locals /\ Quote \in Char /\ g = Append(scan.val, Quote)
        BY <1>1, <2>6 DEF g
      <4> QED
        BY <4>1, AppendIs
    <3> HIDE DEF e
    <3> QED
      BY <1>2, <2>5, <3>8, <3>9, <3>10
  <2>7. CASE x # Quote
    <3>1. Left(text, i) = <<x>> \o m
      BY <2>3, <2>7 DEF Doubling
    <3>2. text[i] = x /\ Left(text, i + 1) = m
      BY <2>2, <3>1, LeftHere DEF Begins
    <3>3. CASE x = LF
      <4> DEFINE e == [scan EXCEPT !.newline = TRUE, !.val = Append(@, LF)]
      <4>1. scan' = e /\ i' = i + 1
        BY <1>2, <3>2, <3>3, TurnIs DEF Advance
      <4>2. /\ e.cur = scan.cur /\ e.val = g /\ e.inQuotes = scan.inQuotes /\ e.quoted = scan.quoted
            /\ e.expectSep = scan.expectSep /\ e.records = scan.records /\ e.errors = scan.errors
        <5>1. scan \in Locals /\ LF \in Char /\ g = Append(scan.val, LF)
          BY <1>1, <3>3 DEF g
        <5> QED
          BY <5>1, BreakIs
      <4> HIDE DEF e
      <4> QED
        BY <1>2, <2>5, <3>2, <4>1, <4>2
    <3>4. CASE x # LF
      <4> DEFINE e == [scan EXCEPT !.val = Append(@, x)]
      <4>1. scan' = e /\ i' = i + 1
        <5>1. text[i] \notin {Quote, CR, LF}
          BY <2>1, <2>7, <3>2, <3>4
        <5>2. Advance([scan EXCEPT !.val = Append(@, text[i])], 1)
          BY <1>2, <5>1, TurnIs
        <5> QED
          BY <3>2, <5>2 DEF Advance
      <4>2. /\ e.cur = scan.cur /\ e.val = g /\ e.inQuotes = scan.inQuotes /\ e.quoted = scan.quoted
            /\ e.expectSep = scan.expectSep /\ e.records = scan.records /\ e.errors = scan.errors
        BY <1>1, AppendIs DEF g
      <4> HIDE DEF e
      <4> QED
        BY <1>2, <2>5, <3>2, <4>1, <4>2
    <3> QED
      BY <3>3, <3>4
  <2> QED
    BY <2>6, <2>7
<1> QED
  BY <1>3, <1>4, <1>5, FirstAtom, ZenonT(60)

(* One turn in a field that was written for a value.                       *)
LEMMA FieldTurn ==
  ASSUME TInv, Turn, NEW v \in Text, CR \notin ToSet(v), NEW z \in {Comma, LF}, NEW r \in Text,
         NEW y, InField(scan, v, y), Left(text, i) = y \o (<<z>> \o r)
  PROVE  GoesOn(v, <<z>> \o r) \/ EndsField(v, z, r)
<1>1. y \in Text /\ (IsPlain(scan, v, y) \/ IsFresh(scan, v, y) \/ IsInside(scan, v, y) \/ IsClosed(scan, v, y))
  BY DEF InField
<1>2. CASE IsPlain(scan, v, y)
  BY <1>1, <1>2, PlainTurn
<1>3. CASE IsFresh(scan, v, y)
  <2> DEFINE rest == <<z>> \o r
  <2>1. rest \in Text /\ Left(text, i) = y \o rest
    BY JoinTexts, AtomsAreChars
  <2> HIDE DEF rest
  <2>2. GoesOn(v, rest)
    BY <1>1, <1>3, <2>1, FreshTurn
  <2> QED
    BY <2>2 DEF rest
<1>4. CASE IsInside(scan, v, y)
  BY <1>1, <1>4, InsideTurn
<1>5. CASE IsClosed(scan, v, y)
  <2> DEFINE rest == <<z>> \o r
  <2>1. rest \in Text /\ Left(text, i) = y \o rest
    BY JoinTexts, AtomsAreChars
  <2>2. ~scan.inQuotes /\ scan.val = v /\ y = <<>>
    BY <1>5 DEF IsClosed
  <2> HIDE DEF rest
  <2>3. Left(text, i) = rest
    BY <2>1, <2>2, JoinTexts
  <2>4. Left(text, i) = <<z>> \o r
    BY <2>3 DEF rest
  <2> QED
    BY <2>2, <2>4, FieldEnds
<1> QED
  BY <1>1, <1>2, <1>3, <1>4, <1>5

(* What is written after a field of a row, and the lines of the rows after *)
(* the first n.                                                            *)
After(r, c) == FlattenSeq([k \in 1..(5 - c) |-> <<Comma>> \o Quoted(Fields(r)[c + k])]) \o <<LF>>

LinesFrom(Q, n) == FlattenSeq([k \in 1..(Len(Q) - n) |-> Line(Q[n + k])])

(* The fields of a row, and the text after each of them.                   *)
LEMMA FieldsAre ==
  ASSUME NEW r, RowOK(r)
  PROVE  \A c \in 1..5 : Fields(r)[c] \in Text /\ Quoted(Fields(r)[c]) \in Text
<1>1. <<Serialized(r.date)>> \in Text
  BY SerializedType, SinglesAreTexts DEF RowOK
<1>2. r.directory \in Text /\ r.author \in Text /\ r.tag \in Text /\ r.message \in Text
  BY DEF RowOK, RowRead
<1>3. \A c \in 1..5 : Fields(r)[c] \in Text
  BY <1>1, <1>2 DEF Fields
<1> QED
  BY <1>3, QuotedType

LEMMA AfterIs ==
  ASSUME NEW r, RowOK(r), NEW c \in 1..5
  PROVE  /\ After(r, c) \in Text
         /\ c = 5 => After(r, c) = <<LF>>
         /\ c < 5 => After(r, c) = (<<Comma>> \o Quoted(Fields(r)[c + 1])) \o After(r, c + 1)
<1> DEFINE Cell(k) == <<Comma>> \o Quoted(Fields(r)[k])
           P(d) == [k \in 1..(5 - d) |-> Cell(d + k)]
<1>1. \A k \in 1..5 : Cell(k) \in Text
  BY FieldsAre, JoinTexts
<1> HIDE DEF Cell
<1>2. ASSUME NEW d \in 1..5
      PROVE  P(d) \in Seq(Text) /\ Len(P(d)) = 5 - d /\ \A k \in 1..(5 - d) : P(d)[k] = Cell(d + k)
  <2> DEFINE m == 5 - d
             s == P(d)
  <2>1. m \in Nat /\ \A k \in 1..m : d + k \in 1..5
    OBVIOUS
  <2>2. s \in [1..m -> Text] /\ \A k \in 1..m : s[k] = Cell(d + k)
    BY <1>1, <2>1
  <2> HIDE DEF m, s
  <2>3. s \in Seq(Text) /\ Len(s) = m
    BY <2>1, <2>2, ListsAre
  <2> QED
    BY <2>2, <2>3 DEF m, s
<1>3. \A d \in 1..5 : After(r, d) = FlattenSeq(P(d)) \o <<LF>>
  BY DEF After, Cell
<1> HIDE DEF P
<1>4. \A d \in 1..5 : FlattenSeq(P(d)) \in Text
  BY <1>2, FlattenType DEF Text
<1>5. ASSUME NEW d \in 1..5 PROVE After(r, d) \in Text
  <2> DEFINE u == FlattenSeq(P(d))
  <2>1. u \in Text /\ After(r, d) = u \o <<LF>>
    BY <1>3, <1>4
  <2> HIDE DEF u
  <2> QED
    BY <2>1, JoinTexts
<1>6. CASE c = 5
  <2> DEFINE s == P(c)
  <2>1. s \in Seq(Text) /\ Len(s) = 0
    BY <1>2, <1>6
  <2>2. After(r, c) = FlattenSeq(s) \o <<LF>>
    BY <1>3
  <2> HIDE DEF s
  <2>3. s = <<>>
    BY <2>1
  <2>4. <<>> \o <<LF>> = <<LF>>
    BY JoinTexts
  <2> QED
    BY <1>5, <1>6, <2>2, <2>3, <2>4, FlattenNothing
<1>7. CASE c < 5
  <2> DEFINE b == c + 1
             n == 5 - b
             s == P(b)
             t == P(c)
             f == FlattenSeq(s)
             x == Cell(b)
  <2>1. b \in 1..5 /\ n \in Nat /\ 5 - c = n + 1 /\ c + 1 = b /\ 1 \in 1..(5 - c)
    BY <1>7
  <2>2. \A k \in 1..n : k + 1 \in 1..(5 - c) /\ c + (k + 1) = b + k
    BY <2>1
  <2> HIDE DEF b
  <2>3. s \in Seq(Text) /\ Len(s) = n /\ \A k \in 1..n : s[k] = Cell(b + k)
    BY <1>2, <2>1
  <2>4. t \in Seq(Text) /\ Len(t) = n + 1 /\ t[1] = x /\ \A k \in 1..n : t[k + 1] = Cell(b + k)
    BY <1>2, <2>1, <2>2, ZenonT(60)
  <2>5. f \in Text /\ x \in Text
    BY <1>1, <1>4, <2>1
  <2>6. After(r, c) = FlattenSeq(t) \o <<LF>> /\ After(r, b) = f \o <<LF>>
    BY <1>3, <2>1
  <2> HIDE DEF s, t, x, n
  <2>7. FlattenSeq(t) = t[1] \o FlattenSeq(s)
    <3>1. \A k \in 1..n : t[k + 1] = s[k]
      BY <2>3, <2>4
    <3> QED
      BY <2>1, <2>3, <2>4, <3>1, FlattenStarts DEF Text
  <2>8. After(r, c) = (x \o f) \o <<LF>>
    BY <2>4, <2>6, <2>7
  <2> HIDE DEF f
  <2>9. Turns(x, f, <<LF>>)
    BY <2>5, JoinTexts, JoinTurns
  <2>10. After(r, c) = x \o After(r, b)
    BY <2>6, <2>8, <2>9 DEF Turns, Join
  <2>11. After(r, c) = (<<Comma>> \o Quoted(Fields(r)[c + 1])) \o After(r, c + 1)
    BY <2>10 DEF b, x, Cell
  <2>12. c # 5 /\ After(r, c) \in Text
    BY <1>5, <1>7
  <2> QED
    BY <2>11, <2>12, Zenon
<1> QED
  BY <1>5, <1>6, <1>7

LEMMA LineStarts ==
  ASSUME NEW r, RowOK(r)
  PROVE  Line(r) = Quoted(Fields(r)[1]) \o After(r, 1) /\ Line(r) \in Text
<1> DEFINE Cell(k) == <<Comma>> \o Quoted(Fields(r)[k])
           q == Quoted(Fields(r)[1])
           t == [c \in 1..5 |-> (IF c = 1 THEN <<>> ELSE <<Comma>>) \o Quoted(Fields(r)[c])]
           s == [k \in 1..4 |-> Cell(1 + k)]
           f == FlattenSeq(s)
           n == 4
           m == 5
<1>1. q \in Text /\ (\A k \in 1..5 : Cell(k) \in Text) /\ <<>> \o q = q
  <2>1. \A k \in 1..5 : Cell(k) \in Text
    BY FieldsAre, JoinTexts
  <2>2. q \in Text
    BY FieldsAre
  <2> HIDE DEF q
  <2>3. <<>> \o q = q
    BY <2>2, JoinTexts
  <2> QED
    BY <2>1, <2>2, <2>3
<1>2. Line(r) = FlattenSeq(t) \o <<LF>>
  BY NFieldsIs DEF Line
<1>3. After(r, 1) = f \o <<LF>>
  <2>1. 5 - 1 = 4
    OBVIOUS
  <2> QED
    BY <2>1 DEF After
<1>4. t[1] = q /\ \A k \in 1..4 : t[k + 1] = Cell(1 + k)
  <2>1. t[1] = <<>> \o q
    OBVIOUS
  <2>2. \A k \in 1..4 : k + 1 \in 1..5 /\ k + 1 # 1 /\ k + 1 = 1 + k
    OBVIOUS
  <2>3. \A k \in 1..4 : t[k + 1] = <<Comma>> \o Quoted(Fields(r)[k + 1])
    BY <2>2
  <2> HIDE DEF t
  <2> QED
    BY <1>1, <2>1, <2>2, <2>3
<1>5. \A c \in 1..5 : t[c] \in Text
  <2>1. \A c \in 1..5 : c = 1 \/ (c - 1 \in 1..4 /\ (c - 1) + 1 = c /\ 1 + (c - 1) = c)
    OBVIOUS
  <2> HIDE DEF t, Cell, q
  <2> QED
    BY <1>1, <1>4, <2>1
<1>6. DOMAIN t = 1..5
  OBVIOUS
<1> HIDE DEF Cell
<1>7. s \in [1..4 -> Text] /\ \A k \in 1..4 : s[k] = Cell(1 + k)
  BY <1>1
<1>8. t \in [1..5 -> Text]
  <2>1. t = [c \in 1..5 |-> t[c]]
    OBVIOUS
  <2> HIDE DEF t
  <2> QED
    BY <1>5, <2>1
<1> HIDE DEF s, t, q
<1>9. s \in Seq(Text) /\ Len(s) = n /\ t \in Seq(Text) /\ Len(t) = n + 1 /\ n \in Nat
  <2>1. n \in Nat /\ m \in Nat /\ m = n + 1
    OBVIOUS
  <2>2. s \in [1..n -> Text] /\ t \in [1..m -> Text]
    BY <1>7, <1>8
  <2> HIDE DEF n, m
  <2>3. s \in Seq(Text) /\ Len(s) = n
    BY <2>1, <2>2, ListsAre
  <2>4. t \in Seq(Text) /\ Len(t) = m
    BY <2>1, <2>2, ListsAre
  <2> QED
    BY <2>1, <2>3, <2>4
<1>10. f \in Text
  BY <1>9, FlattenType DEF Text
<1>11. \A k \in 1..n : t[k + 1] = s[k]
  BY <1>4, <1>7
<1> HIDE DEF n
<1>12. FlattenSeq(t) = t[1] \o FlattenSeq(s)
  BY <1>9, <1>11, FlattenStarts DEF Text
<1>13. Line(r) = (q \o f) \o <<LF>>
  BY <1>2, <1>4, <1>12
<1> HIDE DEF f
<1>14. Turns(q, f, <<LF>>)
  BY <1>1, <1>10, JoinTexts, JoinTurns
<1>15. Line(r) = q \o After(r, 1)
  BY <1>3, <1>13, <1>14 DEF Turns, Join
<1> QED
  BY <1>15, LineType DEF q

LEMMA LinesAreLeft ==
  ASSUME NEW Q \in Seq(RowRead), \A k \in 1..Len(Q) : RowOK(Q[k]), NEW n \in 0..Len(Q)
  PROVE  /\ LinesFrom(Q, n) \in Text
         /\ n = 0 => LinesFrom(Q, n) = Written(Q)
         /\ n = Len(Q) => LinesFrom(Q, n) = <<>>
         /\ n < Len(Q) => LinesFrom(Q, n) = Line(Q[n + 1]) \o LinesFrom(Q, n + 1)
<1> DEFINE N == Len(Q)
           P(d) == [k \in 1..(N - d) |-> Line(Q[d + k])]
<1>1. N \in Nat /\ \A k \in 1..N : Line(Q[k]) \in Text
  BY LineType
<1> HIDE DEF N
<1>2. ASSUME NEW d \in 0..N
      PROVE  P(d) \in Seq(Text) /\ Len(P(d)) = N - d /\ \A k \in 1..(N - d) : P(d)[k] = Line(Q[d + k])
  <2> DEFINE m == N - d
             s == P(d)
  <2>1. m \in Nat /\ \A k \in 1..m : d + k \in 1..N
    BY <1>1
  <2>2. s \in [1..m -> Text] /\ \A k \in 1..m : s[k] = Line(Q[d + k])
    BY <1>1, <2>1
  <2> HIDE DEF m, s
  <2>3. s \in Seq(Text) /\ Len(s) = m
    BY <2>1, <2>2, ListsAre
  <2> QED
    BY <2>2, <2>3 DEF m, s
<1>3. \A d \in 0..N : LinesFrom(Q, d) = FlattenSeq(P(d))
  BY DEF LinesFrom, N
<1>4. ASSUME n = 0 PROVE LinesFrom(Q, n) = Written(Q)
  <2>1. P(0) = [k \in DOMAIN Q |-> Line(Q[k])]
    <3>1. N - 0 = N /\ DOMAIN Q = 1..N /\ \A k \in 1..N : 0 + k = k
      BY <1>1 DEF N
    <3> QED
      BY <3>1
  <2>2. 0 \in 0..N
    BY <1>1
  <2> HIDE DEF P
  <2>3. LinesFrom(Q, n) = FlattenSeq(P(0))
    BY <1>3, <1>4, <2>2
  <2> QED
    BY <2>1, <2>3 DEF Written
<1> HIDE DEF P
<1>5. LinesFrom(Q, n) \in Text
  <2>1. P(n) \in Seq(Text)
    BY <1>2 DEF N
  <2>2. FlattenSeq(P(n)) \in Text
    BY <2>1, FlattenType DEF Text
  <2> QED
    BY <1>3, <2>2 DEF N
<1>6. ASSUME n = N PROVE LinesFrom(Q, n) = <<>>
  <2> DEFINE s == P(n)
  <2>1. s \in Seq(Text) /\ Len(s) = 0
    BY <1>1, <1>2, <1>6
  <2> HIDE DEF s
  <2>2. s = <<>>
    BY <2>1
  <2>3. LinesFrom(Q, n) = FlattenSeq(s)
    BY <1>3 DEF s, N
  <2> QED
    BY <2>2, <2>3, FlattenNothing
<1>7. ASSUME n < N PROVE LinesFrom(Q, n) = Line(Q[n + 1]) \o LinesFrom(Q, n + 1)
  <2> DEFINE b == n + 1
             m == N - b
             s == P(b)
             t == P(n)
  <2>1. b \in 0..N /\ n \in 0..N /\ m \in Nat /\ N - n = m + 1 /\ 1 \in 1..(N - n)
    BY <1>1, <1>7
  <2>2. \A k \in 1..m : k + 1 \in 1..(N - n) /\ n + (k + 1) = b + k
    BY <1>1, <2>1
  <2> HIDE DEF b
  <2>3. s \in Seq(Text) /\ Len(s) = m /\ \A k \in 1..m : s[k] = Line(Q[b + k])
    BY <1>2, <2>1
  <2>4. t \in Seq(Text) /\ Len(t) = m + 1 /\ t[1] = Line(Q[b]) /\ \A k \in 1..m : t[k + 1] = Line(Q[b + k])
    BY <1>2, <2>1, <2>2 DEF b
  <2>5. LinesFrom(Q, n) = FlattenSeq(t) /\ LinesFrom(Q, b) = FlattenSeq(s)
    BY <1>3, <2>1
  <2> HIDE DEF s, t, m
  <2>6. FlattenSeq(t) = t[1] \o FlattenSeq(s)
    <3>1. \A k \in 1..m : t[k + 1] = s[k]
      BY <2>3, <2>4
    <3> QED
      BY <2>1, <2>3, <2>4, <3>1, FlattenStarts DEF Text
  <2> QED
    BY <2>4, <2>5, <2>6 DEF b
<1> QED
  BY <1>4, <1>5, <1>6, <1>7 DEF N

(* The tokenizer has read a part of the lines of some rows: it has made the *)
(* records of the first of them, and it is in a field of the next.         *)
IsRecordOf(f, r) == Len(f) = 5 /\ \A c \in 1..5 : f[c].value = Fields(r)[c]

(* In a row, with a part of the field that is next and then the rest of its*)
(* line ahead; and after the last row.                                     *)
InRow(t, p, s, r, lines) ==
  /\ Len(s.cur) \in 0..4 /\ \A c \in 1..Len(s.cur) : s.cur[c].value = Fields(r)[c]
  /\ \E y : /\ InField(s, Fields(r)[Len(s.cur) + 1], y)
            /\ Left(t, p) = y \o (After(r, Len(s.cur) + 1) \o lines)

IsThrough(t, p, s) ==
  s.cur = <<>> /\ s.val = <<>> /\ ~s.inQuotes /\ ~s.started /\ Left(t, p) = <<>>

Follows(t, p, s, Q) ==
  /\ s.errors = {} /\ Len(s.records) <= Len(Q)
  /\ \A k \in 1..Len(s.records) : IsRecordOf(s.records[k], Q[k])
  /\ IF Len(s.records) = Len(Q) THEN IsThrough(t, p, s)
     ELSE InRow(t, p, s, Q[Len(s.records) + 1], LinesFrom(Q, Len(s.records) + 1))

(* Rows that can be written and read again.                                *)
Readable(Q) ==
  /\ Q \in Seq(RowRead)
  /\ \A k \in 1..Len(Q) : RowOK(Q[k]) /\ \A c \in 1..5 : CR \notin ToSet(Fields(Q[k])[c])

LEMMA FieldStarts ==
  ASSUME NEW s, NEW v \in Text, s.val = <<>>, ~s.inQuotes, ~s.quoted, ~s.expectSep
  PROVE  InField(s, v, Quoted(v))
<1>1. Quoted(v) \in Text
  BY QuotedType
<1>2. CASE QuotingNeeded(v)
  BY <1>1, <1>2 DEF InField, IsFresh
<1>3. CASE ~QuotingNeeded(v)
  <2>1. Quoted(v) = v
    BY <1>3, QuotedIs
  <2>2. v = <<>> \o v
    BY JoinTexts
  <2> QED
    BY <1>1, <1>3, <2>1, <2>2 DEF InField, IsPlain
<1> QED
  BY <1>2, <1>3

(* Between two lines.                                                      *)
LEMMA LineBegins ==
  ASSUME NEW Q, Readable(Q), NEW t, NEW p, NEW s \in Locals,
         s.errors = {}, Len(s.records) <= Len(Q),
         \A k \in 1..Len(s.records) : IsRecordOf(s.records[k], Q[k]),
         s.cur = <<>>, s.val = <<>>, ~s.inQuotes, ~s.quoted, ~s.expectSep, ~s.started,
         Left(t, p) = LinesFrom(Q, Len(s.records))
  PROVE  Follows(t, p, s, Q)
<1> DEFINE n == Len(s.records)
           N == Len(Q)
<1>1. n \in Nat /\ N \in Nat /\ n \in 0..N /\ Q \in Seq(RowRead) /\ \A k \in 1..N : RowOK(Q[k])
  BY LocalsAre DEF Readable
<1>2. CASE n = N
  <2>1. Left(t, p) = <<>>
    BY <1>1, <1>2, LinesAreLeft
  <2> QED
    BY <1>2, <2>1 DEF Follows, IsThrough
<1>3. CASE n # N
  <2> DEFINE r == Q[n + 1]
             v == Fields(r)[1]
             y == Quoted(v)
             lines == LinesFrom(Q, n + 1)
             a == After(r, 1)
  <2>1. n + 1 \in 0..N /\ n + 1 \in 1..N /\ n < N
    BY <1>1, <1>3
  <2>2. RowOK(r)
    BY <1>1, <2>1
  <2>3. LinesFrom(Q, n) = Line(r) \o lines /\ lines \in Text
    BY <1>1, <2>1, LinesAreLeft
  <2> HIDE DEF r
  <2>4. Line(r) = y \o a /\ a \in Text
    BY <2>2, LineStarts, AfterIs
  <2>5. v \in Text /\ y \in Text
    BY <2>2, FieldsAre
  <2>6. InField(s, v, y)
    <3> HIDE DEF v
    <3> QED
      BY <2>5, FieldStarts
  <2>7. Left(t, p) = (y \o a) \o lines
    BY <2>3, <2>4
  <2> HIDE DEF v, y, lines, a
  <2>8. Turns(y, a, lines)
    BY <2>3, <2>4, <2>5, JoinTurns
  <2>9. Left(t, p) = y \o (a \o lines)
    BY <2>7, <2>8 DEF Turns, Join
  <2>10. Len(s.cur) = 0 /\ 0 \in 0..4 /\ 1..0 = {} /\ 0 + 1 = 1
    OBVIOUS
  <2>11. InRow(t, p, s, r, lines)
    BY <2>6, <2>9, <2>10 DEF InRow, v, a
  <2> QED
    BY <1>3, <2>11 DEF Follows, r, lines
<1> QED
  BY <1>2, <1>3

(* The separator after a field.                                            *)
LEMMA SeparatorIs ==
  ASSUME NEW r, RowOK(r), NEW c \in 1..5, NEW lines \in Text
  PROVE  \E z \in {Comma, LF} : \E rest \in Text :
           /\ After(r, c) \o lines = <<z>> \o rest
           /\ z = Comma => c < 5 /\ rest = Quoted(Fields(r)[c + 1]) \o (After(r, c + 1) \o lines)
           /\ z = LF => c = 5 /\ rest = lines
<1>1. Comma # LF
  BY CharsDiffer
<1>2. CASE c = 5
  <2>1. After(r, c) = <<LF>>
    BY <1>2, AfterIs
  <2> QED
    BY <1>1, <1>2, <2>1
<1>3. CASE c # 5
  <2> DEFINE d == c + 1
             q == Quoted(Fields(r)[d])
             b == After(r, d)
             f == <<Comma>>
             x == b \o lines
             rest == q \o x
  <2>1. d \in 1..5 /\ c < 5
    BY <1>3
  <2>2. After(r, c) = (f \o q) \o b
    BY <2>1, AfterIs
  <2>3. q \in Text /\ b \in Text /\ f \in Text
    <3> HIDE DEF d
    <3> QED
      BY <2>1, FieldsAre, AfterIs, JoinTexts
  <2> HIDE DEF q, b, f
  <2>4. x \in Text /\ f \o q \in Text
    BY <2>3, JoinTexts
  <2>5. Turns(f \o q, b, lines)
    BY <2>3, <2>4, JoinTurns
  <2>6. After(r, c) \o lines = (f \o q) \o x
    BY <2>2, <2>5 DEF Turns, Join
  <2> HIDE DEF x
  <2>7. Turns(f, q, x) /\ rest \in Text
    BY <2>3, <2>4, JoinTurns, JoinTexts
  <2>8. After(r, c) \o lines = f \o rest
    BY <2>6, <2>7 DEF Turns, Join
  <2>9. rest = Quoted(Fields(r)[c + 1]) \o (After(r, c + 1) \o lines)
    BY DEF q, b, x
  <2>10. f = <<Comma>>
    BY DEF f
  <2> HIDE DEF rest
  <2> QED
    BY <1>1, <2>1, <2>7, <2>8, <2>9, <2>10
<1> QED
  BY <1>2, <1>3

LEMMA SomethingAfter ==
  ASSUME NEW r, RowOK(r), NEW c \in 1..5
  PROVE  After(r, c) \in Text /\ Len(After(r, c)) >= 1
<1>1. CASE c = 5
  <2>1. After(r, c) = <<LF>>
    BY <1>1, AfterIs
  <2> QED
    BY <2>1, JoinTexts
<1>2. CASE c # 5
  <2> DEFINE d == c + 1
             q == Quoted(Fields(r)[d])
             b == After(r, d)
             f == <<Comma>>
  <2>1. d \in 1..5 /\ c < 5
    BY <1>2
  <2>2. After(r, c) = (f \o q) \o b
    BY <2>1, AfterIs
  <2>3. q \in Text /\ b \in Text /\ f \in Text /\ Len(f) = 1
    <3> HIDE DEF d
    <3> QED
      BY <2>1, FieldsAre, AfterIs, JoinTexts
  <2> HIDE DEF q, b, f
  <2> DEFINE g == f \o q
  <2>4. g \in Seq(Char) /\ Len(g) >= 1
    <3>1. f \in Seq(Char) /\ q \in Seq(Char)
      BY <2>3 DEF Text
    <3>2. g \in Seq(Char) /\ Len(g) = Len(f) + Len(q) /\ Len(q) \in Nat
      BY <3>1
    <3> QED
      BY <2>3, <3>2
  <2> HIDE DEF g
  <2>5. g \o b \in Seq(Char) /\ Len(g \o b) >= 1
    BY <2>3, <2>4 DEF Text
  <2> QED
    BY <2>2, <2>5 DEF g, Text
<1> QED
  BY <1>1, <1>2

(* A turn of the loop follows the text: it stays in the field, goes on to  *)
(* the next one, or ends the row.                                          *)
LEMMA TurnFollows ==
  ASSUME TInv, Turn, NEW Q, Readable(Q), Follows(text, i, scan, Q)
  PROVE  Follows(text, i', scan', Q)
<1> DEFINE n == Len(scan.records)
           N == Len(Q)
           r == Q[n + 1]
           m == Len(scan.cur)
           c == m + 1
           v == Fields(r)[c]
           lines == LinesFrom(Q, n + 1)
<1>1. /\ scan \in Locals /\ n \in Nat /\ N \in Nat /\ n <= N /\ m \in Nat
      /\ scan.records \in Seq(Seq(FieldRead)) /\ scan.cur \in Seq(FieldRead) /\ FieldOf(scan) \in FieldRead
      /\ text \in Text /\ i \in 1..Len(text)
  <2>1. i <= Len(text)
    BY TurnIs
  <2>2. i \in 1..(Len(text) + 1) /\ text \in Text /\ scan \in Locals
    BY DEF TInv, ScanOK
  <2>3. Len(text) \in Nat /\ N \in Nat
    BY <2>2 DEF Text, Readable
  <2> QED
    BY <2>1, <2>2, <2>3, LocalsAre, FieldOfType DEF Follows
<1>2. scan.errors = {} /\ \A k \in 1..n : IsRecordOf(scan.records[k], Q[k])
  BY DEF Follows
<1>3. n < N
  <2> SUFFICES ASSUME n = N PROVE FALSE
    BY <1>1
  <2>1. Left(text, i) = <<>>
    BY DEF Follows, IsThrough
  <2>2. Len(Left(text, i)) = Len(text) - i + 1
    BY <1>1 DEF Left, Text
  <2>3. Len(<<>>) = 0 /\ Len(text) \in Nat
    BY <1>1 DEF Text
  <2> QED
    BY <1>1, <2>1, <2>2, <2>3
<1>4. /\ m \in 0..4 /\ \A k \in 1..m : scan.cur[k].value = Fields(r)[k]
      /\ \E y : InField(scan, v, y) /\ Left(text, i) = y \o (After(r, c) \o lines)
  <2>1. n # N
    BY <1>1, <1>3
  <2>2. InRow(text, i, scan, r, lines)
    BY <2>1 DEF Follows
  <2> HIDE DEF r, lines
  <2> QED
    BY <2>2 DEF InRow
<1>5. n + 1 \in 1..N /\ n + 1 \in 0..N /\ c \in 1..5
  <2>1. m \in 0..4
    BY <1>4
  <2> HIDE DEF n, N, m
  <2>2. n + 1 \in 1..N /\ n + 1 \in 0..N
    BY <1>1, <1>3
  <2>3. m + 1 \in 1..5
    BY <2>1
  <2> QED
    BY <2>2, <2>3, SMTT(40)
<1>6. RowOK(r) /\ v \in Text /\ CR \notin ToSet(v) /\ lines \in Text
  <2>1. RowOK(r) /\ \A k \in 1..5 : CR \notin ToSet(Fields(r)[k])
    BY <1>5 DEF Readable
  <2>2. lines \in Text
    BY <1>5, LinesAreLeft DEF Readable
  <2> HIDE DEF r
  <2> QED
    BY <1>5, <2>1, <2>2, FieldsAre
<1> HIDE DEF r, v, lines
<1>7. PICK y : InField(scan, v, y) /\ Left(text, i) = y \o (After(r, c) \o lines)
  BY <1>4
<1>8. PICK z \in {Comma, LF}, rest \in Text :
        /\ After(r, c) \o lines = <<z>> \o rest
        /\ z = Comma => c < 5 /\ rest = Quoted(Fields(r)[c + 1]) \o (After(r, c + 1) \o lines)
        /\ z = LF => c = 5 /\ rest = lines
  <2> HIDE DEF c
  <2> QED
    BY <1>5, <1>6, SeparatorIs, ZenonT(60)
<1> DEFINE tail == After(r, c) \o lines
<1>9. GoesOn(v, tail) \/ EndsField(v, z, rest)
  <2>1. Left(text, i) = y \o (<<z>> \o rest)
    BY <1>7, <1>8
  <2>2. GoesOn(v, <<z>> \o rest) \/ EndsField(v, z, rest)
    BY <1>6, <1>7, <2>1, FieldTurn
  <2> QED
    BY <1>8, <2>2
<1>10. CASE GoesOn(v, tail)
  <2>1. /\ scan'.cur = scan.cur /\ scan'.records = scan.records /\ scan'.errors = {}
        /\ \E x \in Text : InField(scan', v, x) /\ Left(text, i') = x \o (After(r, c) \o lines)
    BY <1>2, <1>10 DEF GoesOn
  <2>2. InRow(text, i', scan', r, lines)
    BY <1>4, <2>1 DEF InRow, v
  <2> QED
    BY <1>1, <1>2, <1>3, <2>1, <2>2 DEF Follows, r, lines
<1>11. CASE EndsField(v, z, rest) /\ z = Comma
  <2> DEFINE f == EndField(scan)
             e == [f EXCEPT !.started = TRUE]
  <2>1. scan' = e /\ Left(text, i') = rest /\ ~scan.inQuotes /\ scan.val = v
    BY <1>11 DEF EndsField
  <2>2. /\ f \in Locals /\ f.cur = Append(scan.cur, FieldOf(scan)) /\ f.val = <<>>
        /\ f.inQuotes = scan.inQuotes /\ f.quoted = FALSE /\ f.expectSep = FALSE
        /\ f.records = scan.records /\ f.errors = scan.errors
    BY <1>1, EndFieldIs
  <2> HIDE DEF f
  <2>3. /\ e.cur = f.cur /\ e.val = f.val /\ e.inQuotes = f.inQuotes /\ e.quoted = f.quoted
        /\ e.expectSep = f.expectSep /\ e.records = f.records /\ e.errors = f.errors
    BY <2>2, StartIs
  <2> HIDE DEF e
  <2>4. /\ Len(e.cur) = c /\ e.cur[c] = FieldOf(scan) /\ \A k \in 1..m : e.cur[k] = scan.cur[k]
    BY <1>1, <2>2, <2>3
  <2>5. FieldOf(scan).value = v
    BY <2>1 DEF FieldOf
  <2>6. \A k \in 1..c : e.cur[k].value = Fields(r)[k]
    <3>1. \A k \in 1..c : k \in 1..m \/ k = c
      BY <1>1
    <3> HIDE DEF c, m
    <3> QED
      BY <1>4, <2>4, <2>5, <3>1 DEF v
  <2>7. c \in 0..4 /\ c + 1 \in 1..5
    BY <1>5, <1>8, <1>11, SMTT(40)
  <2> DEFINE w == Fields(r)[c + 1]
  <2>8. InField(e, w, Quoted(w))
    <3>1. w \in Text
      <4> DEFINE d == c + 1
      <4>1. d \in 1..5
        BY <2>7
      <4> HIDE DEF d
      <4>2. Fields(r)[d] \in Text
        BY <1>6, <4>1, FieldsAre
      <4> QED
        BY <4>2 DEF d
    <3> HIDE DEF w
    <3> QED
      BY <2>1, <2>2, <2>3, <3>1, FieldStarts
  <2>9. Left(text, i') = Quoted(w) \o (After(r, c + 1) \o lines)
    BY <1>8, <1>11, <2>1
  <2>10. InRow(text, i', e, r, lines)
    <3> HIDE DEF w, c, m
    <3> QED
      BY <2>4, <2>6, <2>7, <2>8, <2>9 DEF InRow, w
  <2> QED
    BY <1>1, <1>2, <1>3, <2>1, <2>2, <2>3, <2>10 DEF Follows, r, lines
<1>12. CASE EndsField(v, z, rest) /\ z = LF
  <2> DEFINE f == EndField(scan)
             e == EmitRecord(f)
             g == Append(scan.cur, FieldOf(scan))
  <2>1. scan' = EndLine(scan) /\ Left(text, i') = lines /\ ~scan.inQuotes /\ scan.val = v /\ c = 5
    BY <1>8, <1>12 DEF EndsField
  <2>2. m = 4
    <3>1. m \in Nat /\ m + 1 = 5
      BY <1>1, <2>1
    <3> HIDE DEF m
    <3> QED
      BY <3>1
  <2>3. ~Blank(scan)
    <3>1. scan.cur # <<>>
      BY <2>2
    <3> QED
      BY <3>1 DEF Blank
  <2>4. scan' = e
    BY <2>1, <2>3 DEF EndLine
  <2>5. /\ f \in Locals /\ f.cur = g /\ f.val = <<>>
        /\ f.inQuotes = scan.inQuotes /\ f.quoted = FALSE /\ f.expectSep = FALSE
        /\ f.records = scan.records /\ f.errors = scan.errors
    BY <1>1, EndFieldIs
  <2> HIDE DEF f
  <2>6. /\ e \in Locals /\ e.cur = <<>> /\ e.val = f.val /\ e.inQuotes = f.inQuotes
        /\ e.quoted = f.quoted /\ e.started = FALSE /\ e.expectSep = f.expectSep
        /\ e.records = Append(f.records, f.cur) /\ e.errors = f.errors
    BY <2>5, EmitRecordIs
  <2> HIDE DEF e
  <2>7. IsRecordOf(g, r)
    <3>1. Len(g) = m + 1 /\ g[m + 1] = FieldOf(scan) /\ \A k \in 1..m : g[k] = scan.cur[k]
      BY <1>1
    <3>2. FieldOf(scan).value = v
      BY <2>1 DEF FieldOf
    <3>3. \A k \in 1..5 : k \in 1..m \/ k = m + 1
      BY <2>2
    <3>4. m + 1 = 5
      BY <2>2
    <3> HIDE DEF m, g
    <3> QED
      BY <1>4, <3>1, <3>2, <3>3, <3>4 DEF IsRecordOf, v
  <2>8. g \in Seq(FieldRead)
    BY <1>1
  <2> HIDE DEF g
  <2>9. Len(e.records) = n + 1 /\ e.records[n + 1] = g /\ \A k \in 1..n : e.records[k] = scan.records[k]
    BY <1>1, <2>5, <2>6, <2>8
  <2>10. \A k \in 1..(n + 1) : IsRecordOf(e.records[k], Q[k])
    <3>1. \A k \in 1..(n + 1) : k \in 1..n \/ k = n + 1
      BY <1>1
    <3> HIDE DEF n
    <3> QED
      BY <1>2, <2>7, <2>9, <3>1 DEF r
  <2>11. n + 1 <= N
    BY <1>5
  <2>12. /\ e.errors = {} /\ ~e.inQuotes /\ ~e.quoted /\ ~e.expectSep /\ ~e.started
         /\ e.cur = <<>> /\ e.val = <<>>
    BY <1>2, <2>1, <2>5, <2>6
  <2>13. Left(text, i') = LinesFrom(Q, Len(e.records))
    BY <2>1, <2>9 DEF lines
  <2>14. Follows(text, i', e, Q)
    <3>1. Len(e.records) <= Len(Q) /\ \A k \in 1..Len(e.records) : IsRecordOf(e.records[k], Q[k])
      BY <2>9, <2>10, <2>11
    <3>2. e \in Locals
      BY <2>6
    <3> QED
      BY <2>12, <2>13, <3>1, <3>2, LineBegins
  <2> QED
    BY <2>4, <2>14
<1> QED
  BY <1>9, <1>10, <1>11, <1>12

-----------------------------------------------------------------------------
(* The rows that are written: what was found in an accepted file passes    *)
(* the checks of the reader when it is read once more, its date aside.     *)

GoodRow(r) ==
  /\ RowOK(r) /\ ~IsFuture(r.date)
  /\ \A c \in Validated : FieldErrors(c, Fields(r)[c]) = {}
  /\ \A c \in 1..5 : CR \notin ToSet(Fields(r)[c])

GoodRows(Q) == Q \in Seq(RowRead) /\ \A k \in 1..Len(Q) : GoodRow(Q[k])

(* A row with fields that pass.                                            *)
LEMMA RowIsGood ==
  ASSUME NEW r, RowOK(r), ~IsFuture(r.date), NEW v,
         r.directory = v[1], r.author = v[3], r.tag = v[4], r.message = v[5],
         \A c \in Validated : FieldErrors(c, v[c]) = {} /\ CR \notin ToSet(v[c])
  PROVE  GoodRow(r)
<1>1. /\ Fields(r)[1] = v[1] /\ Fields(r)[3] = v[3] /\ Fields(r)[4] = v[4] /\ Fields(r)[5] = v[5]
      /\ Fields(r)[2] = <<Serialized(r.date)>>
  BY DEF Fields
<1>2. \A c \in Validated : Fields(r)[c] = v[c]
  BY <1>1, NFieldsIs
<1>3. CR \notin ToSet(Fields(r)[2])
  <2>1. Serialized(r.date) \in DOMAIN Date
    BY SerializedType DEF RowOK
  <2>2. Serialized(r.date) # CR
    BY <2>1, DatesAreWords
  <2>3. ToSet(<<Serialized(r.date)>>) = {Serialized(r.date)}
    BY DEF ToSet
  <2> QED
    BY <1>1, <2>2, <2>3
<1>4. \A c \in 1..5 : c \in Validated \/ c = 2
  BY NFieldsIs
<1>5. \A c \in 1..5 : CR \notin ToSet(Fields(r)[c])
  BY <1>2, <1>3, <1>4
<1> QED
  BY <1>2, <1>5 DEF GoodRow

(* The converter puts no carriage return into a value.                     *)
LEMMA StrippedKeeps ==
  ASSUME NEW v \in Text, NEW x, x \notin ToSet(v)
  PROVE  x \notin ToSet(Stripped(v))
<1> DEFINE solid == {k \in DOMAIN v : v[k] \notin White}
           a == Min(solid)
           b == Max(solid)
<1>1. Len(v) \in Nat /\ DOMAIN v = 1..Len(v)
  BY DEF Text
<1>2. Stripped(v) = IF solid = {} THEN <<>> ELSE SubSeq(v, a, b)
  BY DEF Stripped
<1>3. CASE solid = {}
  <2>1. Stripped(v) = <<>>
    BY <1>2, <1>3
  <2>2. ToSet(<<>>) = {}
    BY DEF ToSet
  <2> QED
    BY <2>1, <2>2
<1>4. CASE solid # {}
  <2>1. solid \in SUBSET (1..Len(v))
    BY <1>1
  <2>2. a \in 1..Len(v) /\ b \in 1..Len(v)
    <3> HIDE DEF solid
    <3> QED
      BY <1>1, <1>4, <2>1, LeastExists
  <2>3. Stripped(v) = SubSeq(v, a, b)
    BY <1>2, <1>4
  <2> HIDE DEF a, b, solid
  <2> DEFINE w == SubSeq(v, a, b)
  <2>4. /\ DOMAIN w = 1..Len(w)
        /\ \A k \in 1..Len(w) : w[k] \in ToSet(v)
    <3>1. Len(w) = IF a <= b THEN b - a + 1 ELSE 0
      BY <1>1, <2>2 DEF Text
    <3>2. w \in Text
      BY <1>1, <2>2 DEF Text
    <3>3. \A k \in 1..Len(w) : w[k] = v[a + k - 1] /\ a + k - 1 \in 1..Len(v)
      BY <1>1, <2>2, <3>1 DEF Text
    <3> QED
      BY <1>1, <3>2, <3>3 DEF ToSet, Text
  <2> HIDE DEF w
  <2>5. ToSet(w) \subseteq ToSet(v)
    BY <2>4 DEF ToSet
  <2> QED
    BY <2>3, <2>5 DEF w
<1> QED
  BY <1>3, <1>4

LEMMA LineBrokenKeeps ==
  ASSUME NEW v \in Text, CR \notin ToSet(v)
  PROVE  CR \notin ToSet(LineBroken(v))
<1> DEFINE w == [k \in DOMAIN v |-> IF v[k] = "|" THEN LF ELSE v[k]]
<1>1. Len(v) \in Nat /\ DOMAIN v = 1..Len(v)
  BY DEF Text
<1>2. \A k \in 1..Len(v) : v[k] \in Char
  BY ElementOfSeq DEF Text
<1>3. w \in [1..Len(v) -> Char]
  BY <1>1, <1>2, AtomsAreChars
<1>4. w \in Text
  BY <1>1, <1>3, ListsAre DEF Text
<1>5. CR \notin ToSet(w)
  <2>1. CR # LF
    BY CharsDiffer
  <2>2. DOMAIN w = DOMAIN v /\ \A k \in DOMAIN v : w[k] = LF \/ w[k] = v[k]
    OBVIOUS
  <2>3. \A k \in DOMAIN v : v[k] # CR
    BY DEF ToSet
  <2> HIDE DEF w
  <2> QED
    BY <2>1, <2>2, <2>3 DEF ToSet
<1>6. LineBroken(v) = Stripped(w)
  BY DEF LineBroken
<1> HIDE DEF w
<1> QED
  BY <1>4, <1>5, <1>6, StrippedKeeps

(* A row that the canonical reader makes.                                  *)
LEMMA ReadIsGood ==
  ASSUME TInv, AllBare(scan), ReadRow, ~IsRefused
  PROVE  GoodRow(RowMade) /\ RowMade.number = at
<1>1. pc = "rows" /\ at <= Len(scan.records) /\ Len(Record) = 5
  BY ReadRowIs, NFieldsIs DEF Reading
<1>2. /\ at \in 1..Len(scan.records) /\ at \in Nat
      /\ \A k \in 1..5 : Values[k] = Record[k].value /\ Values[k] \in Text
  BY <1>1, RecordType, LocalsAre, SMTT(40) DEF TInv, ScanOK
<1>3. /\ DateRead.error = "none" /\ ~IsFuture(DateRead)
      /\ \A c \in Validated : FieldErrors(c, Values[c]) = {}
  BY DEF IsRefused
<1>4. RowOK(RowMade) /\ RowMade.number = at
  <2>1. DateRead \in Moment /\ Dated(DateRead)
    BY <1>2, <1>3, DatedIs DEF DateRead
  <2> QED
    BY <1>2, <1>3, <2>1, NotesAre, RowType DEF RowMade
<1>5. \A c \in 1..5 : CR \notin ToSet(Values[c])
  <2>1. \A c \in 1..5 : Bare(Record[c])
    BY <1>1, <1>2 DEF AllBare, Record
  <2> QED
    BY <1>2, <2>1 DEF Bare
<1>6. /\ RowMade.directory = Values[1] /\ RowMade.author = Values[3] /\ RowMade.tag = Values[4]
      /\ RowMade.message = Values[5] /\ RowMade.date = DateRead
  BY DEF RowMade, Row
<1>7. Validated \subseteq 1..5
  BY NFieldsIs
<1>8. \A c \in Validated : FieldErrors(c, Values[c]) = {} /\ CR \notin ToSet(Values[c])
  BY <1>3, <1>5, <1>7
<1>9. ~IsFuture(RowMade.date)
  BY <1>3, <1>6
<1> DEFINE r == RowMade
           v == Values
<1> HIDE DEF r, v
<1>10. /\ RowOK(r) /\ ~IsFuture(r.date)
       /\ r.directory = v[1] /\ r.author = v[3] /\ r.tag = v[4] /\ r.message = v[5]
       /\ \A c \in Validated : FieldErrors(c, v[c]) = {} /\ CR \notin ToSet(v[c])
  BY <1>4, <1>6, <1>8, <1>9 DEF r, v
<1>11. GoodRow(r)
  BY <1>10, RowIsGood
<1> QED
  BY <1>4, <1>11 DEF r

(* A row that the converter makes, which has no reference.                 *)
LEMMA ConvertIsGood ==
  ASSUME TInv, AllBare(scan), ConvertRow, reference = None
  PROVE  GoodRow(ConvertedRow) /\ ConvertedRow.number = at
<1>1. /\ IsLegacyRow /\ LegacyDate(Tokens).error = "none" /\ ~NeedsRepair(Tokens)
  BY DEF ConvertRow
<1>2. /\ pc = "rows" /\ at <= Len(scan.records) /\ Len(Record) = 5
  BY <1>1, NFieldsIs DEF IsLegacyRow, Reading
<1>3. /\ at \in 1..Len(scan.records) /\ at \in Nat
      /\ \A k \in 1..5 : Values[k] = Record[k].value /\ Values[k] \in Text
  <2>1. at \in 1..Len(scan.records) /\ \A k \in 1..5 : Values[k] \in Text
    BY <1>2, RecordType
  <2>2. Values = [k \in 1..5 |-> Record[k].value]
    BY <1>2, RecordType
  <2> QED
    BY <2>1, <2>2
<1>4. /\ \A k \in 1..5 : Tokens[k] \in Text /\ Tokens[k] = Stripped(Values[k])
      /\ \A k \in 1..5 : Candidate(Tokens)[k] \in Text
  BY <1>1, TokensType
<1>5. \A k \in 1..5 : CR \notin ToSet(Tokens[k])
  <2>1. \A c \in 1..5 : Bare(Record[c])
    BY <1>2, <1>3 DEF AllBare, Record
  <2>2. \A c \in 1..5 : CR \notin ToSet(Values[c])
    BY <1>3, <2>1 DEF Bare
  <2> QED
    BY <1>3, <1>4, <2>2, StrippedKeeps
<1> DEFINE v == Tokens
           u == Candidate(v)
<1>6. /\ u[1] = v[1] /\ u[3] = v[2] /\ u[4] = (IF v[4] = <<"*">> THEN v[1] ELSE v[4])
      /\ u[5] = LineBroken(v[5])
  BY DEF Candidate
<1>7. CR \notin ToSet(u[1]) /\ CR \notin ToSet(u[3]) /\ CR \notin ToSet(u[4]) /\ CR \notin ToSet(u[5])
  <2>1. CR \notin ToSet(LineBroken(v[5]))
    BY <1>4, <1>5, LineBrokenKeeps
  <2> HIDE DEF u, v
  <2>2. CR \notin ToSet(v[1]) /\ CR \notin ToSet(v[2]) /\ CR \notin ToSet(v[4])
    BY <1>5 DEF v
  <2> QED
    BY <1>6, <2>1, <2>2
<1>8. \A c \in Validated : FieldErrors(c, u[c]) = {}
  BY <1>1 DEF NeedsRepair
<1>9. RowOK(ConvertedRow) /\ ConvertedRow.number = at
  <2>1. LegacyDate(v) \in Moment /\ Dated(LegacyDate(v))
    BY <1>1, <1>4, DatedIs DEF LegacyDate
  <2> QED
    BY <1>1, <1>3, <1>4, <2>1, NotesAre, RowType DEF ConvertedRow
<1>10. /\ ConvertedRow.directory = u[1] /\ ConvertedRow.author = u[3] /\ ConvertedRow.tag = u[4]
       /\ ConvertedRow.message = u[5]
  BY DEF ConvertedRow, Row
<1>11. ~IsFuture(ConvertedRow.date)
  BY DEF IsFuture
<1> HIDE DEF u, v
<1>12. \A c \in Validated : CR \notin ToSet(u[c])
  BY <1>7, NFieldsIs
<1> QED
  BY <1>8, <1>9, <1>10, <1>11, <1>12, RowIsGood

(* The rows so far are good, and a file that was written is what is written *)
(* for good rows.                                                          *)
WriteInv ==
  /\ AllBare(scan)
  /\ \A k \in 1..Len(rows) : GoodRow(rows[k])
  /\ profile = "legacy" => reference = None
  /\ found # None => /\ profile = "canonical" /\ ~HeadFails
                     /\ text = Written(found.rows) /\ GoodRows(found.rows)

LEMMA GoodRowSame ==
  ASSUME reference' = reference
  PROVE  \A r : GoodRow(r)' <=> GoodRow(r)
<1>1. Baseline' = Baseline
  BY DEF Baseline
<1>2. \A p : IsFuture(p)' <=> IsFuture(p)
  BY <1>1 DEF IsFuture
<1> QED
  BY <1>2 DEF GoodRow

LEMMA NewIsBare == AllBare(NewScan)
<1>1. NewScan.cur = <<>> /\ NewScan.val = <<>> /\ NewScan.records = <<>>
  BY DEF NewScan
<1>2. Len(<<>>) = 0 /\ 1..0 = {} /\ ToSet(<<>>) = {}
  BY DEF ToSet
<1> QED
  BY <1>1, <1>2 DEF AllBare, Bare, FieldOf

(* A step in which the file stays, and one row may come to the others.     *)
LEMMA RowsStayGood ==
  ASSUME TInv, WriteInv, UNCHANGED <<file, profile, reference, found>>, AllBare(scan'),
         rows' = rows \/ \E r : GoodRow(r) /\ r.number = at /\ rows' = Append(rows, r)
  PROVE  WriteInv'
<1>1. \A r : GoodRow(r)' <=> GoodRow(r)
  BY GoodRowSame
<1>2. text' = text /\ (HeadFails' <=> HeadFails)
  BY DEF text, HeadFails
<1>3. \A k \in 1..Len(rows') : GoodRow(rows'[k])
  <2>1. CASE rows' = rows
    BY <2>1 DEF WriteInv
  <2>2. CASE \E r : GoodRow(r) /\ r.number = at /\ rows' = Append(rows, r)
    <3>1. PICK r : GoodRow(r) /\ r.number = at /\ rows' = Append(rows, r)
      BY <2>2
    <3> DEFINE R == Append(rows, r)
               n == Len(rows)
    <3>2. RowOK(r)
      BY <3>1 DEF GoodRow
    <3>3. /\ Len(R) = n + 1 /\ n \in Nat /\ R[n + 1] = r /\ \A k \in 1..n : R[k] = rows[k]
      BY <3>1, <3>2, AppendRow
    <3> HIDE DEF R
    <3>4. \A k \in 1..Len(R) : k \in 1..n \/ k = n + 1
      BY <3>3
    <3> HIDE DEF n
    <3>5. \A k \in 1..n : GoodRow(rows[k])
      BY DEF WriteInv, n
    <3>6. \A k \in 1..Len(R) : GoodRow(R[k])
      BY <3>1, <3>3, <3>4, <3>5
    <3> QED
      BY <3>1, <3>6 DEF R
  <2> QED
    BY <2>1, <2>2
<1>4. \A k \in 1..Len(rows') : GoodRow(rows[k])'
  <2>1. \A k : GoodRow(rows[k])' <=> GoodRow(rows'[k])
    <3>1. Baseline' = Baseline
      BY DEF Baseline
    <3>2. \A p : IsFuture(p)' <=> IsFuture(p)
      BY <3>1 DEF IsFuture
    <3>3. \A k : IsFuture(rows[k].date)' <=> IsFuture(rows'[k].date)
      BY <3>1 DEF IsFuture
    <3> QED
      BY <3>3 DEF GoodRow
  <2> QED
    BY <1>3, <2>1
<1>5. found' # None => GoodRows(found.rows)'
  <2>1. found' = found
    OBVIOUS
  <2>2. \A k : GoodRow(found.rows[k])' <=> GoodRow(found.rows[k])
    <3>1. Baseline' = Baseline
      BY DEF Baseline
    <3>2. \A k : IsFuture(found.rows[k].date)' <=> IsFuture(found.rows[k].date)
      BY <3>1 DEF IsFuture
    <3> QED
      BY <3>2 DEF GoodRow
  <2> QED
    BY <2>1, <2>2 DEF WriteInv, GoodRows
<1> QED
  BY <1>2, <1>4, <1>5 DEF WriteInv

LEMMA RewriteIsGood ==
  ASSUME TInv, WriteInv, Rewrite
  PROVE  WriteInv'
<1>1. /\ found' = [profile |-> profile, rows |-> rows] /\ rows' = <<>>
      /\ file' = [head |-> "canonical", bom |-> FALSE, utf8 |-> TRUE, body |-> Written(rows)]
      /\ profile' = "canonical" /\ scan' = NewScan /\ reference' = reference
  BY DEF Rewrite
<1>2. found'.rows = rows /\ text' = Written(rows)
  BY <1>1 DEF text
<1>3. ~HeadFails'
  BY <1>1 DEF HeadFails
<1>4. GoodRows(rows)
  BY DEF TInv, WriteInv, GoodRows
<1>5. \A k : GoodRow(found.rows[k])' <=> GoodRow(rows[k])
  <2>1. Baseline' = Baseline
    BY <1>1 DEF Baseline
  <2>2. \A k : IsFuture(found.rows[k].date)' <=> IsFuture(rows[k].date)
    BY <1>1, <1>2, <2>1 DEF IsFuture
  <2> QED
    BY <1>2, <2>2 DEF GoodRow
<1>6. GoodRows(found.rows)'
  BY <1>2, <1>4, <1>5 DEF GoodRows
<1>7. AllBare(scan')
  BY <1>1, NewIsBare
<1>8. 1..Len(rows') = {}
  BY <1>1
<1> QED
  BY <1>1, <1>2, <1>3, <1>6, <1>7, <1>8 DEF WriteInv

LEMMA NextWrites == TInv /\ WriteInv /\ [Next]_vars => WriteInv'
<1> SUFFICES ASSUME TInv, WriteInv, [Next]_vars PROVE WriteInv'
  OBVIOUS
<1>1. scan \in Locals /\ AllBare(scan)
  BY DEF TInv, ScanOK, WriteInv
<1>2. ASSUME UNCHANGED <<file, profile, reference, found, scan, rows>> PROVE WriteInv'
  BY <1>1, <1>2, RowsStayGood
<1>3. CASE Turn
  <2>1. UNCHANGED Others
    BY <1>3, TurnType
  <2>2. AllBare(scan')
    BY <1>1, <1>3, TurnBare
  <2> QED
    BY <2>1, <2>2, RowsStayGood DEF Others
<1>4. CASE EndOfText
  <2>1. scan' = Scanned(scan) /\ UNCHANGED <<file, profile, reference, found, rows>>
    BY <1>4 DEF EndOfText
  <2>2. AllBare(scan')
    BY <1>1, <2>1, ScannedBare
  <2> QED
    BY <2>1, <2>2, RowsStayGood
<1>5. CASE ReadHead \/ WrongArity \/ FinishReading
  <2>1. UNCHANGED <<file, profile, reference, found, scan, rows>>
    BY <1>5 DEF ReadHead, WrongArity, FinishReading
  <2> QED
    BY <1>2, <2>1
<1>6. CASE ReadRow
  <2>1. /\ UNCHANGED <<file, profile, reference, found, scan>>
        /\ rows' = IF IsRefused THEN rows ELSE Append(rows, RowMade)
    BY <1>6, ReadRowIs
  <2>2. ~IsRefused => GoodRow(RowMade) /\ RowMade.number = at
    BY <1>1, <1>6, ReadIsGood
  <2> QED
    BY <1>1, <2>1, <2>2, RowsStayGood
<1>7. CASE PassUntagged \/ PassUndated \/ PassToRepair
  <2>1. UNCHANGED <<file, profile, reference, found, scan>> /\ rows' = rows \o <<>>
    BY <1>7 DEF PassUntagged, PassUndated, PassToRepair, Convert
  <2>2. rows' = rows
    BY <2>1 DEF TInv
  <2> QED
    BY <1>2, <2>1, <2>2
<1>8. CASE ConvertRow
  <2>1. /\ UNCHANGED <<file, profile, reference, found, scan>> /\ rows' = rows \o <<ConvertedRow>>
        /\ profile = "legacy"
    BY <1>8 DEF ConvertRow, Convert, Reading, ConvertedRow
  <2>2. GoodRow(ConvertedRow) /\ ConvertedRow.number = at
    BY <1>1, <1>8, <2>1, ConvertIsGood DEF WriteInv
  <2>3. RowOK(ConvertedRow)
    BY <2>2 DEF GoodRow
  <2>4. rows' = Append(rows, ConvertedRow)
    BY <2>1, <2>2, <2>3, AppendRow
  <2> QED
    BY <1>1, <2>1, <2>2, <2>4, RowsStayGood
<1>9. CASE Rewrite
  BY <1>9, RewriteIsGood
<1>10. CASE UNCHANGED vars
  BY <1>2, <1>10 DEF vars
<1> QED
  BY <1>3, <1>4, <1>5, <1>6, <1>7, <1>8, <1>9, <1>10 DEF Next, Tokenize, Turn

-----------------------------------------------------------------------------
(* Reading what was written *)

Followed(R, Q) == Len(R) = Len(Q) /\ \A k \in 1..Len(Q) : IsRecordOf(R[k], Q[k])

LEMMA GoodIsReadable ==
  ASSUME NEW Q, GoodRows(Q)
  PROVE  Readable(Q)
BY DEF GoodRows, GoodRow, Readable

(* From the start of the text to its end.                                  *)
LEMMA StartFollows ==
  ASSUME NEW Q, GoodRows(Q), NEW t, t = Written(Q)
  PROVE  Follows(t, 1, NewScan, Q)
<1>1. Readable(Q)
  BY GoodIsReadable
<1>2. Q \in Seq(RowRead) /\ Len(Q) \in Nat /\ \A k \in 1..Len(Q) : RowOK(Q[k])
  BY DEF GoodRows, GoodRow
<1>3. t \in Text
  BY <1>2, WrittenType
<1>4. Left(t, 1) = t
  BY <1>3 DEF Left, Text
<1>5. /\ NewScan.cur = <<>> /\ NewScan.val = <<>> /\ NewScan.records = <<>> /\ NewScan.errors = {}
      /\ NewScan.inQuotes = FALSE /\ NewScan.quoted = FALSE /\ NewScan.expectSep = FALSE
      /\ NewScan.started = FALSE
  BY DEF NewScan
<1>6. NewScan \in Locals
  BY NewScanType DEF ScanOK
<1> DEFINE s == NewScan
<1>7. Len(s.records) = 0 /\ 1..0 = {} /\ 0 \in 0..Len(Q) /\ 0 <= Len(Q)
  BY <1>2, <1>5
<1>8. LinesFrom(Q, 0) = t
  BY <1>2, <1>7, LinesAreLeft
<1> HIDE DEF s
<1>9. Left(t, 1) = LinesFrom(Q, Len(s.records))
  BY <1>4, <1>7, <1>8
<1>10. \A k \in 1..Len(s.records) : IsRecordOf(s.records[k], Q[k])
  BY <1>7
<1> QED
  BY <1>1, <1>5, <1>6, <1>7, <1>9, <1>10, LineBegins DEF s

LEMMA EndFollows ==
  ASSUME TInv, EndOfText, NEW Q, Readable(Q), Follows(text, i, scan, Q)
  PROVE  scan'.errors = {} /\ Followed(scan'.records, Q)
<1> DEFINE n == Len(scan.records)
           N == Len(Q)
<1>1. /\ i = Len(text) + 1 /\ scan' = Scanned(scan) /\ text \in Text /\ Len(text) \in Nat
      /\ scan \in Locals /\ n \in Nat /\ N \in Nat
  BY LocalsAre DEF EndOfText, TInv, ScanOK, Text, Readable
<1>2. Left(text, i) = <<>>
  <2>1. /\ Left(text, i) \in Seq(Char) /\ Len(Left(text, i)) = 0
    BY <1>1 DEF Left, Text
  <2> QED
    BY <2>1
<1>3. /\ scan.errors = {} /\ n <= N /\ \A k \in 1..n : IsRecordOf(scan.records[k], Q[k])
  BY DEF Follows
<1>4. n = N
  <2> SUFFICES ASSUME n # N PROVE FALSE
    OBVIOUS
  <2> DEFINE r == Q[n + 1]
             c == Len(scan.cur) + 1
             lines == LinesFrom(Q, n + 1)
             x == After(r, c) \o lines
  <2>1. InRow(text, i, scan, r, lines)
    BY DEF Follows
  <2>2. n + 1 \in 1..N /\ n + 1 \in 0..N
    BY <1>1, <1>3
  <2>3. c \in 1..5
    <3> DEFINE m == Len(scan.cur)
    <3>1. m \in 0..4
      BY <2>1 DEF InRow
    <3> HIDE DEF m
    <3>2. m + 1 \in 1..5
      BY <3>1
    <3> QED
      BY <3>2 DEF m
  <2>4. RowOK(r) /\ lines \in Text
    BY <2>2, LinesAreLeft, SMTT(40) DEF Readable
  <2>5. PICK y : InField(scan, Fields(r)[c], y) /\ Left(text, i) = y \o x
    BY <2>1 DEF InRow
  <2> DEFINE a == After(r, c)
  <2>6. x = a \o lines
    OBVIOUS
  <2> HIDE DEF r, lines, c, x
  <2>7. a \in Text /\ Len(a) >= 1
    BY <2>3, <2>4, SomethingAfter
  <2>8. y \in Text
    BY <2>5 DEF InField
  <2> HIDE DEF a
  <2>9. x \in Text /\ Len(x) >= 1
    BY <2>4, <2>6, <2>7 DEF Text
  <2>10. Len(y \o x) >= 1
    BY <2>8, <2>9 DEF Text
  <2> QED
    BY <1>2, <2>5, <2>10
<1>5. scan' = scan
  <2>1. scan.cur = <<>> /\ scan.val = <<>> /\ ~scan.inQuotes /\ ~scan.started
    BY <1>4 DEF Follows, IsThrough
  <2>2. Blank(scan)
    BY <2>1 DEF Blank
  <2> QED
    BY <1>1, <2>1, <2>2 DEF Scanned
<1> QED
  BY <1>3, <1>4, <1>5 DEF Followed

(* The year of a row is printed with four digits.                          *)
Lasts(r) == Padded \/ r.date.precision = "year" \/ YearOf(r) >= 1000

SameContent(q, r) ==
  /\ q.directory = r.directory /\ q.date = r.date /\ q.author = r.author
  /\ q.tag = r.tag /\ q.message = r.message

(* What a record that was written for a row holds.                         *)
LEMMA RecordOfRow ==
  ASSUME NEW r, RowOK(r), NEW f, IsRecordOf(f, r)
  PROVE  /\ Len(f) = 5 /\ f[1].value = r.directory /\ f[3].value = r.author
         /\ f[4].value = r.tag /\ f[5].value = r.message
         /\ f[2].value = <<Serialized(r.date)>> /\ Serialized(r.date) \in DOMAIN Date
<1>1. Len(f) = 5 /\ \A c \in 1..5 : f[c].value = Fields(r)[c]
  BY DEF IsRecordOf
<1>2. /\ f[1].value = Fields(r)[1] /\ f[2].value = Fields(r)[2] /\ f[3].value = Fields(r)[3]
      /\ f[4].value = Fields(r)[4] /\ f[5].value = Fields(r)[5]
  BY <1>1
<1>3. /\ Fields(r)[1] = r.directory /\ Fields(r)[2] = <<Serialized(r.date)>> /\ Fields(r)[3] = r.author
      /\ Fields(r)[4] = r.tag /\ Fields(r)[5] = r.message
  BY DEF Fields
<1>4. Serialized(r.date) \in DOMAIN Date
  BY SerializedType DEF RowOK
<1> QED
  BY <1>1, <1>2, <1>3, <1>4

(* A record of a good row conforms to the contract, unless its year is     *)
(* printed with fewer than four digits.                                    *)
LEMMA RecordConforms ==
  ASSUME TInv, BaselineIsInstant, NEW r, GoodRow(r), NEW f \in Seq(FieldRead), IsRecordOf(f, r)
  PROVE  ConformsRow(ValuesIn(f)) <=> Lasts(r)
<1> DEFINE v == ValuesIn(f)
           w == Serialized(r.date)
           u == <<w>>
<1>1. RowOK(r) /\ Dated(r.date)
  BY DEF GoodRow, RowOK
<1>2. /\ Len(f) = 5 /\ \A c \in 1..5 : f[c].value = Fields(r)[c]
  BY DEF IsRecordOf
<1>3. Len(v) = 5 /\ \A c \in 1..5 : v[c] = Fields(r)[c]
  <2>1. DOMAIN f = 1..5
    BY <1>2
  <2>2. v = [c \in 1..5 |-> f[c].value]
    BY <2>1 DEF ValuesIn
  <2>3. \A c \in 1..5 : f[c].value \in Text
    BY <1>1, <1>2, FieldsAre
  <2> HIDE DEF v
  <2>4. v \in [1..5 -> Text]
    BY <2>2, <2>3
  <2>5. Len(v) = 5
    BY <2>4, ListsAre
  <2> QED
    BY <1>2, <2>2, <2>5
<1>4. v[2] = u /\ w \in DOMAIN Date
  <2>1. f[2].value = u /\ w \in DOMAIN Date
    BY <1>1, RecordOfRow
  <2>2. v[2] = f[2].value
    BY <1>2, <1>3
  <2> QED
    BY <2>1, <2>2
<1>5. \A c \in Validated : FieldErrors(c, v[c]) = {}
  BY <1>3, NFieldsIs DEF GoodRow
<1>6. u \in Text /\ Len(u) = 1 /\ u[1] = w /\ u # <<>>
  BY <1>4, CharsAreEnough, SinglesAreTexts
<1> HIDE DEF v, u
<1>7. ConformsRow(v) <=> IsCanonicalDate(w) /\ (reference # None => UTCMinute(w) <= UTCMinute(reference))
  <2>1. NFields = 5
    BY NFieldsIs
  <2> QED
    BY <1>3, <1>4, <1>5, <1>6, <2>1 DEF ConformsRow
<1>8. IsCanonicalDate(w) <=> ParseDate(Date[w]).error = "none"
  BY <1>4, LiteralAccepted
<1>9. /\ ParseDate(Date[w]).error = "none" <=> Lasts(r)
      /\ Lasts(r) => ParseDate(Date[w]) = r.date
  BY <1>1, RereadIs DEF Lasts, YearOf
<1>10. DateLiteral(u) = Date[w]
  BY <1>4, <1>6 DEF DateLiteral
<1>11. Lasts(r) => (reference # None => UTCMinute(w) <= UTCMinute(reference))
  <2> SUFFICES ASSUME Lasts(r) PROVE reference # None => UTCMinute(w) <= UTCMinute(reference)
    OBVIOUS
  <2>1. ParseDate(DateLiteral(u)) = r.date /\ ParseDate(DateLiteral(u)).error = "none"
    BY <1>9, <1>10
  <2>2. ~IsFuture(ParseDate(DateLiteral(u)))
    BY <2>1 DEF GoodRow
  <2>3. reference # None => UTCMinute(u[1]) <= UTCMinute(reference)
    BY <1>6, <2>1, <2>2, FutureIs
  <2> QED
    BY <1>6, <2>3
<1> QED
  BY <1>7, <1>8, <1>9, <1>11 DEF v

(* A row that was made of such a record has the content of the row.        *)
LEMMA RowIsReread ==
  ASSUME NEW r, RowOK(r), NEW f, IsRecordOf(f, r), NEW q, CopiedRow(q, f)
  PROVE  SameContent(q, r)
<1> DEFINE w == Serialized(r.date)
<1>1. /\ f[1].value = r.directory /\ f[3].value = r.author
      /\ f[4].value = r.tag /\ f[5].value = r.message /\ f[2].value = <<w>>
  BY RecordOfRow
<1>2. f[2].value[1] = w
  BY <1>1
<1>3. /\ q.directory = f[1].value /\ q.author = f[3].value
      /\ q.tag = f[4].value /\ q.message = f[5].value
      /\ q.date = ParseDate(Date[w]) /\ ParseDate(Date[w]).error = "none"
  BY <1>2 DEF CopiedRow, Copies
<1>4. ParseDate(Date[w]) = r.date
  BY <1>3, RereadIs DEF RowOK
<1> QED
  BY <1>1, <1>3, <1>4 DEF SameContent

(* The content settles the text of the rows and which of them collide.     *)
LEMMA SameRows ==
  ASSUME NEW n \in Nat, NEW P \in Seq(RowRead), NEW Q \in Seq(RowRead), Len(P) = n, Len(Q) = n,
         \A k \in 1..n : SameContent(P[k], Q[k])
  PROVE  /\ Content(P) = Content(Q) /\ Written(P) = Written(Q)
         /\ Duplicates(P) = {} <=> Duplicates(Q) = {}
<1>1. DOMAIN P = 1..n /\ DOMAIN Q = 1..n
  OBVIOUS
<1>2. \A k \in 1..n : /\ P[k].directory = Q[k].directory /\ P[k].date = Q[k].date
                      /\ P[k].author = Q[k].author /\ P[k].tag = Q[k].tag /\ P[k].message = Q[k].message
  BY DEF SameContent
<1>3. Content(P) = Content(Q)
  BY <1>1, <1>2 DEF Content
<1>4. Written(P) = Written(Q)
  <2>1. \A k \in 1..n : Fields(P[k]) = Fields(Q[k])
    BY <1>2 DEF Fields
  <2>2. \A k \in 1..n : Line(P[k]) = Line(Q[k])
    BY <2>1 DEF Line
  <2>3. [k \in DOMAIN P |-> Line(P[k])] = [k \in DOMAIN Q |-> Line(Q[k])]
    BY <1>1, <2>2
  <2> QED
    BY <2>3 DEF Written
<1>5. ASSUME NEW column, \A k \in 1..n : P[k][column] = Q[k][column]
      PROVE  Collisions(P, column) = Collisions(Q, column)
  <2>1. ASSUME NEW k \in 1..n
        PROVE  (\E j \in 1..(k - 1) : Fold(P[j][column]) = Fold(P[k][column]))
                 <=> \E j \in 1..(k - 1) : Fold(Q[j][column]) = Fold(Q[k][column])
    <3>1. \A j \in 1..(k - 1) : j \in 1..n
      OBVIOUS
    <3> QED
      BY <1>5, <3>1
  <2> QED
    BY <1>1, <2>1 DEF Collisions
<1>6. Collisions(P, "directory") = Collisions(Q, "directory") /\ Collisions(P, "tag") = Collisions(Q, "tag")
  <2>1. \A k \in 1..n : P[k]["directory"] = Q[k]["directory"] /\ P[k]["tag"] = Q[k]["tag"]
    BY <1>2
  <2> QED
    BY <1>5, <2>1
<1> QED
  BY <1>3, <1>4, <1>6, DuplicatesAre

(* The reader follows what was written: it makes the records of the rows   *)
(* that were found, and no errors.                                         *)
FollowInv ==
  /\ found # None =>
       /\ pc = "scan" => Follows(text, i, scan, found.rows)
       /\ pc = "rows" => scan.errors = {} /\ Followed(scan.records, found.rows)
  /\ RoundTrip

LEMMA NotReread == pc # "done" => RoundTrip
BY DEF RoundTrip, IsRead

(* The last step of a reading settles the property.                        *)
LEMMA FinishFollows ==
  ASSUME TInv, ContractInv, CopyInv, WriteInv, FollowInv, FinishReading
  PROVE  RoundTrip'
<1>1. /\ pc = "rows" /\ at > Len(scan.records) /\ pc' = "done"
      /\ UNCHANGED <<file, profile, reference, scan, at, rows, found>>
      /\ profile = "canonical" => diags' = diags \cup Duplicates(rows)
  BY DEF FinishReading
<1> SUFFICES ASSUME profile = "canonical", found # None
             PROVE  /\ Accepted' <=> /\ found.rows # <<>>
                                     /\ Duplicates(found.rows) = {}
                                     /\ \A n \in DOMAIN found.rows : Lasts(found.rows[n])
                    /\ Accepted' => Content(rows) = Content(found.rows) /\ Written(rows) = text
  BY <1>1 DEF RoundTrip, IsRead, text, Lasts
<1> DEFINE Q == found.rows
           R == scan.records
           N == Len(R)
<1>2. VerdictSoFar
  BY <1>1 DEF ContractInv
<1>3. Accepted' <=> Accepted /\ Duplicates(rows) = {}
  BY <1>1, DuplicatesAre DEF Accepted
<1>4. text = Written(Q) /\ GoodRows(Q) /\ Followed(R, Q) /\ scan.errors = {}
  BY <1>1 DEF WriteInv, FollowInv
<1>5. /\ R \in Seq(Seq(FieldRead)) /\ N \in Nat /\ at - 1 = N /\ R # <<>>
  <2>1. R \in Seq(Seq(FieldRead)) /\ N \in Nat /\ at \in 1..(N + 1)
    BY LocalsAre DEF TInv, ScanOK
  <2> QED
    BY <1>1, <1>2, <2>1 DEF VerdictSoFar
<1>6. /\ Q \in Seq(RowRead) /\ Len(Q) = N /\ DOMAIN Q = 1..N /\ Q # <<>>
      /\ \A k \in 1..N : GoodRow(Q[k]) /\ IsRecordOf(R[k], Q[k])
  <2>1. Len(Q) = N /\ Q \in Seq(RowRead)
    BY <1>4 DEF GoodRows, Followed
  <2>2. N # 0
    BY <1>5
  <2> HIDE DEF N
  <2>3. DOMAIN Q = 1..N /\ Q # <<>>
    BY <2>1, <2>2
  <2> QED
    BY <1>4, <2>1, <2>3 DEF GoodRows, Followed
<1>7. \A k \in 1..N : R[k] \in Seq(FieldRead)
  BY <1>5, ElementOfSeq
<1>8. Accepted <=> \A k \in 1..N : Lasts(Q[k])
  <2>1. Accepted <=> ConformsUpTo(N)
    BY <1>2, <1>4, <1>5 DEF VerdictSoFar
  <2>2. BaselineIsInstant
    BY <1>2 DEF VerdictSoFar
  <2> HIDE DEF Q, N
  <2>3. \A k \in 1..N : ConformsRow(ValuesIn(R[k])) <=> Lasts(Q[k])
    BY <1>6, <1>7, <2>2, RecordConforms
  <2> QED
    BY <2>1, <2>3 DEF ConformsUpTo
<1>9. ASSUME Accepted
      PROVE  /\ Content(rows) = Content(Q) /\ Written(rows) = Written(Q)
             /\ Duplicates(rows) = {} <=> Duplicates(Q) = {}
  <2>1. RowsCopy(N)
    BY <1>1, <1>5, <1>9 DEF CopyInv
  <2>2. rows \in Seq(RowRead) /\ Len(rows) = N
    BY <1>2, <1>5, <1>9 DEF TInv, VerdictSoFar, RowsMatch
  <2> HIDE DEF Q, N
  <2>3. \A k \in 1..N : CopiedRow(rows[k], R[k])
    BY <2>1 DEF RowsCopy
  <2>4. \A k \in 1..N : SameContent(rows[k], Q[k])
    BY <1>6, <2>3, RowIsReread DEF GoodRow
  <2> QED
    BY <1>5, <1>6, <2>2, <2>4, SameRows
<1> HIDE DEF N
<1> QED
  BY <1>3, <1>4, <1>6, <1>8, <1>9

LEMMA NextFollows ==
  TInv /\ ScanInv /\ ContractInv /\ CopyInv /\ WriteInv /\ FollowInv /\ [Next]_vars => FollowInv'
<1> SUFFICES ASSUME TInv, ScanInv, ContractInv, CopyInv, WriteInv, FollowInv, [Next]_vars
             PROVE  FollowInv'
  OBVIOUS
<1> DEFINE Q == found.rows
<1>0. found # None => text = Written(Q) /\ GoodRows(Q) /\ Readable(Q) /\ profile = "canonical" /\ ~HeadFails
  BY GoodIsReadable DEF WriteInv
<1> HIDE DEF Q
<1>1. CASE Turn
  <2>1. pc = "scan" /\ pc' = "scan" /\ text' = text /\ found' = found
    <3>1. pc = "scan" /\ UNCHANGED Others
      BY <1>1, TurnType DEF Turn, EscapedQuote, ClosingQuote, QuotedBreak, QuotedAtom, Separator, LineFeed,
         CarriageReturn, LoneReturn, OpeningQuote, StrayQuote, Atom, InQuotes, Scanning
    <3> QED
      BY <3>1 DEF Others, text
  <2>2. RoundTrip'
    BY <2>1, NotReread DEF RoundTrip, IsRead
  <2>3. ASSUME found # None
        PROVE  Follows(text, i', scan', Q)
    <3>1. Follows(text, i, scan, Q) /\ Readable(Q)
      BY <1>0, <2>1, <2>3 DEF FollowInv, Q
    <3> QED
      BY <1>1, <3>1, TurnFollows
  <2>4. found' # None => Follows(text', i', scan', found'.rows)
    BY <2>1, <2>3 DEF Q
  <2> QED
    BY <2>1, <2>2, <2>4 DEF FollowInv
<1>2. CASE ReadHead
  <2>1. /\ pc = "head" /\ UNCHANGED <<file, profile, i, scan, found>>
        /\ pc' = IF HeadFails THEN "done" ELSE "scan"
    BY <1>2 DEF ReadHead
  <2>2. text' = text /\ i = 1 /\ scan = NewScan
    BY <2>1 DEF text, ScanInv
  <2>3. ASSUME found # None
        PROVE  pc' = "scan" /\ Follows(text, 1, NewScan, Q)
    <3>1. text = Written(Q) /\ GoodRows(Q) /\ ~HeadFails
      BY <1>0, <2>3
    <3>2. Follows(text, 1, NewScan, Q)
      BY <3>1, StartFollows
    <3> QED
      BY <2>1, <3>1, <3>2
  <2>4. RoundTrip'
    BY <2>1, <2>3 DEF RoundTrip, IsRead
  <2>5. found' # None => pc' = "scan" /\ Follows(text', i', scan', found'.rows)
    BY <2>1, <2>2, <2>3 DEF Q
  <2> QED
    BY <2>4, <2>5 DEF FollowInv
<1>3. CASE EndOfText
  <2>1. /\ pc = "scan" /\ UNCHANGED <<file, profile, reference, found>> /\ pc' \in {"done", "rows", "raised"}
        /\ pc' = "done" => Scanned(scan).records = <<>> /\ profile = "canonical"
        /\ profile = "canonical" /\ Scanned(scan).records = <<>> => Fail("CSV-FIELD", 0) \in diags'
        /\ scan' = Scanned(scan)
    BY <1>3 DEF EndOfText
  <2>2. ASSUME found # None
        PROVE  scan'.errors = {} /\ Followed(scan'.records, Q)
    <3>1. Follows(text, i, scan, Q) /\ Readable(Q)
      BY <1>0, <2>1, <2>2 DEF FollowInv, Q
    <3> QED
      BY <1>3, <3>1, EndFollows
  <2>3. RoundTrip'
    <3> SUFFICES ASSUME pc' = "done", found # None
                 PROVE  ~Accepted' /\ Q = <<>>
      <4>1. found'.rows = Q
        BY <2>1 DEF Q
      <4> QED
        BY <2>1, <4>1 DEF RoundTrip, IsRead
    <3>1. ~Accepted'
      BY <2>1, FailsAre DEF Accepted
    <3>2. scan'.records = <<>> /\ Q \in Seq(RowRead) /\ Followed(scan'.records, Q)
      BY <1>0, <2>1, <2>2 DEF GoodRows
    <3>3. Len(Q) = 0
      BY <3>2 DEF Followed
    <3> QED
      BY <3>1, <3>2, <3>3
  <2>4. pc' # "scan" /\ (found' # None => scan'.errors = {} /\ Followed(scan'.records, found'.rows))
    BY <2>1, <2>2 DEF Q
  <2> QED
    BY <2>3, <2>4 DEF FollowInv
<1>4. ASSUME pc = "rows", UNCHANGED <<file, scan, found>>, pc' # "scan", RoundTrip'
      PROVE  FollowInv'
  <2>1. found # None => scan.errors = {} /\ Followed(scan.records, found.rows)
    BY <1>4 DEF FollowInv
  <2> QED
    BY <1>4, <2>1 DEF FollowInv
<1>5. ASSUME pc = "rows", pc' = "rows", UNCHANGED <<file, scan, found>>
      PROVE  FollowInv'
  <2>1. RoundTrip'
    BY <1>5 DEF RoundTrip, IsRead
  <2> QED
    BY <1>4, <1>5, <2>1
<1>6. CASE WrongArity \/ ReadRow
  <2>1. pc = "rows" /\ UNCHANGED <<pc, file, scan, found>>
    BY <1>6, ReadRowIs DEF WrongArity, Reading
  <2> QED
    BY <1>5, <2>1
<1>7. CASE FinishReading
  <2>1. pc = "rows" /\ UNCHANGED <<file, scan, found>> /\ pc' = "done"
    BY <1>7 DEF FinishReading
  <2>2. RoundTrip'
    BY <1>7, FinishFollows
  <2> QED
    BY <1>4, <2>1, <2>2
<1>8. CASE PassUntagged \/ PassUndated \/ PassToRepair \/ ConvertRow
  <2>1. pc = "rows" /\ UNCHANGED <<pc, file, scan, found>>
    BY <1>8 DEF PassUntagged, PassUndated, PassToRepair, ConvertRow, Convert, IsLegacyRow, Reading
  <2> QED
    BY <1>5, <2>1
<1>9. CASE Rewrite
  <2>1. pc' = "head"
    BY <1>9 DEF Rewrite
  <2> QED
    BY <2>1 DEF FollowInv, RoundTrip, IsRead
<1>10. CASE UNCHANGED vars
  <2>1. UNCHANGED <<file, profile, pc, i, scan, rows, diags, found>>
    BY <1>10 DEF vars
  <2>2. text' = text /\ (Accepted' <=> Accepted)
    BY <2>1 DEF text, Accepted
  <2>3. RoundTrip' <=> RoundTrip
    BY <2>1, <2>2 DEF RoundTrip, IsRead
  <2>4. Follows(text, i, scan, found.rows)' <=> Follows(text, i, scan, found.rows)
    BY <2>1, <2>2
  <2> QED
    BY <2>1, <2>3, <2>4 DEF FollowInv
<1> QED
  BY <1>1, <1>2, <1>3, <1>6, <1>7, <1>8, <1>9, <1>10 DEF Next, Tokenize, Turn

\* What was written is read again with the same content and written again with
\* the same bytes, and it is accepted exactly when there is a row, no two rows
\* collide, and no year is printed with fewer than four digits: for any file
\* that was accepted, or converted, before, any table of dates that meets the
\* assumptions, any reference and any folding of names (grammar.py:583-590,
\* model.py:88-100, legacy.py:132-264).
THEOREM WrittenIsReread == Spec => []RoundTrip
<1>1. Init => TInv /\ ScanInv /\ ScanDone /\ ContractInv /\ CopyInv /\ WriteInv /\ FollowInv
  <2> SUFFICES ASSUME Init
               PROVE  TInv /\ ScanInv /\ ScanDone /\ ContractInv /\ CopyInv /\ WriteInv /\ FollowInv
    OBVIOUS
  <2>1. TInv /\ ScanInv /\ ScanDone
    BY InitTInv DEF Init, ScanInv, ScanDone
  <2>2. /\ pc = "head" /\ scan = NewScan /\ at = 1 /\ rows = <<>> /\ diags = {} /\ found = None
        /\ profile = "legacy" => reference = None
    BY DEF Init
  <2>3. AcceptsRecords /\ SameBytes /\ RoundTrip
    BY <2>2 DEF AcceptsRecords, SameBytes, RoundTrip, IsRead
  <2>4. 1..Len(rows) = {}
    BY <2>2
  <2>5. WriteInv
    BY <2>2, <2>4, NewIsBare DEF WriteInv
  <2> QED
    BY <2>1, <2>2, <2>3, <2>5, NewIsMarked DEF ContractInv, CopyInv, FollowInv
<1>2. TInv /\ ScanInv /\ ScanDone /\ ContractInv /\ CopyInv /\ WriteInv /\ FollowInv /\ [Next]_vars
        => (TInv /\ ScanInv /\ ScanDone /\ ContractInv /\ CopyInv /\ WriteInv /\ FollowInv)'
  BY NextTInv, NextScan, NextContract, NextCopies, NextWrites, NextFollows
<1>3. FollowInv => RoundTrip
  BY DEF FollowInv
<1> QED
  BY <1>1, <1>2, <1>3, PTL DEF Spec
=============================================================================
