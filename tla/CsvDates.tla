------------------------------ MODULE CsvDates ------------------------------
(***************************************************************************)
(* The dates of metadata/version_history.csv (vhcsv/dates.py, the class    *)
(* ParsedDate of vhcsv/model.py and the date half of vhcsv/legacy.py).     *)
(*                                                                         *)
(* A literal is the text of a date column after the regular expressions    *)
(* have taken it apart: its form, its numbers and whether all of its       *)
(* digits are ASCII, which neither \d nor int() asks for.  Times are       *)
(* counted in minutes, because an offset never touches the seconds, and    *)
(* because seconds since 1970 do not fit the integers of TLC.              *)
(***************************************************************************)
EXTENDS Integers

CONSTANTS
  Date,    \* the literals that occur, a function from their text
  Padded   \* whether strftime("%Y") writes four digits for a year below 1000

Form == {"second", "naive", "day", "year", "slash", "slash timed", "other"}

Literal ==
  [form : Form, ascii : BOOLEAN, digits : 1..4, year : Nat, month : Nat, day : Nat, hour : Nat, minute : Nat,
   zone : [sign : {"", "Z", "+", "-"}, hours : Nat, minutes : Nat]]

ASSUME DatesAreLiterals ==
  /\ Padded \in BOOLEAN
  /\ \A w \in DOMAIN Date : Date[w] \in Literal

\* A date without a time is midnight, without a zone; an instant has a zone.
ASSUME DaysAreMidnights ==
  \A w \in DOMAIN Date :
    /\ Date[w].form \in {"day", "year"} =>
         /\ Date[w].hour = 0 /\ Date[w].minute = 0
         /\ Date[w].zone = [sign |-> "", hours |-> 0, minutes |-> 0]
    /\ Date[w].form = "second" => Date[w].zone.sign # ""

\* The forms of the contract are of fixed width: but for seconds, which the
\* table leaves out, no two texts of them in ASCII are taken apart alike.  Of
\* texts with other digits there may be many, since any of them may be wide.
ASSUME DatesAreDistinct ==
  \A v, w \in DOMAIN Date :
    Date[v].form \in {"second", "day", "year"} /\ Date[v].ascii /\ Date[v] = Date[w] => v = w

(***************************************************************************)
(* The calendar of python's datetime.                                      *)
(***************************************************************************)
Leap(y) == y % 4 = 0 /\ (y % 100 # 0 \/ y % 400 = 0)

DaysIn(y, m) == IF m = 2 THEN (IF Leap(y) THEN 29 ELSE 28)
                ELSE IF m \in {4, 6, 9, 11} THEN 30 ELSE 31

IsDay(y, m, d) == y \in 1..9999 /\ m \in 1..12 /\ d \in 1..DaysIn(y, m)
IsTime(h, mi)  == h \in 0..23 /\ mi \in 0..59

\* The days of a year before the first of a month.
DaysBefore(y, m) ==
  <<0, 31, 59, 90, 120, 151, 181, 212, 243, 273, 304, 334>>[m]
    + (IF m > 2 /\ Leap(y) THEN 1 ELSE 0)

Ordinal(y, m, d) ==
  365 * (y - 1) + (y - 1) \div 4 - (y - 1) \div 100 + (y - 1) \div 400 + DaysBefore(y, m) + d

WallClock(y, m, d, h, mi) ==
  1440 * (Ordinal(y, m, d) - Ordinal(1970, 1, 1)) + 60 * h + mi

(***************************************************************************)
(* Zones.  No zone, "Z" and a signed offset are told apart by the sign.    *)
(***************************************************************************)
Zone(sign, h, m) == [sign |-> sign, hours |-> h, minutes |-> m]
NoZone == Zone("", 0, 0)

OffsetOf(z) == (IF z.sign = "-" THEN -1 ELSE 1) * (60 * z.hours + z.minutes)

IsOffset(z) == z.minutes <= 59 /\ OffsetOf(z) \in -720..840

Shown(offset) ==
  LET a == IF offset >= 0 THEN offset ELSE -offset
  IN  Zone(IF offset >= 0 THEN "+" ELSE "-", a \div 60, a % 60)

(***************************************************************************)
(* parse_date: the triple of an instant, an offset and a precision, or an  *)
(* error.                                                                  *)
(***************************************************************************)
Parsed(epoch, offset, precision) ==
  [error |-> "none", epoch |-> epoch, offset |-> offset, precision |-> precision]
Error(code) == [error |-> code, epoch |-> 0, offset |-> 0, precision |-> "none"]

\* _epoch: the wall clock less the offset.
Instant(l, offset) == WallClock(l.year, l.month, l.day, l.hour, l.minute) - offset

ParseDate(l) ==
  IF l.form = "naive" THEN Error("CSV-TZ")
  ELSE IF /\ l.form \in {"second", "day", "year"}
          /\ l.digits = 4
          /\ l.form = "second" => IsOffset(l.zone) /\ IsTime(l.hour, l.minute)
          /\ IsDay(l.year, l.month, l.day)
       THEN LET offset == OffsetOf(l.zone) IN Parsed(Instant(l, offset), offset, l.form)
       ELSE Error("CSV-DATE")

(***************************************************************************)
(* ParsedDate.serialize: the literal of the same form that shows the wall  *)
(* clock at the preserved offset, in ASCII.                                *)
(***************************************************************************)
YearDigits(y) == IF y >= 1000 THEN 4 ELSE IF y >= 100 THEN 3 ELSE IF y >= 10 THEN 2 ELSE 1

Prints(l) == l.digits = IF Padded \/ l.form = "year" THEN 4 ELSE YearDigits(l.year)

Shows(l, p) ==
  /\ l.form = p.precision /\ l.ascii
  /\ Prints(l)
  /\ IsDay(l.year, l.month, l.day) /\ IsTime(l.hour, l.minute)
  /\ WallClock(l.year, l.month, l.day, l.hour, l.minute) = p.epoch + p.offset
  /\ l.zone = IF l.form = "second" THEN Shown(p.offset) ELSE NoZone

Serialized(p) == CHOOSE w \in DOMAIN Date : Shows(Date[w], p)

(***************************************************************************)
(* convert_legacy_date: a/b/yyyy is read as month and day when it can be,  *)
(* and otherwise as day and month; a time without a zone is taken as UTC.  *)
(***************************************************************************)
Ambiguous(l) == l.month \in 1..12 /\ l.day \in 1..12

SlashReading(l) ==
  IF Ambiguous(l) \/ (l.month \in 1..12 /\ l.day \in 13..31) THEN l
  ELSE [l EXCEPT !.month = l.day, !.day = l.month]

ConvertLegacyDate(l) ==
  IF l.form \in {"slash", "slash timed", "naive"} THEN
    LET r == IF l.form = "naive" THEN l ELSE SlashReading(l)
    IN  IF IsDay(r.year, r.month, r.day) /\ IsTime(r.hour, r.minute)
        THEN Parsed(Instant(r, 0), 0, IF l.form = "slash" THEN "day" ELSE "second")
        ELSE Error("undated")
  ELSE LET p == ParseDate(l) IN IF p.error = "none" THEN p ELSE Error("undated")

(***************************************************************************)
(* What can be read or converted can be written.                           *)
(***************************************************************************)
ASSUME DatesAreClosed ==
  \A w \in DOMAIN Date : \A p \in {ParseDate(Date[w]), ConvertLegacyDate(Date[w])} :
    p.error = "none" => \E v \in DOMAIN Date : Shows(Date[v], p)
=============================================================================
