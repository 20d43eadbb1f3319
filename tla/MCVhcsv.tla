------------------------------ MODULE MCVhcsv ------------------------------
EXTENDS Vhcsv

(***************************************************************************)
(* The dates: [form, ascii, digits of the year, year, month, day, hour,    *)
(* minute, zone].  Closed under Serialized.                                *)
(***************************************************************************)
DateOf(form, digits, y, m, d, h, mi, zone) ==
  [form |-> form, ascii |-> TRUE, digits |-> digits, year |-> y, month |-> m, day |-> d,
   hour |-> h, minute |-> mi, zone |-> zone]
Day(y, m, d) == DateOf("day", 4, y, m, d, 0, 0, NoZone)
Year(y) == DateOf("year", 4, y, 1, 1, 0, 0, NoZone)
Stamp(y, m, d, h, mi, zone) == DateOf("second", 4, y, m, d, h, mi, zone)
Slash(a, b, y) == DateOf("slash", 4, y, a, b, 0, 0, NoZone)
UTC == Zone("+", 0, 0)

\* A literal with digits of full width.
Wide(l) == [l EXCEPT !.ascii = FALSE]

MCDate ==
  "1969" :> Year(1969) @@ "1994" :> Year(1994)
  @@ "0000" :> Year(0) @@ "0999" :> Year(999)
  @@ "1994-02-28" :> Day(1994, 2, 28) @@ "1994-02-29" :> Day(1994, 2, 29)
  @@ "1992-02-29" :> Day(1992, 2, 29) @@ "1900-02-29" :> Day(1900, 2, 29)
  @@ "1994-05-04" :> Day(1994, 5, 4) @@ "1994-12-12" :> Day(1994, 12, 12)
  @@ "1994-12-05" :> Day(1994, 12, 5) @@ "1994-05-12" :> Day(1994, 5, 12)
  @@ "1994-05-27" :> Day(1994, 5, 27)
  @@ "0999-01-01" :> Day(999, 1, 1) @@ "999-01-01" :> DateOf("day", 3, 999, 1, 1, 0, 0, NoZone)
  @@ "1994-05-04T10:00+02:00" :> Stamp(1994, 5, 4, 10, 0, Zone("+", 2, 0))
  @@ "1994-05-04T08:30Z" :> Stamp(1994, 5, 4, 8, 30, Zone("Z", 0, 0))
  @@ "1994-05-04T08:30+00:00" :> Stamp(1994, 5, 4, 8, 30, UTC)
  @@ "1994-05-04T08:30-00:00" :> Stamp(1994, 5, 4, 8, 30, Zone("-", 0, 0))
  @@ "1994-05-04T08:15-00:30" :> Stamp(1994, 5, 4, 8, 15, Zone("-", 0, 30))
  @@ "1970-01-01T05:00+14:00" :> Stamp(1970, 1, 1, 5, 0, Zone("+", 14, 0))
  @@ "1970-01-01T05:00+14:01" :> Stamp(1970, 1, 1, 5, 0, Zone("+", 14, 1))
  @@ "1969-12-31T05:00-12:00" :> Stamp(1969, 12, 31, 5, 0, Zone("-", 12, 0))
  @@ "1969-12-31T05:00-12:01" :> Stamp(1969, 12, 31, 5, 0, Zone("-", 12, 1))
  @@ "1994-05-04T08:30+01:60" :> Stamp(1994, 5, 4, 8, 30, Zone("+", 1, 60))
  @@ "1994-05-04T24:00+00:00" :> Stamp(1994, 5, 4, 24, 0, UTC)
  @@ "1994-05-04T08:30" :> DateOf("naive", 4, 1994, 5, 4, 8, 30, NoZone)
  @@ "1994-02-29T08:30" :> DateOf("naive", 4, 1994, 2, 29, 8, 30, NoZone)
  @@ "5/4/1994" :> Slash(5, 4, 1994) @@ "12/12/1994" :> Slash(12, 12, 1994)
  @@ "12/5/1994" :> Slash(12, 5, 1994)
  @@ "27/5/1994" :> Slash(27, 5, 1994) @@ "5/27/1994" :> Slash(5, 27, 1994)
  @@ "31/6/1994" :> Slash(31, 6, 1994) @@ "13/13/1994" :> Slash(13, 13, 1994)
  @@ "0/5/1994" :> Slash(0, 5, 1994) @@ "32/5/1994" :> Slash(32, 5, 1994)
  @@ "5/4/1994 8:30" :> DateOf("slash timed", 4, 1994, 5, 4, 8, 30, NoZone)
  @@ "5/4/1994 25:30" :> DateOf("slash timed", 4, 1994, 5, 4, 25, 30, NoZone)
  @@ "wide 1994" :> Wide(Year(1994)) @@ "1994-02-wide 29" :> Wide(Day(1994, 2, 29))
  @@ "1994-05-wide 04" :> Wide(Day(1994, 5, 4)) @@ "1994-wide 05-04" :> Wide(Day(1994, 5, 4))
  @@ "1994-05-04T10:00+wide 02:00" :> Wide(Stamp(1994, 5, 4, 10, 0, Zone("+", 2, 0)))
  @@ "wide 5/4/1994" :> Wide(Slash(5, 4, 1994))
  @@ "May 1994" :> [NotADate EXCEPT !.year = 1994]

MCChar == STRING

\* "A" folds to "a".
MCFold(v) == [k \in DOMAIN v |-> IF v[k] = "A" THEN "a" ELSE v[k]]

MCReference == {None, "1994-05-04T08:30Z", "1994"}

(***************************************************************************)
(* The files: every short text of structural characters; every short       *)
(* message, quoted or not, and every short directory name in a row; every  *)
(* date in a row; and every list of up to three rows of a small choice.    *)
(***************************************************************************)
Texts(S, n) == UNION {[1..k -> S] : k \in 0..n}
Canonical(body) == [head |-> "canonical", bom |-> FALSE, utf8 |-> TRUE, body |-> body]
Legacy(body) == [head |-> "legacy", bom |-> FALSE, utf8 |-> TRUE, body |-> body]
Joined(fields) ==
  FlattenSeq([k \in DOMAIN fields |-> (IF k = 1 THEN <<>> ELSE <<Comma>>) \o fields[k]])
RowText(dir, date, tag, message) == Joined(<<dir, <<date>>, <<"x">>, tag, message>>)
LegacyText(dir, date, tag, message) == Joined(<<dir, <<"x">>, date, tag, message>>)
A == <<"a">>
Today == "1994-05-04"

Structural == {"a", Comma, Quote, CR, LF}
Messages == Texts({"a", Comma, Quote, LF, " "}, 3) \cup {<<Quote, "a", CR, LF, "a", Quote>>}
              \cup {<<Quote>> \o m \o <<Quote>> : m \in Texts({"a", Comma, Quote, CR, LF}, 3)}
RowsOf(row(_, _, _)) ==
  LET one == {row(d, t, w) : d \in {<<"a">>, <<"A">>, <<"b">>}, t \in {<<"a">>, <<"A">>, <<"v1">>},
                             w \in {Today, "1994-05-04T10:00+02:00"}}
  IN  {<<r, s>> : r \in one, s \in one}
        \cup {<<row(A, <<"v1">>, v), row(<<"b">>, <<"v2">>, w), row(x, y, Today)>> :
                v \in {Today, "1994-05-04T08:30Z", "1994"}, w \in {Today, "1969", "1994-02-29"},
                x \in {<<"a">>, <<"c">>}, y \in {<<"v1">>, <<"v3">>}}

CanonicalRow(d, t, w) == RowText(d, w, t, A) \o <<LF>>
LegacyRow(d, t, w) == LegacyText(d, <<w>>, t, A) \o <<LF>>

MCFile ==
  {Canonical(t) : t \in Texts(Structural, 5) \cup Texts(Structural \ {CR}, 6)}
    \cup {Canonical(RowText(A, Today, <<"v1">>, m) \o e) : m \in Messages, e \in {<<>>, <<LF>>, <<CR, LF>>}}
    \cup {Canonical(RowText(d, Today, <<"v1">>, A)) : d \in Messages}
    \cup {Canonical(RowText(A, Today, t, A)) :
            t \in Texts({"a", "/", " ", "-"}, 2) \cup {<<"candidate", "/", "a">>, <<"a", "/", "/", "a">>,
                                                      <<"candidate">>, <<Quote, "a", Quote>>}}
    \cup {Canonical(RowText(A, w, <<"v1">>, A) \o <<LF>>) : w \in DOMAIN Date}
    \cup {Canonical(Joined(<<A, <<Quote, Today>> \o b \o <<Quote>>, A, A, A>>)) : b \in {<<>>, <<LF>>, <<"a">>}}
    \cup {Canonical(FlattenSeq(r)) : r \in RowsOf(CanonicalRow)}
    \cup {[head |-> h, bom |-> b, utf8 |-> u, body |-> LegacyRow(A, A, Today)] :
            h \in {"canonical", "legacy", "unknown"}, b \in BOOLEAN, u \in BOOLEAN}
    \cup {Legacy(LegacyText(<<"a">>, d, <<"v1">>, A) \o <<LF>>) :
            d \in {<<w>> : w \in DOMAIN Date} \cup {<<" ", Today>>, <<>>, A}}
    \cup {Legacy(LegacyText(A, <<Today>>, t, m) \o <<LF>>) :
            t \in {<<"*">>, <<>>, <<" ", "v1">>, <<"v", " ", "1">>, <<"-">>},
            m \in Texts({"a", "|", " "}, 3) \cup {<<Quote, "a", "|", LF, "a", Quote>>, <<"a", Quote>>}}
    \cup {Legacy(FlattenSeq(r)) : r \in RowsOf(LegacyRow)}
    \cup {Legacy(LegacyRow(A, <<"v1">>, Today) \o t) : t \in {<<LF>>, A, <<"a", Quote, LF>>, <<CR>>}}
=============================================================================
