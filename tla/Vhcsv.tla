------------------------------- MODULE Vhcsv -------------------------------
(***************************************************************************)
(* The reader and the writer of metadata/version_history.csv: the RFC 4180 *)
(* tokenizer, the canonical parser and the canonical writer of             *)
(* vhcsv/grammar.py, and the converter of the legacy dialects of           *)
(* vhcsv/legacy.py.                                                        *)
(*                                                                         *)
(* A file is read, one character after the other and then one record after *)
(* the other, and what was read may be written and read again.  A text is  *)
(* a sequence of atoms: the characters that a rule is about, and words for *)
(* what lies between them (a date is one word).  The four columns with     *)
(* names and addresses are represented by one, "author name".              *)
(***************************************************************************)
EXTENDS CsvDates, Sequences, SequencesExt

CONSTANTS
  Char,       \* the atoms
  File,       \* the files: [head, bom, utf8, body]
  Reference,  \* reference timestamps: texts in DOMAIN Date, or None
  None,
  Fold(_)     \* casefold(NFC(.)) of a value

Comma == ","
Quote == "\""
CR == "CR"
LF == "LF"
White == {" ", LF, CR}

Columns == <<"directory name", "date", "author name", "release tag", "commit message">>
LegacyColumns == <<"directory name", "author name", "date", "release tag", "commit message">>
NFields == Len(Columns)

ASSUME FilesAreTexts ==
  \A f \in File : /\ f.head \in {"canonical", "legacy", "unknown"}
                  /\ f.bom \in BOOLEAN /\ f.utf8 \in BOOLEAN
                  /\ f.body \in Seq(Char)
ASSUME CharsAreEnough == {Comma, Quote, CR, LF} \cup DOMAIN Date \subseteq Char
ASSUME DatesAreWords == {Comma, Quote, CR, LF} \cap DOMAIN Date = {}
ASSUME NoneIsNoInstant == None \notin [{1} -> Int]
ASSUME ReferencesAreDates == Reference \subseteq DOMAIN Date \cup {None}

VARIABLES
  file,       \* the file that is being read
  profile,    \* "canonical" or "legacy"
  reference,
  pc,         \* "head", "scan", "rows", "done", or "raised"
  i,          \* the next atom of the body
  scan,       \* the locals of _tokenize
  at,         \* the next record
  rows,       \* the rows so far
  diags,      \* the diagnostics so far, each with its row (0: the file)
  worklist,   \* the worklist of a conversion
  prev,       \* prev_epoch: None or <<instant>>
  found       \* history: what was read from the file that was there at first

vars == <<file, profile, reference, pc, i, scan, at, rows, diags, worklist, prev, found>>

text == file.body
Ahead == IF i < Len(text) THEN text[i + 1] ELSE "end"

When(condition, S) == IF condition THEN S ELSE {}

Diag(code, severity, row) == [code |-> code, severity |-> severity, row |-> row]
Fail(code, row) == Diag(code, "FAIL", row)
Accepted == \A d \in diags : d.severity # "FAIL"

NewScan == [cur |-> <<>>, val |-> <<>>, inQuotes |-> FALSE, quoted |-> FALSE,
            newline |-> FALSE, started |-> FALSE, expectSep |-> FALSE,
            records |-> <<>>, errors |-> {}]

Init ==
  /\ file \in File
  /\ profile \in {"canonical", "legacy"}
  /\ reference \in IF profile = "canonical" THEN Reference ELSE {None}
  /\ pc = "head" /\ i = 1 /\ scan = NewScan /\ at = 1
  /\ rows = <<>> /\ diags = {} /\ worklist = {} /\ prev = None /\ found = None

(***************************************************************************)
(* The first line of the file.  The canonical parser refuses what is not   *)
(* byte-exact; the converter takes two dialects, with or without a BOM, in *)
(* UTF-8 or in latin-1.                                                    *)
(***************************************************************************)
HeadFails == IF profile = "canonical" THEN file.bom \/ ~file.utf8 \/ file.head # "canonical"
             ELSE file.head # "legacy"

ReadHead ==
  /\ pc = "head"
  /\ IF HeadFails
     THEN /\ pc' = "done"
          /\ diags' = {Fail(IF profile = "canonical" /\ ~file.bom /\ ~file.utf8
                            THEN "CSV-FIELD" ELSE "CSV-HEADER", 0)}
     ELSE pc' = "scan" /\ UNCHANGED diags
  /\ worklist' = IF profile = "canonical" THEN {}
                 ELSE When(file.bom, {<<"bom", 0>>}) \cup When(~file.utf8, {<<"latin1", 0>>})
  /\ UNCHANGED <<file, profile, reference, i, scan, at, rows, prev, found>>

(***************************************************************************)
(* _tokenize, one turn of its loop.                                        *)
(***************************************************************************)
EndField(s) ==
  [s EXCEPT !.cur = Append(@, [value |-> s.val, quoted |-> s.quoted, newline |-> s.newline]),
            !.val = <<>>, !.quoted = FALSE, !.newline = FALSE, !.expectSep = FALSE]

EmitRecord(s) == [s EXCEPT !.records = Append(@, s.cur), !.cur = <<>>, !.started = FALSE]

\* Mutated form of Err: the row is counted from zero.
ErrFromZero(s) == [s EXCEPT !.errors = @ \cup {Len(s.records)}]

Err(s) == [s EXCEPT !.errors = @ \cup {Len(s.records) + 1}]

Blank(s) == ~s.started /\ s.val = <<>> /\ s.cur = <<>>

\* Mutated form of EndLine: a blank line is a record with an empty field.
EndAnyLine(s) == EmitRecord(EndField(s))

EndLine(s) == IF Blank(s) THEN Err(s) ELSE EmitRecord(EndField(s))

Scanning(s, c) == pc = "scan" /\ i <= Len(text) /\ text[i] = c /\ s.inQuotes = FALSE

Advance(s, n) ==
  /\ scan' = s /\ i' = i + n
  /\ UNCHANGED <<file, profile, reference, pc, at, rows, diags, worklist, prev, found>>

InQuotes == pc = "scan" /\ i <= Len(text) /\ scan.inQuotes

EscapedQuote ==
  /\ InQuotes /\ text[i] = Quote /\ Ahead = Quote
  /\ Advance([scan EXCEPT !.val = Append(@, Quote)], 2)

ClosingQuote ==
  /\ InQuotes /\ text[i] = Quote /\ Ahead # Quote
  /\ Advance([scan EXCEPT !.inQuotes = FALSE, !.expectSep = TRUE], 1)

QuotedBreak ==
  /\ InQuotes /\ text[i] \in {CR, LF}
  /\ Advance([scan EXCEPT !.newline = TRUE, !.val = Append(@, LF)],
             IF text[i] = CR /\ Ahead = LF THEN 2 ELSE 1)

QuotedAtom ==
  /\ InQuotes /\ text[i] \notin {Quote, CR, LF}
  /\ Advance([scan EXCEPT !.val = Append(@, text[i])], 1)

Separator ==
  /\ Scanning(scan, Comma)
  /\ Advance([EndField(scan) EXCEPT !.started = TRUE], 1)

LineFeed == Scanning(scan, LF) /\ Advance(EndLine(scan), 1)
CarriageReturn == Scanning(scan, CR) /\ Ahead = LF /\ Advance(EndLine(scan), 2)

LoneReturn ==
  /\ Scanning(scan, CR) /\ Ahead # LF
  /\ Advance(IF scan.expectSep THEN EmitRecord(EndField(Err(scan))) ELSE Err(scan), 1)

OpeningQuote ==
  /\ Scanning(scan, Quote) /\ scan.val = <<>> /\ ~scan.quoted
  /\ Advance([scan EXCEPT !.inQuotes = TRUE, !.quoted = TRUE, !.started = TRUE], 1)

StrayQuote ==
  /\ Scanning(scan, Quote) /\ (scan.val # <<>> \/ scan.quoted)
  /\ Advance([Err(scan) EXCEPT !.val = Append(@, Quote)], 1)

Atom ==
  /\ pc = "scan" /\ i <= Len(text) /\ ~scan.inQuotes
  /\ text[i] \notin {Comma, Quote, CR, LF}
  /\ Advance(IF scan.expectSep
             THEN [Err(scan) EXCEPT !.expectSep = FALSE, !.val = Append(@, text[i])]
             ELSE [scan EXCEPT !.started = TRUE, !.val = Append(@, text[i])], 1)

Scanned(s) ==
  IF s.inQuotes THEN EmitRecord(EndField(Err(s)))
  ELSE IF Blank(s) THEN s ELSE EmitRecord(EndField(s))

\* _resolve_reference: anything but a full timestamp raises ValueError.
Baseline == ParseDate(Date[reference])

EndOfText ==
  /\ pc = "scan" /\ i = Len(text) + 1
  /\ scan' = Scanned(scan)
  /\ IF profile = "canonical"
     THEN /\ diags' = diags \cup {Fail("CSV-FIELD", r) : r \in Scanned(scan).errors}
                  \cup IF Scanned(scan).records = <<>> THEN {Fail("CSV-FIELD", 0)}
                       ELSE When(reference = None, {Diag("CSV-DATE", "INFO", 0)})
          /\ UNCHANGED worklist
     ELSE /\ worklist' = worklist \cup {<<"malformed", r>> : r \in Scanned(scan).errors}
          /\ UNCHANGED diags
  /\ pc' = IF profile = "canonical" /\ Scanned(scan).records = <<>> THEN "done"
           ELSE IF reference # None /\ Baseline.precision # "second" THEN "raised"
           ELSE "rows"
  /\ UNCHANGED <<file, profile, reference, i, at, rows, prev, found>>

(***************************************************************************)
(* One field.  validate_field and validate_tag, over the atoms that occur. *)
(***************************************************************************)
Message == 5
Validated == 1..NFields \ {2}

TagIsMalformed(v) ==
  \/ ToSet(v) \cap {" ", "*"} # {}
  \/ v[1] = "/" \/ v[Len(v)] = "/"
  \/ \E k \in 1..(Len(v) - 1) : v[k] = "/" /\ v[k + 1] = "/"
  \/ Len(v) > 1 /\ v[1] \in {"candidate", "scratch"} /\ v[2] = "/"

FieldErrors(column, v) ==
  IF \/ v = <<>>
     \/ column # Message /\ LF \in ToSet(v)
     \/ v[1] \in White \/ v[Len(v)] \in White
  THEN {"CSV-FIELD"}
  ELSE When(column # Message /\ v[1] = "-", {"CSV-FIELD"})
         \cup When(Columns[column] = "directory name" /\ "/" \in ToSet(v), {"CSV-FIELD"})
         \cup When(Columns[column] = "release tag" /\ TagIsMalformed(v), {"CSV-TAG"})

\* The regular expressions of dates.py end in $, which a final line feed passes.
NotADate == [form |-> "other", ascii |-> TRUE, year |-> 0, digits |-> 4, month |-> 0, day |-> 0,
             hour |-> 0, minute |-> 0, zone |-> NoZone]

DateLiteral(v) ==
  IF /\ v # <<>> /\ v[1] \in DOMAIN Date
     /\ Len(v) = 1 \/ (Len(v) = 2 /\ v[2] = LF)
  THEN Date[v[1]] ELSE NotADate

Row(n, v, p, notes) ==
  [number |-> n, directory |-> v[1], date |-> p, author |-> v[3], tag |-> v[4],
   message |-> v[5], raw |-> v[2], notes |-> notes]

Record == scan.records[at]
Values == [k \in DOMAIN Record |-> Record[k].value]
Reading(p) == pc = "rows" /\ profile = p /\ at <= Len(scan.records)

WrongArity ==
  /\ pc = "rows" /\ at <= Len(scan.records) /\ Len(Record) # NFields
  /\ IF profile = "canonical"
     THEN diags' = diags \cup {Fail("CSV-FIELD", at)} /\ UNCHANGED worklist
     ELSE worklist' = worklist \cup {<<"arity", at>>} /\ UNCHANGED diags
  /\ at' = at + 1
  /\ UNCHANGED <<file, profile, reference, pc, i, scan, rows, prev, found>>

(***************************************************************************)
(* parse_canonical, one record.                                            *)
(***************************************************************************)
QuotingNeeded(v) == ToSet(v) \cap {Comma, Quote, LF, CR} # {}

IsFuture(p) == p.error = "none" /\ reference # None /\ p.epoch > Baseline.epoch

\* Mutated form of IsLate: the dates are compared, without their times.
IsLateByDay(p) ==
  p.error = "none" /\ ~IsFuture(p) /\ prev # None /\ p.epoch \div 1440 < prev[1] \div 1440

IsLate(p) == p.error = "none" /\ ~IsFuture(p) /\ prev # None /\ p.epoch < prev[1]

RowDiags(v, p) ==
  (UNION {{Fail(code, at) : code \in FieldErrors(c, v[c])} : c \in Validated})
    \cup {Fail("CSV-FIELD", at) : c \in {k \in 1..4 : Record[k].newline}}
    \cup When(p.error # "none", {Fail(p.error, at)})
    \cup When(IsFuture(p), {Fail("CSV-DATE", at)})
    \cup When(IsLate(p), {Diag("CSV-DATE-ORDER", "WARN", at)})
    \cup When(\E k \in 1..NFields : Record[k].quoted /\ ~QuotingNeeded(v[k]),
              {Diag("CSV-FIELD", "INFO", 0)})

PrecisionNotes(p) == When(p.precision # "second", {"precision"})

ReadRow ==
  /\ Reading("canonical") /\ Len(Record) = NFields
  /\ LET p == ParseDate(DateLiteral(Values[2]))
         failed == \/ \E c \in Validated : FieldErrors(c, Values[c]) # {}
                   \/ p.error # "none" \/ IsFuture(p)
     IN  /\ diags' = diags \cup RowDiags(Values, p)
         /\ prev' = IF p.error # "none" \/ IsFuture(p) THEN prev ELSE <<p.epoch>>
         /\ rows' = IF failed THEN rows ELSE Append(rows, Row(at, Values, p, PrecisionNotes(p)))
  /\ at' = at + 1
  /\ UNCHANGED <<file, profile, reference, pc, i, scan, worklist, found>>

\* _check_uniqueness: the later one of two rows that fold alike.
Collisions(R, column) ==
  {k \in DOMAIN R : \E j \in 1..(k - 1) : Fold(R[j][column]) = Fold(R[k][column])}

\* Mutated form of Duplicates: only neighbours are compared.
DuplicatesOfNeighbours(R) ==
  {Fail("CSV-DUP-DIR", R[k].number) :
     k \in {n \in 2..Len(R) : Fold(R[n].directory) = Fold(R[n - 1].directory)}}
    \cup {Fail("CSV-DUP-TAG", R[k].number) :
            k \in {n \in 2..Len(R) : Fold(R[n].tag) = Fold(R[n - 1].tag)}}

Duplicates(R) ==
  {Fail("CSV-DUP-DIR", R[k].number) : k \in Collisions(R, "directory")}
    \cup {Fail("CSV-DUP-TAG", R[k].number) : k \in Collisions(R, "tag")}

FinishReading ==
  /\ pc = "rows" /\ at > Len(scan.records)
  /\ diags' = IF profile = "canonical" THEN diags \cup Duplicates(rows) ELSE diags
  /\ pc' = "done"
  /\ UNCHANGED <<file, profile, reference, i, scan, at, rows, worklist, prev, found>>

(***************************************************************************)
(* legacy.convert, one record.                                             *)
(***************************************************************************)
Stripped(v) ==
  LET solid == {k \in DOMAIN v : v[k] \notin White}
  IN  IF solid = {} THEN <<>> ELSE SubSeq(v, Min(solid), Max(solid))

Tokens == [k \in DOMAIN Record |-> Stripped(Values[k])]
StripItems == When(\E k \in DOMAIN Record : Values[k] # Tokens[k], {<<"stripped", at>>})

LineBroken(v) == Stripped([k \in DOMAIN v |-> IF v[k] = "|" THEN LF ELSE v[k]])

\* The fields in the order of the canonical columns.
Candidate(v) ==
  <<v[1], v[3], v[2], IF v[4] = <<"*">> THEN v[1] ELSE v[4], LineBroken(v[5])>>

LegacyDate(v) == ConvertLegacyDate(DateLiteral(v[3]))
AmbiguityOf(v) ==
  When(/\ DateLiteral(v[3]).form \in {"slash", "slash timed"}
       /\ Ambiguous(DateLiteral(v[3])), {Diag("CSV-AMBIGUOUS-US-DATE", "WARN", at)})

\* Mutated form of NeedsRepair: the tag is not validated.
NeedsRepairButTags(v) == \E c \in Validated \ {4} : FieldErrors(c, Candidate(v)[c]) # {}

NeedsRepair(v) == \E c \in Validated : FieldErrors(c, Candidate(v)[c]) # {}

\* Mutated form of ConversionNotes: the note about the zone is written for ISO dates only.
ConversionNotesOfISO(v) ==
  When(v[4] = <<"*">>, {"tag"})
    \cup When("|" \in ToSet(Values[5]), {"message"})
    \cup When(DateLiteral(v[3]).form = "naive", {"zone"})
    \cup PrecisionNotes(LegacyDate(v))

ConversionNotes(v) ==
  When(v[4] = <<"*">>, {"tag"})
    \cup When("|" \in ToSet(Values[5]), {"message"})
    \cup When(DateLiteral(v[3]).form \in {"naive", "slash timed"}, {"zone"})
    \cup PrecisionNotes(LegacyDate(v))

Convert(items, warnings, converted) ==
  /\ Reading("legacy")
  /\ worklist' = worklist \cup StripItems \cup {<<item, at>> : item \in items}
  /\ diags' = diags \cup warnings
  /\ rows' = rows \o converted
  /\ at' = at + 1
  /\ UNCHANGED <<file, profile, reference, pc, i, scan, prev, found>>

IsLegacyRow == Reading("legacy") /\ Len(Record) = NFields

PassUntagged == IsLegacyRow /\ Tokens[4] = <<>> /\ Convert({"empty-tag"}, {}, <<>>)

PassUndated ==
  /\ IsLegacyRow /\ Tokens[4] # <<>> /\ LegacyDate(Tokens).error # "none"
  /\ Convert({"undated"}, AmbiguityOf(Tokens), <<>>)

PassToRepair ==
  /\ IsLegacyRow /\ Tokens[4] # <<>> /\ LegacyDate(Tokens).error = "none" /\ NeedsRepair(Tokens)
  /\ Convert({"needs-repair"}, AmbiguityOf(Tokens), <<>>)

ConvertRow ==
  /\ IsLegacyRow /\ Tokens[4] # <<>> /\ LegacyDate(Tokens).error = "none" /\ ~NeedsRepair(Tokens)
  /\ Convert({}, AmbiguityOf(Tokens),
             <<Row(at, Candidate(Tokens), LegacyDate(Tokens), ConversionNotes(Tokens))>>)

(***************************************************************************)
(* write: the rows as text, which may be read again.                       *)
(***************************************************************************)
Quoted(v) ==
  IF QuotingNeeded(v)
  THEN <<Quote>> \o FlattenSeq([k \in DOMAIN v |-> IF v[k] = Quote THEN <<Quote, Quote>> ELSE <<v[k]>>])
         \o <<Quote>>
  ELSE v

Fields(r) == <<r.directory, <<Serialized(r.date)>>, r.author, r.tag, r.message>>

Line(r) ==
  FlattenSeq([c \in 1..NFields |-> (IF c = 1 THEN <<>> ELSE <<Comma>>) \o Quoted(Fields(r)[c])])
    \o <<LF>>

\* Mutated form of Written: the line feeds are between the lines.
WrittenUnterminated(R) ==
  LET all == FlattenSeq([k \in DOMAIN R |-> Line(R[k])])
  IN  IF all = <<>> THEN all ELSE Front(all)

Written(R) == FlattenSeq([k \in DOMAIN R |-> Line(R[k])])

Rewrite ==
  /\ pc = "done" /\ found = None /\ Accepted
  /\ found' = [profile |-> profile, rows |-> rows]
  /\ file' = [head |-> "canonical", bom |-> FALSE, utf8 |-> TRUE, body |-> Written(rows)]
  /\ profile' = "canonical"
  /\ pc' = "head" /\ i' = 1 /\ scan' = NewScan /\ at' = 1
  /\ rows' = <<>> /\ diags' = {} /\ worklist' = {} /\ prev' = None
  /\ UNCHANGED reference

Tokenize ==
  \/ EscapedQuote \/ ClosingQuote \/ QuotedBreak \/ QuotedAtom
  \/ Separator \/ LineFeed \/ CarriageReturn \/ LoneReturn
  \/ OpeningQuote \/ StrayQuote \/ Atom \/ EndOfText

Next ==
  \/ ReadHead \/ Tokenize
  \/ WrongArity \/ ReadRow \/ FinishReading
  \/ PassUntagged \/ PassUndated \/ PassToRepair \/ ConvertRow
  \/ Rewrite

Spec == Init /\ [][Next]_vars

(***************************************************************************)
(* Properties.                                                             *)
(***************************************************************************)
\* What is read has the shapes above: a reader never leaves its text, and a
\* record number belongs to a record.
TypeOK ==
  /\ profile \in {"canonical", "legacy"}
  /\ reference \in Reference \cup {None}
  /\ pc \in {"head", "scan", "rows", "done", "raised"}
  /\ i \in 1..(Len(text) + 1)
  /\ \A f \in {"inQuotes", "quoted", "newline", "started", "expectSep"} : scan[f] \in BOOLEAN
  /\ scan.val \in Seq(Char)
  /\ \A r \in ToSet(scan.records) : r # <<>>
  /\ scan.errors \subseteq 1..(Len(scan.records) + 1)
  /\ at \in 1..(Len(scan.records) + 1)
  /\ \A k \in DOMAIN rows : rows[k].number < at
  /\ \A d \in diags : d.row \in 0..(Len(scan.records) + 1)
  /\ prev = None \/ prev[1] \in Int

(***************************************************************************)
(* RFC 4180 by position: a comma, a line feed or a carriage return counts  *)
(* when the number of quotes before it is even.                            *)
(***************************************************************************)
QuotesUpTo(t, n) == Cardinality({k \in 1..n : t[k] = Quote})
Even(n) == n % 2 = 0
Outside(t, k) == Even(QuotesUpTo(t, k - 1))
Breaks(t) == {k \in DOMAIN t : t[k] = LF /\ Outside(t, k)}
Commas(t) == {k \in DOMAIN t : t[k] = Comma /\ Outside(t, k)}

\* A set of positions from left to right.
InOrder(S) == [n \in 1..Cardinality(S) |-> CHOOSE k \in S : Cardinality({j \in S : j <= k}) = n]

\* Where each line ends, at its line break or after the text, and its first
\* and last place without its line break.
Ends(t) == Breaks(t) \cup When(t # <<>> /\ Len(t) \notin Breaks(t), {Len(t) + 1})

Span(t, ends, n) ==
  LET start  == IF n = 1 THEN 1 ELSE ends[n - 1] + 1
      isCRLF == ends[n] <= Len(t) /\ ends[n] > start /\ t[ends[n] - 1] = CR
  IN  <<start, IF isCRLF THEN ends[n] - 2 ELSE ends[n] - 1>>

LineSpans(t) == LET ends == InOrder(Ends(t)) IN [n \in DOMAIN ends |-> Span(t, ends, n)]

WellFormed(t) ==
  /\ Even(QuotesUpTo(t, Len(t)))
  /\ \A k \in DOMAIN t :
       /\ t[k] = Quote /\ Outside(t, k) => k = 1 \/ t[k - 1] \in {Comma, LF, Quote}
       /\ t[k] = Quote /\ ~Outside(t, k) => k = Len(t) \/ t[k + 1] \in {Comma, LF, CR, Quote}
       /\ t[k] = CR /\ Outside(t, k) => k < Len(t) /\ t[k + 1] = LF
  /\ \A k \in Breaks(t) :
       LET end == IF k > 1 /\ t[k - 1] = CR THEN k - 2 ELSE k - 1
       IN  end > 0 /\ end \notin Breaks(t)

\* The value between two places: without the quotes around it, one of each
\* pair of quotes, and one line feed for each line break.
Kept(t, from, to) ==
  {k \in from..to : IF t[k] = Quote THEN ~Outside(t, k) /\ k < to
                    ELSE ~(t[k] = CR /\ k < to /\ t[k + 1] = LF)}

ValueAt(t, from, to) ==
  LET places == InOrder(Kept(t, from, to))
  IN  [n \in DOMAIN places |-> IF t[places[n]] = CR THEN LF ELSE t[places[n]]]

Cuts(t, l) == {k \in Commas(t) : l[1] <= k /\ k <= l[2]} \cup {l[2] + 1}

FieldsAt(t, l) ==
  LET cuts == InOrder(Cuts(t, l))
  IN  [n \in DOMAIN cuts |-> ValueAt(t, IF n = 1 THEN l[1] ELSE cuts[n - 1] + 1, cuts[n] - 1)]

Split(t) == [n \in DOMAIN LineSpans(t) |-> FieldsAt(t, LineSpans(t)[n])]

\* The tokenizer, which looks at one character after the other and never
\* back, accepts exactly the texts that are RFC 4180 by position, and takes
\* them apart as their positions say (grammar.py:101-236).
TokenizerIsRFC4180 ==
  pc = "rows" /\ at = 1 =>
    /\ scan.errors = {} <=> WellFormed(text)
    /\ WellFormed(text) =>
         [r \in DOMAIN scan.records |->
            [c \in DOMAIN scan.records[r] |-> scan.records[r][c].value]] = Split(text)


(***************************************************************************)
(* The contract (csv-contract.md 2.4, 4.1, 8), said of the whole file at   *)
(* once.                                                                   *)
(***************************************************************************)
IsWithinZones(z) ==
  /\ z.minutes \in 0..59
  /\ IF z.sign = "-" THEN z.hours < 12 \/ (z.hours = 12 /\ z.minutes = 0)
     ELSE z.hours < 14 \/ (z.hours = 14 /\ z.minutes = 0)

IsCanonicalDate(w) ==
  /\ w \in DOMAIN Date
  /\ LET l == Date[w]
     IN  /\ l.form \in {"second", "day", "year"} /\ l.digits = 4
         /\ IsDay(l.year, l.month, l.day) /\ IsTime(l.hour, l.minute) /\ IsWithinZones(l.zone)

UTCMinute(w) == WallClock(Date[w].year, Date[w].month, Date[w].day, Date[w].hour, Date[w].minute)
                  - OffsetOf(Date[w].zone)

Distinct(L, c) == \A j, k \in DOMAIN L : Fold(L[j][c]) = Fold(L[k][c]) => j = k

\* Every record conforms, once a carriage return alone is taken for a line feed
\* and a digit of another script for that of ASCII.
RecordsConform(t) ==
  /\ WellFormed(t) /\ t # <<>>
  /\ \A n \in DOMAIN Split(t) :
       /\ Len(Split(t)[n]) = NFields
       /\ \A c \in Validated : FieldErrors(c, Split(t)[n][c]) = {}
       /\ Len(Split(t)[n][2]) = 1 /\ IsCanonicalDate(Split(t)[n][2][1])
       /\ reference # None => UTCMinute(Split(t)[n][2][1]) <= UTCMinute(reference)
  /\ Distinct(Split(t), 1) /\ Distinct(Split(t), 4)

\* A carriage return without its line feed is a control character, which no
\* field may hold; and the digits of a date are ASCII.
LoneReturns(t) == {k \in DOMAIN t : t[k] = CR /\ (k = Len(t) \/ t[k + 1] # LF)}
ForeignDates(t) == {n \in DOMAIN Split(t) : ~Date[Split(t)[n][2][1]].ascii}

Conforms(t) == RecordsConform(t) /\ LoneReturns(t) = {} /\ ForeignDates(t) = {}

\* What the reader takes besides.
Tolerated(t) == RecordsConform(t) /\ (LoneReturns(t) # {} \/ ForeignDates(t) # {})

IsRead(p) == pc = "done" /\ profile = p

\* A file is accepted exactly when it conforms to the contract or departs from
\* it in two ways only, a carriage return alone inside quotes and a date in
\* digits that are not ASCII; and then there is a row for each of its records.
\* No other refusal is lost on the way of a row through the loop, and none is
\* made up (grammar.py:146-150, 399-535; dates.py:23-28).
AcceptsTheContractAndTwoDepartures ==
  IsRead("canonical") =>
    /\ Accepted <=> ~HeadFails /\ (Conforms(text) \/ Tolerated(text))
    /\ Accepted => /\ Len(rows) = Len(Split(text))
                   /\ \A n \in DOMAIN rows : rows[n].number = n

\* An accepted file without a warning about the order of its dates lists its
\* releases in the order of their instants, whatever their zones
\* (grammar.py:496-511).
QuietMeansChronological ==
  IsRead("canonical") /\ Accepted /\ (\A d \in diags : d.code # "CSV-DATE-ORDER") =>
    \A j, k \in DOMAIN rows : j <= k => UTCMinute(rows[j].raw[1]) <= UTCMinute(rows[k].raw[1])

IsNormalDate(l) ==
  /\ l.ascii
  /\ l.zone.sign # "Z" /\ l.zone # Zone("-", 0, 0)
  /\ Padded \/ l.form = "year" \/ l.year >= 1000

\* Writing what was accepted gives back the same bytes exactly when the reader
\* did not note a needless quote, and the file has line feeds alone, one at its
\* end, and its dates in ASCII and in the form of the writer.  Of all this the
\* reader mentions the first only (grammar.py:528-532, 583-590).
SameBytes ==
  IsRead("canonical") /\ Accepted =>
    (Written(rows) = text <=>
       /\ Diag("CSV-FIELD", "INFO", 0) \notin diags
       /\ CR \notin ToSet(text)
       /\ text[Len(text)] = LF
       /\ \A n \in DOMAIN rows : IsNormalDate(Date[rows[n].raw[1]]))

Content(R) == [n \in DOMAIN R |-> [directory |-> R[n].directory, date |-> R[n].date,
                                   author |-> R[n].author, tag |-> R[n].tag, message |-> R[n].message]]

YearOf(r) == Date[Serialized(r.date)].year

\* What has been written is read again with the same content and written again
\* with the same bytes, and it is accepted exactly when there is a row, no two
\* collide (a converter does not look), no year is printed with fewer than
\* four digits, and none is later than the reference (grammar.py:583-590,
\* model.py:88-100, legacy.py:132-264).
RoundTrip ==
  IsRead("canonical") /\ found # None =>
    /\ Accepted <=> /\ found.rows # <<>>
                    /\ Duplicates(found.rows) = {}
                    /\ \A n \in DOMAIN found.rows :
                         Padded \/ found.rows[n].date.precision = "year" \/ YearOf(found.rows[n]) >= 1000
    /\ Accepted => Content(rows) = Content(found.rows) /\ Written(rows) = text

Lost == {"arity", "empty-tag", "undated", "needs-repair"}

\* The day and month of a slash date in either order, where it is a date.
ReadingsOf(l) ==
  {e \in {<<l.month, l.day>>, <<l.day, l.month>>} : IsDay(l.year, e[1], e[2])}

\* A slash date that is converted is converted to a reading of it; one with two
\* readings is always announced; and one with a reading is never given up, nor
\* one without any converted (legacy.py:61-96).
SlashDatesAreReadings ==
  \A n \in DOMAIN scan.records :
    LET l == DateLiteral(Stripped(scan.records[n][3].value))
        r == CHOOSE q \in ToSet(rows) : q.number = n
        announced == Diag("CSV-AMBIGUOUS-US-DATE", "WARN", n) \in diags
    IN  Len(scan.records[n]) = NFields /\ l.form \in {"slash", "slash timed"} =>
          /\ <<"undated", n>> \in worklist <=>
               (ReadingsOf(l) = {} \/ ~IsTime(l.hour, l.minute)) /\ <<"empty-tag", n>> \notin worklist
          /\ (\E q \in ToSet(rows) : q.number = n) =>
               /\ \E e \in ReadingsOf(l) : r.date.epoch = WallClock(l.year, e[1], e[2], l.hour, l.minute)
               /\ Cardinality(ReadingsOf(l)) = 2 => announced
               /\ IsDay(l.year, l.month, l.day) =>
                    r.date.epoch = WallClock(l.year, l.month, l.day, l.hour, l.minute)

\* Of every record of a legacy file the converter makes a row or an item of
\* the worklist, never both or neither; a row that does not say what its record
\* says carries a note, a warning or an item; a text that is not RFC 4180 is
\* mentioned; and so is a slash date with two readings (legacy.py:167-262).
NothingIsConvertedSilently ==
  IsRead("legacy") /\ Accepted =>
    /\ \A n \in DOMAIN scan.records :
         (\E k \in DOMAIN rows : rows[k].number = n) <=> ~\E item \in Lost : <<item, n>> \in worklist
    /\ \A k \in DOMAIN rows :
         LET r == rows[k]
             v == [c \in 1..NFields |-> scan.records[r.number][c].value]
             kept(note) == note \in r.notes \/ <<"stripped", r.number>> \in worklist
         IN  /\ <<r.directory, r.author>> # <<v[1], v[2]>> => kept("stripped")
             /\ r.tag # v[4] => kept("tag")
             /\ r.message # v[5] => kept("message")
             /\ r.date # ParseDate(DateLiteral(v[3])) => kept("zone") \/ kept("precision")
             /\ DateLiteral(v[3]).form \in {"naive", "slash timed"} => kept("zone")
    /\ ~WellFormed(text) => \E n \in 1..(Len(scan.records) + 1) : <<"malformed", n>> \in worklist
    /\ SlashDatesAreReadings
=============================================================================
