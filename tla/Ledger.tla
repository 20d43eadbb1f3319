------------------------------- MODULE Ledger -------------------------------
(***************************************************************************)
(* The hash-chained ledger metadata/journal.jsonl and the class that       *)
(* appends to it (swhap_core/journal/ledger.py).  append() takes no lock:  *)
(* it reads the file, reads it again for the hash of the last line, and    *)
(* then opens it in mode "ab" and writes one line.  Processes that share a *)
(* workbench interleave between those accesses, a write can be cut short,  *)
(* and a process can die between any two of them.                          *)
(*                                                                         *)
(* An entry is its id (a ULID, never reused), its action and the hash it   *)
(* names as its predecessor; the rest of the payload plays no part in the  *)
(* chain.  What one write() leaves in the file is a fragment: the entry    *)
(* and whether all of it got there.  A line is the sequence of fragments   *)
(* between two line feeds, one fragment unless a write was glued to an     *)
(* unterminated line.  The sha256 of a line is the identity of its bytes.  *)
(***************************************************************************)
EXTENDS Integers, Sequences

CONSTANTS
  Writer,     \* the processes that have the workbench open
  Action,     \* the actions an entry can carry, the genesis excepted
  MaxEntries, \* bound on the entries created; TLC only
  Tearing     \* whether a write may be cut short (disk full, power loss)

ASSUME LedgerAssumption ==
  /\ "genesis" \notin Action
  /\ MaxEntries \in Nat
  /\ Tearing \in BOOLEAN

VARIABLES
  lines,       \* the lines of the file, the last one perhaps unterminated
  terminated,  \* the file is empty or ends with a line feed
  pc,          \* where each process is in ensure_genesis() or append()
  draft,       \* the entry each process is about to write
  minted,      \* how many entries new_entry() has created
  stale,       \* history: the file changed after this process read the tip
  undisturbed  \* history: every write so far was whole and on a fresh tip

vars == <<lines, terminated, pc, draft, minted, stale, undisturbed>>

-----------------------------------------------------------------------------
(* Entries, lines and hashes *)

Genesis  == "genesis"
Digest   == Seq(Nat \X BOOLEAN)
Zero     == <<>>
Entry    == [id : Nat, action : Action \cup {Genesis}, prev : Digest]
Fragment == [entry : Entry, whole : BOOLEAN]
Line     == Seq(Fragment)

(* Mutated form of Hash: the ids alone, and not the bytes, are hashed. *)
HashOfIds(line) == [i \in 1..Len(line) |-> <<line[i].entry.id>>]

Hash(line) == [i \in 1..Len(line) |-> <<line[i].entry.id, line[i].whole>>]

Tip(ls) == IF ls = <<>> THEN Zero ELSE Hash(ls[Len(ls)])

(* A line parses as JSON and is canonical iff one whole entry is all of it. *)
Parses(line) == Len(line) = 1 /\ line[1].whole

EntryOf(line) == line[1].entry

(* Mutated form of Verified: the links of the chain are not compared. *)
VerifiedUnchained(ls) ==
  /\ \A n \in 1..Len(ls) : Parses(ls[n])
  /\ \A n \in 1..Len(ls) : (EntryOf(ls[n]).action = Genesis) <=> (n = 1)
  /\ \A m, n \in 1..Len(ls) :
       m # n => EntryOf(ls[m]).id # EntryOf(ls[n]).id

(* Mutated form of Verified: only the last link is looked at. *)
VerifiedLast(ls) ==
  ls # <<>> =>
    /\ Parses(ls[Len(ls)])
    /\ EntryOf(ls[Len(ls)]).prev = Tip(SubSeq(ls, 1, Len(ls) - 1))

(***************************************************************************)
(* Ledger.verify(): every line parses and is canonical, the first and only *)
(* the first is the genesis, no id occurs twice, and each line names the   *)
(* hash of the line before it.  It does not look at the final line feed.   *)
(***************************************************************************)
Verified(ls) ==
  /\ \A n \in 1..Len(ls) : Parses(ls[n])
  /\ \A n \in 1..Len(ls) : (EntryOf(ls[n]).action = Genesis) <=> (n = 1)
  /\ \A m, n \in 1..Len(ls) :
       m # n => EntryOf(ls[m]).id # EntryOf(ls[n]).id
  /\ \A n \in 1..Len(ls) :
       EntryOf(ls[n]).prev = IF n = 1 THEN Zero ELSE Hash(ls[n - 1])

NoDraft == [id |-> 0, action |-> Genesis, prev |-> Zero]

-----------------------------------------------------------------------------
Init ==
  /\ lines = <<>>
  /\ terminated = TRUE
  /\ pc = [w \in Writer |-> "idle"]
  /\ draft = [w \in Writer |-> NoDraft]
  /\ minted = 0
  /\ stale = [w \in Writer |-> FALSE]
  /\ undisturbed = TRUE

file == <<lines, terminated, undisturbed>>

(* new_entry(): the envelope gets its id before append() is entered. *)
NewEntry(w, a) ==
  /\ minted < MaxEntries
  /\ minted' = minted + 1
  /\ draft' = [draft EXCEPT ![w] = [id |-> minted + 1, action |-> a, prev |-> Zero]]

(* ensure_genesis(): is_empty() is the first read of the file. *)
FindEmpty(w) ==
  /\ pc[w] = "idle"
  /\ lines = <<>>
  /\ NewEntry(w, Genesis)
  /\ pc' = [pc EXCEPT ![w] = "genesis"]
  /\ UNCHANGED <<file, stale>>

(* append(_genesis=True): the second read; prev is the zero hash. *)
CheckGenesis(w) ==
  /\ pc[w] = "genesis"
  /\ lines = <<>>
  /\ pc' = [pc EXCEPT ![w] = "write"]
  /\ stale' = [stale EXCEPT ![w] = FALSE]
  /\ UNCHANGED <<file, draft, minted>>

(* ... and JL-CHAIN is raised if another process was faster. *)
RefuseGenesis(w) ==
  /\ pc[w] = "genesis"
  /\ lines # <<>>
  /\ pc' = [pc EXCEPT ![w] = "idle"]
  /\ draft' = [draft EXCEPT ![w] = NoDraft]
  /\ UNCHANGED <<file, minted, stale>>

(* append(entry) of any other action: the first read must find a line. *)
CheckNotEmpty(w, a) ==
  /\ pc[w] = "idle"
  /\ lines # <<>>
  /\ NewEntry(w, a)
  /\ pc' = [pc EXCEPT ![w] = "tip"]
  /\ UNCHANGED <<file, stale>>

(* tip_hash(): the second read, and the hash the entry will carry. *)
ReadTip(w) ==
  /\ pc[w] = "tip"
  /\ draft' = [draft EXCEPT ![w].prev = Tip(lines)]
  /\ stale' = [stale EXCEPT ![w] = FALSE]
  /\ pc' = [pc EXCEPT ![w] = "write"]
  /\ UNCHANGED <<file, minted>>

(* Mutated form of Extended: mode "wb" instead of "ab". *)
ExtendedTruncating(fragment) == <<<<fragment>>>>

(* O_APPEND: the bytes land at the end of the file as it now is. *)
Extended(fragment) ==
  IF terminated
    THEN Append(lines, <<fragment>>)
    ELSE [lines EXCEPT ![Len(lines)] = Append(@, fragment)]

(***************************************************************************)
(* with open(path, "ab") as fh: fh.write(line + b"\n").  A write that is   *)
(* not cut leaves the whole entry and its line feed; one that is cut stops *)
(* inside the entry, or right before the line feed, and raises.            *)
(***************************************************************************)
Write(w, whole, newline) ==
  /\ pc[w] = "write"
  /\ newline => whole
  /\ ~newline => Tearing
  /\ lines' = Extended([entry |-> draft[w], whole |-> whole])
  /\ terminated' = newline
  /\ undisturbed' = (undisturbed /\ terminated /\ whole /\ ~stale[w])
  /\ stale' = [v \in Writer |-> TRUE]
  /\ pc' = [pc EXCEPT ![w] = "idle"]
  /\ draft' = [draft EXCEPT ![w] = NoDraft]
  /\ UNCHANGED minted

(* The process dies; what it had read is lost with it. *)
Crash(w) ==
  /\ pc[w] # "idle"
  /\ pc' = [pc EXCEPT ![w] = "idle"]
  /\ draft' = [draft EXCEPT ![w] = NoDraft]
  /\ UNCHANGED <<file, minted, stale>>

Step(w) ==
  \/ FindEmpty(w)
  \/ CheckGenesis(w)
  \/ RefuseGenesis(w)
  \/ \E a \in Action : CheckNotEmpty(w, a)
  \/ ReadTip(w)
  \/ \E whole, newline \in BOOLEAN : Write(w, whole, newline)
  \/ Crash(w)

Next == \E w \in Writer : Step(w)

Spec == Init /\ [][Next]_vars

-----------------------------------------------------------------------------
(* The type invariant of the ledger file and its writers. *)
TypeOK ==
  /\ lines \in Seq(Line)
  /\ terminated \in BOOLEAN
  /\ pc \in [Writer -> {"idle", "genesis", "tip", "write"}]
  /\ draft \in [Writer -> Entry]
  /\ minted \in Nat
  /\ stale \in [Writer -> BOOLEAN]
  /\ undisturbed \in BOOLEAN

(***************************************************************************)
(* verify() is exact: it accepts the file if and only if no write in its   *)
(* whole life was cut, glued to an unterminated line, or computed from a   *)
(* tip that another process had already moved.  An unlocked race between   *)
(* two append() calls, or between two ensure_genesis() calls, is therefore *)
(* never silent, and verify() never refuses an honest sequential ledger.   *)
(***************************************************************************)
VerdictTracksHistory == Verified(lines) <=> undisturbed

(***************************************************************************)
(* append() never rewrites: a line that was terminated keeps its bytes and *)
(* an unterminated one only grows, whatever any other process was doing.   *)
(***************************************************************************)
AppendOnly ==
  [][/\ Len(lines) <= Len(lines')
     /\ \A n \in 1..Len(lines) :
          IF n < Len(lines) \/ terminated
            THEN lines'[n] = lines[n]
            ELSE /\ Len(lines[n]) <= Len(lines'[n])
                 /\ \A i \in 1..Len(lines[n]) : lines'[n][i] = lines[n][i]]_vars

(***************************************************************************)
(* A ledger that fails verify() fails it for ever: no further append, by   *)
(* any process, repairs or masks a fork or a torn line.                    *)
(***************************************************************************)
NeverHealed == [][~Verified(lines) => ~Verified(lines')]_vars
=============================================================================
