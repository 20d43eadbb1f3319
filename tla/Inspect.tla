------------------------------- MODULE Inspect -------------------------------
(***************************************************************************)
(* swhap inspect (swhap_core/inspect.py, archive.py, errors.py): the       *)
(* read-only look at an archive before anything is extracted.  It tells    *)
(* what it rejects, which wrapper it sees and which directories are empty. *)
(*                                                                         *)
(* An archive is a function from its entries to members, so that two       *)
(* entries can have one name.  A name is the sequence of its components;   *)
(* the component "/" stands for a leading separator, "." for the directory *)
(* that the archive was made in, and ".." is as in the archive.  What a    *)
(* name is in bytes is abstract.                                           *)
(***************************************************************************)
EXTENDS Naturals, FiniteSets, FiniteSetsExt, SequencesExt

CONSTANTS
  Name,    \* file names
  Folded,  \* casefold(NFC(name)) of a name
  Policy,  \* the budgets of ExtractionPolicy
  None

ASSUME InspectAssumption ==
  /\ Folded \in [Name -> Name]
  /\ Policy \in [members : Nat, bytes : Nat, ratio : Nat, filesize : Nat, depth : Nat]
  /\ None \notin Name \cup {"/", ".", ".."}
  /\ Name \cap {"/", ".", ".."} = {}

Component == Name \cup {"/", ".", ".."}

(* "dirlink" is a link to a directory, "hard" a hard link, and "special" a *)
(* device, a pipe or a socket.  data is the content, for a link the target. *)
MemberKind == {"dir", "file", "exec", "link", "dirlink", "hard", "special"}
Symlink    == {"link", "dirlink"}
IsMember(m) ==
  /\ m.path \in Seq(Component) \ {<<>>}
  /\ \A i \in 2..Len(m.path) : m.path[i] \notin {"/", "."}
  /\ m.kind \in MemberKind /\ m.size \in Nat
  /\ m.path = <<".">> => m.kind = "dir"
  /\ m.kind \in Symlink \cup {"hard"} => m.data \in Seq(Component)

PathsOf(ms)    == {ms[e].path : e \in DOMAIN ms}
OfKind(ms, ks) == {e \in DOMAIN ms : ms[e].kind \in ks}
Files(ms)      == OfKind(ms, {"file", "exec"})

(* A separator can only be the first component (IsMember).               *)
IsAbsolute(p)   == p # <<>> /\ p[1] = "/"
Components(p)   == IF IsAbsolute(p) THEN Tail(p) ELSE p
HasTraversal(p) == ".." \in ToSet(p)

(* The target, resolved from the directory of the link, leaves the root.   *)
SymlinkEscapes(dir, target) ==
  LET step(at, c) ==
        IF at = None \/ c = "." THEN at
        ELSE IF c = ".." THEN IF at = <<>> THEN None ELSE Front(at)
        ELSE Append(at, c)
  IN IsAbsolute(target) \/ FoldLeft(step, dir, target) = None

FoldedPath(p) == [i \in DOMAIN p |-> IF p[i] \in Name THEN Folded[p[i]] ELSE p[i]]

TotalSize(ms) == MapThenSumSet(LAMBDA e : ms[e].size, Files(ms))

(***************************************************************************)
(* The rules.  One of a member that is broken by some member ...           *)
(***************************************************************************)
Breaks(ms, m, code) ==
  CASE code = "EX-ABS"       -> IsAbsolute(m.path)
    [] code = "EX-TRAVERSAL" -> HasTraversal(m.path)
    [] code = "BG-PATH"      -> Len(Components(m.path)) > Policy.depth
    [] code = "BG-FILESIZE"  -> m.kind \in {"file", "exec"} /\ m.size > Policy.filesize
    [] code = "EX-DEVICE"    -> m.kind = "special"
    [] code = "EX-HARDLINK-OUT" -> m.kind = "hard" /\ m.data \notin PathsOf(ms)
    [] code = "EX-SYMLINK-ESCAPE" ->
         IF m.kind \in Symlink
           THEN SymlinkEscapes(Front(Components(m.path)), m.data)
           ELSE \E e \in OfKind(ms, Symlink) : IsStrictPrefix(ms[e].path, m.path)

(* ... and one of the archive as a whole. *)
Exceeds(ms, size, code) ==
  CASE code = "EX-DUP" ->
         \E d, e \in DOMAIN ms : d # e /\ ms[d].path = ms[e].path
    [] code = "EX-CASE-COLLISION" ->
         \E p, q \in PathsOf(ms) : p # q /\ FoldedPath(p) = FoldedPath(q)
    [] code = "BG-MEMBERS" -> Cardinality(DOMAIN ms) > Policy.members
    [] code = "BG-BYTES"   -> TotalSize(ms) > Policy.bytes
    [] code = "BG-RATIO"   -> size # 0 /\ TotalSize(ms) > Policy.ratio * size

Extraction == {"EX-FORMAT", "EX-ABS", "EX-TRAVERSAL", "EX-SYMLINK-ESCAPE",
               "EX-HARDLINK-OUT", "EX-DEVICE", "EX-DUP", "EX-CASE-COLLISION"}
Budget     == {"BG-MEMBERS", "BG-BYTES", "BG-RATIO", "BG-FILESIZE", "BG-PATH"}
OfArchive  == {"EX-DUP", "EX-CASE-COLLISION", "BG-MEMBERS", "BG-BYTES", "BG-RATIO"}
OfMember   == (Extraction \cup Budget) \ (OfArchive \cup {"EX-FORMAT"})

Rejections(ms, size) ==
  {c \in OfMember : \E e \in DOMAIN ms : Breaks(ms, ms[e], c)}
    \cup {c \in OfArchive : Exceeds(ms, size, c)}

(* exit_code_for_codes(): an unsafe archive is that first of all. *)
ExitCodeForCodes(codes) ==
  CASE codes \cap Extraction # {} -> 10
    [] codes # {} /\ codes \subseteq Budget -> 11
    [] OTHER -> 0

-----------------------------------------------------------------------------
(* The directories with a member of their own and none below it. *)
EmptyDirs(ms) ==
  {ms[e].path : e \in {d \in OfKind(ms, {"dir"}) :
                         ~ \E p \in PathsOf(ms) : IsStrictPrefix(ms[d].path, p)}}

(* Mutated form of DetectWrapper: the directory must be a member itself. *)
DetectListedWrapper(ms) ==
  LET tops == {Components(p)[1] : p \in {q \in PathsOf(ms) : Components(q) # <<>>}}
      at(top) == {e \in DOMAIN ms : Components(ms[e].path) = <<top>>}
  IN IF /\ Cardinality(tops) = 1
        /\ \E p \in PathsOf(ms) : Len(Components(p)) > 1
        /\ \E top \in tops : \E e \in at(top) : ms[e].kind = "dir"
       THEN CHOOSE top \in tops : TRUE
       ELSE None

(* The only component at the top, unless only a file or nothing is there.  *)
(* "." is a component like any other.                                      *)
DetectWrapper(ms) ==
  LET tops == {Components(p)[1] : p \in {q \in PathsOf(ms) : Components(q) # <<>>}}
      at(top) == {e \in DOMAIN ms : Components(ms[e].path) = <<top>>}
  IN IF /\ Cardinality(tops) = 1
        /\ \E p \in PathsOf(ms) : Len(Components(p)) > 1
        /\ \E top \in tops : \/ \E e \in at(top) : ms[e].kind = "dir"
                             \/ \A e \in at(top) : ms[e].kind = "dir"
       THEN CHOOSE top \in tops : TRUE
       ELSE None

(* inspect_archive().  An archive is its members and its size; one that    *)
(* cannot be read has no members.                                          *)
InspectArchive(archive) ==
  LET codes == IF archive.readable THEN Rejections(archive.members, archive.size)
               ELSE {"EX-FORMAT"}
  IN [codes     |-> codes,
      exit      |-> ExitCodeForCodes(codes),
      wrapper   |-> DetectWrapper(archive.members),
      emptyDirs |-> EmptyDirs(archive.members)]
=============================================================================
