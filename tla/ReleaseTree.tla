----------------------------- MODULE ReleaseTree -----------------------------
(***************************************************************************)
(* The way of one release from its archives to a git tree and its check:   *)
(*                                                                         *)
(*   inspect   swhap inspect reports on the archives (Inspect.tla);        *)
(*   extract   chassis/scripts/build_source_tree.py and extract_any.py     *)
(*             unpack the sources of the release, one over the other, into *)
(*             source_code/<dir> of the workbench;                         *)
(*   walk      _walk_release_tree lists that directory for the plan;       *)
(*   write     _build_tree and mktree turn the list into git objects;      *)
(*   check     TF-1, TF-2, TF-4 and TF-5 compare them with a manifest that *)
(*             mk_manifest.py took from the archive itself.                *)
(*                                                                         *)
(* All but git have their own idea of a wrapper directory and of an empty  *)
(* directory; build_source_tree.py calls that an "open seam" that may      *)
(* "drift from the trees the validator checks".                            *)
(*                                                                         *)
(* A tree is a function from paths, which are sequences of names, to       *)
(* nodes.  Every directory is in it but the root.                          *)
(***************************************************************************)
EXTENDS Inspect

CONSTANTS
  Unquoted,     \* the name that git mktree reads for a name, None if it dies
  NameLength,   \* the length of a name in bytes
  Displayed,    \* a name with U+FFFD for what is not UTF-8 in it
  AppleDouble,  \* the names that begin with "._"
  Recipe,       \* recipes: sequences of sources
  MaxUnread     \* bound on the directories that cannot be read

Marker == ".emptydir"
Kind   == {"dir", "file", "exec", "link", "dirlink"}  \* dirlink: to a directory
Mode   == {"100644", "100755", "120000"}

ASSUME NameAssumption ==
  /\ Marker \in Name
  /\ Unquoted \in [Name -> Name \cup {None}]
  /\ Unquoted[Marker] = Marker
  /\ AppleDouble \subseteq Name \ {Marker}

(* Unquoting a name makes it shorter. *)
ASSUME LengthAssumption ==
  /\ NameLength \in [Name -> Nat]
  /\ \A n \in Name : Unquoted[n] \notin {n, None} => NameLength[Unquoted[n]] < NameLength[n]

ASSUME DisplayAssumption ==
  Displayed \in [Name -> Name] /\ Displayed[Marker] = Marker

Path == Seq(Name) \ {<<>>}

Directories(t) == {p \in DOMAIN t : t[p].kind = "dir"}

IsTree(t) ==
  /\ IsFiniteSet(DOMAIN t)
  /\ \A p \in DOMAIN t : /\ p \in Path /\ t[p].kind \in Kind
                         /\ \A i \in 1..(Len(p) - 1) : SubSeq(p, 1, i) \in Directories(t)

(***************************************************************************)
(* The members of an archive.  Two that differ by a leading "./" only, a   *)
(* member below one that is not a directory (below a link, only one that   *)
(* inspect has to reject), and hard links to anything but a file or a link *)
(* are not considered.                                                     *)
(***************************************************************************)
Undotted(p) == IF p[1] = "." THEN Tail(p) ELSE p

IsArchive(ms) ==
  /\ IsFiniteSet(DOMAIN ms)
  /\ \A e \in DOMAIN ms : IsMember(ms[e])
  /\ \A d, e \in DOMAIN ms :
       /\ Undotted(ms[d].path) = Undotted(ms[e].path) => ms[d].path = ms[e].path
       /\ IsStrictPrefix(Undotted(ms[d].path), Undotted(ms[e].path)) =>
            \/ ms[d].kind = "dir"
            \/ /\ ms[d].kind \in Symlink /\ ms[e].kind \notin Symlink
               /\ IsStrictPrefix(ms[d].path, ms[e].path)
       /\ ms[d].kind = "hard" /\ ms[d].data = ms[e].path =>
            ms[e].kind \in {"file", "exec"} \cup Symlink

(* A source is an archive, or a directory without links, with a number of  *)
(* levels to strip.                                                        *)
IsSource(source) ==
  /\ source.strip \in Nat
  /\ source.packed \in BOOLEAN
  /\ IF source.packed
       THEN /\ source.readable \in BOOLEAN /\ source.size \in Nat
            /\ IsArchive(source.members)
            /\ ~source.readable => DOMAIN source.members = {}
       ELSE /\ IsTree(source.tree)
            /\ \A p \in DOMAIN source.tree : source.tree[p].kind \in {"dir", "file", "exec"}

ASSUME RecipeAssumption ==
  \A r \in Recipe : /\ r \in Seq(ToSet(r)) \ {<<>>}
                    /\ \A i \in DOMAIN r : IsSource(r[i])

ASSUME UnreadAssumption == MaxUnread \in Nat

(* A path is UTF-8 when it is displayed as it is. *)
Display(p) == [i \in DOMAIN p |-> IF p[i] \in Name THEN Displayed[p[i]] ELSE p[i]]
IsText(p)  == Display(p) = p

VARIABLES
  recipe,    \* the sources of the release
  reports,   \* what swhap inspect says of each of them, if it says anything
  exit,      \* and its exit code, which the workflow does not look at
  taken,     \* how many of them are unpacked
  tree,      \* source_code/<dir>
  unread,    \* the directories that os.walk could not list
  entries,   \* the TreeEntry list: path to mode and content
  objects,   \* the blobs that `git ls-tree -r` lists
  findings,  \* the checks that failed
  phase

vars == <<recipe, reports, exit, taken, tree, unread, entries, objects, findings, phase>>

-----------------------------------------------------------------------------
(* Trees. *)

Children(t, d) == {p \in DOMAIN t : p # <<>> /\ Front(p) = d}
Below(t, d)    == [p \in {SubSeq(q, Len(d) + 1, Len(q)) :
                           q \in {r \in DOMAIN t : IsStrictPrefix(d, r)}}
                     |-> t[d \o p]]

(* The nodes of f, and those of g where f has none. *)
Over(f, g) == [p \in DOMAIN f \cup DOMAIN g |-> IF p \in DOMAIN f THEN f[p] ELSE g[p]]

(* Mutated form of ModeOf: a link to a directory is taken for the directory. *)
ModeFollowingLinks(node) ==
  CASE node.kind = "link"              -> "120000"
    [] node.kind \in {"dir", "dirlink"} -> "040000"
    [] node.kind = "exec"              -> "100755"
    [] OTHER                           -> "100644"

ModeOf(node) ==
  CASE node.kind \in {"link", "dirlink"} -> "120000"
    [] node.kind = "exec"                -> "100755"
    [] OTHER                             -> "100644"

-----------------------------------------------------------------------------
(***************************************************************************)
(* Extraction.  One level is stripped when the top level is one directory, *)
(* at most as often as the recipe says; "auto" is once.                    *)
(***************************************************************************)
Tops(t)      == {p \in DOMAIN t : Len(p) = 1}
SingleTop(t) == Cardinality(Tops(t)) = 1 /\ Tops(t) \subseteq Directories(t)
StripOne(t)  == IF SingleTop(t) THEN Below(t, CHOOSE d \in Tops(t) : TRUE) ELSE t
Stage(t, n)  ==
  LET s[k \in 0..n] == IF k = 0 THEN t ELSE StripOne(s[k - 1]) IN s[n]

(* A link to a directory is a child here, unlike in the walk. *)
MarkEmpty(t) ==
  LET bare == {d \in Directories(t) \cup {<<>>} : Children(t, d) = {}}
  IN Over(t, [p \in {Append(d, Marker) : d \in bare} |->
                [kind |-> "file", data |-> <<>>]])

(***************************************************************************)
(* What bsdtar makes of an archive that inspect accepts: "." is nothing, a *)
(* directory may go without a member of its own, a hard link is its file.  *)
(***************************************************************************)
TreeOf(ms) ==
  LET paths   == {Undotted(p) : p \in PathsOf(ms)} \ {<<>>}
      all     == UNION {{SubSeq(p, 1, i) : i \in 1..Len(p)} : p \in paths}
      Node(m) == IF m.kind = "hard"
                   THEN ms[CHOOSE e \in DOMAIN ms : ms[e].path = m.data] ELSE m
      At(p)   == {e \in DOMAIN ms : Undotted(ms[e].path) = p}
  IN [p \in all |->
        IF At(p) = {} THEN [kind |-> "dir", data |-> <<>>]
        ELSE LET m == Node(ms[CHOOSE e \in At(p) : TRUE])
             IN [kind |-> m.kind, data |-> m.data]]

(* The copy of a directory follows links, and there are none (IsSource).   *)
TreeIn(source) == IF source.packed THEN TreeOf(source.members) ELSE source.tree

Staged(source) ==
  LET s == Stage(TreeIn(source), source.strip)
  IN IF source.packed THEN MarkEmpty(s) ELSE s

(***************************************************************************)
(* shutil.move(p, dest / p.name): a name that exists as a directory is not *)
(* merged with, the new one lands inside of it; a file replaces a file.    *)
(* Sources that share a name as a link are not considered.                 *)
(***************************************************************************)
Occupied(t, p) == SubSeq(p, 1, 1) \in Directories(t)
Landing(t, p)  == IF Occupied(t, p) THEN <<p[1]>> \o p ELSE p

Clash(t, s) ==
  \E p \in Tops(s) :
    \/ Occupied(t, p) /\ Landing(t, p) \in DOMAIN t
    \/ ~Occupied(t, p) /\ p \in DOMAIN t /\ s[p].kind = "dir"

(* Mutated form of Moved: what is there already stays. *)
MovedIfNew(t, s) ==
  Over(t, [q \in {Landing(t, p) : p \in DOMAIN s} |->
             s[CHOOSE p \in DOMAIN s : Landing(t, p) = q]])

Moved(t, s) ==
  Over([q \in {Landing(t, p) : p \in DOMAIN s} |->
          s[CHOOSE p \in DOMAIN s : Landing(t, p) = q]], t)

Init ==
  /\ recipe \in Recipe
  /\ reports = <<>> /\ exit = 0
  /\ taken = 0 /\ phase = "inspect"
  /\ tree = <<>> /\ entries = <<>>
  /\ unread = {} /\ objects = {} /\ findings = {}

(***************************************************************************)
(* swhap inspect raw_materials/**/*.  A directory among its arguments is   *)
(* an internal error, before anything is printed.  The pipe with tee hides *)
(* the exit code; a curator does not go on with a rejected archive.        *)
(***************************************************************************)
Archives == {i \in DOMAIN recipe : recipe[i].packed}

(* The exit code of a command over these archives. *)
Worst(codes) == Max(ToSet(codes))

InspectSources ==
  /\ phase = "inspect"
  /\ IF Archives = DOMAIN recipe
       THEN /\ reports' = [i \in DOMAIN recipe |-> InspectArchive(recipe[i])]
            /\ exit' = Worst([i \in DOMAIN recipe |-> reports'[i].exit])
       ELSE exit' = 1 /\ UNCHANGED reports
  /\ phase' = IF \A i \in Archives : InspectArchive(recipe[i]).codes = {}
                THEN "extract" ELSE "rejected"
  /\ UNCHANGED <<recipe, taken, tree, unread, entries, objects, findings>>

(* A failed move ends the script; the next run starts with an rmtree. *)
Extract ==
  /\ phase = "extract"
  /\ taken < Len(recipe)
  /\ LET s == Staged(recipe[taken + 1])
     IN IF Clash(tree, s)
          THEN phase' = "failed" /\ UNCHANGED <<taken, tree>>
          ELSE /\ tree' = Moved(tree, s) /\ taken' = taken + 1
               /\ UNCHANGED phase
  /\ UNCHANGED <<recipe, reports, exit, unread, entries, objects, findings>>

-----------------------------------------------------------------------------
(***************************************************************************)
(* The walk.  os.walk passes over a directory that it cannot list, without *)
(* an error; every other directory without a real subdirectory or a file   *)
(* gets a marker, also one that has links to directories.                  *)
(***************************************************************************)
(* Mutated form of Bare: a directory with files only gets a marker too. *)
BareOfDirectories(t) ==
  {d \in Directories(t) : Children(t, d) \cap Directories(t) = {}}

Bare(t) ==
  {d \in Directories(t) : \A c \in Children(t, d) : t[c].kind = "dirlink"}

Walk(t, lost) ==
  LET Listed(d) == ~ \E u \in lost : IsPrefix(u, d)
      items   == {p \in DOMAIN t \ Directories(t) : Listed(Front(p))}
      markers == {Append(d, Marker) : d \in {b \in Bare(t) : Listed(b)}}
  IN Over([p \in items |-> [mode |-> ModeOf(t[p]), data |-> t[p].data]],
          [p \in markers |-> [mode |-> "100644", data |-> <<>>]])

ReadTree ==
  /\ phase = "extract"
  /\ taken = Len(recipe)
  /\ \E lost \in SUBSET (Directories(tree) \cup {<<>>}) :
       /\ Cardinality(lost) <= MaxUnread
       /\ unread' = lost
       /\ entries' = Walk(tree, lost)
       /\ phase' = IF DOMAIN entries' = {} THEN "failed" ELSE "write"
  /\ UNCHANGED <<recipe, reports, exit, taken, tree, objects, findings>>

-----------------------------------------------------------------------------
(***************************************************************************)
(* The git objects.  The plan comes first: its JSON is encoded strictly,   *)
(* and a path that is not UTF-8 ends the command, also one that writes no  *)
(* plan.  mktree gets the names line by line, without -z, and git takes a  *)
(* name that begins with a double quote for a quoted one.  Two names may   *)
(* become one: git writes the tree with both entries.                      *)
(***************************************************************************)
Unplannable(list) == \E p \in DOMAIN list : ~IsText(p)
Refused(list) ==
  \/ Unplannable(list)
  \/ \E p \in DOMAIN list : None \in {Unquoted[p[i]] : i \in DOMAIN p}
Written(list) == {[path |-> [i \in DOMAIN p |-> Unquoted[p[i]]],
                   mode |-> list[p].mode, data |-> list[p].data] : p \in DOMAIN list}

WriteTree ==
  /\ phase = "write"
  /\ IF Refused(entries)
       THEN phase' = "failed" /\ UNCHANGED objects
       ELSE phase' = "check" /\ objects' = Written(entries)
  /\ UNCHANGED <<recipe, reports, exit, taken, tree, unread, entries, findings>>

-----------------------------------------------------------------------------
(***************************************************************************)
(* The manifest of an archive, from its members.  The wrapper is the only  *)
(* name at the top, AppleDouble members not counted; a file can be one,    *)
(* and the member "." is one more name.  Hard links are passed over.  The  *)
(* path of a file or a link is displayed, with its bytes in path_bytes_hex *)
(* beside it, which the checks do not read; anything else that is not      *)
(* UTF-8 ends the script, and there is no manifest.                        *)
(***************************************************************************)
Normal(p)        == IF p[1] = "." /\ Len(p) > 1 THEN Tail(p) ELSE p
Wrappers(ms)     == {Normal(p)[1] : p \in {q \in PathsOf(ms) : Last(q) \notin AppleDouble}}
Unwrapped(ms, p) == IF Wrappers(ms) = {p[1]} THEN Tail(p) ELSE p
Manifest(ms) ==
  [entries   |-> {[path |-> Display(Unwrapped(ms, Normal(ms[e].path))), mode |-> ModeOf(ms[e]),
                   data |-> ms[e].data] : e \in OfKind(ms, {"file", "exec"} \cup Symlink)},
   emptyDirs |-> {Unwrapped(ms, Normal(p)) : p \in
                    {ms[e].path : e \in {d \in OfKind(ms, {"dir"}) :
                      ~ \E q \in PathsOf(ms) : IsStrictPrefix(Normal(ms[d].path), Normal(q))}}}]

Paths(s) == {g.path : g \in s}
Links(s) == {g \in s : g.mode = "120000"}

Encodable(ms) ==
  /\ \A e \in OfKind(ms, Symlink) : IsText(ms[e].data)
  /\ \A d \in Manifest(ms).emptyDirs : IsText(d)
  /\ \A w \in Wrappers(ms) : Wrappers(ms) = {w} => IsText(<<w>>)

(* A dict keeps one blob for a path, whichever is listed last: one of the  *)
(* git tree and one of the manifest.                                       *)
Views(blobs) ==
  {v \in SUBSET blobs :
     \A q \in Paths(blobs) : Cardinality({g \in v : g.path = q}) = 1}
Loaded(man) == {[man EXCEPT !.entries = v] : v \in Views(man.entries)}

(* TF-2 tells links from files but does not compare the exec bit. *)
Mismatch(g, e) ==
  IF e.mode = "120000" THEN g.mode # "120000"
  ELSE g.mode = "120000" \/ g.data # e.data

(* Mutated form of TF: markers and links are not compared. *)
TFOfFiles(view, man) ==
  LET items == {g \in view : Last(g.path) # Marker}
  IN {c \in {"TF-1", "TF-2"} :
       IF c = "TF-1" THEN Paths(items) # Paths(man.entries)
       ELSE \E g \in items, e \in man.entries : g.path = e.path /\ Mismatch(g, e)}

TF(view, man) ==
  LET items  == {g \in view : Last(g.path) # Marker}
      marked == {Front(g.path) : g \in view \ items}
  IN {c \in {"TF-1", "TF-2", "TF-4", "TF-5"} :
       CASE c = "TF-1" -> Paths(items) # Paths(man.entries)
         [] c = "TF-2" -> \E g \in items, e \in man.entries :
                            g.path = e.path /\ Mismatch(g, e)
         [] c = "TF-4" -> marked # man.emptyDirs
         [] c = "TF-5" -> Links(items) # Links(man.entries)}

(* Only a release that comes from one archive has a manifest. *)
Members   == recipe[1].members
Archive   == TreeOf(Members)
Certified == Len(recipe) = 1 /\ recipe[1].packed /\ Encodable(Members)

Check ==
  /\ phase = "check"
  /\ phase' = "done"
  /\ IF Certified
       THEN \E view \in Views(objects), man \in Loaded(Manifest(Members)) :
              findings' = TF(view, man)
       ELSE UNCHANGED findings
  /\ UNCHANGED <<recipe, reports, exit, taken, tree, unread, entries, objects>>

Next == InspectSources \/ Extract \/ ReadTree \/ WriteTree \/ Check

Spec == Init /\ [][Next]_vars

-----------------------------------------------------------------------------
(* The type invariant of the four stages. *)
TypeOK ==
  /\ taken \in 0..Len(recipe)
  /\ \A p \in DOMAIN tree : p \in Path /\ tree[p].kind \in Kind
  /\ unread \subseteq DOMAIN tree \cup {<<>>}
  /\ \A p \in DOMAIN entries : p \in Path /\ entries[p].mode \in Mode
  /\ \A g \in objects : g.path \in Path /\ g.mode \in Mode
  /\ findings \subseteq {"TF-1", "TF-2", "TF-4", "TF-5"}
  /\ phase \in {"inspect", "rejected", "extract", "write", "check",
                "done", "failed"}
  /\ \A i \in DOMAIN reports : reports[i].codes \subseteq Extraction \cup Budget
  /\ exit \in {0, 1, 10, 11}

(* What a checkout of the git tree has once the markers are deleted, and   *)
(* what an archive has to deliver, with the exec bit left out of both.     *)
Restored ==
  [dirs  |-> UNION {{SubSeq(g.path, 1, i) : i \in 1..(Len(g.path) - 1)} : g \in objects},
   items |-> {<<g.path, g.mode = "120000", g.data>> :
                g \in {h \in objects : Last(h.path) # Marker}}]
Delivered(t) ==
  [dirs  |-> Directories(t),
   items |-> {<<p, t[p].kind \in {"link", "dirlink"}, t[p].data>> :
                p \in DOMAIN t \ Directories(t)}]

(***************************************************************************)
(* A release without TF findings is the archive: the same files with the   *)
(* same contents, the same links, and the same directories, whatever       *)
(* happened on the way.  That is so of an archive whose manifest tells of  *)
(* every member and calls it by its name: the lack of a hard link may go   *)
(* unnoticed, and so may that of an AppleDouble file which the wrapper's   *)
(* name is taken from as well, and that of a file in a directory which     *)
(* could not be read and is displayed like another one.                    *)
(***************************************************************************)
Attested(ms) ==
  /\ OfKind(ms, {"hard"}) = {}
  /\ Wrappers(ms) = {Normal(p)[1] : p \in PathsOf(ms)}
  /\ \A p \in PathsOf(ms) : IsText(p)

GreenIsFaithful ==
  phase = "done" /\ Certified /\ findings = {} /\ Attested(Members) =>
    Restored = Delivered(StripOne(Archive))

(***************************************************************************)
(* The other direction: which archives get through without a TF finding,   *)
(* of those and, when nothing goes wrong on the way, of the others.        *)
(* Exactly those on which the scripts agree: no file is named like a       *)
(* marker, every name is UTF-8 and git reads it as it is, no directory     *)
(* holds nothing but links to directories, extraction and manifest strip   *)
(* the same wrapper, and there is neither a hard link nor, but alone, a    *)
(* member ".".  Every other archive fails a check or is refused, that with *)
(* a name that is not UTF-8 by the plan, though source.py:18-19 says that  *)
(* such a name "reaches the git tree unchanged"; the display paths of the  *)
(* manifest make no archive fail which would have come to the checks.      *)
(***************************************************************************)
Ordinary(t) ==
  /\ \A p \in DOMAIN t : /\ \A i \in DOMAIN p : Unquoted[p[i]] = p[i]
                         /\ IsText(p)
                         /\ t[p].kind # "dir" => Last(p) # Marker
  /\ \A d \in Directories(t) : Children(t, d) # {} =>
       \E c \in Children(t, d) : t[c].kind # "dirlink"

WrapperAgreed(ms, n) ==
  LET t == TreeOf(ms)
  IN /\ DOMAIN ms # {}
     /\ DOMAIN t # {} =>
          \/ Wrappers(ms) = {p[1] : p \in Tops(t)}
          \/ Cardinality(Wrappers(ms)) > 1
     /\ Cardinality(Tops(t)) = 1 => SingleTop(t)
     /\ Stage(t, n) = StripOne(t)

PlainlyListed(ms) ==
  /\ OfKind(ms, {"hard"}) = {}
  /\ <<".">> \in PathsOf(ms) => DOMAIN TreeOf(ms) = {}

(* git reads the names as they are, and one that is not UTF-8 is listed:   *)
(* it is not just that of a directory that the extraction takes off.       *)
Undisturbed ==
  /\ unread = {} /\ Wrappers(Members) # {}
  /\ \A p \in PathsOf(Members) : \A i \in DOMAIN p : p[i] \in Name =>
       /\ Unquoted[p[i]] = p[i]
       /\ Displayed[p[i]] = p[i] \/ \E q \in DOMAIN entries : p[i] \in ToSet(q)

Accounted == Certified /\ (Attested(Members) \/ Undisturbed)

GreenIsOrdinary ==
  phase \in {"done", "failed"} /\ Accounted =>
    (phase = "done" /\ findings = {} <=>
       /\ unread = {} /\ Ordinary(StripOne(Archive)) /\ PlainlyListed(Members)
       /\ WrapperAgreed(Members, recipe[1].strip))

(***************************************************************************)
(* core-pipeline 4.1, as inspect.py:29 quotes it: "the observations the    *)
(* downstream pipeline needs: wrapper-directory detection, the             *)
(* empty-directory set".  When swhap inspect ends with 0 and the release   *)
(* has no finding, the paths it printed, its wrapper taken off, are the    *)
(* paths of the git tree, and its empty directories those with a marker.   *)
(* It is wrong exactly about an archive that is one empty directory, and   *)
(* about names with a leading "./" when not all have one or when a real    *)
(* wrapper follows.                                                        *)
(***************************************************************************)
Announced ==
  LET w == reports[1].wrapper
      Stripped(p) == IF w = p[1] THEN Tail(p) ELSE p
      marks == {g \in objects : Last(g.path) = Marker}
  IN /\ {Stripped(Members[e].path) : e \in DOMAIN Members \ OfKind(Members, {"dir"})}
          = Paths(objects \ marks)
     /\ {Stripped(d) : d \in reports[1].emptyDirs} = {Front(g.path) : g \in marks}

Dotted == {p \in PathsOf(Members) : p[1] = "."}

InspectForesees ==
  phase = "done" /\ Accounted /\ findings = {} /\ exit = 0 =>
    (Announced <=>
       IF Dotted = {}
         THEN SingleTop(Archive) => Cardinality(DOMAIN Archive) > 1
         ELSE /\ Dotted = PathsOf(Members)
              /\ DOMAIN Archive # {} /\ ~SingleTop(Archive))

(***************************************************************************)
(* extraction-recipe.yaml: "A release may draw from more than one source   *)
(* (e.g. an archive plus a loose patch directory); list them in order."    *)
(* Every source arrives where it says and nowhere else, a later one over   *)
(* an earlier one, exactly when no two share a directory at their top.     *)
(***************************************************************************)
Arrived(t) ==
  /\ DOMAIN t = UNION {DOMAIN Staged(recipe[i]) : i \in 1..taken}
  /\ \A i \in 1..taken : \A p \in DOMAIN Staged(recipe[i]) :
       (\A j \in (i + 1)..taken : p \notin DOMAIN Staged(recipe[j])) =>
         t[p] = Staged(recipe[i])[p]

SharedDirectory ==
  \E i, j \in 1..taken : /\ i < j
    /\ \E p \in Tops(Staged(recipe[j])) : p \in Directories(Staged(recipe[i]))

PatchesArrive == Arrived(tree) <=> ~SharedDirectory
=============================================================================
