---------------------------- MODULE PublishedRefs ----------------------------
(***************************************************************************)
(* The refs a publication consists of: the orphan branch SourceCode and    *)
(* the final release tags refs/tags/<tag>.  Objects are content-addressed, *)
(* so a commit stands for its whole history and the annotated tag of a     *)
(* release is determined by the commit it names.                           *)
(***************************************************************************)
CONSTANTS
  Commit,   \* the commits any candidate holds
  Tag,      \* release tag names
  Ancestor, \* Ancestor[a, b]: commit a is in the history of b
  None      \* an absent ref

ASSUME AncestorAssumption ==
  /\ None \notin Commit
  /\ Ancestor \in [Commit \X Commit -> BOOLEAN]
  /\ \A a \in Commit : Ancestor[a, a]
  /\ \A a, b, c \in Commit : Ancestor[a, b] /\ Ancestor[b, c] => Ancestor[a, c]

Maybe == Commit \cup {None}

Refs == [branch : Maybe, tag : [Tag -> Maybe]]

NoRefs == [branch |-> None, tag |-> [t \in Tag |-> None]]

(***************************************************************************)
(* snapshot_swhid(): a hash over the names and targets of the scoped refs. *)
(* Two ref tables have the same snapshot iff they are equal.               *)
(***************************************************************************)
Snapshot(refs) == refs

FastForward(old, new) == old = None \/ (new # None /\ Ancestor[old, new])

(* What git accepts for a branch and for a tag that is pushed unforced. *)
BranchAccepted(old, new, force) == force \/ FastForward(old, new)
TagAccepted(old, new, force)    == force \/ old \in {None, new}

(* Some ref of old is gone, or no longer leads to what it named. *)
Clobbers(old, new) ==
  \/ ~FastForward(old.branch, new.branch)
  \/ \E t \in Tag : ~TagAccepted(old.tag[t], new.tag[t], FALSE)
=============================================================================
