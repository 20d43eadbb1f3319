---------------------------- MODULE MCReleaseJobs ----------------------------
(***************************************************************************)
(* Small instances of ReleaseJobs.  An input is the sequence of its        *)
(* releases; a commit is the epoch and the releases up to it.              *)
(***************************************************************************)
EXTENDS ReleaseJobs

CONSTANTS j1, j2

(* "1!" is the first release with another tree; "9" is one with a defect. *)
Releases ==
  [first |-> <<"1">>, append |-> <<"1", "2">>, other |-> <<"1!", "2">>,
   flawed |-> <<"1", "9">>, unreadable |-> <<>>]

MCSound == {"first", "append", "other"}

TagOf == [r \in {"1", "1!", "2", "9"} |-> IF r = "1!" THEN "1" ELSE r]
MCTag == Range(TagOf)

History(i, e, n) == <<e, SubSeq(Releases[i], 1, n)>>

MCCommit == UNION {{History(i, e, n) : n \in 1..Len(Releases[i])} :
                     i \in Input, e \in Epoch}

MCAncestor ==
  [c \in Commit \X Commit |-> c[1][1] = c[2][1] /\ IsPrefix(c[1][2], c[2][2])]

MCRendered ==
  [x \in Input \X Epoch |->
     LET i  == x[1]
         at(t) == {n \in 1..Len(Releases[i]) : TagOf[Releases[i][n]] = t}
     IN [branch |-> IF Releases[i] = <<>> THEN None
                    ELSE History(i, x[2], Len(Releases[i])),
         tag |-> [t \in Tag |-> IF at(t) = {} THEN None
                                ELSE History(i, x[2], CHOOSE n \in at(t) : TRUE)]]]
=============================================================================
