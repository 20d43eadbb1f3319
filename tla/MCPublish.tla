------------------------------ MODULE MCPublish ------------------------------
(***************************************************************************)
(* Small instances of Publish.  A candidate is the sequence of the         *)
(* releases it was built from; a commit is such a sequence too, its parent *)
(* the sequence without the last release.                                  *)
(***************************************************************************)
EXTENDS PublishRetry, SequencesExt

CONSTANTS p1, p2

OneClone  == {p1}
TwoClones == {p1, p2}

(* Releases in chronological order; "2/x" has a slash in its tag name. *)
Releases ==
  [first  |-> <<"1">>,
   append |-> <<"1", "2">>,
   insert |-> <<"0", "1">>,
   slash  |-> <<"1", "2/x">>,
   bare   |-> <<"1", "3">>]

AllRuns  == DOMAIN Releases
ThreeRuns == {"first", "append", "insert"}
RaceRuns == {"first", "insert"}

MCNested == {"2/x"}
ThreeTag == {"0", "1", "2"}
MCTag    == {"0", "1", "2", "2/x"}
RaceTag  == {"0", "1"}

MCTip == [r \in Run |-> Releases[r]]

(* The tags of "bare" were never written: its build was cut short. *)
MCTagsOf ==
  [r \in Run |-> [t \in Tag |->
     LET at == {i \in 1..Len(Releases[r]) : Releases[r][i] = t /\ r # "bare"}
     IN IF at = {} THEN None ELSE SubSeq(Releases[r], 1, CHOOSE i \in at : TRUE)]]

MCCommit ==
  UNION {{SubSeq(Releases[r], 1, i) : i \in 1..Len(Releases[r])} : r \in Run}

MCAncestor == [e \in Commit \X Commit |-> IsPrefix(e[1], e[2])]
=============================================================================
