-------------------------- MODULE PublishedHistory --------------------------
(***************************************************************************)
(* What the publisher promises about the public refs, whatever commands    *)
(* produced them: they only grow, unless the whole of what they name has   *)
(* been archived first ("rebuild-and-replace supersedes, it never loses"). *)
(***************************************************************************)
EXTENDS PublishedRefs

VARIABLES
  published, \* Refs: what the remote names now
  archived,  \* the snapshots Software Heritage holds
  ever       \* every state the published refs have been in

vars == <<published, archived, ever>>

Init == published = NoRefs /\ archived = {} /\ ever = {NoRefs}

Archive ==
  /\ archived' = archived \cup {Snapshot(published)}
  /\ UNCHANGED <<published, ever>>

Become == published' \in Refs /\ ever' = ever \cup {published'}

(* A publication: the branch moves forward, tags are added. *)
Extend ==
  /\ Become
  /\ ~Clobbers(published, published')
  /\ UNCHANGED archived

(* A supersession: anything may be replaced, once it is archived. *)
Supersede ==
  /\ Become
  /\ Snapshot(published) \in archived
  /\ UNCHANGED archived

Next == Archive \/ Extend \/ Supersede

Spec == Init /\ [][Next]_vars

-----------------------------------------------------------------------------
(***************************************************************************)
(* Whatever was published once can still be found: each branch tip in the  *)
(* history of the current branch or of an archived one, each tag under its *)
(* name here or in an archived snapshot.                                   *)
(***************************************************************************)
Kept(refs) ==
  /\ \E s \in archived \cup {published} : FastForward(refs.branch, s.branch)
  /\ \A t \in Tag : \E s \in archived \cup {published} :
       refs.tag[t] \in {None, s.tag[t]}

NothingLost == \A refs \in ever : Kept(refs)
=============================================================================
