------------------------------- MODULE MCBuild -------------------------------
(* Small instances of Build.  Run ids are interchangeable. *)
EXTENDS Build, TLC

CONSTANTS b1, r1, r2

OneBuilder  == {b1}

OneRun  == {r1}
TwoRuns == {r1, r2}

Interchangeable == Permutations(TwoRuns)

Release(t, tree) == [tag |-> t, tree |-> tree]

(* One release; an older release inserted before it. *)
MCInput ==
  {<<Release("v2", 1)>>,
   <<Release("v1", 1), Release("v2", 1)>>}
=============================================================================
