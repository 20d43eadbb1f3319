---------------------------- MODULE PublishRetry ----------------------------
(***************************************************************************)
(* One curator who publishes candidate Old, and who then supersedes it by  *)
(* candidate New, each time repeating the command until the ledger records *)
(* the publication.  A command is sequential code and does not stall, the  *)
(* curator does not give up, and MaxFaults bounds what goes wrong.         *)
(***************************************************************************)
EXTENDS Publish

CONSTANTS Old, New

ASSUME RetryAssumption == {Old, New} \subseteq Run /\ Tip[Old] # Tip[New]

Recorded(r) ==
  \E p \in Clone : \E n \in 1..Len(ledger[p]) :
    ledger[p][n].kind = "publish-event" /\ ledger[p][n].new = Tip[r]

Curate(p) ==
  \/ ~Recorded(Old) /\ StartPublish(p, Old, TRUE)
  \/ Recorded(Old) /\ ~Recorded(New) /\ StartSupersede(p, New)

RetryNext == Visit \/ \E p \in Clone : Curate(p) \/ Advance(p) \/ BreakOff(p)

RetrySpec ==
  /\ Init /\ [][RetryNext]_vars
  /\ \A p \in Clone : WF_vars(Curate(p)) /\ WF_vars(Advance(p))

-----------------------------------------------------------------------------
(***************************************************************************)
(* journal-schema 6: a publish-event is "re-runnable on partial failure".  *)
(* Wherever a publication was cut, its repetition ends up recorded.        *)
(***************************************************************************)
PublicationCompletes == <>Recorded(Old)

(***************************************************************************)
(* DV-1's remediation of a failed verdict is `swhap publish --supersede`   *)
(* "before re-publishing": a curator who follows it gets out of the        *)
(* failure.                                                                *)
(***************************************************************************)
RemediationWorks ==
  \A p \in Clone : Verdict(p) = "fail" ~> Verdict(p) # "fail"
=============================================================================
