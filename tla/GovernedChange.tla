--------------------------- MODULE GovernedChange ----------------------------
(***************************************************************************)
(* What an execution plan promises about the AWS change it stands for: it  *)
(* is made only once authorised, an authorisation that was used stands,    *)
(* the change is undone at most once and never made again after that.      *)
(***************************************************************************)

VARIABLES
  change,     \* untouched, changed or restored
  authorised

Init == change = "untouched" /\ authorised = FALSE

Authorise == change = "untouched" /\ authorised' \in BOOLEAN /\ UNCHANGED change

Make == change = "untouched" /\ authorised /\ change' = "changed" /\ UNCHANGED authorised

UndoIt == change = "changed" /\ change' = "restored" /\ UNCHANGED authorised

Next == Authorise \/ Make \/ UndoIt

Spec == Init /\ [][Next]_<<change, authorised>>
=============================================================================
