---------------------------- MODULE PublishedTree ----------------------------
(***************************************************************************)
(* What unpacking a tree into a shared place promises: a tree appears      *)
(* whole, in one step, where there was none.  It may decay there (a        *)
(* cleaner of temporary files takes some of it) or be taken away, and it   *)
(* is never repaired in place.                                             *)
(***************************************************************************)
VARIABLE tree   \* "absent", "whole" or "decayed"

Init == tree \in {"absent", "whole", "decayed"}

Publish  == tree = "absent" /\ tree' = "whole"
Decay    == tree # "absent" /\ tree' = "decayed"
TakeAway == tree # "absent" /\ tree' = "absent"

Spec == Init /\ [][Publish \/ Decay \/ TakeAway]_tree
=============================================================================
