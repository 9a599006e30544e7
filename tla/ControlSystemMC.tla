--------------------------- MODULE ControlSystemMC ---------------------------
(* Small trees for the TLC instances of ControlSystem.                       *)
EXTENDS ControlSystem

SmallStore == <<"exposure">> :> "0" @@ <<"timeslice", "bits">> :> "0"
(* one item, a branch that has items below it, and an item below an item     *)
SmallPaths == {<<"config", "exposure">>, <<"config", "timeslice">>, <<"config", "exposure", "x">>}
SmallValues == {"1"}
=============================================================================
