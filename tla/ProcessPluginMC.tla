-------------------------- MODULE ProcessPluginMC --------------------------
(* Instance of ProcessPlugin for the model checker.  A packet may fill a     *)
(* frame of events just so; image 0 has two packets and image 1 has one.     *)
EXTENDS ProcessPlugin

TwoEvents == [s \in Streams |-> IF s = "event" THEN 2 ELSE 1]
FullFrame == [s \in Streams |-> IF s = "event" THEN FrameQty ELSE 0]
EventPackets == 1 :> TwoEvents @@ 2 :> FullFrame

TwoImages == 0 :> 1 @@ 1 :> 0
BlankEnd == {[image |-> 0, id |-> 1]}
=============================================================================
