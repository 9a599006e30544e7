------------------------ MODULE ProcessCoordinatorMC ------------------------
(* Instances of ProcessCoordinator for the model checker: what the packets   *)
(* decode to.  With FrameQty = 3 a job fits, fills a frame exactly or is     *)
(* split over two.                                                           *)
EXTENDS ProcessCoordinator

EventsAndCue == [s \in Streams |-> IF s = "event" THEN 2 ELSE 1]
OneEvent == [s \in Streams |-> IF s = "event" THEN 1 ELSE 0]

OnePacket == 1 :> EventsAndCue
EventPackets == 1 :> EventsAndCue @@ 2 :> OneEvent
=============================================================================
