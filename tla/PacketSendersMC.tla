--------------------------- MODULE PacketSendersMC ---------------------------
(* Time slices of the TLC instance of PacketSenders.                         *)
EXTENDS PacketSenders

OneOrTwo == [p \in {"simulator", "generator"} |-> IF p = "simulator" THEN 1 ELSE 2]
=============================================================================
