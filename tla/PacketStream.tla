---------------------------- MODULE PacketStream ----------------------------
(***************************************************************************)
(* What a frame decoder promises the processor behind it, whatever buffers *)
(* it has.  Packets are numbered in order of arrival.  Each is taken or    *)
(* lost on arrival; what is taken waits in one batch, and the batch goes   *)
(* downstream as a whole and in order.  A marker closes the acquisition:   *)
(* it goes downstream behind everything taken before it, and only a lost   *)
(* marker can be overtaken.                                                *)
(***************************************************************************)
EXTENDS Naturals, Sequences, SequencesExt

VARIABLES
  n,            (* packets that have arrived                                 *)
  batch,        (* packets taken and not yet downstream, as they came        *)
  delivered,    (* packets downstream, in the order in which they got there  *)
  lost          (* packets that found no room                                *)

vars == <<n, batch, delivered, lost>>

Init == n = 0 /\ batch = <<>> /\ delivered = <<>> /\ lost = {}

Arrive == n' = n + 1

Take ==
  /\ Arrive
  /\ batch' = Append(batch, n + 1)
  /\ UNCHANGED <<delivered, lost>>

Ship ==
  /\ batch # <<>>
  /\ delivered' = delivered \o batch
  /\ batch' = <<>>
  /\ UNCHANGED <<n, lost>>

(* The packet that fills the batch, or a marker.                             *)
TakeAndShip ==
  /\ Arrive
  /\ delivered' = Append(delivered \o batch, n + 1)
  /\ batch' = <<>>
  /\ UNCHANGED lost

(* Nothing is lost while a batch could still take it.                        *)
Lose ==
  /\ batch = <<>>
  /\ Arrive
  /\ lost' = lost \cup {n + 1}
  /\ UNCHANGED <<batch, delivered>>

(* A lost marker still sends on what was taken before it.                    *)
LoseMarker ==
  /\ batch # <<>>
  /\ Arrive
  /\ lost' = lost \cup {n + 1}
  /\ delivered' = delivered \o batch
  /\ batch' = <<>>

Next == Take \/ Ship \/ TakeAndShip \/ Lose \/ LoseMarker

Spec == Init /\ [][Next]_vars

(* What was taken, as the processor gets it or will.                         *)
Taken == delivered \o batch

(* Every packet that arrived was either taken or lost.                       *)
Conserved ==
  /\ ToSet(Taken) \cup lost = 1..n
  /\ ToSet(Taken) \cap lost = {}

(* The processor gets each packet once, and none before an earlier one.      *)
InOrder == \A i, j \in DOMAIN Taken : i < j => Taken[i] < Taken[j]
=============================================================================
