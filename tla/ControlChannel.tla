--------------------------- MODULE ControlChannel ---------------------------
(***************************************************************************)
(* The control channel (latrd_channel.py, latrd_message.py): the DEALER    *)
(* socket of the adapter and the ROUTER socket of the detector.            *)
(*                                                                         *)
(* ZeroMQ keeps messages in order and holds a bounded number of them in    *)
(* each direction; the requests wait while the detector is down.  A        *)
(* message identifier is a fresh one: the counter of LATRDMessage never    *)
(* repeats, so only the identifiers still in use are told apart.           *)
(***************************************************************************)
EXTENDS Naturals, Sequences, FiniteSets, SequencesExt

CONSTANTS
  Capacity,          (* messages a direction holds: CHANNEL_HWM               *)
  Ids                (* identifiers, more than can be in use                  *)

ASSUME ChannelAssumption ==
  /\ Capacity \in Nat \ {0}
  /\ IsFiniteSet(Ids) /\ Cardinality(Ids) > 2 * Capacity + 2

VARIABLES
  toDetector,        (* requests sent and not yet answered by the detector    *)
  toAdapter          (* responses sent and not yet received                   *)

channel == <<toDetector, toAdapter>>

ChannelInit == toDetector = <<>> /\ toAdapter = <<>>

(* GetMessage, PutMessage and PostMessage; op is the dictionary key or the   *)
(* command they carry, tree the parameters.                                  *)
GetMessage(id, op, tree) == [id |-> id, type |-> "get", op |-> op, tree |-> tree]
PutMessage(id, tree) == [id |-> id, type |-> "put", op |-> "config", tree |-> tree]
PostMessage(id, command) == [id |-> id, type |-> "post", op |-> command, tree |-> <<>>]

(* ResponseMessage, of what a status request and a config request return;    *)
(* the request's type and op are kept as history.                            *)
ResponseMessage(m, state, config) ==
  [id |-> m.id, type |-> "response", of |-> <<m.type, m.op>>, state |-> state, config |-> config]

InUse == {toDetector[i].id : i \in DOMAIN toDetector} \cup {toAdapter[i].id : i \in DOMAIN toAdapter}

(* new_id.  The counter is not locked: a thread that increments it while     *)
(* another one is making a message may get the same number.                  *)
Fresh(held) == {CHOOSE i \in Ids : i \notin InUse \cup held}
new_id(held, concurrent) == Fresh(held) \cup concurrent

(* send, in NOBLOCK mode: status -1 when the socket cannot take the message. *)
CanSend == Len(toDetector) < Capacity
Send(m) == toDetector' = Append(toDetector, m)

(* send_multi on the ROUTER: a response that does not fit is discarded.      *)
Respond(r) == toAdapter' = IF Len(toAdapter) < Capacity THEN Append(toAdapter, r) ELSE toAdapter

(* poll and recv of the adapter.                                             *)
ReceivedAny(m) == toAdapter # <<>>                  \* mutant: identifiers not compared
Received(m) == toAdapter # <<>> /\ Head(toAdapter).id = m.id
Receive == toAdapter' = Tail(toAdapter)
=============================================================================
