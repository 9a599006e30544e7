---------------------------- MODULE FrameDecoder ----------------------------
(***************************************************************************)
(* The LATRD frame decoder: the FrameReceiver plugin that gathers UDP      *)
(* packets into shared memory buffers and hands full buffers to the        *)
(* FrameProcessor.  A buffer is in the empty queue, mapped to the frame    *)
(* being filled, or downstream.  A packet that finds no empty buffer goes  *)
(* to a private scratch buffer (dropped_frame_buffer_) and is lost.        *)
(*                                                                         *)
(* Packets are numbered 1, 2, ... in order of arrival; an idle packet      *)
(* marks the end of an acquisition.  The reactor thread runs every handler *)
(* to its end, so one action is one whole handler call.                    *)
(***************************************************************************)
EXTENDS Integers, Sequences, FiniteSets, SequencesExt

CONSTANTS
  Buffers,           (* the shared memory buffers                             *)
  Dropped,           (* dropped_frame_buffer_, private to the decoder         *)
  NumFramePackets,   (* packets in a full frame (num_frame_packets)           *)
  MaxArrivals        (* bound of the model: packets that arrive               *)

ASSUME BuffersAssumption == IsFiniteSet(Buffers) /\ Buffers # {} /\ Dropped \notin Buffers
ASSUME PacketsAssumption == NumFramePackets \in Nat \ {0}
ASSUME ArrivalsAssumption == MaxArrivals \in Nat

VARIABLES
  currentFrame,      (* current_frame_: number of the frame being filled      *)
  seen,              (* current_frame_seen_                                   *)
  target,            (* current_frame_buffer_, and its header                 *)
  dropping,          (* dropping_frame_data_                                  *)
  mapped,            (* frame_buffer_map_: frame number -> buffer             *)
  emptyQueue,        (* empty_buffer_queue_                                   *)
  hdr,               (* the FrameHeader at the start of each buffer           *)
  downstream,        (* buffers handed over by ready_callback_                *)
  packetCounter,     (* packet_counter_                                       *)
  framesTimedout,    (* frames_timedout_                                      *)
  arrived,           (* history: packets received, data and idle              *)
  lost,              (* history: packets written to the scratch buffer        *)
  ready              (* history: the frames handed over, in order             *)

decoder == <<currentFrame, seen, target, dropping, mapped, hdr>>
counters == <<packetCounter, framesTimedout>>
history == <<arrived, lost, ready>>
vars == <<decoder, emptyQueue, downstream, counters, history>>

NoFrame == -1
IdleFrameIsNoFrame == NoFrame                       \* mutant: one sentinel for both
IdleFrame == 0
FirstFrame == 1
States == {"Incomplete", "Complete", "Timedout"}

Headers == [frame : Nat, state : States, idle : BOOLEAN,
            packets : Seq(Nat), overdue : BOOLEAN]

NewHeader(frame, idle) ==
  [frame |-> frame, state |-> "Incomplete", idle |-> idle, packets |-> <<>>, overdue |-> FALSE]

Elements(s) == {s[i] : i \in DOMAIN s}
Distinct(s) == \A i, j \in DOMAIN s : s[i] = s[j] => i = j

Init ==
  /\ currentFrame = FirstFrame
  /\ seen = NoFrame
  /\ target = Dropped
  /\ dropping = FALSE
  /\ mapped = [f \in {} |-> Dropped]
  /\ emptyQueue \in [1..Cardinality(Buffers) -> Buffers]
  /\ Distinct(emptyQueue) /\ Elements(emptyQueue) = Buffers
  /\ hdr = [b \in Buffers \cup {Dropped} |-> NewHeader(FirstFrame, FALSE)]
  /\ downstream = {}
  /\ packetCounter = 0
  /\ framesTimedout = 0
  /\ arrived = 0
  /\ lost = {}
  /\ ready = <<>>
-----------------------------------------------------------------------------
(* process_packet_header: which buffer a packet of this frame goes to.  A    *)
(* buffer is looked for only when the frame differs from the last one seen.  *)

NeedsBuffer(frame) == frame # seen /\ frame \notin DOMAIN mapped

GetsBuffer(frame) == NeedsBuffer(frame) /\ emptyQueue # <<>>

TargetOf(frame) ==
  CASE frame = seen                            -> target
    [] frame # seen /\ frame \in DOMAIN mapped -> mapped[frame]
    [] GetsBuffer(frame)                       -> Head(emptyQueue)
    [] OTHER                                   -> Dropped

DropsPacket(frame) == IF NeedsBuffer(frame) THEN emptyQueue = <<>> ELSE dropping

MappedFor(frame) ==
  IF GetsBuffer(frame)
  THEN [f \in DOMAIN mapped \cup {frame} |-> IF f = frame THEN Head(emptyQueue) ELSE mapped[f]]
  ELSE mapped

(* The header the packet is counted in, after process_packet has counted it: *)
(* a dropped packet does not advance packets_received.                       *)
HeaderWith(frame, idle) ==
  LET h == IF NeedsBuffer(frame) THEN NewHeader(frame, idle) ELSE hdr[TargetOf(frame)]
  IN  IF DropsPacket(frame) THEN h ELSE [h EXCEPT !.packets = Append(@, arrived + 1)]

(* Frames flushed ahead of an idle frame: every other mapped one.            *)
FlushedBy(h, m) == IF h.idle THEN DOMAIN m \ {h.frame} ELSE {}

IsOverFull(h) == Len(h.packets) > NumFramePackets \/ h.idle    \* mutant: off by one
IsFull(h) == Len(h.packets) = NumFramePackets \/ h.idle

SameFrame(h) == h.frame                             \* mutant: the number is not moved on
NextFrame(h) == IF h.idle THEN FirstFrame ELSE h.frame + 1

FrameOf(idle) == IF idle THEN IdleFrame ELSE currentFrame

WithoutErase(m, frames) == m                        \* mutant: the map is not erased
Without(m, frames) == [f \in DOMAIN m \ frames |-> m[f]]

(* ready_callback_ for a set of mapped frames, in the order of the map.      *)
Released(m, frames, state) ==
  LET InOrder(q) == \A i, j \in DOMAIN q : i < j => q[i] < q[j]
      order == CHOOSE q \in [1..Cardinality(frames) -> frames] :
                 Elements(q) = frames /\ InOrder(q)
  IN  [i \in 1..Cardinality(frames) |-> [hdr[m[order[i]]] EXCEPT !.state = state]]

(* What every packet does, whether or not it completes a frame.              *)
Count(idle) ==
  LET frame == FrameOf(idle)
  IN  /\ arrived < MaxArrivals
      /\ arrived' = arrived + 1
      /\ packetCounter' = IF idle THEN packetCounter ELSE packetCounter + 1
      /\ target' = TargetOf(frame)
      /\ dropping' = DropsPacket(frame)
      /\ emptyQueue' = IF GetsBuffer(frame) THEN Tail(emptyQueue) ELSE emptyQueue
      /\ lost' = IF DropsPacket(frame) THEN lost \cup {arrived + 1} ELSE lost
      /\ UNCHANGED framesTimedout

(* The packet leaves its frame incomplete.                                   *)
PacketFills(idle) ==
  LET frame == FrameOf(idle)
      h == HeaderWith(frame, idle)
  IN  /\ ~IsFull(h)
      /\ Count(idle)
      /\ currentFrame' = frame
      /\ seen' = frame
      /\ mapped' = MappedFor(frame)
      /\ hdr' = [hdr EXCEPT ![TargetOf(frame)] = h]
      /\ UNCHANGED <<downstream, ready>>

(* The frames handed over, then those an idle frame flushes, then itself.    *)
HandedOverFirst(before, flushed, frame) == Append(before, frame) \o flushed    \* mutant: the idle frame first
HandedOver(before, flushed, frame) == Append(before \o flushed, frame)

(* The packet completes its frame, which is handed over behind the frames an *)
(* idle frame flushes.                                                       *)
PacketCompletes(idle) ==
  LET frame == FrameOf(idle)
      h == HeaderWith(frame, idle)
      m == MappedFor(frame)
      flushed == FlushedBy(h, m)
      done == [h EXCEPT !.state = "Complete"]
  IN  /\ IsFull(h)
      /\ ~DropsPacket(frame)
      /\ Count(idle)
      /\ mapped' = Without(m, flushed \cup {frame})
      /\ hdr' = [b \in DOMAIN hdr |->
                   IF b = TargetOf(frame) THEN done
                   ELSE IF \E f \in flushed : m[f] = b
                   THEN [hdr[b] EXCEPT !.state = "Complete"] ELSE hdr[b]]
      /\ downstream' = downstream \cup {m[f] : f \in flushed} \cup {TargetOf(frame)}
      /\ ready' = HandedOver(ready, Released(m, flushed, "Complete"), done)
      /\ seen' = NoFrame
      /\ currentFrame' = NextFrame(h)

(* An idle packet with no buffer, or any packet behind it: the scratch       *)
(* header stays an idle frame, and only the flush has an effect.             *)
PacketCompletesDropped(idle) ==
  LET frame == FrameOf(idle)
      h == HeaderWith(frame, idle)
      m == MappedFor(frame)
      flushed == FlushedBy(h, m)
  IN  /\ IsFull(h)
      /\ DropsPacket(frame)
      /\ Count(idle)
      /\ mapped' = Without(m, flushed)
      /\ hdr' = [b \in DOMAIN hdr |->
                   IF b = TargetOf(frame) THEN [h EXCEPT !.state = "Complete"]
                   ELSE IF \E f \in flushed : m[f] = b
                   THEN [hdr[b] EXCEPT !.state = "Complete"] ELSE hdr[b]]
      /\ downstream' = downstream \cup {m[f] : f \in flushed}
      /\ ready' = ready \o Released(m, flushed, "Complete")
      /\ seen' = frame
      /\ currentFrame' = frame
-----------------------------------------------------------------------------
(* The time since a mapped frame was started exceeds frame_timeout_ms_.      *)
FrameOverdue(f) ==
  /\ ~hdr[mapped[f]].overdue
  /\ hdr' = [hdr EXCEPT ![mapped[f]].overdue = TRUE]
  /\ UNCHANGED <<currentFrame, seen, target, dropping, mapped>>
  /\ UNCHANGED <<emptyQueue, downstream, counters, history>>

OverdueOthers == {f \in DOMAIN mapped : hdr[mapped[f]].overdue /\ f # currentFrame}   \* mutant
Overdue == {f \in DOMAIN mapped : hdr[mapped[f]].overdue}

SeenKept == seen                                    \* mutant: the stale pointer stays
SeenAfterTimeout == IF seen \in Overdue THEN NoFrame ELSE seen

(* The reactor's timer releases the frames that are overdue.                 *)
MonitorBuffers ==
  /\ Overdue # {}
  /\ seen' = SeenAfterTimeout
  /\ hdr' = [b \in DOMAIN hdr |-> IF \E f \in Overdue : mapped[f] = b
                                  THEN [hdr[b] EXCEPT !.state = "Timedout"] ELSE hdr[b]]
  /\ downstream' = downstream \cup {mapped[f] : f \in Overdue}
  /\ ready' = ready \o Released(mapped, Overdue, "Timedout")
  /\ mapped' = Without(mapped, Overdue)
  /\ framesTimedout' = framesTimedout + Cardinality(Overdue)
  /\ UNCHANGED <<currentFrame, target, dropping, emptyQueue, packetCounter, arrived, lost>>

ResetStatistics ==
  /\ packetCounter # 0
  /\ packetCounter' = 0
  /\ UNCHANGED <<decoder, emptyQueue, downstream, framesTimedout, history>>

(* The FrameProcessor is done with a buffer (external: the FrameReceiver     *)
(* puts it back on the empty queue).                                         *)
BufferReturned(b) ==
  /\ downstream' = downstream \ {b}
  /\ emptyQueue' = Append(emptyQueue, b)
  /\ UNCHANGED <<decoder, counters, history>>

Next ==
  \/ \E idle \in BOOLEAN : PacketFills(idle)
  \/ \E idle \in BOOLEAN : PacketCompletes(idle)
  \/ \E idle \in BOOLEAN : PacketCompletesDropped(idle)
  \/ \E f \in DOMAIN mapped : FrameOverdue(f)
  \/ MonitorBuffers
  \/ ResetStatistics
  \/ \E b \in downstream : BufferReturned(b)

Spec == Init /\ [][Next]_vars

(* Time passes, the reactor runs its timer, and buffers come back.  Packets  *)
(* are under no obligation to arrive.                                        *)
Fairness ==
  /\ WF_vars(\E f \in DOMAIN mapped : FrameOverdue(f))
  /\ WF_vars(MonitorBuffers)
  /\ WF_vars(\E b \in downstream : BufferReturned(b))

FairSpec == Spec /\ Fairness
-----------------------------------------------------------------------------
TypeOK ==
  /\ currentFrame \in Nat
  /\ seen \in Nat \cup {NoFrame}
  /\ target \in Buffers \cup {Dropped}
  /\ dropping \in BOOLEAN
  /\ DOMAIN mapped \subseteq Nat
  /\ mapped \in [DOMAIN mapped -> Buffers]
  /\ emptyQueue \in Seq(Buffers)
  /\ hdr \in [Buffers \cup {Dropped} -> Headers]
  /\ downstream \subseteq Buffers
  /\ packetCounter \in Nat
  /\ framesTimedout \in Nat
  /\ arrived \in Nat
  /\ lost \subseteq Nat
  /\ ready \in Seq(Headers)

(* Every shared buffer has one owner: it is in the empty queue once, or      *)
(* mapped to one frame, or with the processor.  A second owner would have    *)
(* the decoder overwrite what the processor reads; none would leak it.       *)
BufferOwnership ==
  /\ Distinct(emptyQueue) /\ Distinct(mapped)
  /\ Elements(emptyQueue) \cap Elements(mapped) = {}
  /\ Elements(emptyQueue) \cap downstream = {}
  /\ Elements(mapped) \cap downstream = {}
  /\ Elements(emptyQueue) \cup Elements(mapped) \cup downstream = Buffers

(* The cached pointer current_frame_buffer_ is the buffer mapped to the      *)
(* frame last seen, through completion, timeout and idle flush alike; while  *)
(* packets are dropped no frame is open.                                     *)
WriteTargetOwned ==
  /\ dropping => DOMAIN mapped = {} /\ target = Dropped
  /\ ~dropping /\ seen # NoFrame => seen \in DOMAIN mapped /\ mapped[seen] = target

(* A packet always has a slot: the open frame never holds a full count, and  *)
(* there is at most one, numbered current_frame_.                            *)
OpenFrameHasRoom ==
  \A f \in DOMAIN mapped :
     /\ f = currentFrame /\ f # IdleFrame
     /\ hdr[mapped[f]].frame = f
     /\ Len(hdr[mapped[f]].packets) \in 1..(NumFramePackets - 1)

(* current_frame_ is the idle number between packets only after an idle      *)
(* packet was lost; the scratch header is then an idle one and every later   *)
(* packet, data or idle, meets the same state.                               *)
LostIdle ==
  /\ seen = IdleFrame <=> currentFrame = IdleFrame
  /\ currentFrame = IdleFrame => dropping /\ hdr[Dropped].idle

PacketsIn(frames) == FlattenSeq([i \in DOMAIN frames |-> frames[i].packets])
Delivered == PacketsIn(ready)
Pending == IF currentFrame \in DOMAIN mapped THEN hdr[mapped[currentFrame]].packets ELSE <<>>

(* Within an acquisition a frame number comes twice only when the first      *)
(* frame of that number was released by the timeout.                         *)
FrameNumbersFresh ==
  \A i, j \in DOMAIN ready :
    /\ i < j
    /\ ready[i].frame = ready[j].frame
    /\ \A k \in i..j : ~ready[k].idle
    => ready[i].state = "Timedout"

(* The bytes of a buffer the processor holds do not change under it.         *)
DownstreamStable ==
  [][\A b \in downstream : hdr'[b] = hdr[b]]_vars

(* The decoder provides the abstract packet stream: each packet is lost on   *)
(* arrival or delivered once, in the order of arrival, and an idle frame     *)
(* comes behind the frames that its packet flushes.                          *)
Stream == INSTANCE PacketStream WITH
  n <- arrived, batch <- Pending, delivered <- Delivered, lost <- lost
StreamSpec == Stream!Spec

(* A packet that was taken reaches the processor, by completion of its       *)
(* frame, by an idle packet, or by the timeout when no packet ever follows.  *)
TakenIsDelivered == \A p \in 1..MaxArrivals : p \in Elements(Pending) ~> p \in Elements(Delivered)

(* "First packet from frame N detected but no free buffers available.        *)
(* Dropping packet data for this frame": the packets of a frame are lost     *)
(* when its first one finds no buffer, and no packets beyond that frame.  So *)
(* when a data packet is lost although a buffer is free, it is not the first *)
(* of a frame: the packets lost in a row before it are no whole frames.      *)
LostRun == arrived - (CHOOSE k \in (0..arrived) \ lost : \A j \in (k + 1)..arrived : j \in lost)
DropEndsWithFrame ==
  [][lost' # lost /\ packetCounter' # packetCounter /\ currentFrame # IdleFrame /\ emptyQueue # <<>>
     => LostRun % NumFramePackets # 0]_vars

(* The comment at the reset of current_frame_seen_ says a repeated frame 0   *)
(* is detected properly: an idle packet that finds a free buffer is not lost.*)
IdleDetected ==
  [][arrived' # arrived /\ packetCounter' = packetCounter /\ emptyQueue # <<>>
     => lost' = lost]_vars
=============================================================================
