------------------------- MODULE FrameDecoderProofs -------------------------
(***************************************************************************)
(* Proofs about FrameDecoder for any number of buffers, packets per frame  *)
(* and arrivals.  The inductive invariant is the conjunction of the parts  *)
(* the runs check: ownership of a buffer can only be lost through the      *)
(* cached pointer, so it needs WriteTargetOwned; that needs the map to     *)
(* hold at most the current frame (OpenFrameHasRoom); and that needs to    *)
(* know what an idle packet that found no buffer leaves behind (LostIdle). *)
(*                                                                         *)
(* The decoder implements PacketStream: the open frame is the batch, and a *)
(* packet in the scratch buffer is lost.  Frame numbers need one more      *)
(* invariant: what was handed over since the last idle frame is numbered   *)
(* below current_frame_, or equals it by a timeout.                        *)
(***************************************************************************)
EXTENDS FrameDecoder, SequenceLemmas

IInv == TypeOK /\ BufferOwnership /\ WriteTargetOwned /\ OpenFrameHasRoom /\ LostIdle

-----------------------------------------------------------------------------
(* Taking the head off a queue without repetitions removes exactly it.       *)
LEMMA TailOfDistinct ==
  ASSUME NEW S, NEW q \in Seq(S), q # <<>>, Distinct(q)
  PROVE  /\ Tail(q) \in Seq(S) /\ Distinct(Tail(q)) /\ Head(q) \in Elements(q)
         /\ Elements(Tail(q)) = Elements(q) \ {Head(q)}
<1>1. /\ Len(q) \in Nat \ {0} /\ DOMAIN q = 1..Len(q) /\ Head(q) = q[1]
      /\ Tail(q) \in Seq(S) /\ DOMAIN Tail(q) = 1..(Len(q) - 1)
      /\ \A i \in 1..(Len(q) - 1) : Tail(q)[i] = q[i + 1]
  OBVIOUS
<1>2. Distinct(Tail(q))
  BY <1>1 DEF Distinct
<1>3. Elements(Tail(q)) \subseteq Elements(q) \ {Head(q)}
  BY <1>1 DEF Elements, Distinct
<1>4. ASSUME NEW i \in DOMAIN q, q[i] # Head(q)
      PROVE  q[i] \in Elements(Tail(q))
  <2>1. i - 1 \in DOMAIN Tail(q) /\ Tail(q)[i - 1] = q[i]
    BY <1>1, <1>4
  <2> QED
    BY <2>1 DEF Elements
<1> QED
  BY <1>1, <1>2, <1>3, <1>4, SMTT(30) DEF Elements

(* Adding a new element at the end keeps a queue free of repetitions.        *)
LEMMA AppendOfDistinct ==
  ASSUME NEW S, NEW q \in Seq(S), NEW b \in S, Distinct(q), b \notin Elements(q)
  PROVE  /\ Append(q, b) \in Seq(S) /\ Distinct(Append(q, b))
         /\ Elements(Append(q, b)) = Elements(q) \cup {b}
<1>1. /\ Len(q) \in Nat /\ DOMAIN q = 1..Len(q)
      /\ Append(q, b) \in Seq(S) /\ DOMAIN Append(q, b) = 1..(Len(q) + 1)
      /\ \A i \in 1..Len(q) : Append(q, b)[i] = q[i]
      /\ Append(q, b)[Len(q) + 1] = b
  OBVIOUS
<1>2. Distinct(Append(q, b))
  BY <1>1 DEF Distinct, Elements
<1>3. Elements(Append(q, b)) \subseteq Elements(q) \cup {b}
  BY <1>1 DEF Elements
<1>4. Elements(q) \cup {b} \subseteq Elements(Append(q, b))
  <2>1. \A i \in DOMAIN q : q[i] \in Elements(Append(q, b))
    BY <1>1 DEF Elements
  <2>2. b \in Elements(Append(q, b))
    <3>1. Len(q) + 1 \in DOMAIN Append(q, b)
      BY <1>1
    <3> QED
      BY <1>1, <3>1 DEF Elements
  <2> QED
    BY <2>1, <2>2 DEF Elements
<1> QED
  BY <1>1, <1>2, <1>3, <1>4

(* Releasing at most one mapped frame adds at most one frame to the history. *)
LEMMA ReleasedIsSeq ==
  ASSUME NEW m, NEW frames, NEW state \in States, NEW f,
         frames \subseteq {f}, frames \subseteq DOMAIN m,
         \A g \in frames : hdr[m[g]] \in Headers
  PROVE  Released(m, frames, state) \in Seq(Headers)
<1>1. CASE frames = {}
  <2>1. Cardinality(frames) = 0
    BY <1>1, FS_EmptySet
  <2> QED
    BY <2>1 DEF Released
<1>2. CASE frames = {f}
  <2> DEFINE Sorted(q) == Elements(q) = frames
                          /\ \A i, j \in DOMAIN q : i < j => q[i] < q[j]
             order == CHOOSE q \in [1..Cardinality(frames) -> frames] : Sorted(q)
  <2>1. Cardinality(frames) = 1
    BY <1>2, FS_Singleton
  <2>2. \E q \in [1..1 -> frames] : Sorted(q)
    <3>1. [i \in 1..1 |-> f] \in [1..1 -> frames]
      BY <1>2
    <3>2. Elements([i \in 1..1 |-> f]) = frames
      BY <1>2 DEF Elements
    <3>3. \A i, j \in 1..1 : ~(i < j)
      OBVIOUS
    <3> QED
      BY <3>1, <3>2, <3>3
  <2>3. order \in [1..1 -> frames]
    BY <2>1, <2>2
  <2>4. Released(m, frames, state)
          = [i \in 1..1 |-> [hdr[m[order[i]]] EXCEPT !.state = state]]
    BY <2>1 DEF Released
  <2>5. \A i \in 1..1 : order[i] \in frames
    BY <2>3
  <2>6. \A i \in 1..1 : [hdr[m[order[i]]] EXCEPT !.state = state] \in Headers
    BY <2>5 DEF Headers
  <2> QED
    BY <2>4, <2>6
<1> QED
  BY <1>1, <1>2
-----------------------------------------------------------------------------
THEOREM InitInv == Init => IInv
<1> SUFFICES ASSUME Init PROVE IInv
  OBVIOUS
<1> USE BuffersAssumption, PacketsAssumption, ArrivalsAssumption DEF Init
<1>1. TypeOK
  <2>1. Cardinality(Buffers) \in Nat
    BY FS_CardinalityType
  <2>2. emptyQueue \in Seq(Buffers)
    BY <2>1
  <2>3. NewHeader(FirstFrame, FALSE) \in Headers
    BY DEF NewHeader, Headers, States, FirstFrame
  <2>4. hdr \in [Buffers \cup {Dropped} -> Headers]
    BY <2>3
  <2>5. DOMAIN mapped \subseteq Nat /\ mapped \in [DOMAIN mapped -> Buffers]
    OBVIOUS
  <2>6. ready \in Seq(Headers)
    OBVIOUS
  <2>7. currentFrame \in Nat /\ seen \in Nat \cup {NoFrame}
    BY DEF FirstFrame
  <2> QED
    BY <2>2, <2>4, <2>5, <2>6, <2>7 DEF TypeOK
<1>2. BufferOwnership
  BY DEF BufferOwnership, Distinct, Elements
<1>3. WriteTargetOwned /\ OpenFrameHasRoom /\ LostIdle
  BY DEF WriteTargetOwned, OpenFrameHasRoom, LostIdle, FirstFrame, IdleFrame, NoFrame
<1> QED
  BY <1>1, <1>2, <1>3 DEF IInv
-----------------------------------------------------------------------------
(* BufferOwnership, for the queue and the map a packet leaves behind.        *)
Partition(q, m, d) ==
  /\ Distinct(q) /\ Distinct(m)
  /\ Elements(q) \cap Elements(m) = {}
  /\ Elements(q) \cap d = {}
  /\ Elements(m) \cap d = {}
  /\ Elements(q) \cup Elements(m) \cup d = Buffers

QueueFor(frame) == IF GetsBuffer(frame) THEN Tail(emptyQueue) ELSE emptyQueue

(* Where process_packet_header sends a packet: to the buffer mapped to its   *)
(* frame, unless the packet is dropped; the buffers stay partitioned; and    *)
(* only an idle packet can find another frame open.                          *)
LEMMA Routing ==
  ASSUME IInv, NEW idle \in BOOLEAN, NEW frame, frame = FrameOf(idle),
         NEW m, m = MappedFor(frame)
  PROVE  /\ frame \in Nat
         /\ DOMAIN m \subseteq Nat /\ m \in [DOMAIN m -> Buffers]
         /\ QueueFor(frame) \in Seq(Buffers)
         /\ Partition(QueueFor(frame), m, downstream)
         /\ TargetOf(frame) \in Buffers \cup {Dropped}
         /\ DropsPacket(frame) \in BOOLEAN
         /\ ~DropsPacket(frame) => frame \in DOMAIN m /\ m[frame] = TargetOf(frame)
         /\ DropsPacket(frame) => m = mapped /\ TargetOf(frame) = Dropped
         /\ DropsPacket(frame) /\ ~idle => DOMAIN m = {}
         /\ ~idle => DOMAIN m \subseteq {frame}
         /\ \A f \in DOMAIN m \ {frame} : f = currentFrame /\ f \in DOMAIN mapped /\ m[f] = mapped[f]
<1> USE DEF IInv
<1>1. frame \in Nat /\ frame # NoFrame /\ (~idle => frame = currentFrame)
  BY DEF TypeOK, FrameOf, IdleFrame, NoFrame
<1>2. \A f \in DOMAIN mapped : f = currentFrame /\ f \in Nat
  BY DEF TypeOK, OpenFrameHasRoom
<1>3. CASE ~NeedsBuffer(frame)
  <2>1. ~GetsBuffer(frame) /\ m = mapped /\ QueueFor(frame) = emptyQueue
    BY <1>3 DEF GetsBuffer, MappedFor, QueueFor
  <2>2. (DropsPacket(frame) <=> dropping) /\ DropsPacket(frame) \in BOOLEAN
    BY <1>3 DEF DropsPacket, TypeOK
  <2>3. frame = seen \/ (frame # seen /\ frame \in DOMAIN mapped)
    BY <1>3 DEF NeedsBuffer
  <2>4. CASE frame = seen
    <3>1. TargetOf(frame) = target
      BY <2>4 DEF TargetOf, GetsBuffer, NeedsBuffer
    <3> QED
      BY <1>1, <1>2, <2>1, <2>2, <2>4, <3>1
         DEF TypeOK, BufferOwnership, Partition, WriteTargetOwned
  <2>5. CASE frame # seen /\ frame \in DOMAIN mapped
    <3>1. TargetOf(frame) = mapped[frame]
      BY <2>5, <2>1 DEF TargetOf, GetsBuffer, NeedsBuffer
    <3>2. ~dropping
      BY <2>5 DEF WriteTargetOwned
    <3> QED
      BY <1>1, <1>2, <2>1, <2>2, <2>5, <3>1, <3>2
         DEF TypeOK, BufferOwnership, Partition
  <2> QED
    BY <2>3, <2>4, <2>5
<1>4. CASE NeedsBuffer(frame) /\ emptyQueue = <<>>
  <2>1. ~GetsBuffer(frame) /\ m = mapped /\ QueueFor(frame) = emptyQueue
    BY <1>4 DEF GetsBuffer, MappedFor, QueueFor
  <2>2. DropsPacket(frame) = TRUE /\ TargetOf(frame) = Dropped
    BY <1>4, <2>1 DEF DropsPacket, TargetOf, NeedsBuffer
  <2>3. ~idle => DOMAIN m = {}
    BY <1>1, <1>2, <1>4, <2>1 DEF NeedsBuffer
  <2>4. Partition(QueueFor(frame), m, downstream)
    BY <2>1 DEF BufferOwnership, Partition
  <2>5. /\ DOMAIN m \subseteq Nat /\ m \in [DOMAIN m -> Buffers]
        /\ QueueFor(frame) \in Seq(Buffers)
    BY <2>1 DEF TypeOK
  <2> QED
    BY <1>1, <1>2, <2>1, <2>2, <2>3, <2>4, <2>5
<1>5. CASE NeedsBuffer(frame) /\ emptyQueue # <<>>
  <2> DEFINE b == Head(emptyQueue)
  <2>1. /\ GetsBuffer(frame) /\ QueueFor(frame) = Tail(emptyQueue)
        /\ DropsPacket(frame) = FALSE
        /\ frame # seen /\ frame \notin DOMAIN mapped
    BY <1>5 DEF GetsBuffer, QueueFor, DropsPacket, NeedsBuffer
  <2>2. TargetOf(frame) = b
    BY <2>1 DEF TargetOf
  <2>3. /\ Tail(emptyQueue) \in Seq(Buffers) /\ Distinct(Tail(emptyQueue))
        /\ b \in Elements(emptyQueue)
        /\ Elements(Tail(emptyQueue)) = Elements(emptyQueue) \ {b}
    BY <1>5, TailOfDistinct DEF TypeOK, BufferOwnership
  <2>4. b \in Buffers /\ b \notin Elements(mapped) /\ b \notin downstream
    BY <2>3 DEF BufferOwnership
  <2>5. m = [f \in DOMAIN mapped \cup {frame} |-> IF f = frame THEN b ELSE mapped[f]]
    BY <2>1 DEF MappedFor
  <2>6. /\ DOMAIN m = DOMAIN mapped \cup {frame} /\ m[frame] = b
        /\ \A f \in DOMAIN mapped : m[f] = mapped[f]
    BY <2>1, <2>5
  <2>7. DOMAIN m \subseteq Nat /\ m \in [DOMAIN m -> Buffers]
    BY <1>1, <2>4, <2>5 DEF TypeOK
  <2>8. Elements(m) = Elements(mapped) \cup {b}
    BY <2>6 DEF Elements
  <2>9. Distinct(m)
    BY <2>4, <2>6 DEF Distinct, Elements, BufferOwnership
  <2>10. Partition(QueueFor(frame), m, downstream)
    BY <2>1, <2>3, <2>4, <2>8, <2>9 DEF Partition, BufferOwnership
  <2> QED
    BY <1>1, <1>2, <2>1, <2>2, <2>3, <2>4, <2>6, <2>7, <2>10
<1> QED
  BY <1>3, <1>4, <1>5

(* The header a packet is counted in: it belongs to the packet's frame and   *)
(* has room, and a packet for frame 0 always meets an idle header.           *)
LEMMA Counting ==
  ASSUME IInv, NEW idle \in BOOLEAN, NEW frame, frame = FrameOf(idle),
         NEW h, h = HeaderWith(frame, idle)
  PROVE  /\ h \in Headers
         /\ ~DropsPacket(frame) => h.frame = frame /\ Len(h.packets) \in 1..NumFramePackets
         /\ frame = IdleFrame \/ idle => h.idle
         /\ DropsPacket(frame) /\ idle => h.frame \notin DOMAIN mapped
<1> USE PacketsAssumption DEF IInv
<1>1. frame \in Nat /\ arrived + 1 \in Nat /\ TargetOf(frame) \in Buffers \cup {Dropped}
  BY Routing DEF TypeOK
<1> DEFINE g == IF NeedsBuffer(frame) THEN NewHeader(frame, idle) ELSE hdr[TargetOf(frame)]
<1>2. h = IF DropsPacket(frame) THEN g ELSE [g EXCEPT !.packets = Append(@, arrived + 1)]
  BY DEF HeaderWith
<1>3. g \in Headers
  BY <1>1 DEF NewHeader, Headers, States, TypeOK
<1>4. ~DropsPacket(frame) => g.frame = frame /\ Len(g.packets) \in 0..(NumFramePackets - 1)
  <2>1. CASE NeedsBuffer(frame)
    BY <2>1 DEF NewHeader
  <2>2. CASE ~NeedsBuffer(frame) /\ ~DropsPacket(frame)
    <3>1. frame \in DOMAIN mapped /\ TargetOf(frame) = mapped[frame]
      BY <2>2, Routing DEF MappedFor, GetsBuffer
    <3> QED
      BY <2>2, <3>1 DEF OpenFrameHasRoom
  <2> QED
    BY <2>1, <2>2
<1>5. frame = IdleFrame \/ idle => g.idle
  <2>1. CASE NeedsBuffer(frame) /\ idle
    BY <2>1 DEF NewHeader
  <2>2. CASE NeedsBuffer(frame) /\ ~idle
    <3>1. frame = currentFrame /\ frame # seen
      BY <2>2 DEF FrameOf, NeedsBuffer
    <3> QED
      BY <2>2, <3>1 DEF LostIdle
  <2>3. CASE ~NeedsBuffer(frame) /\ frame = IdleFrame
    <3>1. frame = seen
      BY <2>3 DEF NeedsBuffer, OpenFrameHasRoom
    <3>2. dropping /\ hdr[Dropped].idle /\ TargetOf(frame) = target
      BY <2>3, <3>1 DEF LostIdle, TargetOf, GetsBuffer, NeedsBuffer
    <3> QED
      BY <2>3, <3>2 DEF WriteTargetOwned
  <2> QED
    BY <2>1, <2>2, <2>3 DEF FrameOf
<1>6. DropsPacket(frame) /\ idle => g.frame \notin DOMAIN mapped
  <2>1. CASE NeedsBuffer(frame)
    BY <2>1 DEF NewHeader, NeedsBuffer
  <2>2. CASE ~NeedsBuffer(frame) /\ DropsPacket(frame)
    BY <2>2 DEF DropsPacket, WriteTargetOwned
  <2> QED
    BY <2>1, <2>2
<1>7. g.packets \in Seq(Nat)
  BY <1>3 DEF Headers
<1>8. /\ Append(g.packets, arrived + 1) \in Seq(Nat)
      /\ Len(Append(g.packets, arrived + 1)) = Len(g.packets) + 1
  BY <1>1, <1>7
<1>9. CASE DropsPacket(frame)
  BY <1>2, <1>3, <1>5, <1>6, <1>9
<1>10. CASE ~DropsPacket(frame)
  <2>1. h = [g EXCEPT !.packets = Append(g.packets, arrived + 1)]
    BY <1>2, <1>10
  <2>2. h \in Headers /\ h.frame = g.frame /\ h.idle = g.idle
        /\ h.packets = Append(g.packets, arrived + 1)
    BY <1>3, <1>8, <2>1 DEF Headers
  <2>3. Len(g.packets) + 1 \in 1..NumFramePackets
    BY <1>4, <1>10
  <2> QED
    BY <1>4, <1>5, <1>8, <1>10, <2>2, <2>3
<1> QED
  BY <1>9, <1>10
-----------------------------------------------------------------------------
Stable == \A b \in downstream : hdr'[b] = hdr[b]

(* The variables every packet changes in the same way keep their types.      *)
LEMMA CountKeepsTypes ==
  ASSUME IInv, NEW idle \in BOOLEAN, Count(idle)
  PROVE  /\ arrived' \in Nat /\ packetCounter' \in Nat /\ framesTimedout' \in Nat
         /\ lost' \subseteq Nat /\ emptyQueue' \in Seq(Buffers)
         /\ emptyQueue' = QueueFor(FrameOf(idle))
         /\ target' \in Buffers \cup {Dropped} /\ dropping' \in BOOLEAN
<1>1. /\ QueueFor(FrameOf(idle)) \in Seq(Buffers)
      /\ TargetOf(FrameOf(idle)) \in Buffers \cup {Dropped}
      /\ DropsPacket(FrameOf(idle)) \in BOOLEAN
  BY Routing
<1>2. emptyQueue' = QueueFor(FrameOf(idle))
  BY DEF Count, QueueFor
<1>3. arrived \in Nat /\ packetCounter \in Nat /\ framesTimedout \in Nat /\ lost \subseteq Nat
  BY DEF IInv, TypeOK
<1>4. /\ arrived' = arrived + 1 /\ packetCounter' \in {packetCounter, packetCounter + 1}
      /\ framesTimedout' = framesTimedout /\ lost' \subseteq lost \cup {arrived + 1}
  BY DEF Count
<1>5. target' = TargetOf(FrameOf(idle)) /\ dropping' = DropsPacket(FrameOf(idle))
  BY DEF Count
<1> QED
  BY <1>1, <1>2, <1>3, <1>4, <1>5

(* A packet that leaves its frame incomplete.                                *)
LEMMA FillsStep ==
  ASSUME IInv, NEW idle \in BOOLEAN, PacketFills(idle)
  PROVE  IInv' /\ Stable
<1> DEFINE frame == FrameOf(idle)
           h == HeaderWith(frame, idle)
           m == MappedFor(frame)
<1>1. /\ ~IsFull(h) /\ Count(idle) /\ currentFrame' = frame /\ seen' = frame
      /\ mapped' = m /\ hdr' = [hdr EXCEPT ![TargetOf(frame)] = h]
      /\ downstream' = downstream /\ ready' = ready
      /\ target' = TargetOf(frame) /\ dropping' = DropsPacket(frame)
  BY DEF PacketFills, Count
<1>2. /\ h \in Headers
      /\ ~DropsPacket(frame) => h.frame = frame /\ Len(h.packets) \in 1..NumFramePackets
      /\ frame = IdleFrame \/ idle => h.idle
  BY Counting
<1>3. ~h.idle /\ Len(h.packets) # NumFramePackets /\ ~idle /\ frame # IdleFrame
  BY <1>1, <1>2 DEF IsFull
<1>4. /\ frame \in Nat
      /\ DOMAIN m \subseteq Nat /\ m \in [DOMAIN m -> Buffers]
      /\ Partition(QueueFor(frame), m, downstream)
      /\ TargetOf(frame) \in Buffers \cup {Dropped}
      /\ DropsPacket(frame) \in BOOLEAN
      /\ ~DropsPacket(frame) => frame \in DOMAIN m /\ m[frame] = TargetOf(frame)
      /\ DropsPacket(frame) => TargetOf(frame) = Dropped /\ DOMAIN m = {}
      /\ DOMAIN m \subseteq {frame}
  BY <1>3, Routing
<1>5. /\ hdr' \in [Buffers \cup {Dropped} -> Headers]
      /\ hdr'[TargetOf(frame)] = h
      /\ \A b \in Buffers : b # TargetOf(frame) => hdr'[b] = hdr[b]
  BY <1>1, <1>2, <1>4 DEF IInv, TypeOK
<1>6. TypeOK'
  BY <1>1, <1>4, <1>5, CountKeepsTypes DEF IInv, TypeOK
<1>7. BufferOwnership'
  BY <1>1, <1>4, CountKeepsTypes DEF BufferOwnership, Partition
<1>8. WriteTargetOwned'
  BY <1>1, <1>4 DEF WriteTargetOwned
<1>9. OpenFrameHasRoom'
  <2> SUFFICES ASSUME NEW f \in DOMAIN m
               PROVE  /\ f = frame /\ f # IdleFrame /\ hdr'[m[f]].frame = f
                      /\ Len(hdr'[m[f]].packets) \in 1..(NumFramePackets - 1)
    BY <1>1 DEF OpenFrameHasRoom
  <2>1. f = frame /\ ~DropsPacket(frame) /\ m[f] = TargetOf(frame)
    BY <1>4
  <2> QED
    BY <1>2, <1>3, <1>5, <2>1, PacketsAssumption
<1>10. LostIdle'
  BY <1>1, <1>3 DEF LostIdle
<1>11. Stable
  <2>1. TargetOf(frame) \notin downstream
    <3>1. ~DropsPacket(frame) => TargetOf(frame) \in Elements(m)
      BY <1>4 DEF Elements
    <3> QED
      BY <1>4, <3>1, BuffersAssumption DEF Partition, IInv, TypeOK
  <2> QED
    BY <1>5, <2>1 DEF Stable, IInv, TypeOK
<1> QED
  BY <1>6, <1>7, <1>8, <1>9, <1>10, <1>11 DEF IInv

(* Handing over a set of mapped buffers: what both completing actions write  *)
(* in the headers, the history and downstream.                               *)
LEMMA FlushType ==
  ASSUME IInv, NEW idle \in BOOLEAN, NEW frame, frame = FrameOf(idle),
         NEW h, h = HeaderWith(frame, idle), NEW m, m = MappedFor(frame),
         NEW flushed, flushed = FlushedBy(h, m)
  PROVE  /\ flushed \subseteq DOMAIN m
         /\ [h EXCEPT !.state = "Complete"] \in Headers
         /\ \A f \in flushed : m[f] \in Buffers
         /\ Released(m, flushed \ {frame}, "Complete") \in Seq(Headers)
         /\ \A b \in Buffers \cup {Dropped} : [hdr[b] EXCEPT !.state = "Complete"] \in Headers
<1>1. flushed \subseteq DOMAIN m
  BY DEF FlushedBy
<1>2. /\ \A f \in DOMAIN m \ {frame} : f = currentFrame
      /\ \A f \in DOMAIN m : m[f] \in Buffers
  BY Routing
<1>3. /\ "Complete" \in States
      /\ \A b \in Buffers \cup {Dropped} : hdr[b] \in Headers
  BY DEF IInv, TypeOK, States
<1>4. Released(m, flushed \ {frame}, "Complete") \in Seq(Headers)
  BY <1>1, <1>2, <1>3, ReleasedIsSeq
<1>5. h \in Headers
  BY Counting
<1> QED
  BY <1>1, <1>2, <1>3, <1>4, <1>5 DEF Headers

(* A packet that completes its frame, data or idle.                          *)
LEMMA CompletesStep ==
  ASSUME IInv, NEW idle \in BOOLEAN, PacketCompletes(idle)
  PROVE  IInv' /\ Stable
<1> DEFINE frame == FrameOf(idle)
           h == HeaderWith(frame, idle)
           m == MappedFor(frame)
           flushed == FlushedBy(h, m)
           done == [h EXCEPT !.state = "Complete"]
<1>1. /\ ~DropsPacket(frame) /\ Count(idle)
      /\ mapped' = Without(m, flushed \cup {frame})
      /\ hdr' = [b \in DOMAIN hdr |->
                   IF b = TargetOf(frame) THEN done
                   ELSE IF \E f \in flushed : m[f] = b
                   THEN [hdr[b] EXCEPT !.state = "Complete"] ELSE hdr[b]]
      /\ downstream' = downstream \cup {m[f] : f \in flushed} \cup {TargetOf(frame)}
      /\ ready' = Append(ready \o Released(m, flushed, "Complete"), done)
      /\ seen' = NoFrame /\ currentFrame' = NextFrame(h)
      /\ target' = TargetOf(frame) /\ dropping' = DropsPacket(frame)
  BY DEF PacketCompletes, HandedOver, Count
<1>2. h \in Headers /\ h.frame = frame /\ (idle => h.idle)
  BY <1>1, Counting
<1>3. /\ frame \in Nat
      /\ m \in [DOMAIN m -> Buffers] /\ Partition(QueueFor(frame), m, downstream)
      /\ frame \in DOMAIN m /\ m[frame] = TargetOf(frame)
      /\ ~idle => DOMAIN m \subseteq {frame}
  BY <1>1, Routing
<1>4. flushed \cup {frame} = DOMAIN m /\ flushed \ {frame} = flushed
  BY <1>2, <1>3 DEF FlushedBy
<1>5. DOMAIN mapped' = {} /\ mapped' \in [DOMAIN mapped' -> Buffers]
  BY <1>1, <1>4 DEF Without
<1>6. downstream' = downstream \cup Elements(m)
  BY <1>1, <1>3, <1>4 DEF Elements
<1>7. currentFrame' \in Nat /\ currentFrame' # IdleFrame
  BY <1>1, <1>2, <1>3 DEF NextFrame, FirstFrame, IdleFrame
<1>8. TypeOK'
  <2>1. hdr' \in [Buffers \cup {Dropped} -> Headers]
    BY <1>1, FlushType DEF IInv, TypeOK
  <2>2. ready' \in Seq(Headers)
    <3>1. Released(m, flushed, "Complete") \in Seq(Headers) /\ done \in Headers
      BY <1>4, FlushType
    <3> QED
      BY <1>1, <3>1 DEF IInv, TypeOK
  <2>3. downstream' \subseteq Buffers
    BY <1>3, <1>6 DEF Partition
  <2> QED
    BY <1>1, <1>5, <1>7, <2>1, <2>2, <2>3, CountKeepsTypes DEF TypeOK
<1>9. BufferOwnership'
  <2>1. Elements(mapped') = {} /\ Distinct(mapped')
    BY <1>5 DEF Elements, Distinct
  <2> QED
    BY <1>1, <1>3, <1>6, <2>1, CountKeepsTypes DEF BufferOwnership, Partition
<1>10. WriteTargetOwned' /\ OpenFrameHasRoom'
  BY <1>1, <1>5 DEF WriteTargetOwned, OpenFrameHasRoom
<1>11. LostIdle'
  BY <1>1, <1>7 DEF LostIdle, NoFrame, IdleFrame
<1>12. Stable
  <2> SUFFICES ASSUME NEW b \in downstream PROVE hdr'[b] = hdr[b]
    BY DEF Stable
  <2>1. b \notin Elements(m) /\ b \in DOMAIN hdr
    BY <1>3 DEF Partition, IInv, TypeOK
  <2>2. b # TargetOf(frame) /\ \A f \in flushed : m[f] # b
    BY <1>3, <1>4, <2>1 DEF Elements
  <2> QED
    BY <1>1, <2>1, <2>2
<1> QED
  BY <1>8, <1>9, <1>10, <1>11, <1>12 DEF IInv

(* A packet dropped on an idle scratch header: the flush, and nothing else.  *)
LEMMA CompletesDroppedStep ==
  ASSUME IInv, NEW idle \in BOOLEAN, PacketCompletesDropped(idle)
  PROVE  IInv' /\ Stable
<1> DEFINE frame == FrameOf(idle)
           h == HeaderWith(frame, idle)
           m == MappedFor(frame)
           flushed == FlushedBy(h, m)
           done == [h EXCEPT !.state = "Complete"]
<1>1. /\ DropsPacket(frame) /\ Count(idle)
      /\ mapped' = Without(m, flushed)
      /\ hdr' = [b \in DOMAIN hdr |->
                   IF b = TargetOf(frame) THEN done
                   ELSE IF \E f \in flushed : m[f] = b
                   THEN [hdr[b] EXCEPT !.state = "Complete"] ELSE hdr[b]]
      /\ downstream' = downstream \cup {m[f] : f \in flushed}
      /\ ready' = ready \o Released(m, flushed, "Complete")
      /\ seen' = frame /\ currentFrame' = frame
      /\ target' = TargetOf(frame) /\ dropping' = DropsPacket(frame)
  BY DEF PacketCompletesDropped, Count
<1>2. /\ h \in Headers /\ (idle \/ frame = IdleFrame => h.idle)
      /\ idle => h.frame \notin DOMAIN mapped
  BY <1>1, Counting
<1>3. /\ frame \in Nat
      /\ m \in [DOMAIN m -> Buffers] /\ Partition(QueueFor(frame), m, downstream)
      /\ m = mapped /\ TargetOf(frame) = Dropped
      /\ ~idle => DOMAIN m = {}
  BY <1>1, Routing
<1>4. flushed = DOMAIN m /\ frame \notin DOMAIN m
  <2>1. flushed = DOMAIN m
    BY <1>2, <1>3 DEF FlushedBy
  <2>2. idle => frame \notin DOMAIN m
    BY <1>3 DEF FrameOf, IInv, OpenFrameHasRoom
  <2> QED
    BY <1>3, <2>1, <2>2
<1>5. DOMAIN mapped' = {} /\ mapped' \in [DOMAIN mapped' -> Buffers]
  BY <1>1, <1>4 DEF Without
<1>6. downstream' = downstream \cup Elements(m)
  BY <1>1, <1>4 DEF Elements
<1>7. TypeOK'
  <2>1. hdr' \in [Buffers \cup {Dropped} -> Headers]
    BY <1>1, FlushType DEF IInv, TypeOK
  <2>2. ready' \in Seq(Headers)
    <3>1. flushed \ {frame} = flushed
      BY <1>4
    <3>2. Released(m, flushed, "Complete") \in Seq(Headers)
      BY <3>1, FlushType
    <3> QED
      BY <1>1, <3>2 DEF IInv, TypeOK
  <2>3. downstream' \subseteq Buffers
    BY <1>3, <1>6 DEF Partition
  <2> QED
    BY <1>1, <1>3, <1>5, <2>1, <2>2, <2>3, CountKeepsTypes DEF TypeOK
<1>8. BufferOwnership'
  <2>1. Elements(mapped') = {} /\ Distinct(mapped')
    BY <1>5 DEF Elements, Distinct
  <2> QED
    BY <1>1, <1>3, <1>6, <2>1, CountKeepsTypes DEF BufferOwnership, Partition
<1>9. WriteTargetOwned' /\ OpenFrameHasRoom'
  BY <1>1, <1>3, <1>5 DEF WriteTargetOwned, OpenFrameHasRoom
<1>10. LostIdle'
  <2>1. Dropped \in DOMAIN hdr
    BY DEF IInv, TypeOK
  <2>2. hdr'[Dropped].idle = h.idle
    BY <1>1, <1>2, <1>3, <2>1 DEF Headers
  <2> QED
    BY <1>1, <1>2, <2>2 DEF LostIdle
<1>11. Stable
  <2> SUFFICES ASSUME NEW b \in downstream PROVE hdr'[b] = hdr[b]
    BY DEF Stable
  <2>1. b \notin Elements(m) /\ b \in DOMAIN hdr /\ b # Dropped
    BY <1>3, BuffersAssumption DEF Partition, IInv, TypeOK
  <2>2. \A f \in flushed : m[f] # b
    BY <1>4, <2>1 DEF Elements
  <2> QED
    BY <1>1, <1>3, <2>1, <2>2
<1> QED
  BY <1>7, <1>8, <1>9, <1>10, <1>11 DEF IInv

(* Time passing marks a header of a mapped frame and nothing else.           *)
LEMMA OverdueStep ==
  ASSUME IInv, NEW f \in DOMAIN mapped, FrameOverdue(f)
  PROVE  IInv' /\ Stable
<1> DEFINE b == mapped[f]
<1>1. b \in Buffers /\ b \in Elements(mapped) /\ b # Dropped
  BY BuffersAssumption DEF IInv, TypeOK, Elements
<1>2. hdr' = [hdr EXCEPT ![b].overdue = TRUE]
  BY DEF FrameOverdue
<1>3. /\ hdr' \in [Buffers \cup {Dropped} -> Headers]
      /\ \A c \in Buffers \cup {Dropped} :
           /\ c # b => hdr'[c] = hdr[c]
           /\ hdr'[c].frame = hdr[c].frame /\ hdr'[c].packets = hdr[c].packets
           /\ hdr'[c].idle = hdr[c].idle
  BY <1>1, <1>2, ZenonT(30) DEF IInv, TypeOK, Headers
<1>4. UNCHANGED <<currentFrame, seen, target, dropping, mapped,
                  emptyQueue, downstream, counters, history>>
  BY DEF FrameOverdue
<1>5. TypeOK'
  BY <1>3, <1>4 DEF IInv, TypeOK, counters, history
<1>6. BufferOwnership' /\ WriteTargetOwned'
  BY <1>4 DEF IInv, BufferOwnership, WriteTargetOwned
<1>7. OpenFrameHasRoom'
  BY <1>3, <1>4 DEF IInv, TypeOK, OpenFrameHasRoom
<1>8. LostIdle'
  BY <1>3, <1>4 DEF IInv, LostIdle
<1>9. Stable
  BY <1>1, <1>3 DEF Stable, IInv, TypeOK, BufferOwnership
<1> QED
  BY <1>5, <1>6, <1>7, <1>8, <1>9 DEF IInv

(* The timer hands over the open frame, and forgets the pointer to it.       *)
LEMMA MonitorStep ==
  ASSUME IInv, MonitorBuffers
  PROVE  IInv' /\ Stable
<1>1. PICK f \in Overdue : TRUE
  BY DEF MonitorBuffers
<1>2. Overdue = {currentFrame} /\ DOMAIN mapped = {currentFrame} /\ ~dropping
  BY <1>1 DEF Overdue, IInv, OpenFrameHasRoom, WriteTargetOwned
<1>3. mapped[currentFrame] \in Buffers /\ mapped[currentFrame] \in Elements(mapped)
  BY <1>2 DEF IInv, TypeOK, Elements
<1>4. /\ seen' = IF seen \in Overdue THEN NoFrame ELSE seen
      /\ mapped' = Without(mapped, Overdue)
      /\ downstream' = downstream \cup {mapped[g] : g \in Overdue}
      /\ hdr' = [b \in DOMAIN hdr |-> IF \E g \in Overdue : mapped[g] = b
                                      THEN [hdr[b] EXCEPT !.state = "Timedout"] ELSE hdr[b]]
      /\ ready' = ready \o Released(mapped, Overdue, "Timedout")
      /\ framesTimedout' = framesTimedout + Cardinality(Overdue)
      /\ UNCHANGED <<currentFrame, target, dropping, emptyQueue, packetCounter, arrived, lost>>
  BY DEF MonitorBuffers, SeenAfterTimeout
<1>5. DOMAIN mapped' = {} /\ mapped' \in [DOMAIN mapped' -> Buffers]
  BY <1>2, <1>4 DEF Without
<1>6. seen = NoFrame \/ seen = currentFrame
  BY <1>2 DEF IInv, WriteTargetOwned
<1>7. seen' = NoFrame
  BY <1>2, <1>4, <1>6
<1>8. downstream' = downstream \cup Elements(mapped)
  BY <1>2, <1>4 DEF Elements
<1>9. currentFrame # IdleFrame
  BY <1>2 DEF IInv, OpenFrameHasRoom
<1>10. TypeOK'
  <2>1. hdr' \in [Buffers \cup {Dropped} -> Headers]
    <3>1. \A b \in Buffers \cup {Dropped} : [hdr[b] EXCEPT !.state = "Timedout"] \in Headers
      BY ZenonT(30) DEF IInv, TypeOK, Headers, States
    <3> QED
      BY <1>4, <3>1 DEF IInv, TypeOK
  <2>2. ready' \in Seq(Headers)
    <3>1. "Timedout" \in States /\ \A g \in Overdue : hdr[mapped[g]] \in Headers
      BY <1>2, <1>3 DEF States, IInv, TypeOK
    <3>2. Released(mapped, Overdue, "Timedout") \in Seq(Headers)
      BY <1>2, <3>1, ReleasedIsSeq
    <3> QED
      BY <1>4, <3>2 DEF IInv, TypeOK
  <2>3. framesTimedout' \in Nat
    <3>1. Cardinality(Overdue) = 1
      BY <1>2, FS_Singleton
    <3> QED
      BY <1>4, <3>1 DEF IInv, TypeOK
  <2>4. downstream' \subseteq Buffers
    BY <1>8 DEF IInv, BufferOwnership, TypeOK
  <2> QED
    BY <1>4, <1>5, <1>7, <2>1, <2>2, <2>3, <2>4 DEF IInv, TypeOK
<1>11. BufferOwnership'
  <2>1. Elements(mapped') = {} /\ Distinct(mapped')
    BY <1>5 DEF Elements, Distinct
  <2> QED
    BY <1>4, <1>8, <2>1 DEF IInv, BufferOwnership
<1>12. WriteTargetOwned' /\ OpenFrameHasRoom'
  BY <1>2, <1>4, <1>5, <1>7 DEF WriteTargetOwned, OpenFrameHasRoom
<1>13. LostIdle'
  BY <1>4, <1>7, <1>9 DEF LostIdle, NoFrame, IdleFrame
<1>14. Stable
  <2> SUFFICES ASSUME NEW b \in downstream PROVE hdr'[b] = hdr[b]
    BY DEF Stable
  <2>1. b # mapped[currentFrame] /\ b \in DOMAIN hdr
    BY <1>3 DEF IInv, BufferOwnership, TypeOK
  <2> QED
    BY <1>2, <1>4, <2>1
<1> QED
  BY <1>10, <1>11, <1>12, <1>13, <1>14 DEF IInv

(* A buffer the processor returns goes from downstream to the queue.         *)
LEMMA ReturnStep ==
  ASSUME IInv, NEW b \in downstream, BufferReturned(b)
  PROVE  IInv' /\ Stable
<1>1. /\ downstream' = downstream \ {b} /\ emptyQueue' = Append(emptyQueue, b)
      /\ UNCHANGED <<decoder, counters, history>>
  BY DEF BufferReturned
<1>2. b \in Buffers /\ b \notin Elements(emptyQueue) /\ b \notin Elements(mapped)
  BY DEF IInv, TypeOK, BufferOwnership
<1>3. /\ emptyQueue' \in Seq(Buffers) /\ Distinct(emptyQueue')
      /\ Elements(emptyQueue') = Elements(emptyQueue) \cup {b}
  BY <1>1, <1>2, AppendOfDistinct DEF IInv, TypeOK, BufferOwnership
<1>4. TypeOK'
  BY <1>1, <1>3 DEF IInv, TypeOK, decoder, counters, history
<1>5. BufferOwnership'
  BY <1>1, <1>2, <1>3 DEF IInv, BufferOwnership, decoder
<1>6. WriteTargetOwned' /\ OpenFrameHasRoom' /\ LostIdle'
  BY <1>1 DEF IInv, WriteTargetOwned, OpenFrameHasRoom, LostIdle, decoder
<1>7. Stable
  BY <1>1 DEF Stable, decoder
<1> QED
  BY <1>4, <1>5, <1>6, <1>7 DEF IInv

(* Resetting the statistics touches only the packet counter.                 *)
LEMMA ResetStep ==
  ASSUME IInv, ResetStatistics
  PROVE  IInv' /\ Stable
<1>1. /\ packetCounter' = 0
      /\ UNCHANGED <<decoder, emptyQueue, downstream, framesTimedout, history>>
  BY DEF ResetStatistics
<1>2. TypeOK'
  BY <1>1 DEF IInv, TypeOK, decoder, history
<1>3. BufferOwnership' /\ WriteTargetOwned' /\ OpenFrameHasRoom' /\ LostIdle' /\ Stable
  BY <1>1 DEF IInv, BufferOwnership, WriteTargetOwned, OpenFrameHasRoom, LostIdle,
              Stable, decoder
<1> QED
  BY <1>2, <1>3 DEF IInv
-----------------------------------------------------------------------------
(* Every step preserves the invariant and leaves downstream buffers alone.   *)
THEOREM StepInv == IInv /\ [Next]_vars => IInv' /\ Stable
<1> SUFFICES ASSUME IInv, [Next]_vars PROVE IInv' /\ Stable
  OBVIOUS
<1>1. CASE \E idle \in BOOLEAN : PacketFills(idle)
  BY <1>1, FillsStep
<1>2. CASE \E idle \in BOOLEAN : PacketCompletes(idle)
  BY <1>2, CompletesStep
<1>3. CASE \E idle \in BOOLEAN : PacketCompletesDropped(idle)
  BY <1>3, CompletesDroppedStep
<1>4. CASE \E f \in DOMAIN mapped : FrameOverdue(f)
  BY <1>4, OverdueStep
<1>5. CASE MonitorBuffers
  BY <1>5, MonitorStep
<1>6. CASE ResetStatistics
  BY <1>6, ResetStep
<1>7. CASE \E b \in downstream : BufferReturned(b)
  BY <1>7, ReturnStep
<1>8. CASE UNCHANGED vars
  BY <1>8 DEF vars, decoder, counters, history, IInv, TypeOK, BufferOwnership,
              WriteTargetOwned, OpenFrameHasRoom, LostIdle, Stable
<1> QED
  BY <1>1, <1>2, <1>3, <1>4, <1>5, <1>6, <1>7, <1>8 DEF Next

THEOREM Invariant == Spec => []IInv
<1>1. Init => IInv
  BY InitInv
<1>2. IInv /\ [Next]_vars => IInv'
  BY StepInv
<1> QED
  BY <1>1, <1>2, PTL DEF Spec

(* Every variable keeps its type.                                            *)
THEOREM TypeCorrect == Spec => []TypeOK
<1>1. IInv => TypeOK
  BY DEF IInv
<1> QED
  BY <1>1, Invariant, PTL

(* process_packet_header, process_packet, monitor_buffers and the return of  *)
(* buffers keep every shared buffer under exactly one owner.                 *)
THEOREM Ownership == Spec => []BufferOwnership
<1>1. IInv => BufferOwnership
  BY DEF IInv
<1> QED
  BY <1>1, Invariant, PTL

(* The cached buffer pointer is never stale when the decoder writes.         *)
THEOREM TargetOwned == Spec => []WriteTargetOwned
<1>1. IInv => WriteTargetOwned
  BY DEF IInv
<1> QED
  BY <1>1, Invariant, PTL

(* packet_state and the payload of a frame are never indexed past the end.   *)
THEOREM RoomForPacket == Spec => []OpenFrameHasRoom
<1>1. IInv => OpenFrameHasRoom
  BY DEF IInv
<1> QED
  BY <1>1, Invariant, PTL

(* After an idle packet is lost, the decoder is in one known state.          *)
THEOREM IdleLost == Spec => []LostIdle
<1>1. IInv => LostIdle
  BY DEF IInv
<1> QED
  BY <1>1, Invariant, PTL

(* The decoder never writes a buffer the processor holds.                    *)
THEOREM ReadersUndisturbed == Spec => DownstreamStable
<1>1. IInv /\ [Next]_vars => [\A b \in downstream : hdr'[b] = hdr[b]]_vars
  BY StepInv DEF Stable
<1> QED
  BY <1>1, Invariant, PTL DEF Spec, DownstreamStable
-----------------------------------------------------------------------------
(* What the decoder hands over, as PacketStream promises it.                 *)

(* ready_callback_ for no frame, or for one.                                 *)
LEMMA ReleasedNone ==
  ASSUME NEW m, NEW state
  PROVE  Released(m, {}, state) = <<>>
<1>1. Cardinality({}) = 0
  BY FS_EmptySet
<1> QED
  BY <1>1 DEF Released

LEMMA ReleasedOne ==
  ASSUME NEW m, NEW state, NEW f
  PROVE  Released(m, {f}, state) = <<[hdr[m[f]] EXCEPT !.state = state]>>
<1> DEFINE Sorted(q) == Elements(q) = {f} /\ \A i, j \in DOMAIN q : i < j => q[i] < q[j]
           order == CHOOSE q \in [1..Cardinality({f}) -> {f}] : Sorted(q)
<1>1. Cardinality({f}) = 1
  BY FS_Singleton
<1>2. \E q \in [1..1 -> {f}] : Sorted(q)
  <2>1. [i \in 1..1 |-> f] \in [1..1 -> {f}]
    OBVIOUS
  <2>2. Elements([i \in 1..1 |-> f]) = {f}
    BY DEF Elements
  <2>3. \A i, j \in 1..1 : ~(i < j)
    OBVIOUS
  <2> QED
    BY <2>1, <2>2, <2>3
<1>3. order \in [1..1 -> {f}]
  BY <1>1, <1>2
<1>4. Released(m, {f}, state) = [i \in 1..1 |-> [hdr[m[order[i]]] EXCEPT !.state = state]]
  BY <1>1 DEF Released
<1>5. \A i \in 1..1 : order[i] = f
  BY <1>3
<1>6. Released(m, {f}, state) = [i \in 1..1 |-> [hdr[m[f]] EXCEPT !.state = state]]
  BY <1>4, <1>5
<1> QED
  BY <1>6

LEMMA ConcatOne ==
  ASSUME NEW S, NEW r \in Seq(S), NEW h \in S
  PROVE  r \o <<h>> = Append(r, h)
OBVIOUS

(* The packets of the frames handed over, frame by frame.                    *)
PacketsOf == [h \in Headers |-> h.packets]

LEMMA PacketsInMapped ==
  ASSUME NEW r \in Seq(Headers)
  PROVE  PacketsIn(r) = FlattenSeq(Mapped(PacketsOf, r)) /\ Mapped(PacketsOf, r) \in Seq(Seq(Nat))
<1>1. \A h \in Headers : PacketsOf[h] \in Seq(Nat) /\ PacketsOf[h] = h.packets
  BY DEF PacketsOf, Headers
<1>2. Mapped(PacketsOf, r) \in Seq(Seq(Nat))
  BY <1>1, MappedType
<1>3. \A i \in DOMAIN r : r[i] \in Headers
  OBVIOUS
<1>4. Mapped(PacketsOf, r) = [i \in DOMAIN r |-> r[i].packets]
  BY <1>1, <1>3 DEF Mapped
<1> QED
  BY <1>2, <1>4, Zenon DEF PacketsIn

LEMMA PacketsInType ==
  ASSUME NEW r \in Seq(Headers)
  PROVE  PacketsIn(r) \in Seq(Nat)
BY PacketsInMapped, FlattenType

LEMMA PacketsInAppend ==
  ASSUME NEW r \in Seq(Headers), NEW h \in Headers
  PROVE  /\ Append(r, h) \in Seq(Headers)
         /\ PacketsIn(Append(r, h)) = PacketsIn(r) \o h.packets
<1>1. h.packets \in Seq(Nat) /\ PacketsOf[h] = h.packets
  BY DEF PacketsOf, Headers
<1>2. Append(r, h) \in Seq(Headers)
  BY AppendFacts
<1>3. /\ PacketsIn(r) = FlattenSeq(Mapped(PacketsOf, r)) /\ Mapped(PacketsOf, r) \in Seq(Seq(Nat))
      /\ PacketsIn(Append(r, h)) = FlattenSeq(Mapped(PacketsOf, Append(r, h)))
  BY <1>2, PacketsInMapped
<1>4. Mapped(PacketsOf, Append(r, h)) = Append(Mapped(PacketsOf, r), h.packets)
  BY <1>1, MappedAppend
<1>5. FlattenSeq(Append(Mapped(PacketsOf, r), h.packets)) = FlattenSeq(Mapped(PacketsOf, r)) \o h.packets
  BY <1>1, <1>3, FlattenAppend
<1> QED
  BY <1>2, <1>3, <1>4, <1>5, Zenon

(* What the processor got and what waits for it are sequences of packets.    *)
LEMMA StreamTypes ==
  ASSUME IInv
  PROVE  Delivered \in Seq(Nat) /\ Pending \in Seq(Nat) /\ arrived \in Nat
<1>1. Delivered \in Seq(Nat)
  BY PacketsInType DEF Delivered, IInv, TypeOK
<1>2. Pending \in Seq(Nat)
  <2>1. currentFrame \in DOMAIN mapped => hdr[mapped[currentFrame]] \in Headers
    BY DEF IInv, TypeOK
  <2> QED
    BY <2>1 DEF Pending, Headers
<1> QED
  BY <1>1, <1>2 DEF IInv, TypeOK
-----------------------------------------------------------------------------
(* The open frame is the batch: no mapped frame, no batch; else its packets. *)
LEMMA OpenFrame ==
  ASSUME IInv
  PROVE  /\ DOMAIN mapped = {} => Pending = <<>>
         /\ DOMAIN mapped # {} =>
              /\ DOMAIN mapped = {currentFrame} /\ mapped[currentFrame] \in Buffers
              /\ hdr[mapped[currentFrame]] \in Headers
              /\ hdr[mapped[currentFrame]].frame = currentFrame
              /\ Pending = hdr[mapped[currentFrame]].packets /\ Pending # <<>>
<1>1. CASE DOMAIN mapped = {}
  BY <1>1 DEF Pending
<1>2. CASE DOMAIN mapped # {}
  <2> DEFINE h == hdr[mapped[currentFrame]]
  <2>1. DOMAIN mapped = {currentFrame} /\ mapped[currentFrame] \in Buffers
    BY <1>2 DEF IInv, OpenFrameHasRoom, TypeOK
  <2>2. h \in Headers /\ h.frame = currentFrame /\ Len(h.packets) \in 1..(NumFramePackets - 1)
    BY <2>1 DEF IInv, OpenFrameHasRoom, TypeOK
  <2>3. Pending = h.packets
    BY <2>1 DEF Pending
  <2>4. h.packets # <<>>
    BY <2>2, PacketsAssumption DEF Headers
  <2> QED
    BY <1>2, <2>1, <2>2, <2>3, <2>4
<1> QED
  BY <1>1, <1>2

(* The frame a packet is counted in holds the batch, unless that is another  *)
(* open frame, and then the packet.                                          *)
LEMMA CountedPackets ==
  ASSUME IInv, NEW idle \in BOOLEAN, NEW frame, frame = FrameOf(idle), ~DropsPacket(frame)
  PROVE  LET h == HeaderWith(frame, idle)
         IN  IF frame \in DOMAIN mapped
             THEN h.packets = Append(Pending, arrived + 1) /\ DOMAIN mapped = {frame}
             ELSE h.packets = <<arrived + 1>>
<1> DEFINE h == HeaderWith(frame, idle)
           g == IF NeedsBuffer(frame) THEN NewHeader(frame, idle) ELSE hdr[TargetOf(frame)]
<1>1. /\ TargetOf(frame) \in Buffers \cup {Dropped} /\ frame \in Nat
      /\ frame \in DOMAIN MappedFor(frame) /\ MappedFor(frame)[frame] = TargetOf(frame)
      /\ arrived \in Nat
  BY Routing DEF IInv, TypeOK
<1>2. g \in Headers
  BY <1>1 DEF NewHeader, Headers, States, IInv, TypeOK
<1>3. h = [g EXCEPT !.packets = Append(g.packets, arrived + 1)]
  BY DEF HeaderWith
<1>4. h.packets = Append(g.packets, arrived + 1) /\ g.packets \in Seq(Nat)
  BY <1>2, <1>3 DEF Headers
<1> HIDE DEF g, h
<1>5. CASE NeedsBuffer(frame)
  <2>1. g.packets = <<>> /\ frame \notin DOMAIN mapped
    BY <1>5 DEF g, NewHeader, NeedsBuffer
  <2> QED
    BY <1>4, <2>1 DEF h
<1>6. CASE ~NeedsBuffer(frame)
  <2>1. MappedFor(frame) = mapped
    BY <1>6 DEF MappedFor, GetsBuffer
  <2>2. frame \in DOMAIN mapped /\ mapped[frame] = TargetOf(frame)
    BY <1>1, <2>1
  <2>3. DOMAIN mapped = {frame} /\ Pending = hdr[mapped[frame]].packets
    BY <2>2, OpenFrame
  <2>4. g = hdr[mapped[frame]]
    BY <1>6, <2>2 DEF g
  <2> QED
    BY <1>4, <2>2, <2>3, <2>4 DEF h
<1> QED
  BY <1>5, <1>6

(* What a completing packet flushes: the open frame, when it is not the      *)
(* packet's own, in front of whatever is handed over for the packet.         *)
FlushedFor(idle) == FlushedBy(HeaderWith(FrameOf(idle), idle), MappedFor(FrameOf(idle)))
ReleasedFor(idle) == Released(MappedFor(FrameOf(idle)), FlushedFor(idle), "Complete")
Closed(state) == [hdr[mapped[currentFrame]] EXCEPT !.state = state]

LEMMA ClosedFrame ==
  ASSUME IInv, DOMAIN mapped # {}, NEW state \in States
  PROVE  /\ Closed(state) \in Headers /\ Closed(state).frame = currentFrame
         /\ Closed(state).state = state
         /\ Closed(state).packets = Pending
<1>1. /\ hdr[mapped[currentFrame]] \in Headers
      /\ hdr[mapped[currentFrame]].frame = currentFrame
      /\ Pending = hdr[mapped[currentFrame]].packets
  BY OpenFrame
<1> QED
  BY <1>1 DEF Closed, Headers

LEMMA Flush ==
  ASSUME IInv, NEW idle \in BOOLEAN
  PROVE  IF DOMAIN mapped = {} \/ (DOMAIN mapped \subseteq {FrameOf(idle)} /\ ~DropsPacket(FrameOf(idle)))
         THEN FlushedFor(idle) = {} /\ ReleasedFor(idle) = <<>>
         ELSE /\ FlushedFor(idle) = {currentFrame} /\ DOMAIN mapped = {currentFrame}
              /\ ReleasedFor(idle) = <<Closed("Complete")>>
              /\ idle
<1> DEFINE frame == FrameOf(idle)
           h == HeaderWith(frame, idle)
           m == MappedFor(frame)
           flushed == FlushedFor(idle)
<1>1. /\ DropsPacket(frame) => m = mapped
      /\ DOMAIN m \subseteq DOMAIN mapped \cup {frame} /\ DOMAIN mapped \subseteq DOMAIN m
      /\ \A f \in DOMAIN mapped \ {frame} : m[f] = mapped[f]
  <2>1. DropsPacket(frame) => m = mapped
    BY Routing
  <2> QED
    BY <2>1 DEF MappedFor
<1>2. /\ DOMAIN mapped = {} \/ DOMAIN mapped = {currentFrame}
      /\ ~idle => frame = currentFrame
  BY OpenFrame DEF FrameOf
<1>3. flushed = IF h.idle THEN DOMAIN m \ {h.frame} ELSE {}
  BY DEF FlushedFor, FlushedBy
<1>4. /\ ~DropsPacket(frame) => h.frame = frame
      /\ DropsPacket(frame) /\ idle => h.frame \notin DOMAIN mapped
      /\ idle => h.idle
  BY Counting
<1>5. /\ ~idle => DOMAIN m \subseteq {frame}
      /\ DropsPacket(frame) /\ ~idle => DOMAIN m = {}
      /\ ~DropsPacket(frame) => frame \in DOMAIN m
  BY Routing
<1> HIDE DEF frame, h, m, flushed
<1>6. CASE DOMAIN mapped = {} \/ (DOMAIN mapped \subseteq {frame} /\ ~DropsPacket(frame))
  <2>1. flushed = {}
    BY <1>1, <1>3, <1>4, <1>6
  <2> QED
    BY <1>6, <2>1, ReleasedNone DEF ReleasedFor, flushed, frame
<1>7. CASE ~(DOMAIN mapped = {} \/ (DOMAIN mapped \subseteq {frame} /\ ~DropsPacket(frame)))
  <2>1. DOMAIN mapped = {currentFrame} /\ idle
    <3>1. DOMAIN mapped = {currentFrame}
      BY <1>2, <1>7
    <3>2. ~DropsPacket(frame) => ~(DOMAIN mapped \subseteq {frame})
      BY <1>7
    <3>3. idle
      BY <1>1, <1>2, <1>5, <3>1, <3>2
    <3> QED
      BY <3>1, <3>3
  <2>2. flushed = {currentFrame}
    BY <1>1, <1>3, <1>4, <1>7, <2>1
  <2>3. m[currentFrame] = mapped[currentFrame]
    BY <1>1, <1>7, <2>1
  <2>4. Released(m, {currentFrame}, "Complete") = <<Closed("Complete")>>
    BY <2>3, ReleasedOne DEF Closed
  <2> QED
    <3>1. ReleasedFor(idle) = Released(m, flushed, "Complete")
      BY DEF ReleasedFor, flushed, m, frame
    <3> QED
      BY <1>7, <2>1, <2>2, <2>4, <3>1 DEF flushed, frame
<1> QED
  BY <1>6, <1>7 DEF frame
-----------------------------------------------------------------------------
(* Each action is a step of PacketStream, or a stutter.                      *)

LEMMA FillsRefines ==
  ASSUME IInv, NEW idle \in BOOLEAN, PacketFills(idle)
  PROVE  Stream!Take \/ Stream!Lose
<1> DEFINE frame == FrameOf(idle)
           h == HeaderWith(frame, idle)
           m == MappedFor(frame)
<1>1. /\ ~IsFull(h) /\ mapped' = m /\ hdr' = [hdr EXCEPT ![TargetOf(frame)] = h]
      /\ ready' = ready /\ arrived' = arrived + 1
      /\ lost' = IF DropsPacket(frame) THEN lost \cup {arrived + 1} ELSE lost
  BY DEF PacketFills, Count
<1>2. ~idle
  BY <1>1, Counting DEF IsFull
<1>3. Delivered' = Delivered
  BY <1>1 DEF Delivered
<1>4. CASE DropsPacket(frame)
  <2>1. mapped' = mapped /\ DOMAIN mapped = {}
    BY <1>1, <1>2, <1>4, Routing
  <2>2. Pending = <<>> /\ Pending' = <<>>
    BY <2>1 DEF Pending
  <2> QED
    BY <1>1, <1>3, <1>4, <2>2 DEF Stream!Lose, Stream!Arrive
<1>5. CASE ~DropsPacket(frame)
  <2>1. /\ DOMAIN m = {frame} /\ m[frame] = TargetOf(frame)
        /\ TargetOf(frame) \in DOMAIN hdr
    <3>1. frame \in DOMAIN m /\ m[frame] = TargetOf(frame) /\ DOMAIN m \subseteq {frame}
      BY <1>2, <1>5, Routing
    <3>2. TargetOf(frame) \in Buffers \cup {Dropped}
      BY Routing
    <3> QED
      BY <3>1, <3>2 DEF IInv, TypeOK
  <2>2. Pending' = h.packets
    <3>1. currentFrame' = frame
      BY DEF PacketFills
    <3> QED
      BY <1>1, <2>1, <3>1 DEF Pending
  <2>3. h.packets = Append(Pending, arrived + 1)
    <3>1. CASE frame \in DOMAIN mapped
      BY <1>5, <3>1, CountedPackets
    <3>2. CASE frame \notin DOMAIN mapped
      <4>1. DOMAIN mapped = {}
        BY <1>2, <3>2, OpenFrame DEF FrameOf
      <4> QED
        BY <1>5, <3>2, <4>1, CountedPackets, OpenFrame
    <3> QED
      BY <3>1, <3>2
  <2> QED
    BY <1>1, <1>3, <1>5, <2>2, <2>3 DEF Stream!Take, Stream!Arrive
<1> QED
  BY <1>4, <1>5

LEMMA CompletesRefines ==
  ASSUME IInv, NEW idle \in BOOLEAN, PacketCompletes(idle)
  PROVE  Stream!TakeAndShip
<1> DEFINE frame == FrameOf(idle)
           h == HeaderWith(frame, idle)
           m == MappedFor(frame)
           flushed == FlushedBy(h, m)
           done == [h EXCEPT !.state = "Complete"]
           open == Closed("Complete")
           before == ready \o ReleasedFor(idle)
<1>1. /\ IsFull(h) /\ ~DropsPacket(frame) /\ mapped' = Without(m, flushed \cup {frame})
      /\ ready' = Append(before, done)
      /\ arrived' = arrived + 1 /\ lost' = lost
  BY DEF PacketCompletes, HandedOver, Count, ReleasedFor, FlushedFor
<1>2. h \in Headers /\ h.frame = frame /\ (idle => h.idle)
  BY <1>1, Counting
<1>3. done \in Headers /\ done.packets = h.packets
  BY <1>2 DEF Headers, States
<1>4. Pending' = <<>>
  <2>1. DOMAIN m \subseteq flushed \cup {frame}
    BY <1>2, Routing DEF FlushedBy
  <2>2. DOMAIN mapped' = {}
    BY <1>1, <2>1 DEF Without
  <2> QED
    BY <2>2 DEF Pending
<1>5. ready \in Seq(Headers)
  BY DEF IInv, TypeOK
<1> HIDE DEF h, m, flushed, done, frame
<1>6. CASE DOMAIN mapped \subseteq {frame}
  <2>1. before = ready
    <3>1. ReleasedFor(idle) = <<>>
      BY <1>1, <1>6, Flush DEF frame
    <3> QED
      BY <1>5, <3>1
  <2>2. Delivered' = Delivered \o h.packets
    BY <1>1, <1>3, <1>5, <2>1, PacketsInAppend DEF Delivered
  <2>3. h.packets = Append(Pending, arrived + 1)
    <3>1. CASE frame \in DOMAIN mapped
      BY <1>1, <3>1, CountedPackets DEF h, frame
    <3>2. CASE frame \notin DOMAIN mapped
      <4>1. Pending = <<>>
        BY <1>6, <3>2, OpenFrame
      <4>2. h.packets = <<arrived + 1>>
        BY <1>1, <3>2, CountedPackets DEF h, frame
      <4>3. Append(<<>>, arrived + 1) = <<arrived + 1>>
        OBVIOUS
      <4> QED
        BY <4>1, <4>2, <4>3
    <3> QED
      BY <3>1, <3>2
  <2>4. Delivered' = Append(Delivered \o Pending, arrived + 1)
    BY <2>2, <2>3, StreamTypes, ConcatAppend
  <2> QED
    BY <1>1, <1>4, <2>4 DEF Stream!TakeAndShip, Stream!Arrive
<1>7. CASE ~(DOMAIN mapped \subseteq {frame})
  <2>1. ReleasedFor(idle) = <<open>>
    BY <1>1, <1>7, Flush DEF frame
  <2>2. open \in Headers /\ open.packets = Pending
    BY <1>7, ClosedFrame DEF States
  <2>3. before = Append(ready, open)
    BY <1>5, <2>1, <2>2, ConcatOne
  <2>4. PacketsIn(before) = Delivered \o Pending /\ before \in Seq(Headers)
    BY <1>5, <2>2, <2>3, PacketsInAppend DEF Delivered
  <2>5. Delivered' = (Delivered \o Pending) \o h.packets
    BY <1>1, <1>3, <2>4, PacketsInAppend DEF Delivered
  <2>6. h.packets = <<arrived + 1>>
    <3>1. frame \notin DOMAIN mapped
      BY <1>7, OpenFrame
    <3> QED
      BY <1>1, <3>1, CountedPackets DEF h, frame
  <2>7. Delivered' = Append(Delivered \o Pending, arrived + 1)
    <3>1. Delivered \o Pending \in Seq(Nat) /\ arrived + 1 \in Nat
      BY StreamTypes, ConcatFacts
    <3> QED
      BY <2>5, <2>6, <3>1, ConcatOne
  <2> QED
    BY <1>1, <1>4, <2>7 DEF Stream!TakeAndShip, Stream!Arrive
<1> QED
  BY <1>6, <1>7

LEMMA CompletesDroppedRefines ==
  ASSUME IInv, NEW idle \in BOOLEAN, PacketCompletesDropped(idle)
  PROVE  Stream!Lose \/ Stream!LoseMarker
<1> DEFINE frame == FrameOf(idle)
           h == HeaderWith(frame, idle)
           m == MappedFor(frame)
           flushed == FlushedBy(h, m)
           open == Closed("Complete")
<1>1. /\ IsFull(h) /\ DropsPacket(frame) /\ mapped' = Without(m, flushed)
      /\ ready' = ready \o ReleasedFor(idle)
      /\ arrived' = arrived + 1 /\ lost' = lost \cup {arrived + 1}
  BY DEF PacketCompletesDropped, Count, ReleasedFor, FlushedFor
<1>2. flushed = DOMAIN mapped /\ m = mapped
  <2>1. m = mapped /\ (~idle => DOMAIN m = {})
    BY <1>1, Routing
  <2>2. idle => h.idle /\ h.frame \notin DOMAIN mapped
    BY <1>1, Counting
  <2> QED
    BY <2>1, <2>2 DEF FlushedBy
<1>3. Pending' = <<>>
  BY <1>1, <1>2 DEF Without, Pending
<1>4. ready \in Seq(Headers)
  BY DEF IInv, TypeOK
<1> HIDE DEF h, m, flushed, frame
<1>5. CASE DOMAIN mapped = {}
  <2>1. ReleasedFor(idle) = <<>>
    BY <1>5, Flush
  <2>2. ready' = ready
    BY <1>1, <1>4, <2>1
  <2>3. Delivered' = Delivered /\ Pending = <<>>
    BY <1>5, <2>2, OpenFrame DEF Delivered
  <2> QED
    BY <1>1, <1>3, <2>3 DEF Stream!Lose, Stream!Arrive
<1>6. CASE DOMAIN mapped # {}
  <2>1. ReleasedFor(idle) = <<open>>
    BY <1>1, <1>6, Flush DEF frame
  <2>2. open \in Headers /\ open.packets = Pending
    BY <1>6, ClosedFrame DEF States
  <2>3. ready' = Append(ready, open)
    BY <1>1, <1>4, <2>1, <2>2, ConcatOne
  <2>4. Delivered' = Delivered \o Pending /\ Pending # <<>>
    BY <1>4, <1>6, <2>2, <2>3, PacketsInAppend, OpenFrame DEF Delivered
  <2> QED
    BY <1>1, <1>3, <2>4 DEF Stream!LoseMarker, Stream!Arrive
<1> QED
  BY <1>5, <1>6

LEMMA MonitorRefines ==
  ASSUME IInv, MonitorBuffers
  PROVE  Stream!Ship
<1> DEFINE open == Closed("Timedout")
<1>1. /\ mapped' = Without(mapped, Overdue) /\ Overdue # {}
      /\ ready' = ready \o Released(mapped, Overdue, "Timedout")
      /\ UNCHANGED <<arrived, lost>>
  BY DEF MonitorBuffers
<1>2. Overdue = {currentFrame} /\ DOMAIN mapped = {currentFrame}
  BY <1>1, OpenFrame DEF Overdue
<1>3. Pending' = <<>>
  BY <1>1, <1>2 DEF Without, Pending
<1>4. /\ open \in Headers /\ open.packets = Pending /\ Pending # <<>>
  BY <1>2, OpenFrame, ClosedFrame DEF States
<1>5. ready' = Append(ready, open) /\ ready \in Seq(Headers)
  <2>1. Released(mapped, Overdue, "Timedout") = <<open>>
    BY <1>2, ReleasedOne DEF Closed
  <2>2. ready \in Seq(Headers)
    BY DEF IInv, TypeOK
  <2> QED
    BY <1>1, <1>4, <2>1, <2>2, ConcatOne
<1>6. Delivered' = Delivered \o Pending
  BY <1>4, <1>5, PacketsInAppend DEF Delivered
<1> QED
  BY <1>1, <1>3, <1>4, <1>6 DEF Stream!Ship

LEMMA OverdueStutters ==
  ASSUME IInv, NEW f \in DOMAIN mapped, FrameOverdue(f)
  PROVE  UNCHANGED Stream!vars
<1>1. /\ hdr' = [hdr EXCEPT ![mapped[f]].overdue = TRUE]
      /\ mapped' = mapped /\ ready' = ready /\ arrived' = arrived /\ lost' = lost
      /\ currentFrame' = currentFrame
  BY DEF FrameOverdue, history
<1>2. DOMAIN mapped = {currentFrame} /\ f = currentFrame /\ mapped[f] \in DOMAIN hdr
      /\ hdr[mapped[f]] \in Headers
  BY OpenFrame DEF IInv, TypeOK
<1>3. hdr'[mapped[f]].packets = hdr[mapped[f]].packets
  BY <1>1, <1>2 DEF Headers
<1>4. Pending' = Pending
  BY <1>1, <1>2, <1>3 DEF Pending
<1> QED
  BY <1>1, <1>4 DEF Stream!vars, Delivered
-----------------------------------------------------------------------------
(* Nothing has arrived, and nothing is mapped or handed over.                *)
LEMMA StreamInit == Init => Stream!Init
<1> SUFFICES ASSUME Init PROVE Stream!Init
  OBVIOUS
<1>1. Pending = <<>> /\ arrived = 0 /\ lost = {} /\ ready = <<>>
  BY DEF Init, Pending
<1>2. Delivered = <<>>
  <2>1. [i \in DOMAIN <<>> |-> <<>>[i].packets] = <<>>
    OBVIOUS
  <2> QED
    BY <1>1, <2>1, FlattenEmpty, Zenon DEF Delivered, PacketsIn
<1> QED
  BY <1>1, <1>2 DEF Stream!Init

LEMMA StreamStep == IInv /\ [Next]_vars => [Stream!Next]_(Stream!vars)
<1> SUFFICES ASSUME IInv, [Next]_vars PROVE [Stream!Next]_(Stream!vars)
  OBVIOUS
<1>1. CASE \E idle \in BOOLEAN : PacketFills(idle)
  BY <1>1, FillsRefines DEF Stream!Next
<1>2. CASE \E idle \in BOOLEAN : PacketCompletes(idle)
  BY <1>2, CompletesRefines DEF Stream!Next
<1>3. CASE \E idle \in BOOLEAN : PacketCompletesDropped(idle)
  BY <1>3, CompletesDroppedRefines DEF Stream!Next
<1>4. CASE \E f \in DOMAIN mapped : FrameOverdue(f)
  BY <1>4, OverdueStutters
<1>5. CASE MonitorBuffers
  BY <1>5, MonitorRefines DEF Stream!Next
<1>6. CASE ResetStatistics \/ (\E b \in downstream : BufferReturned(b)) \/ UNCHANGED vars
  <2>1. UNCHANGED <<currentFrame, mapped, hdr, ready, arrived, lost>>
    BY <1>6 DEF ResetStatistics, BufferReturned, vars, decoder, history
  <2> QED
    BY <2>1 DEF Stream!vars, Pending, Delivered
<1> QED
  BY <1>1, <1>2, <1>3, <1>4, <1>5, <1>6 DEF Next

(* The decoder implements the packet stream: whatever buffers it has, each   *)
(* packet is lost on arrival or waits in the open frame, frames are handed   *)
(* over whole, and none is lost while a frame that could take it is open.    *)
THEOREM ImplementsStream == Spec => StreamSpec
<1>1. Init => Stream!Init
  BY StreamInit
<1>2. IInv /\ [Next]_vars => [Stream!Next]_(Stream!vars)
  BY StreamStep
<1> QED
  BY <1>1, <1>2, Invariant, PTL DEF Spec, StreamSpec, Stream!Spec

(* A sequence in ascending order of packets up to n, and two of them.        *)
Ascends(q) == \A i, j \in DOMAIN q : i < j => q[i] < q[j]

LEMMA AscendsAppend ==
  ASSUME NEW q \in Seq(Nat), NEW n \in Nat, Ascends(q), ToSet(q) \subseteq 1..n
  PROVE  Ascends(Append(q, n + 1)) /\ ToSet(Append(q, n + 1)) = ToSet(q) \cup {n + 1}
<1>1. \A i \in DOMAIN q : q[i] \in Nat /\ q[i] <= n
  BY DEF ToSet
<1>2. PICK r \in Seq(Nat) : r = Append(q, n + 1)
  <2>1. n + 1 \in Nat
    OBVIOUS
  <2> QED
    BY <2>1, AppendFacts
<1>3. /\ Len(q) \in Nat /\ DOMAIN q = 1..Len(q) /\ DOMAIN r = 1..(Len(q) + 1)
      /\ r[Len(q) + 1] = n + 1 /\ \A i \in 1..Len(q) : r[i] = q[i]
  BY <1>2
<1>4. Ascends(r)
  <2> SUFFICES ASSUME NEW i \in DOMAIN r, NEW j \in DOMAIN r, i < j PROVE r[i] < r[j]
    BY DEF Ascends
  <2>1. i \in DOMAIN q /\ r[i] = q[i]
    BY <1>3
  <2>2. CASE j = Len(q) + 1
    BY <1>1, <1>3, <2>1, <2>2
  <2>3. CASE j # Len(q) + 1
    <3>1. j \in DOMAIN q /\ r[j] = q[j]
      BY <1>3, <2>3
    <3> QED
      BY <2>1, <3>1 DEF Ascends
  <2> QED
    BY <2>2, <2>3
<1>5. ToSet(r) = ToSet(q) \cup {n + 1}
  <2>1. n + 1 \in Nat
    OBVIOUS
  <2>2. Members(r) = Members(q) \cup {n + 1}
    BY <1>2, <2>1, MembersAppend
  <2> QED
    BY <2>2 DEF ToSet, Members
<1> QED
  BY <1>2, <1>4, <1>5

(* Conserved and InOrder hold of PacketStream, and so of the decoder.        *)
StreamInv ==
  /\ arrived \in Nat /\ Pending \in Seq(Nat) /\ Delivered \in Seq(Nat)
  /\ Stream!Conserved /\ Stream!InOrder

LEMMA StreamConserved ==
  /\ Stream!Init => StreamInv
  /\ StreamInv /\ [Stream!Next]_(Stream!vars) => StreamInv'
<1>1. ASSUME Stream!Init PROVE StreamInv
  <2>1. arrived = 0 /\ Pending = <<>> /\ Delivered = <<>> /\ lost = {}
    BY <1>1 DEF Stream!Init
  <2>2. <<>> \o <<>> = <<>> /\ <<>> \in Seq(Nat)
    OBVIOUS
  <2>3. Stream!Taken = <<>>
    BY <2>1, <2>2 DEF Stream!Taken
  <2> QED
    BY <2>1, <2>2, <2>3 DEF StreamInv, Stream!Conserved, Stream!InOrder, Stream!ToSet
<1>2. ASSUME StreamInv, [Stream!Next]_(Stream!vars) PROVE StreamInv'
  <2> DEFINE taken == Delivered \o Pending
  <2>1. /\ arrived \in Nat /\ Pending \in Seq(Nat) /\ Delivered \in Seq(Nat)
        /\ taken \in Seq(Nat) /\ taken \o <<>> = taken /\ Ascends(taken)
        /\ ToSet(taken) \cup lost = 1..arrived /\ ToSet(taken) \cap lost = {}
    <3>1. /\ arrived \in Nat /\ Pending \in Seq(Nat) /\ Delivered \in Seq(Nat)
          /\ Ascends(taken) /\ ToSet(taken) \cup lost = 1..arrived /\ ToSet(taken) \cap lost = {}
      BY <1>2 DEF StreamInv, Stream!Conserved, Stream!InOrder, Stream!Taken, Ascends, Stream!ToSet, ToSet
    <3>2. taken \in Seq(Nat) /\ taken \o <<>> = taken
      BY <3>1, ConcatFacts
    <3> QED
      BY <3>1, <3>2
  <2>2. /\ 1..(arrived + 1) = 1..arrived \cup {arrived + 1} /\ arrived + 1 \notin 1..arrived
        /\ arrived + 1 \in Nat
    BY <2>1
  <2>3. /\ Ascends(Append(taken, arrived + 1))
        /\ ToSet(Append(taken, arrived + 1)) = ToSet(taken) \cup {arrived + 1}
        /\ Append(taken, arrived + 1) \in Seq(Nat)
    <3>1. /\ taken \in Seq(Nat) /\ arrived \in Nat /\ Ascends(taken)
          /\ ToSet(taken) \subseteq 1..arrived
      BY <2>1
    <3> HIDE DEF taken
    <3>2. /\ Ascends(Append(taken, arrived + 1))
          /\ ToSet(Append(taken, arrived + 1)) = ToSet(taken) \cup {arrived + 1}
      BY <3>1, AscendsAppend, Zenon
    <3>3. Append(taken, arrived + 1) \in Seq(Nat)
      BY <2>2, <3>1, AppendFacts, Zenon
    <3> QED
      BY <3>2, <3>3
  <2>4. Append(taken, arrived + 1) = Delivered \o Append(Pending, arrived + 1)
    <3>1. Delivered \in Seq(Nat) /\ Pending \in Seq(Nat) /\ arrived + 1 \in Nat
      BY <2>1, <2>2
    <3>2. Delivered \o Append(Pending, arrived + 1) = Append(Delivered \o Pending, arrived + 1)
      BY <3>1, ConcatAppend
    <3> QED
      BY <3>2
  <2>5. SUFFICES /\ arrived' \in Nat /\ Pending' \in Seq(Nat) /\ Delivered' \in Seq(Nat)
                 /\ Ascends(Delivered' \o Pending')
                 /\ ToSet(Delivered' \o Pending') \cup lost' = 1..arrived'
                 /\ ToSet(Delivered' \o Pending') \cap lost' = {}
    BY DEF StreamInv, Stream!Conserved, Stream!InOrder, Stream!Taken, Ascends, Stream!ToSet, ToSet
  <2>6. CASE Stream!Take
    <3>1. /\ arrived' = arrived + 1 /\ Pending' = Append(Pending, arrived + 1)
          /\ Delivered' = Delivered /\ lost' = lost
      BY <2>6 DEF Stream!Take, Stream!Arrive
    <3>2. Delivered' \o Pending' = Append(taken, arrived + 1) /\ Pending' \in Seq(Nat)
      BY <2>1, <2>2, <2>4, <3>1, AppendFacts
    <3> QED
      BY <2>1, <2>2, <2>3, <3>1, <3>2
  <2>7. CASE Stream!Ship
    <3>1. /\ arrived' = arrived /\ Pending' = <<>> /\ Delivered' = taken /\ lost' = lost
      BY <2>7 DEF Stream!Ship
    <3> QED
      BY <2>1, <3>1, EmptyIsSeq
  <2>8. CASE Stream!TakeAndShip
    <3>1. /\ arrived' = arrived + 1 /\ Pending' = <<>> /\ lost' = lost
          /\ Delivered' = Append(taken, arrived + 1)
      BY <2>8 DEF Stream!TakeAndShip, Stream!Arrive
    <3>2. Delivered' \o Pending' = Append(taken, arrived + 1)
      BY <2>3, <3>1, ConcatFacts
    <3> QED
      BY <2>1, <2>2, <2>3, <3>1, <3>2, EmptyIsSeq
  <2>9. CASE Stream!Lose \/ Stream!LoseMarker
    <3>1. /\ arrived' = arrived + 1 /\ Pending' = <<>>
          /\ Delivered' = taken /\ lost' = lost \cup {arrived + 1}
      BY <2>1, <2>9, ConcatFacts DEF Stream!Lose, Stream!LoseMarker, Stream!Arrive
    <3>2. Delivered' \o Pending' = taken
      BY <2>1, <3>1
    <3> QED
      BY <2>1, <2>2, <3>1, <3>2, EmptyIsSeq
  <2>10. CASE UNCHANGED Stream!vars
    BY <2>1, <2>10 DEF Stream!vars
  <2> QED
    BY <1>2, <2>6, <2>7, <2>8, <2>9, <2>10 DEF Stream!Next
<1> QED
  BY <1>1, <1>2

(* Every packet that arrived was either taken or lost, and what was taken is *)
(* handed over once, in the order of arrival: also by an idle packet, which  *)
(* flushes the frames before its own.                                        *)
THEOREM PacketsConserved == Spec => [](Stream!Conserved /\ Stream!InOrder)
<1>1. Stream!Init => StreamInv
  BY StreamConserved
<1>2. StreamInv /\ [Stream!Next]_(Stream!vars) => StreamInv'
  BY StreamConserved
<1>3. StreamInv => Stream!Conserved /\ Stream!InOrder
  BY DEF StreamInv
<1> QED
  BY <1>1, <1>2, <1>3, ImplementsStream, PTL DEF StreamSpec, Stream!Spec
-----------------------------------------------------------------------------
(* FrameNumbersFresh, for the frames in r.                                   *)
Fresh(r) ==
  \A i, j \in DOMAIN r :
    /\ i < j
    /\ r[i].frame = r[j].frame
    /\ \A k \in i..j : ~r[k].idle
    => r[i].state = "Timedout"

(* The frames handed over since the last idle frame come before frame c.     *)
Before(r, c) ==
  \A i \in DOMAIN r :
    (\A k \in i..Len(r) : ~r[k].idle)
    => r[i].frame < c \/ (r[i].frame = c /\ r[i].state = "Timedout")

(* After a lost idle packet nothing is handed over any more.                 *)
NumbersInv == Fresh(ready) /\ (currentFrame # IdleFrame => Before(ready, currentFrame))

LEMMA FreshAppend ==
  ASSUME NEW r \in Seq(Headers), NEW h \in Headers, NEW c \in Nat,
         Fresh(r), Before(r, c), h.idle \/ h.frame = c
  PROVE  /\ Fresh(Append(r, h))
         /\ Before(Append(r, h), c + 1)
         /\ h.idle \/ h.state = "Timedout" => Before(Append(r, h), c)
         /\ h.idle => \A d \in Nat : Before(Append(r, h), d)
<1> DEFINE s == Append(r, h)
           n == Len(r)
<1>1. /\ n \in Nat /\ DOMAIN r = 1..n /\ DOMAIN s = 1..(n + 1) /\ Len(s) = n + 1
      /\ \A i \in 1..n : s[i] = r[i]
      /\ s[n + 1] = h
  OBVIOUS
<1> HIDE DEF s
<1>2. (\A i \in 1..n : r[i].frame \in Nat) /\ h.frame \in Nat
  <2>1. \A g \in Headers : g.frame \in Nat
    BY DEF Headers
  <2>2. \A i \in 1..n : r[i] \in Headers
    OBVIOUS
  <2> QED
    BY <2>1, <2>2
<1> HIDE DEF n
<1>3. ASSUME NEW i \in 1..n, ~h.idle, \A k \in i..(n + 1) : ~s[k].idle
      PROVE  r[i].frame < c \/ (r[i].frame = c /\ r[i].state = "Timedout")
  <2>1. \A k \in i..n : k \in 1..n /\ k \in i..(n + 1)
    BY <1>1
  <2>2. \A k \in i..n : ~r[k].idle
    BY <1>1, <1>3, <2>1
  <2> QED
    BY <1>1, <2>2 DEF Before, n
<1>4. Fresh(s)
  <2> SUFFICES ASSUME NEW i \in 1..(n + 1), NEW j \in 1..(n + 1), i < j,
                      s[i].frame = s[j].frame, \A k \in i..j : ~s[k].idle
               PROVE  s[i].state = "Timedout"
    BY <1>1 DEF Fresh
  <2>1. i \in 1..n /\ s[i] = r[i]
    BY <1>1
  <2>2. CASE j \in 1..n
    <3>1. s[j] = r[j] /\ \A k \in i..j : k \in 1..n
      BY <1>1, <2>2
    <3>2. \A k \in i..j : ~r[k].idle
      BY <1>1, <3>1
    <3> QED
      BY <1>1, <2>1, <2>2, <3>1, <3>2 DEF Fresh
  <2>3. CASE j = n + 1
    <3>1. ~h.idle /\ r[i].frame = c
      <4>1. j \in i..j
        BY <2>3
      <4> QED
        BY <1>1, <2>1, <2>3, <4>1
    <3>2. r[i].frame < c \/ (r[i].frame = c /\ r[i].state = "Timedout")
      BY <1>3, <2>1, <2>3, <3>1
    <3> QED
      BY <2>1, <3>1, <3>2
  <2> QED
    BY <1>1, <2>2, <2>3
<1>5. ASSUME h.idle, NEW d \in Nat PROVE Before(s, d)
  <2>1. \A i \in DOMAIN s : n + 1 \in i..Len(s) /\ s[n + 1].idle
    BY <1>1, <1>5
  <2> QED
    BY <2>1 DEF Before
<1>6. ASSUME ~h.idle, NEW i \in DOMAIN s, \A k \in i..Len(s) : ~s[k].idle
      PROVE  \/ s[i].frame < c
             \/ s[i].frame = c /\ (i \in 1..n => s[i].state = "Timedout")
                               /\ (i \notin 1..n => s[i] = h)
  <2>1. CASE i \in 1..n
    BY <1>1, <1>3, <1>6, <2>1
  <2>2. CASE i = n + 1
    BY <1>1, <1>6, <2>2
  <2> QED
    BY <1>1, <2>1, <2>2
<1>7. Before(s, c + 1)
  <2>1. CASE h.idle
    BY <1>5, <2>1
  <2>2. CASE ~h.idle
    <3>1. \A i \in DOMAIN s : s[i].frame <= c => s[i].frame < c + 1
      <4>1. \A i \in DOMAIN s : s[i].frame \in Nat
        <5>1. \A i \in DOMAIN s : i \in 1..n \/ i = n + 1
          BY <1>1
        <5> QED
          BY <1>1, <1>2, <5>1
      <4> QED
        BY <4>1
    <3>2. \A i \in DOMAIN s : (\A k \in i..Len(s) : ~s[k].idle) => s[i].frame <= c
      <4>1. \A i \in DOMAIN s : s[i].frame \in Nat
        <5>1. \A i \in DOMAIN s : i \in 1..n \/ i = n + 1
          BY <1>1
        <5> QED
          BY <1>1, <1>2, <5>1
      <4> QED
        BY <1>6, <2>2, <4>1
    <3> QED
      BY <3>1, <3>2 DEF Before
  <2> QED
    BY <2>1, <2>2
<1>8. ASSUME h.idle \/ h.state = "Timedout" PROVE Before(s, c)
  <2>1. CASE h.idle
    BY <1>5, <2>1
  <2>2. CASE ~h.idle
    BY <1>6, <1>8, <2>2 DEF Before
  <2> QED
    BY <2>1, <2>2
<1> QED
  BY <1>4, <1>5, <1>7, <1>8 DEF s

LEMMA NumbersStep == IInv /\ NumbersInv /\ [Next]_vars => NumbersInv'
<1> SUFFICES ASSUME IInv, NumbersInv, [Next]_vars PROVE NumbersInv'
  OBVIOUS
<1>1. ready \in Seq(Headers) /\ currentFrame \in Nat /\ Fresh(ready)
  BY DEF IInv, TypeOK, NumbersInv
<1>2. ASSUME NEW idle \in BOOLEAN, PacketFills(idle) PROVE NumbersInv'
  <2>1. ready' = ready /\ currentFrame' = FrameOf(idle)
    BY <1>2 DEF PacketFills
  <2>2. ~idle
    BY <1>2, Counting DEF PacketFills, IsFull
  <2> QED
    BY <2>1, <2>2 DEF NumbersInv, FrameOf
<1>3. ASSUME NEW idle \in BOOLEAN, PacketCompletes(idle) PROVE NumbersInv'
  <2> DEFINE frame == FrameOf(idle)
             h == HeaderWith(frame, idle)
             done == [h EXCEPT !.state = "Complete"]
             before == ready \o ReleasedFor(idle)
  <2>1. /\ ~DropsPacket(frame) /\ ready' = Append(before, done) /\ currentFrame' = NextFrame(h)
    BY <1>3 DEF PacketCompletes, HandedOver, ReleasedFor, FlushedFor
  <2>2. h \in Headers /\ h.frame = frame /\ (idle \/ frame = IdleFrame => h.idle)
    BY <2>1, Counting
  <2>3. done \in Headers /\ done.frame = frame /\ done.idle = h.idle
    BY <2>2 DEF Headers, States
  <2>4. currentFrame' = IF h.idle THEN FirstFrame ELSE h.frame + 1
    BY <2>1 DEF NextFrame
  <2> HIDE DEF h, done, frame
  <2>5. CASE currentFrame = IdleFrame
    <3>1. h.idle /\ frame = seen /\ dropping
      <4>1. frame = IdleFrame /\ seen = IdleFrame /\ dropping
        BY <2>5 DEF frame, FrameOf, IInv, LostIdle
      <4> QED
        BY <2>2, <4>1
    <3>2. DropsPacket(frame)
      BY <3>1 DEF DropsPacket, NeedsBuffer
    <3> QED
      BY <2>1, <3>2
  <2>6. CASE currentFrame # IdleFrame
    <3>1. Before(ready, currentFrame)
      BY <2>6 DEF NumbersInv
    <3>2. CASE DOMAIN mapped = {} \/ (DOMAIN mapped \subseteq {frame} /\ ~DropsPacket(frame))
      <4>1. before = ready
        <5>1. ReleasedFor(idle) = <<>>
          BY <3>2, Flush DEF frame
        <5> QED
          BY <1>1, <5>1
      <4>2. h.idle \/ frame = currentFrame
        BY <2>2 DEF frame, FrameOf
      <4>3. /\ Fresh(ready') /\ Before(ready', currentFrame + 1)
            /\ h.idle => Before(ready', FirstFrame)
        BY <1>1, <2>1, <2>3, <3>1, <4>1, <4>2, FreshAppend DEF FirstFrame
      <4>4. (currentFrame' = FirstFrame /\ h.idle) \/ currentFrame' = currentFrame + 1
        BY <2>2, <2>4, <4>2
      <4> QED
        BY <4>3, <4>4 DEF NumbersInv
    <3>3. CASE ~(DOMAIN mapped = {} \/ (DOMAIN mapped \subseteq {frame} /\ ~DropsPacket(frame)))
      <4>1. ReleasedFor(idle) = <<Closed("Complete")>> /\ idle /\ DOMAIN mapped # {}
        BY <3>3, Flush DEF frame
      <4>2. Closed("Complete") \in Headers /\ Closed("Complete").frame = currentFrame
        BY <4>1, ClosedFrame DEF States
      <4>3. before = Append(ready, Closed("Complete"))
        BY <1>1, <4>1, <4>2, ConcatOne
      <4>4. before \in Seq(Headers) /\ Fresh(before) /\ Before(before, currentFrame + 1)
        BY <1>1, <3>1, <4>2, <4>3, FreshAppend
      <4>5. Fresh(ready') /\ Before(ready', FirstFrame)
        <5>1. done.idle /\ currentFrame + 1 \in Nat
          BY <1>1, <2>2, <2>3, <4>1
        <5> QED
          BY <2>1, <2>3, <4>4, <5>1, FreshAppend DEF FirstFrame
      <4> QED
        BY <2>2, <2>4, <4>1, <4>5 DEF NumbersInv
    <3> QED
      BY <3>2, <3>3
  <2> QED
    BY <2>5, <2>6
<1>4. ASSUME NEW idle \in BOOLEAN, PacketCompletesDropped(idle) PROVE NumbersInv'
  <2>1. ready' = ready \o ReleasedFor(idle) /\ currentFrame' = FrameOf(idle)
    BY <1>4 DEF PacketCompletesDropped, ReleasedFor, FlushedFor
  <2>2. CASE DOMAIN mapped = {}
    <3>1. ready' = ready
      BY <1>1, <2>1, <2>2, Flush
    <3> QED
      BY <2>1, <3>1 DEF NumbersInv, FrameOf
  <2>3. CASE DOMAIN mapped # {}
    <3>1. DropsPacket(FrameOf(idle))
      BY <1>4 DEF PacketCompletesDropped
    <3>2. ReleasedFor(idle) = <<Closed("Complete")>> /\ idle /\ DOMAIN mapped = {currentFrame}
      BY <2>3, <3>1, Flush
    <3>3. Closed("Complete") \in Headers /\ Closed("Complete").frame = currentFrame
      BY <2>3, ClosedFrame DEF States
    <3>4. ready' = Append(ready, Closed("Complete"))
      BY <1>1, <2>1, <3>2, <3>3, ConcatOne
    <3>5. Before(ready, currentFrame)
      BY <3>2 DEF NumbersInv, IInv, OpenFrameHasRoom
    <3>6. Fresh(ready')
      BY <1>1, <3>3, <3>4, <3>5, FreshAppend
    <3>7. currentFrame' = IdleFrame
      BY <2>1, <3>2 DEF FrameOf
    <3> QED
      BY <3>6, <3>7 DEF NumbersInv
  <2> QED
    BY <2>2, <2>3
<1>5. ASSUME MonitorBuffers PROVE NumbersInv'
  <2>1. Overdue # {} /\ ready' = ready \o Released(mapped, Overdue, "Timedout")
        /\ currentFrame' = currentFrame
    BY <1>5 DEF MonitorBuffers
  <2>2. Overdue = {currentFrame} /\ DOMAIN mapped = {currentFrame}
    BY <2>1, OpenFrame DEF Overdue
  <2>3. Released(mapped, Overdue, "Timedout") = <<Closed("Timedout")>>
    BY <2>2, ReleasedOne DEF Closed
  <2>4. /\ Closed("Timedout") \in Headers /\ Closed("Timedout").frame = currentFrame
        /\ Closed("Timedout").state = "Timedout"
    BY <2>2, ClosedFrame DEF States
  <2>5. ready' = Append(ready, Closed("Timedout"))
    BY <1>1, <2>1, <2>3, <2>4, ConcatOne
  <2>6. Before(ready, currentFrame)
    BY <2>2 DEF NumbersInv, IInv, OpenFrameHasRoom
  <2>7. Fresh(ready') /\ Before(ready', currentFrame)
    BY <1>1, <2>4, <2>5, <2>6, FreshAppend
  <2> QED
    BY <2>1, <2>7 DEF NumbersInv
<1>6. ASSUME UNCHANGED <<currentFrame, ready>> PROVE NumbersInv'
  BY <1>6 DEF NumbersInv
<1>7. CASE \/ \E f \in DOMAIN mapped : FrameOverdue(f)
           \/ ResetStatistics \/ (\E b \in downstream : BufferReturned(b)) \/ UNCHANGED vars
  BY <1>6, <1>7 DEF FrameOverdue, ResetStatistics, BufferReturned, vars, decoder, history
<1> QED
  BY <1>2, <1>3, <1>4, <1>5, <1>7 DEF Next

(* Through timeouts, idle packets and lost ones, a frame number is reused    *)
(* within an acquisition only for the rest of a frame that timed out.        *)
THEOREM NumbersFresh == Spec => []FrameNumbersFresh
<1>1. Init => NumbersInv
  BY DEF Init, NumbersInv, Fresh, Before
<1>2. IInv /\ NumbersInv /\ [Next]_vars => NumbersInv'
  BY NumbersStep
<1>3. NumbersInv => FrameNumbersFresh
  BY DEF NumbersInv, Fresh, FrameNumbersFresh
<1> QED
  BY <1>1, <1>2, <1>3, Invariant, PTL DEF Spec
=============================================================================
