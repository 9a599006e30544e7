----------------------------- MODULE PacketWords -----------------------------
(***************************************************************************)
(* Packets as words: how the packet generators make them (TristanPacket of *)
(* event_simulator.py), how the replay tools read their headers            *)
(* (load_pcap), and how the FrameProcessor (processDataWord) and two       *)
(* Python readers of raw words tell the times of their events.             *)
(*                                                                         *)
(* A header word is the number in its bits below 2^32, and those above it; *)
(* bits that are the same in every packet are left out.                    *)
(***************************************************************************)
EXTENDS Integers, Sequences, SequencesExt

CONSTANTS
  Quarter,           (* course_timestamp_rollover: 2^21                       *)
  Unit,              (* course timestamps are multiples of it: 8              *)
  Words,             (* events of a packet: 800                               *)
  TimepixWords       (* words of a Timepix packet: 1022                       *)

ASSUME WordsAssumption ==
  /\ Unit \in Nat \ {0} /\ Quarter \in Nat \ {0} /\ Quarter % Unit = 0
  /\ Words \in 1..Quarter
  /\ TimepixWords \in Nat \ {0, 1}

FineRange == 4 * Quarter                            (* fine_timestamp_mask + 1 *)
Buffers == 4                                        (* NO_OF_BUFFERS           *)

TristanTimestampWord(time) == [type |-> "course", time |-> time - (time % Unit)]
TristanWord(time) == [type |-> "event", time |-> time % FineRange]

(* TristanPacket: an event each tick from time on; the course timestamp is   *)
(* sent first, and again where the fine one starts from zero.                *)
WrapWord(index, time) == index > 0 /\ time % FineRange = 0
TimeWords(time) ==
  <<TristanTimestampWord(time)>> \o
  FlattenSeq([k \in 1..Words |->
    LET t == time + k - 1 IN
    IF WrapWord(k - 1, t) THEN <<TristanTimestampWord(t), TristanWord(t)>> ELSE <<TristanWord(t)>>])

TristanPacket(slice, number, time) ==
  LET words == TimeWords(time) IN
  [header2 |-> (slice \div Buffers) * 2^18 + ((Len(words) + 2) % 2^11),
   header3 |-> [above |-> slice % Buffers, below |-> number],
   words |-> words]

(* tristan_packet_generator.py has these classes too.                        *)
GeneratorPacket(slice, number, time) == TristanPacket(slice, number, time)

TristanIdlePacket ==
  [header2 |-> 127 * 2^11 + 3, header3 |-> [above |-> 0, below |-> 0], words |-> <<>>]

(* TimepixPacket, and execute of TimepixPacketSender: the words go, from the *)
(* first course timestamp above zero on, to packets that begin with the last *)
(* timestamp known when the packet before was full.  A packet is the places  *)
(* of its words; the last one is only sent when it is full.                  *)
TimepixPacket(slice, number, words) ==
  [header2 |-> slice * 2^18 + Len(words) + 2,
   header3 |-> [above |-> 0, below |-> number],
   words |-> words]
TimepixPackets(words) ==
  LET Pack(pack, k) ==
        LET word == words[k]  packet == Append(pack.packet, k) IN
        IF pack.course = 0
        THEN IF word.type = "course"
             THEN [pack EXCEPT !.packet = packet, !.stamp = k, !.course = word.time]
             ELSE pack
        ELSE [full |-> IF Len(packet) = TimepixWords THEN Append(pack.full, packet) ELSE pack.full,
              packet |-> IF Len(packet) = TimepixWords THEN <<pack.stamp>> ELSE packet,
              stamp |-> IF word.type = "course" THEN k ELSE pack.stamp,
              course |-> pack.course]
  IN FoldLeft(Pack, [full |-> <<>>, packet |-> <<>>, stamp |-> 0, course |-> 0],
              [k \in DOMAIN words |-> k]).full

(* load_pcap: what is read from a header.                                    *)
IsIdle(packet) == (packet.header2 \div 2^11) % 2^7 = 127
SliceByBuffer(packet) == packet.header3.above       \* mutant: the wrap is left out
SliceOf(packet) == (packet.header2 \div 2^18) * Buffers + (packet.header3.above % 2^8)
ImageOf(packet) == packet.header3.above % 2^24

(* findTimestampMatch and getFullTimestamp; the match is two bits, and one   *)
(* is added to it without wrapping.                                          *)
findTimestampMatch(time) == (time \div Quarter) % 4
Matches(course, fine) == findTimestampMatch(fine) - findTimestampMatch(course) \in {0, 1}
Mismatch == -1
FullTimeOfQuarter(course, fine) == (course - (course % Quarter)) + fine  \* mutant: too few bits are cleared
FullTime(course, fine) == (course - (course % FineRange)) + fine
getFullTimestamp(fine, previous, course) ==
  LET candidates == SelectSeq(<<course, previous, course + Quarter>>, LAMBDA c : Matches(c, fine))
  IN IF candidates = <<>> THEN Mismatch ELSE FullTime(Head(candidates), fine)

(* processDataWord: the course timestamps seen so far, and the times of the  *)
(* events.  A previous timestamp of zero is taken for none.                  *)
processDataWord(seen, word) ==
  IF word.type = "course"
  THEN [seen EXCEPT !.course = word.time,
                    !.previous = IF seen.course = 0 THEN word.time - Quarter ELSE seen.course]
  ELSE [seen EXCEPT !.times = Append(@, getFullTimestamp(word.time, seen.previous, seen.course))]

EventTimes(words) ==
  FoldLeft(processDataWord, [previous |-> 0, course |-> 0, times |-> <<>>], words).times

(* DataWord (data_word.py), as the Timepix parser reads it: without the next *)
(* course timestamp, a tick before the last quarter where there is no        *)
(* previous one, and zero for no match.                                      *)
full_timestamp(fine, previous, course) ==
  LET before == IF previous = 0 THEN course - (Quarter - 1) ELSE previous
      candidates == SelectSeq(<<course, before>>, LAMBDA c : Matches(c, fine))
  IN IF candidates = <<>> THEN 0 ELSE FullTime(Head(candidates), fine)
ParserWord(seen, word) ==
  IF word.type = "course"
  THEN [seen EXCEPT !.course = word.time, !.previous = seen.course]
  ELSE [seen EXCEPT !.times = Append(@, full_timestamp(word.time, seen.previous, seen.course))]
ParserTimes(words) ==
  FoldLeft(ParserWord, [previous |-> 0, course |-> 0, times |-> <<>>], words).times

(* RawParser (tristan_parse_raw_h5.py): the last course timestamp, always.   *)
RawWord(seen, word) ==
  IF word.type = "course"
  THEN [seen EXCEPT !.course = word.time]
  ELSE [seen EXCEPT !.times = Append(@, FullTime(seen.course, word.time))]
RawTimes(words) == FoldLeft(RawWord, [course |-> 0, times |-> <<>>], words).times
=============================================================================
