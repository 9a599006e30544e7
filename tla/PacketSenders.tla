---------------------------- MODULE PacketSenders ----------------------------
(***************************************************************************)
(* The packet generators and replay tools, a thread for each port:         *)
(*   simulator    TristanEventProducer (event_simulator.py)                *)
(*   generator    tristan_packet_generator.py                              *)
(*   replay       latrd_pcap_replay.py, of time slices                     *)
(*   imageReplay  latrd_image_pcap_replay.py, of images                    *)
(*   timepix      timepix_packet_sender.py: one thread and one port, no    *)
(*                idle packets                                             *)
(* A replay is of some small capture, or of what the simulator or the      *)
(* generator has sent.  Every send may fail.                               *)
(***************************************************************************)
EXTENDS PacketWords, FiniteSets, FiniteSetsExt, Functions

CONSTANTS
  Ports,             (* _no_of_ports                                          *)
  NumIdle,           (* num_idle                                              *)
  SlicePackets,      (* packets of a time slice, of simulator and generator   *)
  TimepixSlice,      (* packets of a time slice of Timepix: 19                *)
  MaxSlices,         (* bound of the model: time slices                       *)
  MaxStream,         (* bound of the model: words of Timepix                  *)
  MaxCapture,        (* bound of the model: packets of another capture        *)
  MaxErrors          (* bound of the model: sends that fail                   *)

ASSUME SendersAssumption ==
  /\ Ports \in Nat \ {0} /\ NumIdle \in Nat
  /\ SlicePackets \in [{"simulator", "generator"} -> Nat \ {0}]
  /\ TimepixSlice \in Nat \ {0}
  /\ MaxSlices \in Nat /\ MaxStream \in Nat /\ MaxCapture \in Nat /\ MaxErrors \in Nat

VARIABLES
  program,           (* the program that runs                                 *)
  packets,           (* _packets, or those of _time_slices: datagrams, each   *)
                     (* with the number of its slice or image                 *)
  idlePacket,        (* there is an _idle_packet                              *)
  recorded,          (* the rest of the capture, by port                      *)
  pc, next, idles,   (* each thread: its place, the packet and idle it is at  *)
  lock, counter,     (* _mutex, _sent_packets                                 *)
  read,              (* what a thread has read of the counter                 *)
  wire,              (* the datagrams sent to each port                       *)
  errors,            (* sends that failed                                     *)
  made               (* history: the packets, with their slices and times     *)

loaded == <<packets, idlePacket, recorded>>
thread == <<pc, next, idles>>
count == <<lock, counter, read>>
vars == <<program, loaded, thread, count, wire, errors, made>>

Senders == 0..(Ports - 1)
NoOne == -1
Finished == {"done", "dead"}

(* create_packets: slices of SlicePackets packets, numbered from 1 by the    *)
(* simulator and from 0 by the generator; PACKET_NUMBER starts again with    *)
(* each slice, TIMESTAMP goes on.                                            *)
Created(tool, slices) ==
  [k \in 1..(slices * SlicePackets[tool]) |->
     LET first == IF tool = "simulator" THEN 1 ELSE 0
         slice == first + ((k - 1) \div SlicePackets[tool])
         number == (k - 1) % SlicePackets[tool]
         time == (k - 1) * Words
     IN [number |-> slice, times |-> [j \in 1..Words |-> time + j - 1],
         data |-> IF tool = "simulator" THEN TristanPacket(slice, number, time)
                 ELSE GeneratorPacket(slice, number, time)]]
SimulatorPackets(slices) == Created("simulator", slices)
GeneratorPackets(slices) == Created("generator", slices)

(* execute of TimepixPacketSender.  The words, of a detector that sends a    *)
(* course timestamp at the start of each quarter, then its events; packets   *)
(* are numbered through, slices from 1.                                      *)
Streams == BoundedSeq({"course", "event"}, MaxStream)
TimeOf(first, kinds, k) ==
  LET quarter == first + Cardinality({j \in 1..k : kinds[j] = "course"})
  IN quarter * Quarter + (IF kinds[k] = "event" THEN Quarter - 1 ELSE 0)
StreamWord(kind, time) == IF kind = "course" THEN TristanTimestampWord(time) ELSE TristanWord(time)
SentByTimepix(first, kinds) ==
  LET words == [k \in DOMAIN kinds |-> StreamWord(kinds[k], TimeOf(first, kinds, k))]
      packed == TimepixPackets(words)
      IsEvent(k) == kinds[k] = "event"
  IN [n \in DOMAIN packed |->
        LET slice == 1 + (n - 1) \div TimepixSlice
            places == packed[n]
            ofEvents == SelectSeq(places, IsEvent)
        IN [number |-> slice,
            times |-> [j \in DOMAIN ofEvents |-> TimeOf(first, kinds, ofEvents[j])],
            data |-> TimepixPacket(slice, n - 1, [j \in DOMAIN places |-> words[places[j]]])]]

(* Other captures: anything recorded, of a camera in image mode too.         *)
Short == <<>>
Image(n) == [header2 |-> 10, header3 |-> [above |-> n, below |-> 0], words |-> <<>>]
Recorded(n, datagram) == [number |-> n, times |-> <<>>, data |-> datagram]
Noise == {Recorded(0, Short), Recorded(0, TristanIdlePacket)}
SliceCaptures == BoundedSeq(Noise \cup {Recorded(n, TristanPacket(n, 0, 0)) : n \in {3, 4}}, MaxCapture)
ImageCaptures == BoundedSeq(Noise \cup {Recorded(n, Image(n)) : n \in {3, 4}}, MaxCapture)

HasHeader(datagram) == DOMAIN datagram # {}
IsData(datagram) == HasHeader(datagram) /\ ~IsIdle(datagram)
DataOf(datagrams) == SelectSeq(datagrams, IsData)

First(places) == IF places = {} THEN 0 ELSE Min(places)
ForAll(value) == [i \in Senders |-> value]
Init ==
  /\ \/ /\ program \in {"simulator", "generator"}
        /\ \E n \in 0..MaxSlices :
             packets = IF program = "simulator" THEN SimulatorPackets(n) ELSE GeneratorPackets(n)
        /\ idlePacket = TRUE
        /\ made = packets
        /\ recorded = ForAll(<<>>)
        /\ pc = ForAll("idleBefore")
     \/ /\ program \in {"replay", "imageReplay"}
        /\ \E capture \in IF program = "replay" THEN SliceCaptures ELSE ImageCaptures :
             /\ made = SelectSeq(capture, LAMBDA m : IsData(m.data))
             /\ recorded = [i \in Senders |-> IF i = 0 THEN [k \in DOMAIN capture |-> capture[k].data] ELSE <<>>]
        /\ packets = <<>> /\ idlePacket = FALSE
        /\ pc = ForAll("loading")
     \/ /\ program = "timepix"
        /\ \E first \in -1..3, kinds \in Streams : packets = SentByTimepix(first, kinds)
        /\ idlePacket = FALSE
        /\ made = packets
        /\ recorded = ForAll(<<>>)
        /\ pc = [ForAll("done") EXCEPT ![0] = "data"]
  /\ IF program = "timepix" THEN next = [ForAll(0) EXCEPT ![0] = First(DOMAIN packets)] ELSE next = ForAll(0)
  /\ idles = ForAll(0)
  /\ lock = NoOne /\ counter = 0 /\ read = ForAll(0)
  /\ wire = ForAll(<<>>) /\ errors = 0

(* load_pcap: one turn of the loop over the capture, in which the datagrams  *)
(* of a port are in order.  Data packets are kept as they are; the one tool  *)
(* goes by time slices, the other by images.                                 *)
Loading == \A i \in Senders : pc[i] = "loading"
Load(i, number) ==
  LET datagram == Head(recorded[i]) IN
  /\ Loading /\ recorded[i] # <<>>
  /\ recorded' = [recorded EXCEPT ![i] = Tail(@)]
  /\ idlePacket' = (idlePacket \/ (HasHeader(datagram) /\ IsIdle(datagram)))
  /\ packets' = IF IsData(datagram)
                THEN Append(packets, [number |-> number, data |-> datagram])
                ELSE packets
  /\ UNCHANGED <<program, thread, count, wire, errors, made>>
load_pcap(i) == program = "replay" /\ Load(i, SliceOf(Head(recorded[i])))
load_image_pcap(i) == program = "imageReplay" /\ Load(i, ImageOf(Head(recorded[i])))

(* send_packets: the threads start.                                          *)
send_packets ==
  /\ Loading /\ \A i \in Senders : recorded[i] = <<>>
  /\ pc' = ForAll("idleBefore")
  /\ UNCHANGED <<program, loaded, next, idles, count, wire, errors, made>>

(* The packets of a port, and the next of them behind place k; 0 is none.    *)
SimulatorTurn(number) == (number - 1) % Ports
Turn(number) == number % Ports
TurnOf(number) ==
  CASE program = "simulator" -> SimulatorTurn(number)
    [] program = "timepix" -> 0
    [] OTHER -> Turn(number)
Mine(i) == {k \in DOMAIN packets : TurnOf(packets[k].number) = i}
After(i, k) == First({j \in Mine(i) : j > k})

Fails == errors < MaxErrors /\ errors' = errors + 1
Transmit(i, datagram) == wire' = [wire EXCEPT ![i] = Append(@, datagram)]

(* _send_packets *)

(* The idle packets, before and after the data.  A socket error leaves the   *)
(* loop; no packet to send is an error of another kind and ends the thread.  *)
IdlesAfter(i) == pc[i] \in {"idleBefore", "idleAfter"} /\ idles[i] < NumIdle
SendIdle(i) ==
  /\ IdlesAfter(i) /\ idlePacket
  /\ Transmit(i, TristanIdlePacket)
  /\ idles' = [idles EXCEPT ![i] = @ + 1]
  /\ UNCHANGED <<program, loaded, pc, next, count, errors, made>>

IdleError(i) ==
  /\ IdlesAfter(i) /\ idlePacket
  /\ Fails
  /\ idles' = [idles EXCEPT ![i] = NumIdle]
  /\ UNCHANGED <<program, loaded, pc, next, count, wire, made>>

NoIdle(i) ==
  /\ IdlesAfter(i) /\ ~idlePacket
  /\ pc' = [pc EXCEPT ![i] = "dead"]
  /\ UNCHANGED <<program, loaded, next, idles, count, wire, errors, made>>

(* The delay between packets is a quotient by the number of packets: the     *)
(* simulator makes sure it is not zero, the generator divides by the number  *)
(* of the port's own packets, a replay by the (whole) number for a port.     *)
Delay(i, divisor) ==
  /\ pc[i] = "idleBefore" /\ idles[i] = NumIdle
  /\ pc' = [pc EXCEPT ![i] = IF divisor = 0 THEN "dead" ELSE "data"]
  /\ next' = [next EXCEPT ![i] = After(i, 0)]
  /\ UNCHANGED <<program, loaded, idles, count, wire, errors, made>>
SimulatorDelay(i) == program = "simulator" /\ Delay(i, 1)
GeneratorDelay(i) == program = "generator" /\ Delay(i, Cardinality(Mine(i)))
ReplayDelay(i) == program = "replay" /\ Delay(i, Len(packets) \div Ports)
ImageReplayDelay(i) == program = "imageReplay" /\ Delay(i, Len(packets) \div Ports)

(* The data: a packet is sent, or a socket error leaves the loop: the        *)
(* generators' loop over the packets of a slice, a replay's over all.        *)
SendData(i) ==
  /\ pc[i] = "data" /\ next[i] # 0
  /\ Transmit(i, packets[next[i]].data)
  /\ next' = [next EXCEPT ![i] = After(i, @)]
  /\ UNCHANGED <<program, loaded, idles, count, errors, made>>

DataError(i, skipped) ==
  /\ pc[i] = "data" /\ next[i] # 0
  /\ Fails
  /\ next' = [next EXCEPT ![i] = skipped]
  /\ UNCHANGED <<program, loaded, pc, idles, count, wire, made>>
RestOfSlice(i) ==
  First({j \in Mine(i) : j > next[i] /\ packets[j].number # packets[next[i]].number})

SimulatorData(i) ==
  /\ program = "simulator"
  /\ \/ SendData(i) /\ pc' = [pc EXCEPT ![i] = "count"]
     \/ DataError(i, RestOfSlice(i))
GeneratorData(i) ==
  /\ program = "generator"
  /\ \/ SendData(i) /\ UNCHANGED pc
     \/ DataError(i, RestOfSlice(i))
ReplayData(i) ==
  /\ program = "replay"
  /\ \/ SendData(i) /\ UNCHANGED pc
     \/ DataError(i, 0)
ImageReplayData(i) ==
  /\ program = "imageReplay"
  /\ \/ SendData(i) /\ UNCHANGED pc
     \/ DataError(i, 0)

(* increment_packets_sent of the simulator: += reads, then writes.           *)
AcquireNothing(i) ==                                \* mutant: no lock
  /\ pc[i] = "count"
  /\ lock' = i
Acquire(i) ==
  /\ pc[i] = "count" /\ lock = NoOne
  /\ lock' = i
ReadCounter(i) ==
  /\ Acquire(i)
  /\ read' = [read EXCEPT ![i] = counter]
  /\ pc' = [pc EXCEPT ![i] = "add"]
  /\ UNCHANGED <<program, loaded, next, idles, counter, wire, errors, made>>
Held == lock                                        \* mutant: the lock is not released
Released == NoOne
WriteCounter(i) ==
  /\ pc[i] = "add"
  /\ counter' = read[i] + 1
  /\ lock' = Released
  /\ pc' = [pc EXCEPT ![i] = "data"]
  /\ UNCHANGED <<program, loaded, next, idles, read, wire, errors, made>>

(* The Timepix sender catches no error.                                      *)
TimepixData(i) ==
  /\ program = "timepix"
  /\ SendData(i) /\ UNCHANGED pc
TimepixDies(i) ==
  /\ program = "timepix" /\ pc[i] = "data" /\ next[i] # 0
  /\ Fails
  /\ pc' = [pc EXCEPT ![i] = "dead"]
  /\ UNCHANGED <<program, loaded, next, idles, count, wire, made>>
TimepixEnds(i) ==
  /\ program = "timepix" /\ pc[i] = "data" /\ next[i] = 0
  /\ pc' = [pc EXCEPT ![i] = "done"]
  /\ UNCHANGED <<program, loaded, next, idles, count, wire, errors, made>>

LastData(i) ==
  /\ program # "timepix" /\ pc[i] = "data" /\ next[i] = 0
  /\ pc' = [pc EXCEPT ![i] = "idleAfter"]
  /\ idles' = [idles EXCEPT ![i] = 0]
  /\ UNCHANGED <<program, loaded, next, count, wire, errors, made>>

Close(i) ==
  /\ pc[i] = "idleAfter" /\ idles[i] = NumIdle
  /\ pc' = [pc EXCEPT ![i] = "done"]
  /\ UNCHANGED <<program, loaded, next, idles, count, wire, errors, made>>

Send(i) ==
  \/ SendIdle(i) \/ IdleError(i) \/ NoIdle(i)
  \/ SimulatorDelay(i) \/ GeneratorDelay(i) \/ ReplayDelay(i) \/ ImageReplayDelay(i)
  \/ SimulatorData(i) \/ GeneratorData(i) \/ ReplayData(i) \/ ImageReplayData(i)
  \/ TimepixData(i) \/ TimepixDies(i) \/ TimepixEnds(i)
  \/ ReadCounter(i) \/ WriteCounter(i) \/ LastData(i) \/ Close(i)

(* When a generator has sent everything, a capture of it is replayed (bound  *)
(* of the model: of a stream without errors).                                *)
AllFinished == \A i \in Senders : pc[i] \in Finished
Replay ==
  /\ program \in {"simulator", "generator"} /\ AllFinished /\ errors = 0
  /\ program' = "replay"
  /\ packets' = <<>> /\ idlePacket' = FALSE /\ recorded' = wire
  /\ pc' = ForAll("loading") /\ next' = ForAll(0) /\ idles' = ForAll(0)
  /\ wire' = ForAll(<<>>)
  /\ UNCHANGED <<count, errors, made>>

Next ==
  \/ send_packets \/ Replay
  \/ \E i \in Senders : load_pcap(i) \/ load_image_pcap(i) \/ Send(i)

Spec == Init /\ [][Next]_vars

(* The program and its threads run; nobody need replay a capture.            *)
FairSpec ==
  /\ Spec
  /\ WF_vars(send_packets)
  /\ \A i \in Senders : WF_vars(load_pcap(i) \/ load_image_pcap(i)) /\ WF_vars(Send(i))

(* The slices go to the ports in turn, and each port gets the packets of its *)
(* slices once and in order, as long as no send fails: also when the stream  *)
(* is captured, with the ports mixed, and the slices are read back from the  *)
(* headers (latrd_pcap_replay.py:239).                                       *)
SentInTurn ==
  errors = 0 => \E shift \in Senders : \A i \in Senders :
    LET mine == SelectSeq(made, LAMBDA m : IF program = "timepix" THEN i = 0
                                           ELSE (m.number + shift) % Ports = i)
        data == [k \in DOMAIN mine |-> mine[k].data]
    IN /\ IsPrefix(DataOf(wire[i]), data)
       /\ pc[i] = "done" => DataOf(wire[i]) = data

(* The threads with a packet that is sent and not yet counted, and the data  *)
(* packets on the wire of each port.                                         *)
Counting == {i \in Senders : pc[i] \in {"count", "add"}}
DataSent == [i \in Senders |-> Cardinality({k \in DOMAIN wire[i] : IsData(wire[i][k])})]
OnAllPorts(sent) == MapThenSumSet(LAMBDA i : sent[i], Senders)

(* The simulator's counter lacks just the packets that are sent and being    *)
(* counted, whichever threads count at a time; when it does not reach its    *)
(* end, an acquisition does not end (event_simulator.py:251).                *)
CountsSent ==
  program = "simulator" => counter + Cardinality(Counting) = OnAllPorts(DataSent)

(* Every thread ends, and the data of a port are between idle packets as     *)
(* the option --idle says, but for the threads that an exception ends: those *)
(* with no idle packet and those that divide by zero.                        *)
Idles == IF program = "timepix" THEN <<>> ELSE [k \in 1..NumIdle |-> TristanIdlePacket]
Between(i) == wire[i] = Idles \o DataOf(wire[i]) \o Idles
DiesOf(i) == ~idlePacket \/ Mine(i) = {} \/ Len(packets) < Ports
IdleEnds ==
  []<>(AllFinished /\ \A i \in Senders : IF pc[i] = "dead" THEN DiesOf(i) ELSE errors = 0 => Between(i))

(* The FrameProcessor reads from a generated packet, and nothing but it, the *)
(* very times of its events: also where the fine timestamp starts from zero  *)
(* within the packet, and for the first packet of all, whose time is the     *)
(* zero that stands for no time yet (LATRDProcessCoordinator.cpp:675, 730).  *)
(* So do the readers of raw words (data_word.py:72,                          *)
(* tristan_parse_raw_h5.py:48).  The packets made do not change, so they are *)
(* looked at before any is sent.                                             *)
DecodedTimes ==
  wire = ForAll(<<>>) => \A k \in DOMAIN made :
    LET m == made[k] IN
    m.times # <<>> =>
      /\ EventTimes(m.data.words) = m.times
      /\ program # "timepix" =>
           ParserTimes(m.data.words) = m.times /\ RawTimes(m.data.words) = m.times
=============================================================================
