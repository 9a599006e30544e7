------------------------- MODULE PacketSendersProofs -------------------------
(***************************************************************************)
(* The simulator counts every packet of data that it has sent, for any     *)
(* number of ports and whatever sends fail.                                *)
(*                                                                         *)
(* A thread that has read the counter holds the lock until it has written  *)
(* it, so there is one such thread and what it has read is still so.  All  *)
(* packets that create_packets makes are of data, and an idle packet is    *)
(* none, which their headers tell.                                         *)
(***************************************************************************)
EXTENDS PacketSenders, SequenceLemmas

Datagrams == {TristanIdlePacket} \cup {packets[k].data : k \in DOMAIN packets}
AllAreData == DOMAIN packets \subseteq Nat \ {0} /\ \A k \in DOMAIN packets : IsData(packets[k].data)
Places == {"loading", "idleBefore", "idleAfter", "data", "count", "add", "done", "dead"}
ThreadTypes ==
  /\ pc \in [Senders -> Places]
  /\ next \in [Senders -> {0} \cup DOMAIN packets]
  /\ wire \in [Senders -> Seq(Datagrams)]
  /\ counter \in Nat /\ read \in [Senders -> Nat]
OneReader == \A i \in Senders : pc[i] = "add" => lock = i /\ read[i] = counter
SimulatorInv == program = "simulator" => AllAreData /\ ThreadTypes /\ OneReader /\ CountsSent
-----------------------------------------------------------------------------
(* What a header tells.                                                      *)
LEMMA IdleIsNoData == ~IsData(TristanIdlePacket)
  <1>1. 2^11 = 2048 /\ 2^7 = 128  OBVIOUS
  <1>2. TristanIdlePacket.header2 = 127 * 2048 + 3  BY <1>1 DEF TristanIdlePacket
  <1>3. (127 * 2048 + 3) \div 2048 = 127 /\ 127 % 128 = 127  OBVIOUS
  <1>4. IsIdle(TristanIdlePacket)  BY <1>1, <1>2, <1>3 DEF IsIdle
  <1>5. QED  BY <1>4 DEF IsData

LEMMA WordsAreSeq ==
  ASSUME NEW time \in Nat
  PROVE  Len(TimeWords(time)) \in Nat
  <1> DEFINE Word == [type : {"course", "event"}, time : Int]
             parts == [k \in 1..Words |->
                        LET t == time + k - 1 IN
                        IF WrapWord(k - 1, t) THEN <<TristanTimestampWord(t), TristanWord(t)>>
                        ELSE <<TristanWord(t)>>]
  <1>1. Words \in Nat /\ Unit \in Nat \ {0} /\ Quarter \in Nat \ {0}  BY WordsAssumption
  <1>2. \A t \in Nat : TristanTimestampWord(t) \in Word /\ TristanWord(t) \in Word
    <2>1. TAKE t \in Nat
    <2>2. t % Unit \in Int  BY <1>1
    <2>3. FineRange \in Nat \ {0}  BY <1>1 DEF FineRange
    <2>4. t % FineRange \in Int  BY <2>3
    <2>5. QED  BY <2>2, <2>4 DEF TristanTimestampWord, TristanWord
  <1> HIDE DEF Word
  <1>3. \A k \in 1..Words : parts[k] \in Seq(Word)
    <2>1. TAKE k \in 1..Words
    <2>2. PICK t \in Nat : t = time + k - 1  BY <1>1
    <2>3. PICK a \in Word, b \in Word : a = TristanTimestampWord(t) /\ b = TristanWord(t)  BY <1>2
    <2>4. parts[k] = IF WrapWord(k - 1, t) THEN <<a, b>> ELSE <<b>>  BY <2>2, <2>3
    <2>5. <<a, b>> \in Seq(Word) /\ <<b>> \in Seq(Word)  OBVIOUS
    <2>6. QED  BY <2>4, <2>5
  <1>4. parts \in Seq(Seq(Word))
    <2>1. parts \in [1..Words -> Seq(Word)]  BY <1>3
    <2>2. QED  BY <1>1, <2>1
  <1>5. PICK rest \in Seq(Word) : rest = FlattenSeq(parts)  BY <1>4, FlattenType
  <1>6. PICK head \in Seq(Word) : head = <<TristanTimestampWord(time)>>
    <2>1. TristanTimestampWord(time) \in Word  BY <1>2
    <2>2. <<TristanTimestampWord(time)>> \in Seq(Word)  BY <2>1
    <2>3. QED  BY <2>2
  <1>7. TimeWords(time) = head \o rest  BY <1>5, <1>6 DEF TimeWords
  <1>8. PICK all \in Seq(Word) : all = head \o rest  BY ConcatFacts, Zenon
  <1>9. Len(all) \in Nat  OBVIOUS
  <1>10. QED  BY <1>7, <1>8, <1>9

LEMMA PacketIsData ==
  ASSUME NEW slice \in Nat, NEW number \in Nat, NEW time \in Nat
  PROVE  IsData(TristanPacket(slice, number, time))
  <1>1. 2^11 = 2048 /\ 2^7 = 128 /\ 2^18 = 262144  OBVIOUS
  <1>2. PICK l \in Nat : l = Len(TimeWords(time))  BY WordsAreSeq
  <1>3. PICK p : p = TristanPacket(slice, number, time)  OBVIOUS
  <1>4. PICK a \in Nat : a = slice \div Buffers  BY DEF Buffers
  <1>5. PICK c \in 0..2047 : c = (l + 2) % 2048  OBVIOUS
  <1>6. p.header2 = a * 262144 + c  BY <1>1, <1>2, <1>3, <1>4, <1>5 DEF TristanPacket
  <1>7. (a * 262144 + c) \div 2048 = a * 128  OBVIOUS
  <1>8. (a * 128) % 128 = 0  OBVIOUS
  <1>9. ~IsIdle(p)  BY <1>1, <1>6, <1>7, <1>8 DEF IsIdle
  <1>10. DOMAIN p # {}  BY <1>3 DEF TristanPacket
  <1>11. QED  BY <1>3, <1>9, <1>10 DEF IsData, HasHeader

LEMMA SimulatorPacketsAreData ==
  ASSUME NEW slices \in Nat, NEW k \in DOMAIN SimulatorPackets(slices)
  PROVE  k \in Nat \ {0} /\ IsData(SimulatorPackets(slices)[k].data)
  <1>1. PICK m \in Nat \ {0} : m = SlicePackets["simulator"]  BY SendersAssumption
  <1>2. k \in 1..(slices * m)  BY <1>1 DEF SimulatorPackets, Created
  <1>3. slices * m \in Int  OBVIOUS
  <1>4. k \in Nat \ {0}  BY <1>2, <1>3
  <1>5. PICK slice \in Nat : slice = 1 + ((k - 1) \div m)
    <2>1. (k - 1) \div m \in Nat  BY <1>4
    <2>2. QED  BY <2>1
  <1>6. PICK number \in Nat : number = (k - 1) % m  BY <1>4
  <1>7. PICK time \in Nat : time = (k - 1) * Words
    <2>1. k - 1 \in Nat /\ Words \in Nat  BY <1>4, WordsAssumption
    <2>2. QED  BY <2>1
  <1>8. SimulatorPackets(slices)[k].data = TristanPacket(slice, number, time)
    BY <1>1, <1>2, <1>5, <1>6, <1>7 DEF SimulatorPackets, Created
  <1>9. QED  BY <1>4, <1>8, PacketIsData
-----------------------------------------------------------------------------
(* The packets sent, the threads that count, and the next packet.            *)
LEMMA SendersFacts ==
  /\ IsFiniteSet(Senders) /\ Senders \subseteq Nat /\ NoOne \notin Senders
  /\ IsFiniteSet(Counting) /\ Cardinality(Counting) \in Nat
  <1>1. Ports \in Nat \ {0}  BY SendersAssumption
  <1>2. IsFiniteSet(Senders)  BY <1>1, FS_Interval DEF Senders
  <1>3. Senders \subseteq Nat /\ NoOne \notin Senders  BY <1>1 DEF Senders, NoOne
  <1>4. IsFiniteSet(Counting)  BY <1>2, FS_Subset DEF Counting
  <1>5. QED  BY <1>2, <1>3, <1>4, FS_CardinalityType

DataIn(w) == Cardinality({k \in DOMAIN w : IsData(w[k])})

LEMMA DataInAppend ==
  ASSUME NEW T, NEW w \in Seq(T), NEW d \in T
  PROVE  /\ DataIn(w) \in Nat /\ Append(w, d) \in Seq(T)
         /\ DataIn(Append(w, d)) = DataIn(w) + (IF IsData(d) THEN 1 ELSE 0)
  <1> DEFINE J == {t \in T : IsData(t)}
  <1>1. \A x \in Seq(T) : CountIn(x, J) = DataIn(x)
    <2>1. TAKE x \in Seq(T)
    <2>2. \A k \in DOMAIN x : x[k] \in J <=> IsData(x[k])  OBVIOUS
    <2>3. {k \in DOMAIN x : x[k] \in J} = {k \in DOMAIN x : IsData(x[k])}  BY <2>2
    <2>4. QED  BY <2>3 DEF CountIn, DataIn
  <1>2. d \in J <=> IsData(d)  OBVIOUS
  <1> HIDE DEF J
  <1>3. Append(w, d) \in Seq(T)  OBVIOUS
  <1>4. CountIn(w, J) \in Nat /\ CountIn(Append(w, d), J) = CountIn(w, J) + IF d \in J THEN 1 ELSE 0
    BY CountAppend
  <1>5. QED  BY <1>1, <1>2, <1>3, <1>4

LEMMA FirstIn ==
  ASSUME NEW S \in SUBSET Nat
  PROVE  First(S) \in {0} \cup S
  <1>1. CASE S = {}  BY <1>1 DEF First
  <1>2. CASE S # {}
    <2>1. \E k \in S : \A n \in S : k <= n  BY <1>2, LeastNumber
    <2>2. Min(S) \in S  BY <2>1 DEF Min
    <2>3. QED  BY <1>2, <2>2 DEF First
  <1>3. QED  BY <1>1, <1>2

LEMMA SumIs == \A v : OnAllPorts(v) = SumOf(v, Senders)
  BY Zenon DEF OnAllPorts, SumOf

(* A thread sends a datagram: its port has one more if it is of data.        *)
LEMMA SentMore ==
  ASSUME AllAreData, ThreadTypes, NEW i \in Senders, NEW d \in Datagrams, Transmit(i, d)
  PROVE  /\ wire' \in [Senders -> Seq(Datagrams)] /\ OnAllPorts(DataSent) \in Nat
         /\ OnAllPorts(DataSent') = OnAllPorts(DataSent) + (IF IsData(d) THEN 1 ELSE 0)
  <1>1. wire \in [Senders -> Seq(Datagrams)] /\ wire' = [wire EXCEPT ![i] = Append(@, d)]
    BY DEF ThreadTypes, Transmit
  <1>2. PICK T : T = Datagrams  OBVIOUS
  <1>3. \A j \in Senders : DataIn(wire[j]) \in Nat
    <2>1. TAKE j \in Senders
    <2>2. wire[j] \in Seq(T) /\ d \in T  BY <1>1, <1>2
    <2>3. QED  BY <2>2, DataInAppend
  <1>4. wire[i] \in Seq(T) /\ d \in T  BY <1>1, <1>2
  <1>5. /\ Append(wire[i], d) \in Seq(T)
        /\ DataIn(Append(wire[i], d)) = DataIn(wire[i]) + (IF IsData(d) THEN 1 ELSE 0)
    BY <1>4, DataInAppend
  <1>6. PICK v, w : v = DataSent /\ w = DataSent'  OBVIOUS
  <1>7. \A j \in Senders : v[j] = DataIn(wire[j]) /\ w[j] = DataIn(wire'[j])
    BY <1>6 DEF DataSent, DataIn
  <1>8. PICK e \in {0, 1} : e = IF IsData(d) THEN 1 ELSE 0  OBVIOUS
  <1>9. OneMore(v, w, Senders, i, e)
    <2>1. wire'[i] = Append(wire[i], d) /\ \A j \in Senders \ {i} : wire'[j] = wire[j]  BY <1>1
    <2>2. w[i] = v[i] + e  BY <1>5, <1>7, <1>8, <2>1
    <2>3. \A j \in Senders \ {i} : w[j] = v[j]  BY <1>7, <2>1
    <2>4. QED  BY <1>3, <1>7, <2>2, <2>3 DEF OneMore
  <1>10. SumsMore(v, w, Senders, e)  BY <1>9, SendersFacts, SumOfChange
  <1>11. wire' \in [Senders -> Seq(T)]  BY <1>1, <1>2, <1>5
  <1>12. OnAllPorts(v) \in Nat /\ OnAllPorts(w) = OnAllPorts(v) + e  BY <1>10, SumIs DEF SumsMore
  <1>13. QED  BY <1>2, <1>6, <1>8, <1>11, <1>12

LEMMA CountingAs ==
  ASSUME ThreadTypes, NEW i \in Senders, NEW p, pc' = [pc EXCEPT ![i] = p]
  PROVE  Counting' = IF p \in {"count", "add"} THEN Counting \cup {i} ELSE Counting \ {i}
  <1>1. pc \in [Senders -> Places]  BY DEF ThreadTypes
  <1>2. pc'[i] = p /\ \A j \in Senders \ {i} : pc'[j] = pc[j]  BY <1>1
  <1>3. QED  BY <1>2 DEF Counting

(* Counts and wires stay, and as many threads count.                         *)
LEMMA SumStays ==
  ASSUME UNCHANGED wire
  PROVE  DataSent' = DataSent
  BY DEF DataSent
-----------------------------------------------------------------------------
(* Each step.                                                                *)
Holds == program = "simulator" /\ AllAreData /\ ThreadTypes /\ OneReader /\ CountsSent

LEMMA MineFacts ==
  ASSUME AllAreData, NEW i \in Senders
  PROVE  \A S \in SUBSET Mine(i) : First(S) \in {0} \cup DOMAIN packets
  <1>1. TAKE S \in SUBSET Mine(i)
  <1>2. Mine(i) \subseteq DOMAIN packets  BY DEF Mine
  <1>3. S \in SUBSET Nat  BY <1>2 DEF AllAreData
  <1>4. QED  BY <1>2, <1>3, FirstIn

LEMMA AfterIn ==
  ASSUME AllAreData, NEW i \in Senders
  PROVE  (\A k : After(i, k) \in {0} \cup DOMAIN packets) /\ RestOfSlice(i) \in {0} \cup DOMAIN packets
  <1>1. \A k : {j \in Mine(i) : j > k} \in SUBSET Mine(i)  OBVIOUS
  <1>2. {j \in Mine(i) : j > next[i] /\ packets[j].number # packets[next[i]].number} \in SUBSET Mine(i)
    OBVIOUS
  <1>3. QED  BY <1>1, <1>2, MineFacts DEF After, RestOfSlice

(* Nothing is sent or counted: a thread goes on, or fails.                   *)
GoesOn(i) ==
  /\ UNCHANGED <<program, packets, lock, counter, read, wire>>
  /\ next' \in [Senders -> {0} \cup DOMAIN packets]
  /\ \/ UNCHANGED pc
     \/ pc[i] \notin {"count", "add"} /\ \E p \in Places \ {"count", "add"} : pc' = [pc EXCEPT ![i] = p]

LEMMA GoesOnKeeps ==
  ASSUME Holds, NEW i \in Senders, GoesOn(i)
  PROVE  Holds'
  <1>1. UNCHANGED <<program, packets, lock, counter, read, wire>>  BY DEF GoesOn
  <1>2. AllAreData' /\ Datagrams' = Datagrams  BY <1>1 DEF Holds, AllAreData, Datagrams
  <1>3. pc \in [Senders -> Places]  BY DEF Holds, ThreadTypes
  <1>4. pc' \in [Senders -> Places] /\ \A j \in Senders : pc'[j] = pc[j] \/
            (pc[j] \notin {"count", "add"} /\ pc'[j] \notin {"count", "add"})
    BY <1>3 DEF GoesOn
  <1>5. ThreadTypes'  BY <1>1, <1>2, <1>4 DEF Holds, ThreadTypes, GoesOn
  <1>6. OneReader'  BY <1>1, <1>4 DEF Holds, OneReader
  <1>7. Counting' = Counting  BY <1>4 DEF Counting
  <1>8. DataSent' = DataSent  BY <1>1 DEF DataSent
  <1>9. CountsSent'
    <2>1. CountsSent  BY DEF Holds
    <2>2. QED  BY <1>1, <1>7, <1>8, <2>1 DEF CountsSent
  <1>10. QED  BY <1>1, <1>2, <1>5, <1>6, <1>9 DEF Holds

LEMMA QuietSteps ==
  ASSUME Holds, NEW i \in Senders,
         \/ IdleError(i) \/ NoIdle(i) \/ SimulatorDelay(i) \/ LastData(i) \/ Close(i)
         \/ DataError(i, RestOfSlice(i))
  PROVE  GoesOn(i)
  <1>1. AllAreData /\ next \in [Senders -> {0} \cup DOMAIN packets]  BY DEF Holds, ThreadTypes
  <1>2. CASE IdleError(i)  BY <1>1, <1>2 DEF IdleError, loaded, count, GoesOn
  <1>3. CASE NoIdle(i)  BY <1>1, <1>3 DEF NoIdle, IdlesAfter, loaded, count, GoesOn, Places
  <1>4. CASE SimulatorDelay(i)
    <2>1. /\ pc[i] = "idleBefore" /\ next' = [next EXCEPT ![i] = After(i, 0)]
          /\ \E p \in {"dead", "data"} : pc' = [pc EXCEPT ![i] = p]
          /\ UNCHANGED <<program, packets, lock, counter, read, wire>>
      BY <1>4 DEF SimulatorDelay, Delay, loaded, count
    <2>2. next' \in [Senders -> {0} \cup DOMAIN packets]  BY <1>1, <2>1, AfterIn
    <2>3. QED  BY <2>1, <2>2 DEF GoesOn, Places
  <1>5. CASE LastData(i)  BY <1>1, <1>5 DEF LastData, loaded, count, GoesOn, Places
  <1>6. CASE Close(i)  BY <1>1, <1>6 DEF Close, loaded, count, GoesOn, Places
  <1>7. CASE DataError(i, RestOfSlice(i))
    <2>1. /\ next' = [next EXCEPT ![i] = RestOfSlice(i)]
          /\ UNCHANGED <<program, packets, lock, counter, read, wire, pc>>
      BY <1>7 DEF DataError, loaded, count
    <2>2. next' \in [Senders -> {0} \cup DOMAIN packets]  BY <1>1, <2>1, AfterIn
    <2>3. QED  BY <2>1, <2>2 DEF GoesOn
  <1>8. QED  BY <1>2, <1>3, <1>4, <1>5, <1>6, <1>7

LEMMA SendIdleKeeps ==
  ASSUME Holds, NEW i \in Senders, SendIdle(i)
  PROVE  Holds'
  <1>1. /\ Transmit(i, TristanIdlePacket)
        /\ UNCHANGED <<program, packets, pc, next, lock, counter, read>>
    BY DEF SendIdle, loaded, count
  <1>2. AllAreData /\ ThreadTypes /\ OneReader /\ CountsSent /\ program = "simulator"  BY DEF Holds
  <1>3. AllAreData' /\ Datagrams' = Datagrams  BY <1>1, <1>2 DEF AllAreData, Datagrams
  <1>4. TristanIdlePacket \in Datagrams  BY DEF Datagrams
  <1>5. /\ wire' \in [Senders -> Seq(Datagrams)] /\ OnAllPorts(DataSent) \in Nat
        /\ OnAllPorts(DataSent') = OnAllPorts(DataSent)
    BY <1>1, <1>2, <1>4, SentMore, IdleIsNoData
  <1>6. ThreadTypes'  BY <1>1, <1>2, <1>3, <1>5 DEF ThreadTypes
  <1>7. OneReader'  BY <1>1, <1>2 DEF OneReader
  <1>8. Counting' = Counting  BY <1>1 DEF Counting
  <1>9. CountsSent'  BY <1>1, <1>2, <1>5, <1>8 DEF CountsSent
  <1>10. QED  BY <1>1, <1>2, <1>3, <1>6, <1>7, <1>9 DEF Holds

LEMMA SendDataKeeps ==
  ASSUME Holds, NEW i \in Senders, SendData(i), pc' = [pc EXCEPT ![i] = "count"]
  PROVE  Holds'
  <1>1. /\ pc[i] = "data" /\ next[i] # 0 /\ Transmit(i, packets[next[i]].data)
        /\ next' = [next EXCEPT ![i] = After(i, @)]
        /\ UNCHANGED <<program, packets, lock, counter, read>>
    BY DEF SendData, loaded, count
  <1>2. AllAreData /\ ThreadTypes /\ OneReader /\ CountsSent /\ program = "simulator"  BY DEF Holds
  <1>3. AllAreData' /\ Datagrams' = Datagrams  BY <1>1, <1>2 DEF AllAreData, Datagrams
  <1>4. pc \in [Senders -> Places] /\ next \in [Senders -> {0} \cup DOMAIN packets]
        /\ counter \in Nat /\ read \in [Senders -> Nat]
    BY <1>2 DEF ThreadTypes
  <1>5. next[i] \in DOMAIN packets  BY <1>1, <1>4
  <1>6. packets[next[i]].data \in Datagrams /\ IsData(packets[next[i]].data)
    BY <1>2, <1>5 DEF Datagrams, AllAreData
  <1>7. /\ wire' \in [Senders -> Seq(Datagrams)] /\ OnAllPorts(DataSent) \in Nat
        /\ OnAllPorts(DataSent') = OnAllPorts(DataSent) + 1
    BY <1>1, <1>2, <1>6, SentMore
  <1>8. pc' \in [Senders -> Places]  BY <1>4 DEF Places
  <1>9. next' \in [Senders -> {0} \cup DOMAIN packets]  BY <1>1, <1>2, <1>4, AfterIn
  <1>10. ThreadTypes'  BY <1>1, <1>3, <1>4, <1>7, <1>8, <1>9 DEF ThreadTypes
  <1>11. OneReader'
    <2>1. \A j \in Senders : pc'[j] = "add" => pc[j] = "add"  BY <1>4
    <2>2. QED  BY <1>1, <1>2, <2>1 DEF OneReader
  <1>12. Counting' = Counting \cup {i} /\ i \notin Counting
    <2>1. Counting' = Counting \cup {i}  BY <1>2, CountingAs
    <2>2. QED  BY <1>1, <2>1 DEF Counting
  <1>13. Cardinality(Counting') = Cardinality(Counting) + 1
    <2>1. Cardinality(Counting \cup {i}) = Cardinality(Counting) + 1
      BY <1>12, SendersFacts, FS_AddElement
    <2>2. QED  BY <1>12, <2>1
  <1>14. CountsSent'
    <2>1. counter + Cardinality(Counting) = OnAllPorts(DataSent)  BY <1>2 DEF CountsSent
    <2>2. counter' + Cardinality(Counting') = OnAllPorts(DataSent')
      BY <1>1, <1>4, <1>7, <1>13, <2>1, SendersFacts
    <2>3. QED  BY <2>2 DEF CountsSent
  <1>15. QED  BY <1>1, <1>2, <1>3, <1>10, <1>11, <1>14 DEF Holds

LEMMA ReadCounterKeeps ==
  ASSUME Holds, NEW i \in Senders, ReadCounter(i)
  PROVE  Holds'
  <1>1. /\ pc[i] = "count" /\ lock = NoOne /\ lock' = i
        /\ read' = [read EXCEPT ![i] = counter] /\ pc' = [pc EXCEPT ![i] = "add"]
        /\ UNCHANGED <<program, packets, next, counter, wire>>
    BY DEF ReadCounter, Acquire, loaded
  <1>2. AllAreData /\ ThreadTypes /\ OneReader /\ CountsSent /\ program = "simulator"  BY DEF Holds
  <1>3. AllAreData' /\ Datagrams' = Datagrams  BY <1>1, <1>2 DEF AllAreData, Datagrams
  <1>4. pc \in [Senders -> Places] /\ counter \in Nat /\ read \in [Senders -> Nat]
    BY <1>2 DEF ThreadTypes
  <1>5. pc' \in [Senders -> Places] /\ read' \in [Senders -> Nat]  BY <1>1, <1>4 DEF Places
  <1>6. ThreadTypes'  BY <1>1, <1>2, <1>3, <1>5 DEF ThreadTypes
  <1>7. \A j \in Senders : pc[j] # "add"  BY <1>1, <1>2, SendersFacts DEF OneReader
  <1>8. OneReader'
    <2>1. \A j \in Senders : pc'[j] = "add" => j = i  BY <1>1, <1>4, <1>7
    <2>2. read'[i] = counter'  BY <1>1, <1>4
    <2>3. QED  BY <1>1, <2>1, <2>2 DEF OneReader
  <1>9. Counting' = Counting
    <2>1. Counting' = Counting \cup {i}  BY <1>1, <1>2, CountingAs
    <2>2. QED  BY <1>1, <2>1 DEF Counting
  <1>10. OnAllPorts(DataSent') = OnAllPorts(DataSent)  BY <1>1, SumStays
  <1>11. CountsSent'  BY <1>1, <1>2, <1>9, <1>10 DEF CountsSent
  <1>12. QED  BY <1>1, <1>2, <1>3, <1>6, <1>8, <1>11 DEF Holds

LEMMA WriteCounterKeeps ==
  ASSUME Holds, NEW i \in Senders, WriteCounter(i)
  PROVE  Holds'
  <1>1. /\ pc[i] = "add" /\ counter' = read[i] + 1 /\ pc' = [pc EXCEPT ![i] = "data"]
        /\ UNCHANGED <<program, packets, next, read, wire>>
    BY DEF WriteCounter, loaded
  <1>2. AllAreData /\ ThreadTypes /\ OneReader /\ CountsSent /\ program = "simulator"  BY DEF Holds
  <1>3. AllAreData' /\ Datagrams' = Datagrams  BY <1>1, <1>2 DEF AllAreData, Datagrams
  <1>4. pc \in [Senders -> Places] /\ counter \in Nat /\ read \in [Senders -> Nat]
    BY <1>2 DEF ThreadTypes
  <1>5. lock = i /\ read[i] = counter  BY <1>1, <1>2 DEF OneReader
  <1>6. counter' = counter + 1 /\ counter' \in Nat /\ pc' \in [Senders -> Places]  BY <1>1, <1>4, <1>5 DEF Places
  <1>7. ThreadTypes'  BY <1>1, <1>2, <1>3, <1>6 DEF ThreadTypes
  <1>8. OneReader'
    <2>1. \A j \in Senders : pc'[j] = "add" => j # i /\ pc[j] = "add"  BY <1>1, <1>4
    <2>2. \A j \in Senders : pc'[j] # "add"  BY <1>2, <1>5, <2>1 DEF OneReader
    <2>3. QED  BY <2>2 DEF OneReader
  <1>9. Counting' = Counting \ {i} /\ i \in Counting
    <2>1. Counting' = Counting \ {i}  BY <1>1, <1>2, CountingAs
    <2>2. QED  BY <1>1, <2>1 DEF Counting
  <1>10. Cardinality(Counting') = Cardinality(Counting) - 1
    <2>1. Cardinality(Counting \ {i}) = Cardinality(Counting) - 1
      BY <1>9, SendersFacts, FS_RemoveElement
    <2>2. QED  BY <1>9, <2>1
  <1>11. OnAllPorts(DataSent') = OnAllPorts(DataSent)  BY <1>1, SumStays
  <1>12. CountsSent'
    <2>1. counter + Cardinality(Counting) = OnAllPorts(DataSent)  BY <1>2 DEF CountsSent
    <2>2. counter' + Cardinality(Counting') = counter + Cardinality(Counting)
      BY <1>4, <1>6, <1>10, SendersFacts
    <2>3. counter' + Cardinality(Counting') = OnAllPorts(DataSent')  BY <1>11, <2>1, <2>2
    <2>4. QED  BY <2>3 DEF CountsSent
  <1>13. QED  BY <1>1, <1>2, <1>3, <1>7, <1>8, <1>12 DEF Holds

LEMMA SendKeeps ==
  ASSUME Holds, NEW i \in Senders, Send(i)
  PROVE  Holds'
  <1>0. program = "simulator"  BY DEF Holds
  <1>1. CASE SendIdle(i)  BY <1>1, SendIdleKeeps
  <1>2. CASE IdleError(i) \/ NoIdle(i) \/ SimulatorDelay(i) \/ LastData(i) \/ Close(i)
             \/ DataError(i, RestOfSlice(i))
    BY <1>2, QuietSteps, GoesOnKeeps
  <1>3. CASE SimulatorData(i)
    <2>1. CASE SendData(i) /\ pc' = [pc EXCEPT ![i] = "count"]  BY <2>1, SendDataKeeps
    <2>2. QED  BY <1>2, <1>3, <2>1 DEF SimulatorData
  <1>4. CASE ReadCounter(i)  BY <1>4, ReadCounterKeeps
  <1>5. CASE WriteCounter(i)  BY <1>5, WriteCounterKeeps
  <1>6. CASE \/ GeneratorDelay(i) \/ ReplayDelay(i) \/ ImageReplayDelay(i)
             \/ GeneratorData(i) \/ ReplayData(i) \/ ImageReplayData(i)
             \/ TimepixData(i) \/ TimepixDies(i) \/ TimepixEnds(i)
    BY <1>0, <1>6 DEF GeneratorDelay, ReplayDelay, ImageReplayDelay, GeneratorData, ReplayData,
         ImageReplayData, TimepixData, TimepixDies, TimepixEnds
  <1>7. QED  BY <1>1, <1>2, <1>3, <1>4, <1>5, <1>6 DEF Send

LEMMA StartKeeps ==
  ASSUME Holds, send_packets
  PROVE  Holds'
  <1>1. /\ Loading /\ pc' = ForAll("idleBefore")
        /\ UNCHANGED <<program, packets, next, lock, counter, read, wire>>
    BY DEF send_packets, loaded, count
  <1>2. AllAreData' /\ Datagrams' = Datagrams  BY <1>1 DEF Holds, AllAreData, Datagrams
  <1>3. pc' \in [Senders -> Places] /\ \A j \in Senders : pc'[j] = "idleBefore" /\ pc[j] = "loading"
    BY <1>1 DEF ForAll, Loading, Places
  <1>4. ThreadTypes'  BY <1>1, <1>2, <1>3 DEF Holds, ThreadTypes
  <1>5. OneReader'  BY <1>3 DEF OneReader
  <1>6. Counting' = Counting  BY <1>3 DEF Counting
  <1>7. OnAllPorts(DataSent') = OnAllPorts(DataSent)  BY <1>1, SumStays
  <1>8. CountsSent /\ program = "simulator"  BY DEF Holds
  <1>9. CountsSent'  BY <1>1, <1>6, <1>7, <1>8 DEF CountsSent
  <1>10. QED  BY <1>1, <1>2, <1>4, <1>5, <1>8, <1>9 DEF Holds

LEMMA StutterKeeps ==
  ASSUME Holds, UNCHANGED vars
  PROVE  Holds'
  <1>1. UNCHANGED <<program, packets, pc, next, lock, counter, read, wire>>
    BY DEF vars, loaded, thread, count
  <1>2. PICK i \in Senders : TRUE
    <2>1. 0 \in Senders  BY SendersAssumption DEF Senders
    <2>2. QED  BY <2>1
  <1>3. GoesOn(i)  BY <1>1 DEF GoesOn, Holds, ThreadTypes
  <1>4. QED  BY <1>3, GoesOnKeeps

LEMMA SimulatorInit ==
  ASSUME Init
  PROVE  SimulatorInv
  <1>1. SUFFICES ASSUME program = "simulator" PROVE AllAreData /\ ThreadTypes /\ OneReader /\ CountsSent
    BY DEF SimulatorInv
  <1>2. PICK n \in 0..MaxSlices : packets = SimulatorPackets(n)  BY <1>1 DEF Init
  <1>3. /\ pc = ForAll("idleBefore") /\ next = ForAll(0) /\ counter = 0 /\ read = ForAll(0)
        /\ wire = ForAll(<<>>)
    BY <1>1 DEF Init
  <1>4. n \in Nat  BY SendersAssumption
  <1>5. AllAreData
    <2>1. \A k \in DOMAIN SimulatorPackets(n) : k \in Nat \ {0} /\ IsData(SimulatorPackets(n)[k].data)
      BY <1>4, SimulatorPacketsAreData
    <2>2. QED  BY <1>2, <2>1 DEF AllAreData
  <1>6. ThreadTypes  BY <1>3 DEF ThreadTypes, ForAll, Places
  <1>7. \A i \in Senders : pc[i] = "idleBefore" /\ wire[i] = <<>>  BY <1>3 DEF ForAll
  <1>8. OneReader  BY <1>7 DEF OneReader
  <1>9. Cardinality(Counting) = 0
    <2>1. Counting = {}  BY <1>7 DEF Counting
    <2>2. QED  BY <2>1, FS_EmptySet
  <1>10. OnAllPorts(DataSent) = 0
    <2>1. \A i \in Senders : DataSent[i] = 0
      <3>1. TAKE i \in Senders
      <3>2. {k \in DOMAIN wire[i] : IsData(wire[i][k])} = {}  BY <1>7
      <3>3. DataSent[i] = Cardinality({})  BY <3>2 DEF DataSent
      <3>4. QED  BY <3>3, FS_EmptySet
    <2>2. PICK v : v = DataSent  OBVIOUS
    <2>3. \A i \in Senders : v[i] \in Nat /\ v[i] <= 0  BY <2>1, <2>2
    <2>4. SumOf(v, Senders) <= Cardinality(Senders) * 0  BY <2>3, SendersFacts, SumOfAtMost
    <2>5. SumOf(v, Senders) \in Nat  BY <2>3, SendersFacts, SumOfRemove
    <2>6. Cardinality(Senders) * 0 = 0  BY SendersFacts, FS_CardinalityType
    <2>7. SumOf(v, Senders) = 0  BY <2>4, <2>5, <2>6
    <2>8. QED  BY <2>2, <2>7, SumIs
  <1>11. CountsSent  BY <1>3, <1>9, <1>10 DEF CountsSent
  <1>12. QED  BY <1>5, <1>6, <1>8, <1>11

(* The simulator's counter lacks just the packets that are sent and being    *)
(* counted (increment_packets_sent): none is counted twice or forgotten.     *)
THEOREM AllAreCounted == Spec => []CountsSent
  <1>1. Init => SimulatorInv  BY SimulatorInit
  <1>2. SimulatorInv /\ [Next]_vars => SimulatorInv'
    <2>1. SUFFICES ASSUME SimulatorInv, [Next]_vars, program' = "simulator" PROVE Holds'
      BY DEF SimulatorInv, Holds
    <2>2. program = "simulator"
      <3>1. CASE Next
        BY <2>1, <3>1 DEF Next, send_packets, Replay, load_pcap, load_image_pcap, Load, Send,
             SendIdle, IdleError, NoIdle, SimulatorDelay, GeneratorDelay, ReplayDelay,
             ImageReplayDelay, Delay, SimulatorData, GeneratorData, ReplayData, ImageReplayData,
             SendData, DataError, TimepixData, TimepixDies, TimepixEnds, ReadCounter,
             WriteCounter, LastData, Close
      <3>2. CASE UNCHANGED vars  BY <2>1, <3>2 DEF vars
      <3>3. QED  BY <2>1, <3>1, <3>2
    <2>3. Holds  BY <2>1, <2>2 DEF SimulatorInv, Holds
    <2>4. CASE send_packets  BY <2>3, <2>4, StartKeeps
    <2>5. CASE Replay  BY <2>1, <2>5 DEF Replay
    <2>6. ASSUME NEW i \in Senders, load_pcap(i) \/ load_image_pcap(i) PROVE FALSE
      BY <2>2, <2>6 DEF load_pcap, load_image_pcap
    <2>7. ASSUME NEW i \in Senders, Send(i) PROVE Holds'  BY <2>3, <2>7, SendKeeps
    <2>8. CASE UNCHANGED vars  BY <2>3, <2>8, StutterKeeps
    <2>9. QED  BY <2>1, <2>4, <2>5, <2>6, <2>7, <2>8 DEF Next
  <1>3. SimulatorInv => CountsSent  BY DEF SimulatorInv, CountsSent
  <1>4. QED  BY <1>1, <1>2, <1>3, PTL DEF Spec
=============================================================================
