------------------------- MODULE WorkerPoolProofs -------------------------
(***************************************************************************)
(* Proofs about WorkerPool, for any number of packets, threads and frames: *)
(* a job object has one user at a time, every packet of a gathered frame   *)
(* is at its place, and no worker reads a frame that was gathered.         *)
(*                                                                         *)
(* The loop of the dispatching thread only counts.  That a count of        *)
(* NumPackets means that no job is under way is shown with two disjoint    *)
(* sets of packets: those dropped and those gathered.  A job under way     *)
(* belongs to a packet in neither.                                         *)
(***************************************************************************)
EXTENDS WorkerPool, FiniteSetTheorems, SequenceTheorems, TLAPS

(* A job under way to or from the workers.                                   *)
Flight(o) == InSeq(o, jobQueue) \/ InSeq(o, resultsQueue) \/ Decoding(o)

(* OneUser, user by user.                                                    *)
Apart ==
  \A o \in Created :
    /\ InSeq(o, stack) => ~Flight(o) /\ ~Gathered(o) /\ o \notin held
    /\ Flight(o) => ~Gathered(o) /\ o \notin held
    /\ Gathered(o) => o \notin held
    /\ InSeq(o, jobQueue) => ~InSeq(o, resultsQueue) /\ ~Decoding(o)
    /\ InSeq(o, resultsQueue) => ~Decoding(o)
NoneTwice ==
  /\ Once(stack) /\ Once(jobQueue) /\ Once(resultsQueue)
  /\ \A t, u \in Workers : working[t] = working[u] /\ working[t] # None => t = u

(* A job under way is for an event packet of this frame that was dispatched  *)
(* and not gathered yet, and for no other job's packet.                      *)
Flying ==
  \A o \in Created : Flight(o) =>
    /\ pc \in {"dispatch", "gather"}
    /\ job[o].id \in 1..index-1
    /\ frame[job[o].id] = "event" /\ completed[job[o].id] = None
    /\ job[o].data = <<frameNo, job[o].id>>
FlyingApart ==
  \A o, q \in Created : Flight(o) /\ Flight(q) /\ job[o].id = job[q].id => o = q
Decoded == \A o \in Created : InSeq(o, resultsQueue) => job[o].results = job[o].data

(* What the two counters of the gathering loop count.                        *)
NoJob == {p \in 1..index-1 : frame[p] # "event"}
Done == {p \in Packets : completed[p] # None}
Counted == dropped = Cardinality(NoJob) /\ processed = Cardinality(Done)

Placed ==
  pc \in {"dispatch", "gather", "store"} =>
    \A p \in Packets : completed[p] # None =>
      /\ frame[p] = "event"
      /\ job[completed[p]].id = p /\ job[completed[p]].results = <<frameNo, p>>
Positions ==
  /\ pc = "dispatch" => \A p \in Packets : completed[p] = None
  /\ pc \in {"gather", "store"} => index = NumPackets + 1
  /\ pc = "store" => \A p \in Packets : frame[p] = "event" => completed[p] # None
  /\ pc # "idle" => frameNo # 0

IInv ==
  /\ TypeOK /\ Apart /\ NoneTwice /\ Flying /\ FlyingApart /\ Decoded
  /\ Counted /\ Placed /\ Positions
-----------------------------------------------------------------------------
(* Sequences as queues and stacks.                                           *)

LEMMA AppendOne ==
  ASSUME NEW S, NEW s \in Seq(S), NEW o \in S
  PROVE  /\ \A q : InSeq(q, Append(s, o)) <=> InSeq(q, s) \/ q = o
         /\ Once(s) /\ ~InSeq(o, s) => Once(Append(s, o))
         /\ Append(s, o) \in Seq(S)
  <1>1. Append(s, o) \in Seq(S) /\ Len(Append(s, o)) = Len(s) + 1 /\ Append(s, o)[Len(s) + 1] = o
    OBVIOUS
  <1>2. \A i \in 1..Len(s) : Append(s, o)[i] = s[i]  OBVIOUS
  <1>3. DOMAIN s = 1..Len(s) /\ DOMAIN Append(s, o) = 1..Len(s) + 1 /\ Len(s) \in Nat  BY <1>1
  <1>4. ASSUME NEW q  PROVE InSeq(q, Append(s, o)) <=> InSeq(q, s) \/ q = o
    <2>1. \A i \in 1..Len(s) + 1 : i = Len(s) + 1 \/ i \in 1..Len(s)  BY <1>3
    <2>2. QED  BY <1>1, <1>2, <1>3, <2>1 DEF InSeq
  <1>5. Once(s) /\ ~InSeq(o, s) => Once(Append(s, o))
    <2>1. \A i \in 1..Len(s) + 1 : i = Len(s) + 1 \/ i \in 1..Len(s)  BY <1>3
    <2>2. QED  BY <1>1, <1>2, <1>3, <2>1 DEF InSeq, Once
  <1>6. QED  BY <1>1, <1>4, <1>5

LEMMA HeadTail ==
  ASSUME NEW S, NEW s \in Seq(S), s # <<>>
  PROVE  /\ Head(s) \in S /\ Tail(s) \in Seq(S) /\ InSeq(Head(s), s)
         /\ \A q : InSeq(q, s) <=> InSeq(q, Tail(s)) \/ q = Head(s)
         /\ Once(s) => Once(Tail(s)) /\ ~InSeq(Head(s), Tail(s))
  <1>1. /\ Len(s) \in Nat \ {0} /\ DOMAIN s = 1..Len(s) /\ Head(s) = s[1]
        /\ Tail(s) \in Seq(S) /\ Len(Tail(s)) = Len(s) - 1 /\ DOMAIN Tail(s) = 1..Len(s) - 1
    OBVIOUS
  <1>2. \A i \in 1..Len(s) - 1 : Tail(s)[i] = s[i + 1] /\ i + 1 \in 1..Len(s)  BY <1>1
  <1>3. \A i \in 1..Len(s) : i = 1 \/ (i - 1 \in 1..Len(s) - 1 /\ (i - 1) + 1 = i)  BY <1>1
  <1>4. Head(s) \in S /\ InSeq(Head(s), s)  BY <1>1 DEF InSeq
  <1>5. ASSUME NEW q  PROVE InSeq(q, s) <=> InSeq(q, Tail(s)) \/ q = Head(s)
    <2>1. ASSUME NEW i \in 1..Len(s), s[i] = q, i # 1  PROVE InSeq(q, Tail(s))
      <3>1. i - 1 \in 1..Len(s) - 1 /\ (i - 1) + 1 = i  BY <2>1, <1>3
      <3>2. Tail(s)[i - 1] = q  BY <3>1, <2>1, <1>2
      <3>3. QED  BY <3>1, <3>2, <1>1 DEF InSeq
    <2>2. InSeq(q, Tail(s)) => InSeq(q, s)  BY <1>1, <1>2 DEF InSeq
    <2>3. QED  BY <2>1, <2>2, <1>1, <1>4 DEF InSeq
  <1>6. Once(s) => Once(Tail(s)) /\ ~InSeq(Head(s), Tail(s))
    BY <1>1, <1>2, SMTT(30) DEF InSeq, Once
  <1>7. QED  BY <1>1, <1>4, <1>5, <1>6

LEMMA LastFront ==
  ASSUME NEW S, NEW s \in Seq(S), s # <<>>,
         NEW f, f = SubSeq(s, 1, Len(s) - 1)
  PROVE  /\ s[Len(s)] \in S /\ f \in Seq(S) /\ InSeq(s[Len(s)], s)
         /\ \A q : InSeq(q, f) => InSeq(q, s)
         /\ Once(s) => Once(f) /\ ~InSeq(s[Len(s)], f)
  <1>1. Len(s) \in Nat \ {0} /\ DOMAIN s = 1..Len(s) /\ s \in [1..Len(s) -> S]  OBVIOUS
  <1>2. \A i \in 1..Len(s) - 1 : i \in 1..Len(s) /\ i # Len(s)
    <2>1. Len(s) \in Nat  BY <1>1
    <2>2. QED  BY <2>1
  <1>3. \A i \in 1..Len(s) - 1 : s[i] \in S  BY <1>1, <1>2
  <1>4. /\ f \in Seq(S) /\ Len(f) = Len(s) - 1
        /\ \A i \in 1..Len(s) - 1 : f[i] = s[i]
    <2>1. \A i \in 1..(Len(s) - 1) - 1 + 1 : f[i] = s[1 + i - 1]  BY <1>1, <1>3, SubSeqProperties
    <2>2. Len(f) = IF 1 <= Len(s) - 1 THEN (Len(s) - 1) - 1 + 1 ELSE 0  BY <1>1, <1>3, SubSeqProperties
    <2>3. f \in Seq(S)  BY <1>1, <1>3, SubSeqProperties
    <2>4. QED  BY <1>1, <2>1, <2>2, <2>3
  <1>5. DOMAIN f = 1..Len(s) - 1  BY <1>4
  <1>6. s[Len(s)] \in S /\ InSeq(s[Len(s)], s)  BY <1>1 DEF InSeq
  <1>7. \A q : InSeq(q, f) => InSeq(q, s)  BY <1>1, <1>2, <1>4, <1>5 DEF InSeq
  <1>8. Once(s) => Once(f) /\ ~InSeq(s[Len(s)], f)
    <2>1. Len(s) \in DOMAIN s  BY <1>1
    <2>2. QED  BY <2>1, <1>1, <1>2, <1>4, <1>5 DEF InSeq, Once
  <1>9. QED  BY <1>4, <1>6, <1>7, <1>8

LEMMA SeqElement ==
  ASSUME NEW S, NEW s \in Seq(S), NEW o, InSeq(o, s)
  PROVE  o \in S /\ s # <<>>
  BY DEF InSeq

LEMMA NothingIn ==
  ASSUME NEW s, s = <<>>
  PROVE  DOMAIN s = {} /\ \A o : ~InSeq(o, s)
  <1>1. s \in Seq({}) /\ Len(s) = 0  OBVIOUS
  <1>2. DOMAIN s = 1..Len(s)  BY <1>1
  <1>3. DOMAIN s = {}  BY <1>1, <1>2
  <1>4. QED  BY <1>3 DEF InSeq
-----------------------------------------------------------------------------
LEMMA Sizes == NumPackets \in Nat \ {0} /\ IsFiniteSet(Packets) /\ Cardinality(Packets) = NumPackets
  BY PacketsAssumption, FS_Interval DEF Packets

LEMMA NoneIsNoJob ==
  ASSUME TypeOK
  PROVE  None \notin Created
  BY FS_CardinalityType DEF TypeOK, None

LEMMA CountedFinite ==
  ASSUME TypeOK
  PROVE  /\ IsFiniteSet(NoJob) /\ NoJob \subseteq Packets
         /\ IsFiniteSet(Done) /\ Done \subseteq Packets
  <1>1. NoJob \subseteq Packets  BY Sizes DEF NoJob, TypeOK, Packets
  <1>2. Done \subseteq Packets  BY DEF Done
  <1>3. QED  BY <1>1, <1>2, Sizes, FS_Subset

(* When the counters add up to the packets of the frame, every packet was    *)
(* dropped or gathered, and no job is under way.                             *)
LEMMA AllGathered ==
  ASSUME IInv, pc = "gather", ~Waiting
  PROVE  /\ \A p \in Packets : frame[p] = "event" => completed[p] # None
         /\ \A o \in Created : ~Flight(o)
  <1>1. NoJob \cap Done = {}  BY DEF IInv, Placed, NoJob, Done
  <1>2. IsFiniteSet(NoJob) /\ IsFiniteSet(Done) /\ NoJob \subseteq Packets /\ Done \subseteq Packets
    BY CountedFinite DEF IInv
  <1>3. Cardinality(NoJob \cup Done) = Cardinality(NoJob) + Cardinality(Done)
    <2>1. Cardinality(NoJob \cup Done) =
            Cardinality(NoJob) + Cardinality(Done) - Cardinality(NoJob \cap Done)
      BY <1>2, FS_Union
    <2>2. Cardinality(NoJob \cap Done) = 0  BY <1>1, FS_EmptySet
    <2>3. Cardinality(NoJob) \in Nat /\ Cardinality(Done) \in Nat  BY <1>2, FS_CardinalityType
    <2>4. QED  BY <2>1, <2>2, <2>3
  <1>4. Cardinality(NoJob \cup Done) >= NumPackets
    BY <1>3, Sizes DEF IInv, Counted, Waiting, TypeOK
  <1>5. NoJob \cup Done = Packets
    <2>1. NoJob \cup Done \in SUBSET Packets  BY <1>2
    <2>2. Cardinality(NoJob \cup Done) <= NumPackets /\ Cardinality(NoJob \cup Done) \in Nat
      BY <2>1, Sizes, FS_Subset, FS_CardinalityType
    <2>3. QED  BY <2>1, <2>2, <1>4, Sizes, FS_Subset
  <1>6. \A p \in Packets : frame[p] = "event" => completed[p] # None  BY <1>5 DEF NoJob, Done
  <1>7. ASSUME NEW o \in Created, Flight(o)  PROVE FALSE
    <2>1. job[o].id \in Packets /\ frame[job[o].id] = "event" /\ completed[job[o].id] = None
      BY <1>7, Sizes DEF IInv, Flying, Positions, Packets, TypeOK
    <2>2. QED  BY <2>1, <1>6
  <1>8. QED  BY <1>6, <1>7
-----------------------------------------------------------------------------
(* The steps.                                                                *)

LEMMA InitInv == Init => IInv
  <1> SUFFICES ASSUME Init PROVE IInv  OBVIOUS
  <1>1. Created = 1..InitialJobs /\ IsFiniteSet(Created) /\ Cardinality(Created) = InitialJobs
    BY JobsAssumption, FS_Interval DEF Init, Created
  <1>2. \A o : ~InSeq(o, jobQueue) /\ ~InSeq(o, resultsQueue)  BY NothingIn DEF Init
  <1>3. \A o \in Created : ~Decoding(o) /\ ~Gathered(o)  BY <1>1, JobsAssumption DEF Init, Decoding, Gathered, None
  <1>4. TypeOK
    <2>1. stack \in Seq(Created) /\ DOMAIN stack = 1..InitialJobs  BY <1>1, JobsAssumption DEF Init
    <2>2. \A i \in DOMAIN stack : job[stack[i]] = Blank  BY <2>1, <1>1 DEF Init
    <2>3. job \in [Created -> [id : {None} \cup Packets, data : Data, results : Data]]
      BY <1>1 DEF Init, Blank, Data
    <2>4. QED  BY <1>1, <2>1, <2>2, <2>3, Sizes, FramesAssumption DEF Init, TypeOK, Kinds
  <1>5. NoneTwice
    <2>1. Once(stack)  BY JobsAssumption DEF Init, Once
    <2>2. QED  BY <2>1 DEF NoneTwice, Once, Init
  <1>6. Counted
    <2>1. NoJob = {}  BY DEF NoJob, Init
    <2>2. Done = {}  BY DEF Done, Init
    <2>3. QED  BY <2>1, <2>2, FS_EmptySet DEF Counted, Init
  <1>7. Apart /\ Flying /\ FlyingApart /\ Decoded
    BY <1>2, <1>3 DEF Apart, Flying, FlyingApart, Decoded, Flight, Init
  <1>8. Placed /\ Positions  BY DEF Placed, Positions, Init
  <1>9. QED  BY <1>4, <1>5, <1>6, <1>7, <1>8 DEF IInv

LEMMA StartFrameStep ==
  ASSUME IInv, StartFrame
  PROVE  IInv'
  <1> USE DEF StartFrame, queues
  <1>1. TypeOK'
    BY FramesAssumption, Sizes DEF IInv, TypeOK, Packets, Created, Blank
  <1>2. \A o \in Created : ~Flight(o) /\ ~Flight(o)'  BY DEF IInv, Flying, Flight, InSeq, Decoding, Created
  <1>3. \A o \in Created : ~Gathered(o)'  BY NoneIsNoJob DEF Gathered, Created, IInv
  <1>4. Apart' /\ NoneTwice' /\ Flying' /\ FlyingApart' /\ Decoded'
    BY <1>2, <1>3 DEF IInv, Apart, NoneTwice, Flying, FlyingApart, Decoded, Flight, InSeq, Once, Created, Decoding
  <1>5. Counted'
    <2>1. NoJob' = {}  BY DEF NoJob
    <2>2. Done' = {}  BY DEF Done
    <2>3. QED  BY <2>1, <2>2, FS_EmptySet DEF Counted
  <1>6. Placed' /\ Positions'  BY FramesAssumption DEF Placed, Positions, IInv, TypeOK
  <1>7. QED  BY <1>1, <1>4, <1>5, <1>6 DEF IInv

LEMMA DropPacketStep ==
  ASSUME IInv, DropPacket
  PROVE  IInv'
  <1> USE DEF DropPacket, queues
  <1>1. dropped' = dropped + 1 /\ index \in Nat /\ index' = index + 1
    BY DEF IsDropped, IInv, TypeOK
  <1>2. TypeOK'  BY <1>1, Sizes, SMTT(30) DEF IInv, TypeOK, Packets, Created, Blank
  <1>3. /\ Created' = Created /\ \A o : Flight(o)' <=> Flight(o)
        /\ \A o : Gathered(o)' <=> Gathered(o)
    BY DEF Created, Flight, InSeq, Decoding, Gathered
  <1>4. 1..index-1 \subseteq 1..index'-1  BY <1>1
  <1>5. Apart' /\ NoneTwice' /\ FlyingApart' /\ Decoded'
    BY <1>3 DEF IInv, Apart, NoneTwice, FlyingApart, Decoded, Once, InSeq, Decoding, Created
  <1>6. Flying'  BY <1>3, <1>4 DEF IInv, Flying
  <1>7. Counted'
    <2>1. NoJob' = NoJob \cup {index} /\ index \notin NoJob  BY <1>1, Sizes DEF NoJob, Packets
    <2>2. Done' = Done  BY DEF Done
    <2>3. QED  BY <1>1, <2>1, <2>2, CountedFinite, FS_AddElement DEF IInv, Counted
  <1>8. Placed' /\ Positions'  BY DEF IInv, Placed, Positions
  <1>9. QED  BY <1>2, <1>5, <1>6, <1>7, <1>8 DEF IInv

LEMMA DispatchJobStep ==
  ASSUME IInv, DispatchJob
  PROVE  IInv'
  <1> DEFINE h == NextJob
  <1> USE DEF DispatchJob, gathering
  <1>1. /\ h # None /\ ~Flight(h) /\ ~Gathered(h) /\ h \notin held
        /\ Created' = Created \cup {h}
        /\ IsFiniteSet(Created') /\ Created' = 1..Cardinality(Created')
        /\ stack' \in Seq(Created) /\ Once(stack') /\ ~InSeq(h, stack')
        /\ \A o : InSeq(o, stack') => InSeq(o, stack)
        /\ \A o : Flight(o) \/ Gathered(o) \/ o \in held => o \in Created \/ o = None
    <2>1. Created' = Created \cup {h}  BY DEF Created
    <2>2. \A o : Flight(o) \/ Gathered(o) \/ o \in held => o \in Created \/ o = None
      BY SeqElement DEF IInv, TypeOK, Flight, Decoding, Gathered
    <2>3. CASE stack = <<>>
      <3>1. h = Cardinality(Created) + 1 /\ Cardinality(Created) \in Nat /\ Created = 1..Cardinality(Created)
        BY <2>3, FS_CardinalityType DEF NextJob, IInv, TypeOK
      <3>2. h \notin Created /\ h # None  BY <3>1 DEF None
      <3>3. IsFiniteSet(Created') /\ Cardinality(Created') = Cardinality(Created) + 1
        BY <2>1, <3>2, FS_AddElement DEF IInv, TypeOK
      <3>4. Created' = 1..Cardinality(Created')
        <4>1. Created' = (1..Cardinality(Created)) \cup {Cardinality(Created) + 1}  BY <2>1, <3>1
        <4>2. QED  BY <4>1, <3>1, <3>3
      <3>5. stack' = stack  BY <2>3 DEF StackPopped
      <3>6. ~InSeq(h, stack)  BY <2>3, NothingIn
      <3>7. QED  BY <2>1, <2>2, <3>2, <3>3, <3>4, <3>5, <3>6 DEF IInv, TypeOK, NoneTwice
    <2>4. CASE stack # <<>>
      <3>1. h = stack[Len(stack)] /\ stack' = SubSeq(stack, 1, Len(stack) - 1) /\ stack \in Seq(Created)
        BY <2>4 DEF NextJob, StackPopped, IInv, TypeOK
      <3>2. /\ h \in Created /\ InSeq(h, stack) /\ stack' \in Seq(Created)
            /\ Once(stack') /\ ~InSeq(h, stack')
            /\ \A o : InSeq(o, stack') => InSeq(o, stack)
        BY <2>4, <3>1, LastFront DEF IInv, NoneTwice
      <3>3. Created' = Created  BY <2>1, <3>2
      <3>4. h # None  BY <3>2, FS_CardinalityType DEF IInv, TypeOK, None
      <3>5. QED  BY <2>1, <2>2, <3>2, <3>3, <3>4 DEF IInv, TypeOK, Apart
    <2>5. QED  BY <2>3, <2>4
  <1>2. /\ jobQueue' \in Seq(Created') /\ Once(jobQueue')
        /\ \A o : InSeq(o, jobQueue') <=> InSeq(o, jobQueue) \/ o = h
    <2>1. jobQueue \in Seq(Created') /\ h \in Created'  BY <1>1 DEF IInv, TypeOK
    <2>2. QED  BY <1>1, <2>1, AppendOne DEF IInv, NoneTwice, Flight
  <1>3. /\ job'[h] = [id |-> index, data |-> <<frameNo, index>>, results |-> NoData]
        /\ \A o \in Created \ {h} : job'[o] = job[o]
    BY DEF Created
  <1>4. /\ \A o : Flight(o)' <=> Flight(o) \/ o = h
        /\ \A o : Gathered(o)' <=> Gathered(o)
        /\ \A o : InSeq(o, resultsQueue)' <=> InSeq(o, resultsQueue)
        /\ \A o : Decoding(o)' <=> Decoding(o)
    BY <1>2 DEF Flight, Gathered, Decoding, InSeq
  <1>5. index \in Nat /\ index' = index + 1 /\ index \in Packets  BY DEF IInv, TypeOK
  <1>6. TypeOK'
    <2>1. \A i \in DOMAIN stack' : job'[stack'[i]] = Blank
      <3>1. TAKE i \in DOMAIN stack'
      <3>2. stack'[i] \in Created  BY <1>1
      <3>3. InSeq(stack'[i], stack')  BY DEF InSeq
      <3>4. stack'[i] # h /\ InSeq(stack'[i], stack)  BY <3>3, <1>1
      <3>5. job[stack'[i]] = Blank  BY <3>4 DEF IInv, TypeOK, InSeq
      <3>6. QED  BY <3>2, <3>4, <3>5, <1>3
    <2>2. job' \in [Created' -> [id : {None} \cup Packets, data : Data, results : Data]]
      <3>1. frameNo \in 1..MaxFrames  BY FramesAssumption DEF IInv, TypeOK, Positions
      <3>2. QED  BY <1>1, <1>3, <1>5, <3>1 DEF IInv, TypeOK, Data
    <2>3. stack' \in Seq(Created') /\ resultsQueue' \in Seq(Created')  BY <1>1 DEF IInv, TypeOK
    <2>4. completed' \in [Packets -> {None} \cup Created'] /\ working' \in [Workers -> {None} \cup Created']
      BY <1>1 DEF IInv, TypeOK
    <2>5. index' \in 1..NumPackets + 1  BY <1>5, Sizes DEF Packets
    <2>6. QED  BY <1>1, <1>2, <2>1, <2>2, <2>3, <2>4, <2>5 DEF IInv, TypeOK
  <1>7. Apart'
    <2>1. \A o : InSeq(o, stack)' <=> InSeq(o, stack')  BY DEF InSeq
    <2>2. \A o : InSeq(o, jobQueue)' <=> InSeq(o, jobQueue')  BY DEF InSeq
    <2>3. QED  BY <1>1, <1>2, <1>4, <2>1, <2>2 DEF IInv, Apart, Flight
  <1>8. NoneTwice'  BY <1>1, <1>2 DEF IInv, NoneTwice, Once
  <1>9. Flying'
    <2>1. 1..index-1 \subseteq 1..index'-1 /\ index \in 1..index'-1  BY <1>5, Sizes DEF Packets
    <2>2. completed[index] = None  BY <1>5 DEF IInv, Positions
    <2>3. QED  BY <1>1, <1>3, <1>4, <2>1, <2>2 DEF IInv, Flying
  <1>10. FlyingApart'
    <2>1. index \notin 1..index-1  BY <1>5
    <2>2. QED  BY <1>1, <1>3, <1>4, <2>1 DEF IInv, Flying, FlyingApart
  <1>11. Decoded'  BY <1>1, <1>3, <1>4 DEF IInv, Decoded, Flight
  <1>12. Counted'
    <2>1. NoJob' = NoJob  BY <1>5, Sizes DEF NoJob, Packets
    <2>2. Done' = Done  BY DEF Done
    <2>3. QED  BY <2>1, <2>2 DEF IInv, Counted
  <1>13. Placed' /\ Positions'  BY DEF IInv, Placed, Positions
  <1>14. QED  BY <1>6, <1>7, <1>8, <1>9, <1>10, <1>11, <1>12, <1>13 DEF IInv

LEMMA EndDispatchStep ==
  ASSUME IInv, EndDispatch
  PROVE  IInv'
  <1> USE DEF EndDispatch, gathering, queues
  <1>1. /\ Created' = Created /\ \A o : Flight(o)' <=> Flight(o)
        /\ \A o : Gathered(o)' <=> Gathered(o)
    BY DEF Created, Flight, InSeq, Decoding, Gathered
  <1>2. TypeOK'  BY DEF IInv, TypeOK, Created, Blank
  <1>3. Apart' /\ NoneTwice' /\ Flying' /\ FlyingApart' /\ Decoded'
    BY <1>1 DEF IInv, Apart, NoneTwice, Flying, FlyingApart, Decoded, Once, InSeq, Decoding, Created
  <1>4. Counted'  BY DEF IInv, Counted, NoJob, Done
  <1>5. index = NumPackets + 1  BY Sizes DEF IInv, TypeOK
  <1>6. Placed' /\ Positions'  BY <1>5 DEF IInv, Placed, Positions
  <1>7. QED  BY <1>2, <1>3, <1>4, <1>6 DEF IInv

LEMMA GatherJobStep ==
  ASSUME IInv, GatherJob
  PROVE  IInv'
  <1> DEFINE h == Head(resultsQueue)
             q == job[h].id
  <1> USE DEF GatherJob
  <1>1. /\ h \in Created /\ InSeq(h, resultsQueue) /\ resultsQueue' \in Seq(Created)
        /\ \A o : InSeq(o, resultsQueue) <=> InSeq(o, resultsQueue') \/ o = h
        /\ Once(resultsQueue') /\ ~InSeq(h, resultsQueue')
    BY HeadTail DEF IInv, TypeOK, NoneTwice
  <1>2. /\ q \in 1..index-1 /\ frame[q] = "event" /\ completed[q] = None
        /\ job[h].data = <<frameNo, q>> /\ job[h].results = job[h].data
    BY <1>1 DEF IInv, Flying, Decoded, Flight
  <1>3. index = NumPackets + 1 /\ q \in Packets  BY <1>2, Sizes DEF IInv, Positions, Packets
  <1>4. h # None  BY <1>1, NoneIsNoJob DEF IInv
  <1>5. completed' = [completed EXCEPT ![q] = h] /\ completed \in [Packets -> {None} \cup Created]
    BY DEF PlaceOf, IInv, TypeOK
  <1>6. completed'[q] = h /\ \A p \in Packets \ {q} : completed'[p] = completed[p]
    BY <1>3, <1>5
  <1>7. /\ Created' = Created
        /\ \A o : Decoding(o)' <=> Decoding(o)
        /\ \A o : InSeq(o, jobQueue)' <=> InSeq(o, jobQueue)
        /\ \A o : InSeq(o, stack)' <=> InSeq(o, stack)
    BY DEF Created, InSeq, Decoding
  <1>8. ~InSeq(h, jobQueue) /\ ~Decoding(h) /\ ~Gathered(h) /\ h \notin held /\ ~InSeq(h, stack)
    BY <1>1 DEF IInv, Apart, Flight
  <1>9. \A o : Flight(o)' <=> Flight(o) /\ o # h
    BY <1>1, <1>7, <1>8, ZenonT(30) DEF Flight, InSeq
  <1>10. \A o \in Created : Gathered(o)' <=> Gathered(o) \/ o = h
    <2>1. \A o \in Created : o # None  BY NoneIsNoJob DEF IInv
    <2>2. QED  BY <1>2, <1>3, <1>6, <2>1 DEF Gathered
  <1>11. TypeOK'
    <2>1. completed' \in [Packets -> {None} \cup Created']  BY <1>1, <1>5, <1>7
    <2>2. QED  BY <1>1, <1>7, <2>1 DEF IInv, TypeOK, Blank
  <1>12. Apart'
    BY <1>1, <1>7, <1>8, <1>9, <1>10 DEF IInv, Apart, Flight
  <1>13. NoneTwice'  BY <1>1 DEF IInv, NoneTwice, Once
  <1>14. Flying'
    <2>1. ASSUME NEW o \in Created, Flight(o)'  PROVE completed'[job[o].id] = None
      <3>1. Flight(o) /\ o # h /\ Flight(h)  BY <1>1, <1>9, <2>1 DEF Flight
      <3>2. job[o].id # q  BY <1>1, <3>1 DEF IInv, FlyingApart
      <3>3. job[o].id \in Packets /\ completed[job[o].id] = None
        BY <1>3, <3>1, Sizes DEF IInv, Flying, Packets
      <3>4. QED  BY <1>6, <3>2, <3>3
    <2>2. QED  BY <1>7, <1>9, <2>1 DEF IInv, Flying
  <1>15. FlyingApart' /\ Decoded'  BY <1>1, <1>7, <1>9 DEF IInv, FlyingApart, Decoded, InSeq
  <1>16. Counted'
    <2>1. NoJob' = NoJob  BY DEF NoJob
    <2>2. Done' = Done \cup {q} /\ q \notin Done
      BY <1>2, <1>3, <1>4, <1>6 DEF Done
    <2>3. processed' = processed + 1 /\ dropped' = dropped  OBVIOUS
    <2>4. Cardinality(Done') = Cardinality(Done) + 1
      BY <2>2, CountedFinite, FS_AddElement DEF IInv
    <2>5. QED  BY <2>1, <2>3, <2>4 DEF IInv, Counted
  <1>17. Placed'
    <2>1. ASSUME NEW p \in Packets, completed'[p] # None
          PROVE  frame[p] = "event" /\ job[completed'[p]].id = p /\ job[completed'[p]].results = <<frameNo, p>>
      <3>1. CASE p = q  BY <3>1, <1>2, <1>6
      <3>2. CASE p # q  BY <3>2, <1>6, <2>1 DEF IInv, Placed
      <3>3. QED  BY <3>1, <3>2
    <2>2. QED  BY <2>1 DEF Placed
  <1>18. Positions'  BY DEF IInv, Positions
  <1>19. QED  BY <1>11, <1>12, <1>13, <1>14, <1>15, <1>16, <1>17, <1>18 DEF IInv

LEMMA EndGatherStep ==
  ASSUME IInv, EndGather
  PROVE  IInv'
  <1> USE DEF EndGather, gathering, queues
  <1>1. /\ \A p \in Packets : frame[p] = "event" => completed[p] # None
        /\ \A o \in Created : ~Flight(o)
    BY AllGathered
  <1>2. /\ Created' = Created /\ \A o : Flight(o)' <=> Flight(o)
        /\ \A o : Gathered(o)' <=> Gathered(o)
    BY DEF Created, Flight, InSeq, Decoding, Gathered
  <1>3. TypeOK'  BY DEF IInv, TypeOK, Created, Blank
  <1>4. Apart' /\ NoneTwice' /\ Flying' /\ FlyingApart' /\ Decoded'
    BY <1>1, <1>2 DEF IInv, Apart, NoneTwice, Flying, FlyingApart, Decoded, Once, InSeq, Decoding, Created
  <1>5. Counted'  BY DEF IInv, Counted, NoJob, Done
  <1>6. Placed' /\ Positions'  BY <1>1 DEF IInv, Placed, Positions
  <1>7. QED  BY <1>3, <1>4, <1>5, <1>6 DEF IInv

(* The jobs that go to the store are no longer gathered.                     *)
LEMMA StoreJobsStep ==
  ASSUME IInv, StoreJobs
  PROVE  IInv'
  <1> USE DEF StoreJobs, gathering, queues
  <1>1. PICK stored \in SUBSET ({completed[p] : p \in Packets} \ {None}) : held' = held \cup stored
    OBVIOUS
  <1>2. \A o \in stored : o \in Created /\ Gathered(o)
    <2>1. \A p \in Packets : completed[p] \in {None} \cup Created  BY DEF IInv, TypeOK
    <2>2. QED  BY <2>1 DEF Gathered
  <1>3. /\ Created' = Created /\ \A o : Flight(o)' <=> Flight(o)
        /\ \A o : ~Gathered(o)'
    BY DEF Created, Flight, InSeq, Decoding, Gathered
  <1>4. \A o \in Created : ~Flight(o)  BY DEF IInv, Flying
  <1>5. TypeOK'  BY <1>1, <1>2 DEF IInv, TypeOK, Created, Blank
  <1>6. Apart'
    <2>1. \A o : InSeq(o, stack)' <=> InSeq(o, stack)  BY DEF InSeq
    <2>2. \A o \in Created : InSeq(o, stack) => o \notin held'  BY <1>1, <1>2 DEF IInv, Apart
    <2>3. \A o \in Created : ~InSeq(o, jobQueue)' /\ ~InSeq(o, resultsQueue)'
      BY <1>3, <1>4 DEF Flight, InSeq
    <2>4. QED  BY <1>3, <1>4, <2>1, <2>2, <2>3 DEF Apart
  <1>7. NoneTwice' /\ Flying' /\ FlyingApart' /\ Decoded'
    BY <1>3, <1>4 DEF IInv, NoneTwice, Flying, FlyingApart, Decoded, Once, InSeq, Created
  <1>8. Counted'  BY DEF IInv, Counted, NoJob, Done
  <1>9. Placed' /\ Positions'  BY DEF IInv, Placed, Positions
  <1>10. QED  BY <1>5, <1>6, <1>7, <1>8, <1>9 DEF IInv

LEMMA ReleaseJobStep ==
  ASSUME IInv, ReleaseJob
  PROVE  IInv'
  <1> USE DEF ReleaseJob, gathering, queues
  <1>1. PICK o \in held : /\ job' = [job EXCEPT ![o] = Blank]
                          /\ stack' = Append(stack, o)
                          /\ held' = held \ {o}
    OBVIOUS
  <1>2. o \in Created /\ ~InSeq(o, stack)  BY DEF IInv, TypeOK, Apart
  <1>3. /\ stack' \in Seq(Created) /\ Once(stack')
        /\ \A q : InSeq(q, stack') <=> InSeq(q, stack) \/ q = o
    BY <1>1, <1>2, AppendOne DEF IInv, TypeOK, NoneTwice
  <1>4. /\ Created' = Created /\ job'[o] = Blank
        /\ \A q \in Created \ {o} : job'[q] = job[q]
    BY <1>1, <1>2 DEF IInv, TypeOK, Created
  <1>5. /\ \A q : Flight(q)' <=> Flight(q)
        /\ \A q : ~Gathered(q)'
    BY DEF Flight, InSeq, Decoding, Gathered
  <1>6. \A q \in Created : ~Flight(q)  BY DEF IInv, Flying
  <1>7. TypeOK'
    <2>1. \A i \in DOMAIN stack' : job'[stack'[i]] = Blank
      <3>1. TAKE i \in DOMAIN stack'
      <3>2. stack'[i] \in Created /\ InSeq(stack'[i], stack')  BY <1>3 DEF InSeq
      <3>3. CASE stack'[i] = o  BY <3>3, <1>4
      <3>4. CASE stack'[i] # o
        <4>1. InSeq(stack'[i], stack)  BY <3>2, <3>4, <1>3
        <4>2. job[stack'[i]] = Blank  BY <4>1 DEF IInv, TypeOK, InSeq
        <4>3. QED  BY <3>2, <3>4, <4>2, <1>4
      <3>5. QED  BY <3>3, <3>4
    <2>2. job' \in [Created' -> [id : {None} \cup Packets, data : Data, results : Data]]
      <3>1. Blank \in [id : {None} \cup Packets, data : Data, results : Data]  BY DEF Blank, Data
      <3>2. QED  BY <1>1, <1>4, <3>1 DEF IInv, TypeOK
    <2>3. held' \subseteq Created'  BY <1>1, <1>4 DEF IInv, TypeOK
    <2>4. QED  BY <1>3, <1>4, <2>1, <2>2, <2>3 DEF IInv, TypeOK
  <1>8. Apart'
    <2>1. \A q : InSeq(q, stack)' <=> InSeq(q, stack) \/ q = o  BY <1>3
    <2>2. \A q \in Created : ~InSeq(q, jobQueue)' /\ ~InSeq(q, resultsQueue)'
      BY <1>5, <1>6 DEF Flight, InSeq
    <2>3. QED  BY <1>1, <1>4, <1>5, <1>6, <2>1, <2>2 DEF IInv, Apart
  <1>9. NoneTwice'  BY <1>3 DEF IInv, NoneTwice, Once
  <1>10. Flying' /\ FlyingApart' /\ Decoded'
    BY <1>4, <1>5, <1>6 DEF Flying, FlyingApart, Decoded, Flight, InSeq
  <1>11. Counted'  BY DEF IInv, Counted, NoJob, Done
  <1>12. Placed' /\ Positions'  BY DEF IInv, Placed, Positions
  <1>13. QED  BY <1>7, <1>8, <1>9, <1>10, <1>11, <1>12 DEF IInv

LEMMA EndFrameStep ==
  ASSUME IInv, EndFrame
  PROVE  IInv'
  <1> USE DEF EndFrame, gathering, queues
  <1>1. /\ Created' = Created /\ \A o : Flight(o)' <=> Flight(o)
        /\ \A o : Gathered(o)' <=> Gathered(o)
    BY DEF Created, Flight, InSeq, Decoding, Gathered
  <1>2. \A o \in Created : ~Flight(o)  BY DEF IInv, Flying
  <1>3. TypeOK'  BY DEF IInv, TypeOK, Created, Blank
  <1>4. Apart' /\ NoneTwice' /\ Flying' /\ FlyingApart' /\ Decoded'
    BY <1>1, <1>2 DEF IInv, Apart, NoneTwice, Flying, FlyingApart, Decoded, Once, InSeq, Decoding, Created
  <1>5. Counted'  BY DEF IInv, Counted, NoJob, Done
  <1>6. Placed' /\ Positions'  BY DEF IInv, Placed, Positions
  <1>7. QED  BY <1>3, <1>4, <1>5, <1>6 DEF IInv

(* A worker writes the results of a job that nobody else uses.               *)
LEMMA ResultsWritten ==
  ASSUME IInv, NEW o \in Created, Flight(o), NEW d \in Data,
         job' = [job EXCEPT ![o].results = d],
         UNCHANGED <<pc, frameNo, frame, index, gathering, stack, held>>
  PROVE  /\ Created' = Created
         /\ job' \in [Created -> [id : {None} \cup Packets, data : Data, results : Data]]
         /\ \A q \in Created : job'[q].id = job[q].id /\ job'[q].data = job[q].data
         /\ job'[o].results = d /\ \A q \in Created \ {o} : job'[q] = job[q]
         /\ \A i \in DOMAIN stack' : job'[stack'[i]] = Blank
         /\ \A q : Gathered(q)' <=> Gathered(q)
         /\ Counted' /\ Placed' /\ Positions'
  <1> USE DEF gathering
  <1>1. /\ job' \in [Created -> [id : {None} \cup Packets, data : Data, results : Data]]
        /\ \A q \in Created : job'[q].id = job[q].id /\ job'[q].data = job[q].data
        /\ job'[o].results = d /\ \A q \in Created \ {o} : job'[q] = job[q]
    BY DEF IInv, TypeOK
  <1>2. Created' = Created  BY DEF Created
  <1>3. ~InSeq(o, stack) /\ ~Gathered(o)  BY DEF IInv, Apart
  <1>4. \A i \in DOMAIN stack' : job'[stack'[i]] = Blank
    <2>1. \A i \in DOMAIN stack : stack[i] \in Created /\ stack[i] # o  BY <1>3 DEF IInv, TypeOK, InSeq
    <2>2. QED  BY <1>1, <2>1 DEF IInv, TypeOK
  <1>5. \A q : Gathered(q)' <=> Gathered(q)  BY DEF Gathered
  <1>6. Counted' /\ Positions'  BY DEF IInv, Counted, NoJob, Done, Positions
  <1>7. Placed'
    <2>1. ASSUME NEW p \in Packets, pc \in {"dispatch", "gather", "store"}, completed[p] # None
          PROVE  job'[completed[p]] = job[completed[p]]
      <3>1. completed[p] \in Created  BY <2>1 DEF IInv, TypeOK
      <3>2. completed[p] # o  BY <2>1, <1>3 DEF Gathered
      <3>3. QED  BY <3>1, <3>2, <1>1
    <2>2. SUFFICES ASSUME pc \in {"dispatch", "gather", "store"}, NEW p \in Packets,
                          completed[p] # None
                   PROVE  frame[p] = "event" /\ job'[completed[p]].id = p
                          /\ job'[completed[p]].results = <<frameNo, p>>
      BY DEF Placed
    <2>3. frame[p] = "event" /\ job[completed[p]].id = p
          /\ job[completed[p]].results = <<frameNo, p>>
      BY <2>2 DEF IInv, Placed
    <2>4. QED  BY <2>1, <2>2, <2>3
  <1>8. QED  BY <1>1, <1>2, <1>4, <1>5, <1>6, <1>7

LEMMA TakeJobStep ==
  ASSUME IInv, NEW t \in Workers, TakeJob(t)
  PROVE  IInv'
  <1> DEFINE h == Head(jobQueue)
  <1> USE DEF TakeJob
  <1>1. /\ h \in Created /\ InSeq(h, jobQueue) /\ jobQueue' \in Seq(Created)
        /\ \A o : InSeq(o, jobQueue) <=> InSeq(o, jobQueue') \/ o = h
        /\ Once(jobQueue') /\ ~InSeq(h, jobQueue')
    BY HeadTail DEF IInv, TypeOK, NoneTwice
  <1>2. Flight(h) /\ NoData \in Data  BY <1>1 DEF Flight, Data
  <1>3. ~InSeq(h, resultsQueue) /\ ~Decoding(h)  BY <1>1 DEF IInv, Apart
  <1>4. /\ Created' = Created
        /\ job' \in [Created -> [id : {None} \cup Packets, data : Data, results : Data]]
        /\ \A q \in Created : job'[q].id = job[q].id /\ job'[q].data = job[q].data
        /\ \A q \in Created \ {h} : job'[q] = job[q]
        /\ \A i \in DOMAIN stack' : job'[stack'[i]] = Blank
        /\ \A q : Gathered(q)' <=> Gathered(q)
        /\ Counted' /\ Placed' /\ Positions'
    BY <1>1, <1>2, ResultsWritten
  <1>5. working' = [working EXCEPT ![t] = h] /\ working \in [Workers -> {None} \cup Created]
        /\ working[t] = None /\ h # None
    BY <1>1, NoneIsNoJob DEF IInv, TypeOK
  <1>6. /\ \A o \in Created : Decoding(o)' <=> Decoding(o) \/ o = h
        /\ \A o : InSeq(o, resultsQueue)' <=> InSeq(o, resultsQueue)
        /\ \A o : InSeq(o, stack)' <=> InSeq(o, stack)
    <2>1. \A o \in Created : o # None  BY NoneIsNoJob DEF IInv
    <2>2. QED  BY <1>5, <2>1 DEF Decoding, InSeq
  <1>7. \A o \in Created : Flight(o)' <=> Flight(o)
    BY <1>1, <1>6 DEF Flight
  <1>8. TypeOK'
    <2>1. working' \in [Workers -> {None} \cup Created']  BY <1>1, <1>4, <1>5
    <2>2. QED  BY <1>1, <1>4, <2>1 DEF IInv, TypeOK, gathering
  <1>9. Apart'
    <2>1. \A o : InSeq(o, jobQueue)' <=> InSeq(o, jobQueue')  BY DEF InSeq
    <2>2. QED  BY <1>1, <1>3, <1>4, <1>6, <1>7, <2>1 DEF IInv, Apart
  <1>10. NoneTwice'
    <2>1. \A u \in Workers : working[u] # h  BY <1>3 DEF Decoding
    <2>2. \A u, v \in Workers : working'[u] = working'[v] /\ working'[u] # None => u = v
      BY <1>5, <2>1 DEF IInv, NoneTwice
    <2>3. QED  BY <1>1, <2>2 DEF IInv, NoneTwice, Once
  <1>11. Flying' /\ FlyingApart'
    BY <1>4, <1>7 DEF IInv, Flying, FlyingApart, gathering
  <1>12. Decoded'  BY <1>3, <1>4, <1>6 DEF IInv, Decoded
  <1>13. QED  BY <1>4, <1>8, <1>9, <1>10, <1>11, <1>12 DEF IInv

LEMMA FinishJobStep ==
  ASSUME IInv, NEW t \in Workers, FinishJob(t)
  PROVE  IInv'
  <1> DEFINE h == working[t]
  <1> USE DEF FinishJob
  <1>1. h \in Created /\ Decoding(h) /\ Flight(h)  BY DEF IInv, TypeOK, Decoding, Flight
  <1>2. ~InSeq(h, resultsQueue) /\ ~InSeq(h, jobQueue)  BY <1>1 DEF IInv, Apart
  <1>3. job[h].data \in Data  BY <1>1 DEF IInv, TypeOK
  <1>4. /\ Created' = Created
        /\ job' \in [Created -> [id : {None} \cup Packets, data : Data, results : Data]]
        /\ \A q \in Created : job'[q].id = job[q].id /\ job'[q].data = job[q].data
        /\ job'[h].results = job[h].data /\ \A q \in Created \ {h} : job'[q] = job[q]
        /\ \A i \in DOMAIN stack' : job'[stack'[i]] = Blank
        /\ \A q : Gathered(q)' <=> Gathered(q)
        /\ Counted' /\ Placed' /\ Positions'
    BY <1>1, <1>3, ResultsWritten
  <1>5. /\ resultsQueue' \in Seq(Created) /\ Once(resultsQueue')
        /\ \A q : InSeq(q, resultsQueue') <=> InSeq(q, resultsQueue) \/ q = h
    BY <1>1, <1>2, AppendOne DEF IInv, TypeOK, NoneTwice
  <1>6. working' = [working EXCEPT ![t] = None] /\ working \in [Workers -> {None} \cup Created]
    BY DEF IInv, TypeOK
  <1>7. /\ \A o \in Created : Decoding(o)' <=> Decoding(o) /\ o # h
        /\ \A o : InSeq(o, jobQueue)' <=> InSeq(o, jobQueue)
        /\ \A o : InSeq(o, stack)' <=> InSeq(o, stack)
        /\ \A o : InSeq(o, resultsQueue)' <=> InSeq(o, resultsQueue')
    <2>1. \A o \in Created : o # None  BY NoneIsNoJob DEF IInv
    <2>2. \A u \in Workers : working[u] = h => u = t  BY <1>1, <2>1 DEF IInv, NoneTwice
    <2>3. \A o \in Created : Decoding(o)' <=> Decoding(o) /\ o # h  BY <1>6, <2>1, <2>2 DEF Decoding
    <2>4. QED  BY <2>3 DEF InSeq
  <1>8. \A o \in Created : Flight(o)' <=> Flight(o)
    BY <1>1, <1>5, <1>7 DEF Flight
  <1>9. TypeOK'
    <2>1. working' \in [Workers -> {None} \cup Created']  BY <1>4, <1>6
    <2>2. QED  BY <1>4, <1>5, <2>1 DEF IInv, TypeOK, gathering
  <1>10. Apart'
    BY <1>1, <1>2, <1>4, <1>5, <1>7, <1>8 DEF IInv, Apart
  <1>11. NoneTwice'
    <2>1. \A u, v \in Workers : working'[u] = working'[v] /\ working'[u] # None => u = v
      BY <1>6 DEF IInv, NoneTwice
    <2>2. QED  BY <1>5, <2>1 DEF IInv, NoneTwice, Once
  <1>12. Flying' /\ FlyingApart'
    BY <1>4, <1>8, SMTT(30) DEF IInv, Flying, FlyingApart, gathering
  <1>13. Decoded'  BY <1>4, <1>5, <1>7 DEF IInv, Decoded
  <1>14. QED  BY <1>4, <1>9, <1>10, <1>11, <1>12, <1>13 DEF IInv

LEMMA NextInv == IInv /\ [Next]_vars => IInv'
  <1> SUFFICES ASSUME IInv, [Next]_vars PROVE IInv'  OBVIOUS
  <1>1. CASE StartFrame  BY <1>1, StartFrameStep
  <1>2. CASE Process
    BY <1>2, DropPacketStep, DispatchJobStep, EndDispatchStep, GatherJobStep, EndGatherStep,
       StoreJobsStep, ReleaseJobStep, EndFrameStep DEF Process
  <1>3. CASE \E t \in Workers : Work(t)
    BY <1>3, TakeJobStep, FinishJobStep DEF Work
  <1>4. CASE UNCHANGED vars
    <2> USE <1>4 DEF vars, gathering, queues
    <2>1. TypeOK'  BY DEF IInv, TypeOK, Created, Blank
    <2>2. /\ Created' = Created /\ \A o : Flight(o)' <=> Flight(o)
          /\ \A o : Gathered(o)' <=> Gathered(o)
      BY DEF Created, Flight, InSeq, Decoding, Gathered
    <2>3. Apart' /\ NoneTwice' /\ Flying' /\ FlyingApart' /\ Decoded'
      BY <2>2 DEF IInv, Apart, NoneTwice, Flying, FlyingApart, Decoded, Once, InSeq, Decoding, Created
    <2>4. Counted' /\ Placed' /\ Positions'
      BY DEF IInv, Counted, NoJob, Done, Placed, Positions
    <2>5. QED  BY <2>1, <2>3, <2>4 DEF IInv
  <1>5. QED  BY <1>1, <1>2, <1>3, <1>4 DEF Next
-----------------------------------------------------------------------------
(* The parts of the inductive invariant hold in every reachable state.       *)
THEOREM Invariant == Spec => []IInv
  <1>1. QED  BY InitInv, NextInv, PTL DEF Spec

(* The objects of the pool have their types, and one on the stack is blank.  *)
THEOREM TypeCorrect == Spec => []TypeOK
  <1>1. IInv => TypeOK  BY DEF IInv
  <1>2. QED  BY <1>1, Invariant, PTL

(* Two threads never hold one job object, for any number of threads and of   *)
(* packets (getJob, releaseJob, the two queues).                             *)
THEOREM ExclusiveUse == Spec => []OneUser
  <1>1. IInv => OneUser
    <2> SUFFICES ASSUME IInv PROVE OneUser  OBVIOUS
    <2>1. ASSUME NEW o \in Created, NEW a \in Users, NEW b \in Users, Uses(a, o), Uses(b, o)
          PROVE  a = b
      <3>1. /\ InSeq(o, stack) => ~Flight(o) /\ ~Gathered(o) /\ o \notin held
            /\ Flight(o) => ~Gathered(o) /\ o \notin held
            /\ Gathered(o) => o \notin held
            /\ InSeq(o, jobQueue) => ~InSeq(o, resultsQueue) /\ ~Decoding(o)
            /\ InSeq(o, resultsQueue) => ~Decoding(o)
        BY DEF IInv, Apart
      <3>2. QED  BY <2>1, <3>1 DEF Users, Uses, Flight
    <2>2. QED  BY <2>1 DEF OneUser, IInv, NoneTwice
  <1>2. QED  BY <1>1, Invariant, PTL

(* Whatever the order in which the workers finish, each event packet of a    *)
(* gathered frame is the job at its place, decoded from its own words.       *)
THEOREM InPlace == Spec => []PacketsInPlace
  <1>1. IInv => PacketsInPlace  BY DEF IInv, Placed, Positions, PacketsInPlace
  <1>2. QED  BY <1>1, Invariant, PTL

(* When a frame has been gathered no job of it is queued or with a worker:   *)
(* the buffer that the jobs point to can be used again.                      *)
THEOREM FrameReleased == Spec => []FrameNotRead
  <1>1. IInv => FrameNotRead
    <2> SUFFICES ASSUME IInv, pc \notin {"dispatch", "gather"}
                 PROVE  jobQueue = <<>> /\ resultsQueue = <<>> /\ \A t \in Workers : working[t] = None
      BY DEF FrameNotRead
    <2>1. \A o \in Created : ~Flight(o)  BY DEF IInv, Flying
    <2>2. jobQueue \in Seq(Created) /\ resultsQueue \in Seq(Created)  BY DEF IInv, TypeOK
    <2>3. jobQueue = <<>>
      <3>1. jobQueue # <<>> => Head(jobQueue) \in Created /\ InSeq(Head(jobQueue), jobQueue)
        BY <2>2, HeadTail
      <3>2. QED  BY <2>1, <3>1 DEF Flight
    <2>4. resultsQueue = <<>>
      <3>1. resultsQueue # <<>> =>
              Head(resultsQueue) \in Created /\ InSeq(Head(resultsQueue), resultsQueue)
        BY <2>2, HeadTail
      <3>2. QED  BY <2>1, <3>1 DEF Flight
    <2>5. \A t \in Workers : working[t] = None
      <3>1. \A t \in Workers : working[t] # None => working[t] \in Created /\ Decoding(working[t])
        BY DEF IInv, TypeOK, Decoding
      <3>2. QED  BY <2>1, <3>1 DEF Flight
    <2>6. QED  BY <2>3, <2>4, <2>5
  <1>2. QED  BY <1>1, Invariant, PTL
=============================================================================
