---------------------- MODULE ProcessCoordinatorProofs ----------------------
(***************************************************************************)
(* Proofs about ProcessCoordinator, for every value of its constants: the  *)
(* types, the bounds of the array of counts, and the numbering of frames.  *)
(* Nothing is assumed about how late a packet is.                          *)
(*                                                                         *)
(* Then about the order in which it lets wraps go, for packets that are    *)
(* never exactly two wraps late: at most one (a packet of the wrap before  *)
(* the newest), or so late that the job is refused.  The proofs follow the *)
(* highest wrap n among the jobs met so far: the wrap last opened is n or  *)
(* n - 1, and only wraps below n - 1 were flushed.                         *)
(*                                                                         *)
(* At last about what it stores, for the same packets: every point of an   *)
(* accepted job once, in order.  A stream is what its frames, its buffer   *)
(* and the jobs on the way to it hold; filling buffers and pushing frames  *)
(* does not change it, only a wrap that leaves the store does, by its      *)
(* jobs, in order, at the end.                                             *)
(***************************************************************************)
EXTENDS ProcessCoordinator, SequenceLemmas

(* Remainders by symbolic moduli: the facts about % that the solver knows.   *)
LEMMA ModRange ==
  ASSUME NEW a \in Int, NEW n \in Nat \ {0}
  PROVE  a % n \in 0..n-1
  BY SMT

LEMMA ModOfMultiple ==
  ASSUME NEW k \in Int, NEW n \in Nat \ {0}
  PROVE  (k * n) % n = 0
  BY SMT

LEMMA MultipleOfMod ==
  ASSUME NEW a \in Int, NEW n \in Nat \ {0}, a % n = 0
  PROVE  \E k \in Int : a = k * n
  BY SMT

LEMMA ModDiffers ==
  ASSUME NEW a \in Int, NEW n \in Nat \ {0}
  PROVE  \E k \in Int : a - (a % n) = k * n
  <1>1. a % n = a - n * (a \div n)  BY SMT
  <1>2. a \div n \in Int  BY SMT
  <1>3. PICK k \in Int : k = a \div n  BY <1>2
  <1>4. a - (a % n) = k * n  BY <1>1, <1>3, SMT
  <1>5. QED  BY <1>4

(* A sum of multiples of n, or a difference, is a multiple of n.             *)
LEMMA AlignedSum ==
  ASSUME NEW a \in Int, NEW b \in Int, NEW n \in Nat \ {0}, a % n = 0, b % n = 0
  PROVE  (a + b) % n = 0 /\ (a - b) % n = 0
  <1>1. PICK j \in Int : a = j * n  BY MultipleOfMod
  <1>2. PICK k \in Int : b = k * n  BY MultipleOfMod
  <1>3. a + b = (j + k) * n /\ a - b = (j - k) * n  BY <1>1, <1>2, SMT
  <1>4. j + k \in Int /\ j - k \in Int  OBVIOUS
  <1>5. ((j + k) * n) % n = 0 /\ ((j - k) * n) % n = 0  BY <1>4, ModOfMultiple, Zenon
  <1>6. QED  BY <1>3, <1>5, Zenon

(* A product with a multiple of n is a multiple of n.                        *)
LEMMA AlignedProduct ==
  ASSUME NEW a \in Int, NEW b \in Int, NEW n \in Nat \ {0}, b % n = 0
  PROVE  a * b \in Int /\ (a * b) % n = 0
  <1>1. PICK k \in Int : b = k * n  BY MultipleOfMod
  <1>2. a * b = (a * k) * n  BY <1>1, SMT
  <1>3. a * b \in Int /\ a * k \in Int  BY SMT
  <1>4. ((a * k) * n) % n = 0  BY <1>3, ModOfMultiple, Zenon
  <1>5. QED  BY <1>2, <1>3, <1>4, Zenon

(* The remainder of a multiple of n by a multiple m of n is a multiple of n  *)
(* with room for n more below m.                                             *)
LEMMA AlignedMod ==
  ASSUME NEW a \in Int, NEW n \in Nat \ {0}, NEW m \in Nat \ {0}, a % n = 0, m % n = 0
  PROVE  (a % m) % n = 0 /\ (a % m) + n <= m
  <1> DEFINE r == a % m
  <1>1. r \in 0..m-1  BY ModRange
  <1>2. PICK d \in Int : a - r = d * m  BY ModDiffers
  <1>3. r \in Int /\ r < m  BY <1>1
  <1> HIDE DEF r
  <1>4. PICK k \in Int : a = k * n  BY MultipleOfMod, Zenon
  <1>5. PICK j \in Int : m = j * n  BY MultipleOfMod, m \in Int
  <1>6. r = (k - d * j) * n /\ k - d * j \in Int
    <2>1. r = k * n - d * (j * n)  BY <1>2, <1>3, <1>4, <1>5, SMT
    <2>2. k * n - d * (j * n) = (k - d * j) * n  BY SMT
    <2>3. QED  BY <2>1, <2>2, SMT
  <1>7. PICK i \in Int : r = i * n  BY <1>6, Zenon
  <1>8. i < j
    <2>1. SUFFICES ASSUME j <= i PROVE FALSE  OBVIOUS
    <2>2. j * n <= i * n  BY <2>1, SMT
    <2>3. QED  BY <2>2, <1>3, <1>5, <1>7
  <1>9. (i + 1) * n <= j * n  BY <1>8, SMT
  <1>10. (i + 1) * n = i * n + n  BY SMT
  <1>11. r + n <= m  BY <1>5, <1>7, <1>9, <1>10
  <1>12. r % n = 0  BY <1>7, ModOfMultiple, Zenon
  <1>13. QED  BY <1>11, <1>12, Zenon DEF r
-----------------------------------------------------------------------------
(* The facts on the constants, in the form the steps use them.               *)
LEMMA Constants ==
  /\ NumBuffers \in Nat \ {0} /\ BlockSize \in Nat \ {0} /\ Word \in Nat \ {0}
  /\ BlockSize % NumBuffers = 0 /\ Word % NumBuffers = 0
  <1>1. NumBuffers \in Nat \ {0} /\ WriteSize \in Nat \ {0}  BY SliceAssumption
  <1>2. WriteSize * NumBuffers \in Nat \ {0}  BY <1>1, SMT
  <1>3. (WriteSize * NumBuffers) % NumBuffers = 0  BY <1>1, ModOfMultiple, WriteSize \in Int, Zenon
  <1>4. Word \in Nat /\ Word > NumBuffers * WriteSize /\ Word % NumBuffers = 0  BY WordAssumption
  <1>5. Word \in Nat \ {0}  BY <1>1, <1>4, SMT
  <1>6. QED  BY <1>1, <1>2, <1>3, <1>4, <1>5 DEF BlockSize

LEMMA SizeType ==
  ASSUME NEW j \in Job, NEW s \in Streams
  PROVE  Contents[j.num][s] \in 0..FrameQty
  BY ContentsAssumption DEF Job

(* The place of a wrap in an array of counts that starts at index.           *)
LEMMA PlaceAt ==
  ASSUME NEW w \in Nat, NEW index \in 0..Word-1, index % NumBuffers = 0
  PROVE  /\ (w * NumBuffers - index) % Word \in Nat
         /\ ((w * NumBuffers - index) % Word) % BlockSize \in 0..BlockSize-1
         /\ (((w * NumBuffers - index) % Word) % BlockSize) + NumBuffers <= BlockSize
  <1> USE Constants
  <1>1. w * NumBuffers \in Int /\ (w * NumBuffers) % NumBuffers = 0
    <2>1. w \in Int /\ w * NumBuffers \in Int  BY SMT
    <2>2. QED  BY <2>1, ModOfMultiple, Zenon
  <1>2. index \in Int  BY SMT
  <1>3. w * NumBuffers - index \in Int /\ (w * NumBuffers - index) % NumBuffers = 0
    <2>1. w * NumBuffers - index \in Int  BY <1>1, <1>2
    <2>2. QED  BY <1>1, <1>2, <2>1, AlignedSum, Zenon
  <1> DEFINE offset == (w * NumBuffers - index) % Word
  <1>4. offset \in 0..Word-1 /\ offset % NumBuffers = 0
    BY <1>3, AlignedMod, ModRange, Zenon
  <1> HIDE DEF offset
  <1>5. offset \in Int /\ offset \in Nat  BY <1>4
  <1>6. offset % BlockSize \in 0..BlockSize-1  BY <1>5, ModRange, Zenon
  <1>7. (offset % BlockSize) + NumBuffers <= BlockSize  BY <1>4, <1>5, AlignedMod, Zenon
  <1>8. QED  BY <1>5, <1>6, <1>7, Zenon DEF offset

LEMMA Place ==
  ASSUME NEW w \in Nat, lastWritten \in 0..Word-1, lastWritten % NumBuffers = 0
  PROVE  /\ Base(w) \in 0..BlockSize-1
         /\ SkippedTo(w) \in 0..Word-1
         /\ SkippedTo(w) % NumBuffers = 0
  <1> USE Constants
  <1>1. Base(w) \in 0..BlockSize-1 /\ Offset(w) \in Nat
    BY PlaceAt, Zenon DEF Base, Offset
  <1>2. BlocksSkipped(w) \in Int
    BY <1>1, SMT DEF BlocksSkipped
  <1>3. BlocksSkipped(w) * BlockSize \in Int /\ (BlocksSkipped(w) * BlockSize) % NumBuffers = 0
    <2>1. BlockSize \in Int  OBVIOUS
    <2>2. QED  BY <1>2, <2>1, AlignedProduct, Zenon
  <1>4. lastWritten \in Int /\ lastWritten + BlocksSkipped(w) * BlockSize \in Int
    BY <1>3, SMT
  <1>5. (lastWritten + BlocksSkipped(w) * BlockSize) % NumBuffers = 0
    BY <1>3, <1>4, AlignedSum, Zenon
  <1>6. SkippedTo(w) \in 0..Word-1
    BY <1>4, ModRange, Zenon DEF SkippedTo
  <1>7. SkippedTo(w) % NumBuffers = 0
    BY <1>4, <1>5, AlignedMod, Zenon DEF SkippedTo
  <1>8. QED  BY <1>1, <1>6, <1>7

-----------------------------------------------------------------------------
(* What the invariants of the specification rest on.                         *)
(* What waits in a slot was accepted, so a slot holds finitely many jobs.    *)
SlotsAccepted ==
  /\ IsFiniteSet(accepted)
  /\ \A w \in DOMAIN store : \A b \in Slices : store[w][b].jobs \subseteq accepted

(* After an acquisition everything is empty until the next frame of data.    *)
Quiet ==
  /\ ended => /\ pc \in {"ready", "purge", "purgeAppend"}
              /\ DOMAIN store = {} /\ jobs = <<>> /\ currentWrap = 0
              /\ \A s \in Streams : points[s] = <<>>
  /\ pc = "purgeAppend" => DOMAIN store = {}
  /\ pc \notin {"slots", "halted"} => frameJobs = <<>>

FramesCounted ==
  \A s \in Streams : frameNumber[s] = IF ended THEN 0 ELSE Len(frames[s])

IInv == TypeOK /\ SlotsAccepted /\ Quiet /\ FramesCounted /\ FramesInterleave /\ CountsInArray

(* Adding a job to a wrap keeps the wrap well formed.                        *)
LEMMA WithJobType ==
  ASSUME NEW slots \in [Slices -> Slot], NEW j \in Job
  PROVE  WithJob(slots, j) \in [Slices -> Slot]
  <1>1. Contents[j.num]["event"] \in Nat
    BY SizeType, FrameAssumption, SMT DEF Streams
  <1>2. QED  BY <1>1, SMT DEF WithJob, Slot

LEMMA EmptyWrapType == EmptyWrap \in [Slices -> Slot]
  BY DEF EmptyWrap, Slot

(* The jobs a wrap gives up are a sequence of accepted jobs.                 *)
LEMMA SlotOrderType ==
  ASSUME TypeOK, SlotsAccepted, NEW w \in DOMAIN store, NEW q \in InSlotOrder(w)
  PROVE  q \in Seq(Job)
  <1> DEFINE all == UNION {store[w][b].jobs : b \in Slices}
  <1>1. all \subseteq accepted /\ all \subseteq Job
    BY DEF SlotsAccepted, TypeOK
  <1>2. IsFiniteSet(all)
    BY <1>1, FS_Subset DEF SlotsAccepted
  <1>3. Cardinality(all) \in Nat
    BY <1>2, FS_CardinalityType
  <1>4. q \in [1..Cardinality(all) -> all]
    BY DEF InSlotOrder
  <1> HIDE DEF all
  <1>5. PICK n \in Nat : q \in [1..n -> all]  BY <1>3, <1>4, Zenon
  <1>6. \A i \in 1..n : q[i] \in Job  BY <1>1, <1>5
  <1>7. QED  BY <1>5, <1>6

(* The counts of a wrap and the blocks they are published in have their type.*)
LEMMA CountsType ==
  ASSUME TypeOK, lastWritten % NumBuffers = 0, NEW w \in DOMAIN store
  PROVE  LET Counts == [0..BlockSize-1 -> Nat]
             Blocks == [index : 0..Word-1, counts : Counts]
         IN  /\ SkippedTo(w) \in 0..Word-1 /\ SkippedTo(w) % NumBuffers = 0
             /\ tsArray \in Counts /\ NoCounts \in Counts /\ CountsWith(w) \in Counts
             /\ Block(lastWritten, tsArray) \in Blocks
             /\ Block(SkippedTo(w), CountsWith(w)) \in Blocks
  <1> USE Constants
  <1> DEFINE Counts == [0..BlockSize-1 -> Nat]
             Blocks == [index : 0..Word-1, counts : Counts]
  <1>1. w \in Nat /\ store[w] \in [Slices -> Slot]  BY DEF TypeOK
  <1>2. /\ Base(w) \in 0..BlockSize-1 /\ SkippedTo(w) \in 0..Word-1
        /\ SkippedTo(w) % NumBuffers = 0
    BY <1>1, Place DEF TypeOK
  <1>3. tsArray \in Counts /\ NoCounts \in Counts  BY DEF TypeOK, NoCounts
  <1>4. ArrayFor(w) \in Counts  BY <1>3, Zenon DEF ArrayFor
  <1>5. CountsWith(w) \in Counts
    <2>1. ASSUME NEW i \in 0..BlockSize-1, i \in Base(w) .. Base(w) + NumBuffers - 1
          PROVE  store[w][i - Base(w)].events \in Nat
      <3>1. i - Base(w) \in Slices  BY <1>2, <2>1, SMT DEF Slices
      <3>2. QED  BY <1>1, <3>1 DEF Slot
    <2>2. QED  BY <1>4, <2>1 DEF CountsWith
  <1>6. Block(lastWritten, tsArray) \in Blocks /\ Block(SkippedTo(w), CountsWith(w)) \in Blocks
    BY <1>2, <1>3, <1>5 DEF Block, TypeOK
  <1>7. QED  BY <1>2, <1>3, <1>5, <1>6

(* Publishing and moving on keep the counts well formed and aligned.         *)
LEMMA UpdateType ==
  ASSUME TypeOK, lastWritten % NumBuffers = 0, NEW w \in DOMAIN store, UpdateCounts(w)
  PROVE  /\ lastWritten' \in 0..Word-1 /\ lastWritten' % NumBuffers = 0
         /\ tsArray' \in [0..BlockSize-1 -> Nat]
         /\ meta' \in Seq([index : 0..Word-1, counts : [0..BlockSize-1 -> Nat]])
  <1> USE Constants
  <1> DEFINE Counts == [0..BlockSize-1 -> Nat]
             Blocks == [index : 0..Word-1, counts : Counts]
  <1>1. /\ SkippedTo(w) \in 0..Word-1 /\ SkippedTo(w) % NumBuffers = 0
        /\ tsArray \in Counts /\ NoCounts \in Counts /\ CountsWith(w) \in Counts
        /\ Block(lastWritten, tsArray) \in Blocks
        /\ Block(SkippedTo(w), CountsWith(w)) \in Blocks
    BY CountsType
  <1>2. Advanced(SkippedTo(w)) \in 0..Word-1 /\ Advanced(SkippedTo(w)) % NumBuffers = 0
    <2>1. SkippedTo(w) \in Int /\ BlockSize \in Int  BY <1>1
    <2>2. SkippedTo(w) + BlockSize \in Int  BY <2>1
    <2>3. (SkippedTo(w) + BlockSize) % NumBuffers = 0  BY <1>1, <2>1, AlignedSum, ZenonT(30)
    <2>4. QED  BY <2>2, <2>3, AlignedMod, ModRange, Zenon DEF Advanced
  <1>3. lastWritten' \in 0..Word-1 /\ lastWritten' % NumBuffers = 0
    BY <1>1, <1>2, Zenon DEF UpdateCounts
  <1>4. tsArray' \in Counts
    BY <1>1, Zenon DEF UpdateCounts
  <1>5. meta' \in Seq(Blocks)
    <2>1. meta \in Seq(Blocks)  BY DEF TypeOK
    <2> HIDE DEF Blocks
    <2>2. /\ <<>> \in Seq(Blocks) /\ <<Block(lastWritten, tsArray)>> \in Seq(Blocks)
          /\ <<Block(SkippedTo(w), CountsWith(w))>> \in Seq(Blocks)
      BY <1>1
    <2>3. \A x, y \in Seq(Blocks) : meta \o x \o y \in Seq(Blocks)  BY <2>1
    <2>4. QED  BY <2>2, <2>3, Zenon DEF UpdateCounts
  <1>6. QED  BY <1>3, <1>4, <1>5

(* appendData on one stream: what is left is shorter than a frame, and a     *)
(* frame that is pushed is full.                                             *)
LEMMA AppendType ==
  ASSUME TypeOK, NEW j \in Job, NEW s \in Streams
  PROVE  /\ Fits(s, j) => /\ points[s] \o Data(j, s) \in Seq(Job)
                          /\ Len(points[s] \o Data(j, s)) < FrameQty
         /\ ~Fits(s, j) => /\ Leftover(s, j) \in Seq(Job)
                           /\ Len(Leftover(s, j)) < FrameQty
                           /\ points[s] \o SubSeq(Data(j, s), 1, Room(s)) \in Seq(Job)
                           /\ Len(points[s] \o SubSeq(Data(j, s), 1, Room(s))) = FrameQty
  <1> DEFINE n == Contents[j.num][s]
  <1>1. n \in 0..FrameQty /\ FrameQty \in Nat \ {0}
    BY SizeType, FrameAssumption
  <1>2. points[s] \in Seq(Job) /\ Len(points[s]) < FrameQty /\ Len(points[s]) \in Nat
    BY DEF TypeOK
  <1>3. Room(s) \in 1..FrameQty
    BY <1>1, <1>2, SMT DEF Room
  <1> HIDE DEF n
  <1>4. Data(j, s) \in Seq(Job) /\ Len(Data(j, s)) = n
    <2>1. Data(j, s) = [i \in 1..n |-> j]  BY DEF Data, n
    <2>2. QED  BY <1>1, <2>1, SMT
  <1>5. ASSUME Fits(s, j)
        PROVE  /\ points[s] \o Data(j, s) \in Seq(Job)
               /\ Len(points[s] \o Data(j, s)) < FrameQty
    <2>1. n < FrameQty - Len(points[s])  BY <1>5 DEF Fits, Room, n
    <2>2. Len(points[s] \o Data(j, s)) = Len(points[s]) + n  BY <1>2, <1>4
    <2>3. QED  BY <1>1, <1>2, <1>4, <2>1, <2>2
  <1>6. ASSUME ~Fits(s, j)
        PROVE  /\ Leftover(s, j) \in Seq(Job)
               /\ Len(Leftover(s, j)) < FrameQty
               /\ points[s] \o SubSeq(Data(j, s), 1, Room(s)) \in Seq(Job)
               /\ Len(points[s] \o SubSeq(Data(j, s), 1, Room(s))) = FrameQty
    <2>1. Room(s) <= n  BY <1>1, <1>3, <1>6 DEF Fits, n
    <2>2. /\ SubSeq(Data(j, s), 1, Room(s)) \in Seq(Job)
          /\ Len(SubSeq(Data(j, s), 1, Room(s))) = Room(s)
      BY <1>1, <1>3, <1>4, <2>1, SMT
    <2>3. Leftover(s, j) = SubSeq(Data(j, s), Room(s) + 1, n)  BY DEF Leftover, n
    <2>4. /\ SubSeq(Data(j, s), Room(s) + 1, n) \in Seq(Job)
          /\ Len(SubSeq(Data(j, s), Room(s) + 1, n)) = n - Room(s)
      BY <1>1, <1>3, <1>4, <2>1, SMT
    <2>5. n - Room(s) < FrameQty  BY <1>1, <1>3
    <2>6. Len(points[s]) + Room(s) = FrameQty  BY <1>1, <1>2 DEF Room
    <2>7. QED  BY <1>2, <2>2, <2>3, <2>4, <2>5, <2>6, SMTT(30)
  <1>7. QED  BY <1>5, <1>6
-----------------------------------------------------------------------------
LEMMA InitInv == Init => IInv
  <1> SUFFICES ASSUME Init PROVE IInv  OBVIOUS
  <1> USE Constants DEF Init
  <1>1. TypeOK
    <2>1. lastWritten \in 0..Word-1  BY SMT
    <2>2. \A s \in Streams : Len(points[s]) < FrameQty  BY FrameAssumption
    <2>3. tsArray \in [0..BlockSize-1 -> Nat]  BY DEF NoCounts
    <2>4. meta \in Seq([index : 0..Word-1, counts : [0..BlockSize-1 -> Nat]])  OBVIOUS
    <2>5. frames \in [Streams -> Seq([number : Nat, points : Seq(Job)])]  OBVIOUS
    <2>6. /\ frameJobs \in Seq(Job) /\ jobs \in Seq(Job) /\ points \in [Streams -> Seq(Job)]
          /\ frameNumber \in [Streams -> Nat]
      OBVIOUS
    <2>7. store \in [DOMAIN store -> [Slices -> Slot]] /\ DOMAIN store \subseteq Nat
      OBVIOUS
    <2>8. QED  BY <2>1, <2>2, <2>3, <2>4, <2>5, <2>6, <2>7 DEF TypeOK
  <1>2. SlotsAccepted  BY FS_EmptySet DEF SlotsAccepted
  <1>3. Quiet /\ FramesCounted /\ FramesInterleave
    BY DEF Quiet, FramesCounted, FramesInterleave
  <1>4. CountsInArray
    <2>1. (0 * NumBuffers) % NumBuffers = 0  BY ModOfMultiple, 0 \in Int, Zenon
    <2>2. 0 * NumBuffers = 0  BY SMT
    <2>3. QED  BY <2>1, <2>2 DEF CountsInArray
  <1>5. QED  BY <1>1, <1>2, <1>3, <1>4 DEF IInv

(* The bound of CountsInArray follows from alignment, whatever the store.    *)
LEMMA AlignedNext ==
  ASSUME TypeOK', (lastWritten % NumBuffers = 0)'
  PROVE  CountsInArray'
  <1>1. \A w \in DOMAIN store' : w \in Nat  BY DEF TypeOK
  <1>2. lastWritten' \in 0..Word-1 /\ lastWritten' % NumBuffers = 0  BY DEF TypeOK
  <1>3. \A w \in DOMAIN store' :
          (((w * NumBuffers - lastWritten') % Word) % BlockSize) + NumBuffers <= BlockSize
    BY <1>1, <1>2, PlaceAt, Zenon
  <1>4. QED  BY <1>2, <1>3, Zenon DEF CountsInArray, Base, Offset

(* A frame of data begins: the history is cleared if the last one ended.     *)
LEMMA StartFrameStep ==
  ASSUME IInv, StartFrame
  PROVE  IInv'
  <1> USE DEF IInv
  <1> DEFINE Chosen(n, q) ==
        /\ frameJobs' = q
        /\ newest' \in Highest({IF ended THEN 0 ELSE newest} \cup {q[i].wrap : i \in 1..n})
        /\ packets' = (IF ended THEN 0 ELSE packets) + n
  <1>0. PICK n \in 1..MaxPerFrame : \E q \in [1..n -> Sendable] : Chosen(n, q)
    BY Zenon DEF StartFrame
  <1>1. PICK q \in [1..n -> Sendable] : Chosen(n, q)
    BY <1>0
  <1>2. Sendable \subseteq Job
    <2>1. NumBuffers \in Nat /\ MaxWrap \in Nat  BY Constants, BoundsAssumption
    <2>2. QED  BY <2>1 DEF Sendable, Job
  <1>3. n \in Nat  BY BoundsAssumption
  <1>4. frameJobs' \in Seq(Job)
    <2>1. \A i \in 1..n : q[i] \in Job  BY <1>1, <1>2
    <2>2. QED  BY <1>1, <1>3, <2>1
  <1>5. newest' \in Nat
    <2>1. newest' \in {IF ended THEN 0 ELSE newest} \cup {q[i].wrap : i \in 1..n}
      BY <1>1 DEF Highest
    <2>2. \A i \in 1..n : q[i].wrap \in Nat  BY <1>1, <1>2 DEF Job
    <2>3. newest \in Nat  BY DEF TypeOK
    <2>4. QED  BY <2>1, <2>2, <2>3
  <1>6. packets' \in Nat  BY <1>1, <1>3 DEF TypeOK
  <1>7. frames' \in [Streams -> Seq([number : Nat, points : Seq(Job)])]
    <2>1. CASE ended
      <3>1. frames' = [s \in Streams |-> <<>>]  BY <2>1 DEF StartFrame
      <3>2. <<>> \in Seq([number : Nat, points : Seq(Job)])  OBVIOUS
      <3>3. QED  BY <3>1, <3>2, Zenon
    <2>2. CASE ~ended  BY <2>2 DEF StartFrame, TypeOK
    <2>3. QED  BY <2>1, <2>2
  <1>8. /\ pc' = "slots" /\ ended' = FALSE
        /\ meta' \in Seq([index : 0..Word-1, counts : [0..BlockSize-1 -> Nat]])
        /\ accepted' = (IF ended THEN {} ELSE accepted)
        /\ UNCHANGED <<slices, jobs, buffers, counts>>
    BY DEF StartFrame, TypeOK
  <1>9. TypeOK'
    BY <1>4, <1>5, <1>6, <1>7, <1>8 DEF TypeOK, slices, buffers, counts
  <1>10. SlotsAccepted'
    BY <1>8, FS_EmptySet DEF SlotsAccepted, Quiet, slices
  <1>11. Quiet'
    BY <1>8 DEF Quiet, slices, buffers
  <1>12. FramesCounted'
    BY <1>8 DEF FramesCounted, StartFrame, buffers
  <1>13. FramesInterleave'
    BY <1>8 DEF FramesInterleave, StartFrame
  <1>14. CountsInArray'
    BY <1>8 DEF CountsInArray, Base, Offset, slices, counts
  <1>15. QED  BY <1>9, <1>10, <1>11, <1>12, <1>13, <1>14

(* A job goes into a slot of a wrap the store has, or of a new one.          *)
LEMMA HeadJob ==
  ASSUME TypeOK, NextJob
  PROVE  Head(frameJobs) \in Job /\ Tail(frameJobs) \in Seq(Job)
  <1>1. frameJobs \in Seq(Job) /\ frameJobs # <<>>  BY DEF TypeOK, NextJob
  <1>2. QED  BY <1>1, SMT

LEMMA AcceptedStep ==
  ASSUME TypeOK, SlotsAccepted, NEW j \in Job, Accept(j)
  PROVE  accepted' \subseteq Job /\ IsFiniteSet(accepted') /\ accepted \subseteq accepted'
  BY FS_AddElement DEF Accept, TypeOK, SlotsAccepted

LEMMA KnownWrapStep ==
  ASSUME IInv, KnownWrap
  PROVE  IInv'
  <1> USE DEF IInv
  <1> DEFINE j == Head(frameJobs)
  <1>1. /\ pc = "slots" /\ j \in Job /\ frameJobs' \in Seq(Job) /\ j.wrap \in DOMAIN store
        /\ store' = [store EXCEPT ![j.wrap] = WithJob(@, j)] /\ Accept(j)
        /\ UNCHANGED <<pc, currentWrap, jobs, buffers, counts, frames, meta, input>>
    BY HeadJob DEF KnownWrap, NextJob
  <1> HIDE DEF j
  <1>2. WithJob(store[j.wrap], j) \in [Slices -> Slot]
    BY <1>1, WithJobType DEF TypeOK
  <1>3. accepted' \subseteq Job /\ IsFiniteSet(accepted') /\ accepted \subseteq accepted'
    BY <1>1, AcceptedStep
  <1>4. /\ DOMAIN store' = DOMAIN store /\ store' \in [DOMAIN store' -> [Slices -> Slot]]
        /\ DOMAIN store' \subseteq Nat
    BY <1>1, <1>2 DEF TypeOK
  <1>5. TypeOK'
    BY <1>1, <1>3, <1>4 DEF TypeOK, buffers, counts, input
  <1>6. SlotsAccepted'
    <2>1. ASSUME NEW w \in DOMAIN store', NEW b \in Slices
          PROVE  store'[w][b].jobs \subseteq accepted'
      <3>1. CASE w = j.wrap
        <4>1. store'[w][b] = WithJob(store[w], j)[b]  BY <1>1, <3>1
        <4>2. WithJob(store[w], j)[b].jobs \subseteq
                store[w][b].jobs \cup (IF b = j.buf THEN {j} ELSE {})
          BY DEF WithJob
        <4>3. store[w][b].jobs \subseteq accepted  BY <1>4 DEF SlotsAccepted
        <4>4. b = j.buf => j \in accepted'  BY <1>1 DEF Accept
        <4>5. QED  BY <1>3, <4>1, <4>2, <4>3, <4>4
      <3>2. CASE w # j.wrap
        BY <1>1, <1>3, <1>4, <3>2 DEF SlotsAccepted, TypeOK
      <3>3. QED  BY <3>1, <3>2
    <2>2. QED  BY <1>3, <2>1 DEF SlotsAccepted
  <1>7. Quiet'
    BY <1>1 DEF Quiet, input
  <1>8. FramesCounted' /\ FramesInterleave'
    BY <1>1 DEF FramesCounted, FramesInterleave, buffers, input
  <1>9. CountsInArray'
    BY <1>1, <1>4 DEF CountsInArray, Base, Offset, counts
  <1>10. QED  BY <1>5, <1>6, <1>7, <1>8, <1>9

LEMMA NewWrapStep ==
  ASSUME IInv, NewWrap
  PROVE  IInv'
  <1> USE DEF IInv
  <1> DEFINE j == Head(frameJobs)
  <1>1. /\ pc = "slots" /\ j \in Job /\ frameJobs' \in Seq(Job) /\ j.wrap \notin DOMAIN store
        /\ store' = [w \in DOMAIN store \cup {j.wrap} |->
                       IF w = j.wrap THEN WithJob(EmptyWrap, j) ELSE store[w]]
        /\ currentWrap' = j.wrap /\ Accept(j)
        /\ UNCHANGED <<pc, jobs, buffers, counts, frames, meta, input>>
    BY HeadJob DEF NewWrap, NextJob
  <1> HIDE DEF j
  <1>2. WithJob(EmptyWrap, j) \in [Slices -> Slot]
    BY <1>1, WithJobType, EmptyWrapType
  <1>3. accepted' \subseteq Job /\ IsFiniteSet(accepted') /\ accepted \subseteq accepted'
    BY <1>1, AcceptedStep
  <1>4. j.wrap \in Nat  BY <1>1 DEF Job
  <1>5. /\ DOMAIN store' = DOMAIN store \cup {j.wrap} /\ DOMAIN store' \subseteq Nat
        /\ store' \in [DOMAIN store' -> [Slices -> Slot]]
    BY <1>1, <1>2, <1>4 DEF TypeOK
  <1>6. TypeOK'
    BY <1>1, <1>3, <1>4, <1>5 DEF TypeOK, buffers, counts, input
  <1>7. SlotsAccepted'
    <2>1. ASSUME NEW w \in DOMAIN store', NEW b \in Slices
          PROVE  store'[w][b].jobs \subseteq accepted'
      <3>1. CASE w = j.wrap
        <4>1. store'[w][b] = WithJob(EmptyWrap, j)[b]  BY <1>1, <3>1
        <4>2. WithJob(EmptyWrap, j)[b].jobs \subseteq (IF b = j.buf THEN {j} ELSE {})
          BY DEF WithJob, EmptyWrap
        <4>3. b = j.buf => j \in accepted'  BY <1>1 DEF Accept
        <4>4. QED  BY <4>1, <4>2, <4>3
      <3>2. CASE w # j.wrap
        BY <1>1, <1>3, <1>5, <3>2 DEF SlotsAccepted, TypeOK
      <3>3. QED  BY <3>1, <3>2
    <2>2. QED  BY <1>3, <2>1 DEF SlotsAccepted
  <1>8. Quiet'
    BY <1>1 DEF Quiet, input
  <1>9. FramesCounted' /\ FramesInterleave'
    BY <1>1 DEF FramesCounted, FramesInterleave, buffers, input
  <1>10. CountsInArray'
    <2>1. (lastWritten % NumBuffers)' = 0  BY <1>1 DEF counts, CountsInArray
    <2>2. QED  BY <1>6, <2>1, AlignedNext
  <1>11. QED  BY <1>6, <1>7, <1>8, <1>9, <1>10

(* The oldest wrap leaves the store, its counts and jobs move on.            *)
LEMMA TakeWrapStep ==
  ASSUME IInv, NEW w \in DOMAIN store, TakeWrap(w), ~ended, pc \in {"flush", "purge"},
         UNCHANGED <<pc, frameJobs, currentWrap, buffers, frames, accepted, input>>
  PROVE  IInv'
  <1> USE DEF IInv
  <1>1. lastWritten % NumBuffers = 0  BY DEF CountsInArray
  <1>2. /\ lastWritten' \in 0..Word-1 /\ lastWritten' % NumBuffers = 0
        /\ tsArray' \in [0..BlockSize-1 -> Nat]
        /\ meta' \in Seq([index : 0..Word-1, counts : [0..BlockSize-1 -> Nat]])
    BY <1>1, UpdateType DEF TakeWrap
  <1>3. jobs' \in Seq(Job)
    <2>1. PICK q \in InSlotOrder(w) : jobs' = jobs \o q  BY DEF TakeWrap
    <2>2. q \in Seq(Job)  BY SlotOrderType
    <2>3. QED  BY <2>1, <2>2 DEF TypeOK
  <1>4. store' = [v \in DOMAIN store \ {w} |-> store[v]]
    BY DEF TakeWrap, WithoutWrap
  <1>5. TypeOK'
    <2>1. DOMAIN store' \subseteq Nat /\ store' \in [DOMAIN store' -> [Slices -> Slot]]
      BY <1>4 DEF TypeOK
    <2>2. QED  BY <1>2, <1>3, <2>1 DEF TypeOK, buffers, input
  <1>6. SlotsAccepted'
    BY <1>4 DEF SlotsAccepted
  <1>7. Quiet'
    BY DEF Quiet, input, buffers
  <1>8. FramesCounted' /\ FramesInterleave'
    BY DEF FramesCounted, FramesInterleave, buffers, input
  <1>9. CountsInArray'
    BY <1>2, <1>5, AlignedNext
  <1>10. QED  BY <1>5, <1>6, <1>7, <1>8, <1>9

LEMMA PurgeCountsStep ==
  ASSUME IInv, PurgeCounts
  PROVE  IInv'
  <1> USE DEF IInv
  <1> DEFINE Blocks == [index : 0..Word-1, counts : [0..BlockSize-1 -> Nat]]
  <1>1. meta' \in Seq(Blocks)
    <2>1. Block(lastWritten, tsArray) \in Blocks /\ meta \in Seq(Blocks)
      BY DEF TypeOK, Block
    <2> HIDE DEF Blocks
    <2>2. QED  BY <2>1 DEF PurgeCounts
  <1>2. tsArray' \in [0..BlockSize-1 -> Nat]
    BY DEF PurgeCounts, NoCounts, TypeOK
  <1>3. /\ pc = "purge" /\ pc' = "purgeAppend" /\ DOMAIN store = {}
        /\ UNCHANGED <<frameJobs, slices, jobs, buffers, lastWritten, frames, accepted, input>>
    BY DEF PurgeCounts
  <1>4. TypeOK'
    BY <1>1, <1>2, <1>3 DEF TypeOK, slices, buffers, input
  <1>5. SlotsAccepted' /\ Quiet'
    BY <1>3 DEF SlotsAccepted, Quiet, slices, buffers, input
  <1>6. FramesCounted' /\ FramesInterleave'
    BY <1>3 DEF FramesCounted, FramesInterleave, buffers, input
  <1>7. CountsInArray'
    BY <1>3 DEF CountsInArray, Base, Offset, slices
  <1>8. QED  BY <1>4, <1>5, <1>6, <1>7

(* A frame appended to a dataset keeps the numbers contiguous.               *)
LEMMA FramesGrow ==
  ASSUME IInv, ~ended, NEW s \in Streams, NEW data \in Seq(Job)
  PROVE  /\ Append(frames[s], DatasetFrame(s, data)) \in Seq([number : Nat, points : Seq(Job)])
         /\ Len(Append(frames[s], DatasetFrame(s, data))) = frameNumber[s] + 1
         /\ \A k \in DOMAIN Append(frames[s], DatasetFrame(s, data)) :
              LET f == Append(frames[s], DatasetFrame(s, data))[k] IN
              /\ f.number = Rank + (k - 1) * Processes
              /\ k <= frameNumber[s] => Len(f.points) = FrameQty
              /\ k = frameNumber[s] + 1 => f.points = data
  <1> DEFINE F == frames[s]
             d == DatasetFrame(s, data)
  <1>1. /\ F \in Seq([number : Nat, points : Seq(Job)]) /\ frameNumber[s] = Len(F)
        /\ Len(F) \in Nat
    BY DEF IInv, TypeOK, FramesCounted
  <1>2. d.number = Rank + Len(F) * Processes /\ d.points = data
    BY <1>1 DEF DatasetFrame, FrameId
  <1>3. d \in [number : Nat, points : Seq(Job)]
    <2>1. Rank \in Nat /\ Processes \in Nat  BY ProcessAssumption
    <2>2. PICK n \in Nat : n = frameNumber[s]  BY <1>1
    <2>3. n * Processes \in Nat  BY <2>1, SMT
    <2>4. Rank + n * Processes \in Nat  BY <2>1, <2>3
    <2>5. FrameId(s) \in Nat  BY <2>2, <2>4, Zenon DEF FrameId
    <2>6. QED  BY <2>5 DEF DatasetFrame
  <1>4. \A k \in DOMAIN F : F[k].number = Rank + (k - 1) * Processes /\ Len(F[k].points) = FrameQty
    BY DEF IInv, FramesInterleave
  <1> HIDE DEF F, d
  <1>5. Append(F, d) \in Seq([number : Nat, points : Seq(Job)]) /\ Len(Append(F, d)) = Len(F) + 1
    BY <1>1, <1>3
  <1>6. ASSUME NEW k \in DOMAIN Append(F, d)
        PROVE  /\ Append(F, d)[k].number = Rank + (k - 1) * Processes
               /\ k <= Len(F) => Len(Append(F, d)[k].points) = FrameQty
               /\ k = Len(F) + 1 => Append(F, d)[k].points = data
    <2>1. k \in 1..Len(F) \/ k = Len(F) + 1  BY <1>1, <1>5
    <2>2. CASE k \in 1..Len(F)
      <3>1. Append(F, d)[k] = F[k] /\ k \in DOMAIN F  BY <1>1, <2>2
      <3>2. QED  BY <1>1, <1>4, <2>2, <3>1
    <2>3. CASE k = Len(F) + 1
      <3>1. Append(F, d)[k] = d /\ k - 1 = Len(F) /\ ~(k <= Len(F))  BY <1>1, <2>3
      <3>2. QED  BY <1>2, <3>1, Zenon
    <2>4. QED  BY <2>1, <2>2, <2>3
  <1>7. QED  BY <1>1, <1>5, <1>6, Zenon DEF F, d

LEMMA AppendJobStep ==
  ASSUME IInv, AppendJob
  PROVE  IInv'
  <1> USE DEF IInv
  <1> DEFINE j == Head(jobs)
  <1>1. /\ pc \in {"append", "purgeAppend"} /\ jobs # <<>> /\ jobs' = Tail(jobs)
        /\ points' = [s \in Streams |->
             IF Fits(s, j) THEN points[s] \o Data(j, s) ELSE Leftover(s, j)]
        /\ frames' = [s \in Streams |->
             IF Fits(s, j) THEN frames[s]
             ELSE Append(frames[s], DatasetFrame(s, points[s] \o SubSeq(Data(j, s), 1, Room(s))))]
        /\ frameNumber' = [s \in Streams |->
             IF Fits(s, j) THEN frameNumber[s] ELSE frameNumber[s] + 1]
        /\ UNCHANGED <<pc, frameJobs, slices, counts, meta, accepted, input>>
    BY DEF AppendJob
  <1>2. j \in Job /\ jobs' \in Seq(Job)
    <2>1. jobs \in Seq(Job)  BY DEF TypeOK
    <2>2. QED  BY <1>1, <2>1, SMT
  <1> HIDE DEF j
  <1>3. ~ended /\ ~ended'  BY <1>1 DEF Quiet, input
  <1>4. \A s \in Streams : points'[s] \in Seq(Job) /\ Len(points'[s]) < FrameQty
    BY <1>1, <1>2, AppendType
  <1>5. ASSUME NEW s \in Streams
        PROVE  /\ frames'[s] \in Seq([number : Nat, points : Seq(Job)])
               /\ frameNumber'[s] = Len(frames'[s]) /\ frameNumber'[s] \in Nat
               /\ \A k \in DOMAIN frames'[s] :
                    /\ frames'[s][k].number = Rank + (k - 1) * Processes
                    /\ Len(frames'[s][k].points) = FrameQty
    <2>1. frames[s] \in Seq([number : Nat, points : Seq(Job)]) /\ frameNumber[s] = Len(frames[s])
      BY <1>3 DEF TypeOK, FramesCounted
    <2>2. CASE Fits(s, j)
      <3>1. frames'[s] = frames[s] /\ frameNumber'[s] = frameNumber[s]  BY <1>1, <2>2
      <3>2. QED  BY <1>3, <2>1, <3>1 DEF FramesInterleave
    <2>3. CASE ~Fits(s, j)
      <3> DEFINE data == points[s] \o SubSeq(Data(j, s), 1, Room(s))
                 longer == Append(frames[s], DatasetFrame(s, data))
      <3>1. frames'[s] = longer /\ frameNumber'[s] = frameNumber[s] + 1  BY <1>1, <2>3
      <3>2. data \in Seq(Job) /\ Len(data) = FrameQty  BY <1>2, <2>3, AppendType
      <3> HIDE DEF data
      <3>3. /\ longer \in Seq([number : Nat, points : Seq(Job)])
            /\ Len(longer) = frameNumber[s] + 1
            /\ \A k \in DOMAIN longer :
                 /\ longer[k].number = Rank + (k - 1) * Processes
                 /\ k <= frameNumber[s] => Len(longer[k].points) = FrameQty
                 /\ k = frameNumber[s] + 1 => longer[k].points = data
        BY <1>3, <3>2, FramesGrow
      <3> HIDE DEF longer
      <3>4. \A k \in DOMAIN longer : k <= frameNumber[s] \/ k = frameNumber[s] + 1
        BY <2>1, <3>3, SMTT(30)
      <3>5. \A k \in DOMAIN longer : Len(longer[k].points) = FrameQty
        BY <3>2, <3>3, <3>4, Zenon
      <3>6. frameNumber[s] + 1 \in Nat  BY <2>1
      <3>7. QED  BY <3>1, <3>3, <3>5, <3>6, Zenon
    <2>4. QED  BY <2>2, <2>3
  <1>6. TypeOK'
    <2>1. frames' \in [Streams -> Seq([number : Nat, points : Seq(Job)])]  BY <1>1, <1>5
    <2>2. frameNumber' \in [Streams -> Nat]  BY <1>1, <1>5
    <2>3. points' \in [Streams -> Seq(Job)]  BY <1>1, <1>4
    <2>4. QED  BY <1>1, <1>2, <1>4, <2>1, <2>2, <2>3 DEF TypeOK, slices, counts, input
  <1>7. SlotsAccepted' /\ Quiet'
    BY <1>1, <1>3 DEF SlotsAccepted, Quiet, slices
  <1>8. FramesCounted' /\ FramesInterleave'
    BY <1>3, <1>5 DEF FramesCounted, FramesInterleave
  <1>9. CountsInArray'
    BY <1>1 DEF CountsInArray, Base, Offset, slices, counts
  <1>10. QED  BY <1>6, <1>7, <1>8, <1>9

(* An idle frame ends: partly filled frames are pushed, the rest is reset.   *)
LEMMA EndIdleStep ==
  ASSUME IInv, EndIdle
  PROVE  IInv'
  <1> USE DEF IInv
  <1>1. /\ pc = "purgeAppend" /\ jobs = <<>> /\ DOMAIN store = {}
        /\ pc' = "ready" /\ ended' = TRUE /\ currentWrap' = 0 /\ lastWritten' = 0
        /\ tsArray' = NoCounts
        /\ points' = [s \in Streams |-> <<>>] /\ frameNumber' = [s \in Streams |-> 0]
        /\ frames' = [s \in Streams |->
             IF Emptied(s) THEN frames[s] ELSE Append(frames[s], DatasetFrame(s, points[s]))]
        /\ UNCHANGED <<frameJobs, store, jobs, meta, accepted, newest, packets>>
    BY DEF EndIdle, Quiet
  <1>2. ASSUME NEW s \in Streams
        PROVE  /\ frames'[s] \in Seq([number : Nat, points : Seq(Job)])
               /\ \A k \in DOMAIN frames'[s] :
                    /\ frames'[s][k].number = Rank + (k - 1) * Processes
                    /\ k < Len(frames'[s]) => Len(frames'[s][k].points) = FrameQty
    <2>1. frames[s] \in Seq([number : Nat, points : Seq(Job)]) /\ points[s] \in Seq(Job)
      BY DEF TypeOK
    <2>2. CASE Emptied(s)
      <3>1. frames'[s] = frames[s]  BY <1>1, <2>2
      <3>2. QED  BY <2>1, <3>1 DEF FramesInterleave
    <2>3. CASE ~Emptied(s)
      <3> DEFINE longer == Append(frames[s], DatasetFrame(s, points[s]))
      <3>1. frames'[s] = longer  BY <1>1, <2>3
      <3>2. ~ended  BY <2>3 DEF Quiet, Emptied
      <3>3. /\ longer \in Seq([number : Nat, points : Seq(Job)])
            /\ Len(longer) = frameNumber[s] + 1
            /\ \A k \in DOMAIN longer :
                 /\ longer[k].number = Rank + (k - 1) * Processes
                 /\ k <= frameNumber[s] => Len(longer[k].points) = FrameQty
        BY <2>1, <3>2, FramesGrow
      <3>4. frameNumber[s] \in Nat  BY DEF TypeOK
      <3> HIDE DEF longer
      <3>5. \A k \in DOMAIN longer : k < Len(longer) => k <= frameNumber[s]
        BY <3>3, <3>4, SMTT(30)
      <3>6. QED  BY <3>1, <3>3, <3>5, Zenon
    <2>4. QED  BY <2>2, <2>3
  <1>3. TypeOK'
    <2>1. frames' \in [Streams -> Seq([number : Nat, points : Seq(Job)])]  BY <1>1, <1>2
    <2>2. frameNumber' \in [Streams -> Nat] /\ points' \in [Streams -> Seq(Job)]  BY <1>1
    <2>3. \A s \in Streams : Len(points'[s]) < FrameQty  BY <1>1, FrameAssumption
    <2>4. lastWritten' \in 0..Word-1 /\ tsArray' \in [0..BlockSize-1 -> Nat]
      BY <1>1, Constants DEF NoCounts
    <2>5. QED  BY <1>1, <2>1, <2>2, <2>3, <2>4 DEF TypeOK
  <1>4. SlotsAccepted' /\ Quiet'
    BY <1>1 DEF SlotsAccepted, Quiet
  <1>5. FramesCounted' /\ FramesInterleave'
    BY <1>1, <1>2 DEF FramesCounted, FramesInterleave
  <1>6. CountsInArray'
    <2>1. (0 * NumBuffers) % NumBuffers = 0  BY Constants, ModOfMultiple, 0 \in Int, Zenon
    <2>2. 0 * NumBuffers = 0  BY Constants, SMT
    <2>3. (lastWritten % NumBuffers = 0)'  BY <1>1, <2>1, <2>2
    <2>4. QED  BY <1>3, <2>3, AlignedNext
  <1>7. QED  BY <1>3, <1>4, <1>5, <1>6

(* The other steps move only pc, or drop a job.                              *)
Turn == EndSlots \/ EndFlush \/ StartIdle \/ EndFrame \/ DuplicateJob \/ StaleJob

LEMMA TurnStep ==
  ASSUME IInv, Turn
  PROVE  IInv'
  <1> USE DEF IInv
  <1>1. /\ UNCHANGED <<slices, jobs, buffers, counts, frames, meta, accepted, input>>
        /\ frameJobs' \in Seq(Job)
        /\ pc' \in {"ready", "slots", "flush", "append", "purge", "halted"}
        /\ pc' \notin {"slots", "halted"} => frameJobs' = <<>>
        /\ ended => pc' \in {"ready", "purge"}
    <2>1. CASE StaleJob
      BY <2>1, HeadJob DEF StaleJob, NextJob, Quiet
    <2>2. CASE DuplicateJob
      BY <2>2 DEF DuplicateJob, NextJob, Quiet, TypeOK
    <2>3. CASE EndSlots
      BY <2>3 DEF EndSlots, Quiet, TypeOK
    <2>4. CASE EndFlush \/ StartIdle \/ EndFrame
      BY <2>4 DEF EndFlush, StartIdle, EndFrame, Quiet, TypeOK
    <2>5. QED  BY <2>1, <2>2, <2>3, <2>4 DEF Turn
  <1>2. TypeOK'
    BY <1>1 DEF TypeOK, slices, buffers, counts, input
  <1>3. SlotsAccepted' /\ Quiet'
    BY <1>1 DEF SlotsAccepted, Quiet, slices, buffers, input
  <1>4. FramesCounted' /\ FramesInterleave'
    BY <1>1 DEF FramesCounted, FramesInterleave, buffers, input
  <1>5. CountsInArray'
    BY <1>1 DEF CountsInArray, Base, Offset, slices, counts
  <1>6. QED  BY <1>2, <1>3, <1>4, <1>5

LEMMA StepInv == IInv /\ [Next]_vars => IInv'
  <1> SUFFICES ASSUME IInv, [Next]_vars PROVE IInv'  OBVIOUS
  <1>1. CASE StartFrame  BY <1>1, StartFrameStep
  <1>2. CASE KnownWrap  BY <1>2, KnownWrapStep
  <1>3. CASE NewWrap  BY <1>3, NewWrapStep
  <1>4. CASE FlushWrap
    <2>1. PICK w \in DOMAIN store : TakeWrap(w)  BY <1>4 DEF FlushWrap
    <2>2. pc = "flush" /\ ~ended  BY <1>4 DEF FlushWrap, IInv, Quiet
    <2>3. QED  BY <1>4, <2>1, <2>2, TakeWrapStep DEF FlushWrap
  <1>5. CASE PurgeWrap
    <2>1. PICK w \in DOMAIN store : TakeWrap(w)  BY <1>5 DEF PurgeWrap
    <2>2. pc = "purge" /\ ~ended  BY <1>5, <2>1 DEF PurgeWrap, IInv, Quiet
    <2>3. QED  BY <1>5, <2>1, <2>2, TakeWrapStep DEF PurgeWrap
  <1>6. CASE PurgeCounts  BY <1>6, PurgeCountsStep
  <1>7. CASE AppendJob  BY <1>7, AppendJobStep
  <1>8. CASE EndIdle  BY <1>8, EndIdleStep
  <1>9. CASE Turn  BY <1>9, TurnStep
  <1>10. CASE UNCHANGED vars
    BY <1>10 DEF IInv, TypeOK, SlotsAccepted, Quiet, FramesCounted, FramesInterleave,
                 CountsInArray, Base, Offset, vars, slices, buffers, counts, input
  <1>11. QED
    BY <1>1, <1>2, <1>3, <1>4, <1>5, <1>6, <1>7, <1>8, <1>9, <1>10 DEF Next, Step, Turn

(* The inductive invariant holds in every behaviour of the specification.    *)
THEOREM Invariant == Spec => []IInv
  <1>1. QED  BY InitInv, StepInv, PTL DEF Spec

(* Every variable keeps its type: in particular a LATRDBuffer that has taken *)
(* a job has room left for a point, so appendData never starts full.         *)
THEOREM TypeCorrect == Spec => []TypeOK
  <1>1. IInv => TypeOK  BY DEF IInv
  <1>2. QED  BY <1>1, Invariant, PTL

(* The counts of a wrap are written inside ts_index_array_, for every number *)
(* of wraps, however late packets are and also after the 32-bit index has    *)
(* wrapped: update_time_slice_meta_data needs no check of the index.         *)
THEOREM CountsBounded == Spec => []CountsInArray
  <1>1. IInv => CountsInArray  BY DEF IInv
  <1>2. QED  BY <1>1, Invariant, PTL

(* The frames of a dataset are full, but for the last of an acquisition, and *)
(* numbered for this rank with no gap: the ranks' frames interleave to one   *)
(* dataset without a hole left by this rank (retrieveCurrentFrame).          *)
THEOREM FramesContiguous == Spec => []FramesInterleave
  <1>1. IInv => FramesInterleave  BY DEF IInv
  <1>2. QED  BY <1>1, Invariant, PTL
-----------------------------------------------------------------------------
(* Taking in jobs, or between two frames: no idle frame is being handled.    *)
Acquiring == ~ended /\ pc \notin {"purge", "purgeAppend"}

(* The highest wrap met is n; the jobs in hand may be ahead of it.           *)
HorizonAt(n) ==
  Acquiring =>
    /\ currentWrap = n \/ currentWrap + 1 = n
    /\ \A w \in Nat : Flushed(w) => w + 2 <= n
    /\ \A w \in DOMAIN store : w <= n
    /\ \A i \in DOMAIN frameJobs : frameJobs[i].wrap <= newest /\ frameJobs[i].wrap + 2 # n
    /\ \A i, k \in DOMAIN frameJobs : i < k => frameJobs[k].wrap + 2 # frameJobs[i].wrap
    /\ n <= newest
    /\ n = newest \/ \E i \in DOMAIN frameJobs : frameJobs[i].wrap = newest

Final == \A w \in Nat : Flushed(w) => w \notin DOMAIN store'

(* The horizon never moves back, but for the start of an acquisition.        *)
Further(n, m) == HorizonAt(m)' /\ (m >= n \/ ended) /\ Final

LEMMA NotTwoBehind ==
  ASSUME 2 \notin Lateness, NEW w \in Nat, NEW n \in Nat, Behind(w, n) \in Lateness
  PROVE  w + 2 # n
  <1>1. ASSUME w + 2 = n PROVE Behind(w, n) = 2
    BY <1>1 DEF Behind
  <1>2. QED  BY <1>1

LEMMA StartFrameHorizon ==
  ASSUME IInv, NEW n \in Nat, HorizonAt(n), StartFrame, 2 \notin Lateness
  PROVE  \E m \in Nat : Further(n, m)
  <1>0. PICK from : from = IF ended THEN 0 ELSE newest  OBVIOUS
  <1> DEFINE Chosen(l, q) ==
        /\ \A i, k \in 1..l : i < k => Behind(q[k].wrap, q[i].wrap) \in Lateness
        /\ frameJobs' = q
        /\ newest' \in Highest({from} \cup {q[i].wrap : i \in 1..l})
  <1>1. PICK l \in 1..MaxPerFrame : \E q \in [1..l -> Sendable] : Chosen(l, q)
    BY <1>0, Zenon DEF StartFrame
  <1>2. PICK q \in [1..l -> Sendable] : Chosen(l, q)
    BY <1>1
  <1>3. /\ pc' = "slots" /\ ~ended' /\ pc = "ready"
        /\ accepted' = (IF ended THEN {} ELSE accepted)
        /\ UNCHANGED <<slices, jobs, buffers, counts>>
    BY DEF StartFrame
  <1>4. newest \in Nat /\ from \in Nat /\ currentWrap \in Nat /\ frameJobs = <<>>
    BY <1>0, <1>3 DEF IInv, TypeOK, Quiet
  <1>5. ~ended => n = newest
    BY <1>3, <1>4 DEF HorizonAt, Acquiring
  <1>6. from \in Nat /\ (~ended => from = n) /\ (ended => from = 0)
    BY <1>0, <1>4, <1>5
  <1>7. \A i \in 1..l : q[i].wrap \in Nat /\ q[i].wrap + 2 # from
    <2>1. TAKE i \in 1..l
    <2>2. q[i].wrap \in 0..MaxWrap /\ Behind(q[i].wrap, from) \in Lateness
      BY <1>0 DEF Sendable
    <2>3. q[i].wrap \in Nat  BY <2>2, BoundsAssumption
    <2>4. QED  BY <1>6, <2>2, <2>3, NotTwoBehind
  <1>8. \A i, k \in 1..l : i < k => q[k].wrap + 2 # q[i].wrap
    BY <1>2, <1>7, NotTwoBehind
  <1>9. /\ DOMAIN frameJobs' = 1..l /\ frameJobs' = q
        /\ newest' = from \/ \E i \in 1..l : q[i].wrap = newest'
        /\ \A i \in 1..l : q[i].wrap <= newest'
        /\ from <= newest'
    BY <1>2 DEF Highest
  <1>10. currentWrap' = from \/ currentWrap' + 1 = from
    <2>1. CASE ended  BY <1>3, <1>6, <2>1 DEF IInv, Quiet, slices
    <2>2. CASE ~ended  BY <1>3, <1>6, <2>2 DEF HorizonAt, Acquiring, slices
    <2>3. QED  BY <2>1, <2>2
  <1>11. \A w \in Nat : Flushed(w)' => w + 2 <= from
    <2>1. SUFFICES ASSUME NEW w \in Nat, Flushed(w)' PROVE w + 2 <= from
      OBVIOUS
    <2>2. ~ended /\ Flushed(w)  BY <1>3, <2>1 DEF Flushed, slices
    <2>3. QED  BY <1>3, <1>6, <2>2 DEF HorizonAt, Acquiring
  <1>12. \A w \in DOMAIN store' : w <= from
    BY <1>3, <1>6 DEF HorizonAt, Acquiring, IInv, Quiet, slices
  <1>15. HorizonAt(from)'
    BY <1>7, <1>8, <1>9, <1>10, <1>11, <1>12 DEF HorizonAt
  <1>13. Final  BY <1>3 DEF Final, Flushed, slices
  <1>14. QED  BY <1>6, <1>15, <1>13 DEF Further

(* A job is met: a wrap it opens is at the horizon, or next to it.           *)
LEMMA JobHorizon ==
  ASSUME IInv, NEW n \in Nat, HorizonAt(n), KnownWrap \/ NewWrap \/ StaleJob
  PROVE  /\ \E m \in Nat : Further(n, m) /\ m >= n
         /\ NewWrap => Head(frameJobs).wrap + 1 >= n
  <1>0. PICK w : w = Head(frameJobs).wrap  OBVIOUS
  <1> DEFINE m == IF w > n THEN w ELSE n
  <1>1. /\ pc = "slots" /\ pc' = pc /\ ~ended /\ frameJobs' = Tail(frameJobs)
        /\ UNCHANGED input
        /\ frameJobs \in Seq(Job) /\ frameJobs # <<>>
    BY DEF KnownWrap, NewWrap, StaleJob, NextJob, IInv, TypeOK, Quiet
  <1>2. /\ w = frameJobs[1].wrap /\ 1 \in DOMAIN frameJobs /\ w \in Nat
        /\ DOMAIN frameJobs \subseteq Nat \ {0}
        /\ \A i \in DOMAIN frameJobs : frameJobs[i].wrap \in Nat
        /\ \A i \in DOMAIN frameJobs' : i + 1 \in DOMAIN frameJobs /\ frameJobs'[i] = frameJobs[i + 1]
        /\ \A i \in DOMAIN frameJobs : i = 1 \/ (i - 1 \in DOMAIN frameJobs' /\ frameJobs'[i - 1] = frameJobs[i])
    <2>1. \A j \in Job : j.wrap \in Nat  BY DEF Job
    <2>2. /\ Head(frameJobs) = frameJobs[1] /\ 1 \in DOMAIN frameJobs
          /\ DOMAIN frameJobs \subseteq Nat \ {0}
          /\ \A i \in DOMAIN frameJobs : frameJobs[i] \in Job
          /\ \A i \in DOMAIN frameJobs' : i + 1 \in DOMAIN frameJobs /\ frameJobs'[i] = frameJobs[i + 1]
          /\ \A i \in DOMAIN frameJobs : i = 1 \/ (i - 1 \in DOMAIN frameJobs' /\ frameJobs'[i - 1] = frameJobs[i])
      BY <1>1, SMT
    <2>3. QED  BY <1>0, <2>1, <2>2
  <1>3. newest \in Nat /\ currentWrap \in Nat /\ newest' = newest
    BY <1>1 DEF IInv, TypeOK, input
  <1>4. /\ currentWrap = n \/ currentWrap + 1 = n
        /\ \A v \in Nat : Flushed(v) => v + 2 <= n
        /\ \A v \in DOMAIN store : v <= n
        /\ \A i \in DOMAIN frameJobs : frameJobs[i].wrap <= newest /\ frameJobs[i].wrap + 2 # n
        /\ \A i, k \in DOMAIN frameJobs : i < k => frameJobs[k].wrap + 2 # frameJobs[i].wrap
        /\ n <= newest
        /\ n = newest \/ \E i \in DOMAIN frameJobs : frameJobs[i].wrap = newest
    BY <1>1 DEF HorizonAt, Acquiring
  <1>5. NewWrap => w + 1 >= n
    BY <1>0, <1>2, <1>3, <1>4 DEF NewWrap, Recent
  <1>6. /\ \A v \in Nat : Flushed(v)' => Flushed(v)
        /\ \A v \in Nat : Flushed(v) /\ v # w => v \notin DOMAIN store'
        /\ DOMAIN store' \subseteq DOMAIN store \cup {w}
    <2>1. CASE KnownWrap  BY <1>0, <2>1 DEF KnownWrap, Accept, Flushed
    <2>2. CASE NewWrap  BY <1>0, <2>2 DEF NewWrap, Accept, Flushed
    <2>3. CASE StaleJob  BY <1>0, <2>3 DEF StaleJob, slices, Flushed
    <2>4. QED  BY <2>1, <2>2, <2>3
  <1>7. w + 2 # n  BY <1>2, <1>4
  <1>8. Flushed(w) => w \notin DOMAIN store'
    <2>1. SUFFICES ASSUME Flushed(w) PROVE w \notin DOMAIN store'  OBVIOUS
    <2>2. w + 2 <= n  BY <1>2, <1>4, <2>1
    <2>3. ~NewWrap /\ w \notin DOMAIN store  BY <1>2, <1>5, <1>7, <2>1, <2>2 DEF Flushed
    <2>4. DOMAIN store' = DOMAIN store  BY <2>3 DEF KnownWrap, StaleJob, slices
    <2>5. QED  BY <2>3, <2>4
  <1>9. m \in Nat /\ m >= n /\ m >= w /\ (m = n \/ m = w)  BY <1>2
  <1>10. currentWrap' = m \/ currentWrap' + 1 = m
    <2>1. CASE NewWrap
      <3>1. currentWrap' = w  BY <1>0, <2>1 DEF NewWrap
      <3>2. QED  BY <1>2, <1>5, <2>1, <3>1
    <2>2. CASE KnownWrap \/ StaleJob
      <3>1. currentWrap' = currentWrap  BY <2>2 DEF KnownWrap, StaleJob, slices
      <3>2. w <= n
        <4>1. CASE KnownWrap  BY <1>0, <1>4, <4>1 DEF KnownWrap
        <4>2. CASE StaleJob
          <5>1. ~(w + 1 >= currentWrap)  BY <1>0, <4>2 DEF StaleJob, Recent
          <5>2. QED  BY <1>2, <1>3, <1>4, <5>1
        <4>3. QED  BY <2>2, <4>1, <4>2
      <3>3. QED  BY <1>2, <1>4, <3>1, <3>2
    <2>3. QED  BY <2>1, <2>2
  <1> HIDE DEF m
  <1>11. /\ \A v \in Nat : Flushed(v)' => v + 2 <= m
         /\ \A v \in DOMAIN store' : v <= m
    <2>1. \A v \in DOMAIN store : v \in Nat  BY DEF IInv, TypeOK
    <2>2. QED  BY <1>2, <1>4, <1>6, <1>9, <2>1
  <1>12. \A i \in DOMAIN frameJobs' : frameJobs'[i].wrap <= newest' /\ frameJobs'[i].wrap + 2 # m
    <2>1. SUFFICES ASSUME NEW i \in DOMAIN frameJobs'
                   PROVE  frameJobs'[i].wrap <= newest' /\ frameJobs'[i].wrap + 2 # m
      OBVIOUS
    <2>2. i + 1 \in DOMAIN frameJobs /\ frameJobs'[i] = frameJobs[i + 1] /\ 1 < i + 1
      <3>1. i + 1 \in DOMAIN frameJobs /\ frameJobs'[i] = frameJobs[i + 1]  BY <1>2
      <3>2. i \in Nat \ {0}  BY <1>1, <2>1
      <3>3. QED  BY <3>1, <3>2
    <2>3. frameJobs[i + 1].wrap + 2 # w  BY <1>2, <1>4, <2>2
    <2>4. QED  BY <1>3, <1>4, <1>9, <2>2, <2>3
  <1>13. \A i, k \in DOMAIN frameJobs' : i < k => frameJobs'[k].wrap + 2 # frameJobs'[i].wrap
    <2>1. SUFFICES ASSUME NEW i \in DOMAIN frameJobs', NEW k \in DOMAIN frameJobs', i < k
                   PROVE  frameJobs'[k].wrap + 2 # frameJobs'[i].wrap
      OBVIOUS
    <2>2. i \in Nat /\ k \in Nat  BY <1>1, <2>1
    <2>3. i + 1 \in DOMAIN frameJobs /\ k + 1 \in DOMAIN frameJobs /\ i + 1 < k + 1
      BY <1>2, <2>1, <2>2
    <2>4. QED  BY <1>2, <1>4, <2>3
  <1>14. m <= newest' /\ (m = newest' \/ \E i \in DOMAIN frameJobs' : frameJobs'[i].wrap = newest')
    <2>1. w <= newest /\ m <= newest'  BY <1>2, <1>3, <1>4, <1>9
    <2>2. CASE n = newest  BY <1>2, <1>3, <1>9, <2>1, <2>2
    <2>3. CASE \E i \in DOMAIN frameJobs : frameJobs[i].wrap = newest
      <3>1. PICK i \in DOMAIN frameJobs : frameJobs[i].wrap = newest  BY <2>3
      <3>2. CASE i = 1
        <4>1. w = newest  BY <1>2, <3>1, <3>2
        <4>2. QED  BY <1>2, <1>3, <1>4, <1>9, <4>1
      <3>3. CASE i # 1
        BY <1>2, <1>3, <2>1, <3>1, <3>3
      <3>4. QED  BY <3>2, <3>3
    <2>4. QED  BY <1>4, <2>2, <2>3
  <1>15. HorizonAt(m)'
    BY <1>10, <1>11, <1>12, <1>13, <1>14 DEF HorizonAt
  <1>16. Final
    BY <1>6, <1>8 DEF Final
  <1>17. QED  BY <1>0, <1>5, <1>9, <1>15, <1>16 DEF Further

(* A wrap is flushed only when it is two behind the horizon.                 *)
LEMMA FlushHorizon ==
  ASSUME IInv, NEW n \in Nat, HorizonAt(n), FlushWrap
  PROVE  /\ Further(n, n)
         /\ \A w \in DOMAIN store : Old(w) => w + 2 <= n
  <1>1. PICK w \in DOMAIN store : Old(w) /\ TakeWrap(w)  BY DEF FlushWrap
  <1>2. /\ Acquiring /\ frameJobs = <<>>
        /\ UNCHANGED <<pc, frameJobs, currentWrap, accepted, input>>
    BY DEF FlushWrap, IInv, Quiet, Acquiring
  <1>3. DOMAIN store' = DOMAIN store \ {w}
    BY <1>1 DEF TakeWrap, WithoutWrap
  <1>4. \A v \in DOMAIN store : v \in Nat /\ (Old(v) => v + 2 <= n)
    <2>1. currentWrap \in Nat /\ currentWrap <= n  BY <1>2 DEF IInv, TypeOK, HorizonAt
    <2>2. QED  BY <2>1 DEF Old, IInv, TypeOK
  <1>5. \A v \in Nat : Flushed(v)' => Flushed(v) \/ v = w
    BY <1>2, <1>3 DEF Flushed
  <1>6. HorizonAt(n)'
    BY <1>1, <1>2, <1>3, <1>4, <1>5 DEF HorizonAt, Acquiring, input
  <1>7. Final
    BY <1>3 DEF Final, Flushed
  <1>8. QED  BY <1>4, <1>6, <1>7 DEF Further

LEMMA OtherHorizon ==
  ASSUME IInv, NEW n \in Nat, HorizonAt(n),
         \/ StartIdle \/ DuplicateJob \/ EndSlots \/ EndFlush \/ PurgeWrap \/ PurgeCounts
         \/ AppendJob \/ EndFrame \/ EndIdle \/ UNCHANGED vars
  PROVE  Further(n, n)
  <1>1. CASE StartIdle \/ DuplicateJob \/ EndSlots \/ EndFlush \/ EndFrame \/ AppendJob \/ UNCHANGED vars
    <2>1. /\ UNCHANGED <<frameJobs, slices, accepted, input>>
          /\ pc' \notin {"purge", "purgeAppend"} => pc \notin {"purge", "purgeAppend"}
      BY <1>1 DEF StartIdle, DuplicateJob, EndSlots, EndFlush, EndFrame, AppendJob, NextJob, vars
    <2>2. QED  BY <2>1 DEF Further, HorizonAt, Acquiring, Final, Flushed, slices, input
  <1>2. CASE PurgeWrap
    <2>1. PICK w \in DOMAIN store : TakeWrap(w)  BY <1>2 DEF PurgeWrap
    <2>2. DOMAIN store' \subseteq DOMAIN store
      BY <2>1 DEF TakeWrap, WithoutWrap
    <2>3. pc' = "purge"
      BY <1>2 DEF PurgeWrap
    <2>4. QED  BY <2>2, <2>3 DEF Further, HorizonAt, Acquiring, Final, Flushed
  <1>3. CASE PurgeCounts
    BY <1>3 DEF PurgeCounts, Further, HorizonAt, Acquiring, Final, Flushed, slices
  <1>4. CASE EndIdle
    BY <1>4 DEF EndIdle, Further, HorizonAt, Acquiring, Final, Flushed
  <1>5. QED  BY <1>1, <1>2, <1>3, <1>4

LEMMA HorizonStep ==
  ASSUME IInv, NEW n \in Nat, HorizonAt(n), [Next]_vars, 2 \notin Lateness
  PROVE  \E m \in Nat : Further(n, m)
  <1>1. CASE StartFrame  BY <1>1, StartFrameHorizon
  <1>2. CASE KnownWrap \/ NewWrap \/ StaleJob  BY <1>2, JobHorizon
  <1>3. CASE FlushWrap  BY <1>3, FlushHorizon
  <1>4. CASE \/ StartIdle \/ DuplicateJob \/ EndSlots \/ EndFlush \/ PurgeWrap \/ PurgeCounts
             \/ AppendJob \/ EndFrame \/ EndIdle \/ UNCHANGED vars
    BY <1>4, OtherHorizon
  <1>5. QED  BY <1>1, <1>2, <1>3, <1>4 DEF Next, Step

LEMMA HorizonInit == Init => HorizonAt(0)
  BY DEF Init, HorizonAt, Flushed

(* If no packet is exactly two wraps late, a flushed wrap is never opened    *)
(* again: what is written of a slice, and its count, are final.  A packet    *)
(* later than that is refused (frame_to_jobs).  The run                      *)
(* ProcessCoordinator_Reopened shows what a packet two wraps late does.      *)
THEOREM FlushIsFinal ==
  ASSUME 2 \notin Lateness
  PROVE  Spec => FlushedStaysFlushed
  <1> DEFINE Horizon == \E n \in Nat : HorizonAt(n)
  <1>1. Init => Horizon
    BY HorizonInit
  <1>2. IInv /\ Horizon /\ [Next]_vars => Horizon' /\ Final
    BY HorizonStep DEF Further
  <1>3. Final => \A w \in 0..MaxWrap : Flushed(w) => w \notin DOMAIN store'
    <2>1. 0..MaxWrap \subseteq Nat  BY BoundsAssumption
    <2>2. QED  BY <2>1, Zenon DEF Final
  <1> HIDE DEF Horizon
  <1>4. QED  BY <1>1, <1>2, <1>3, Invariant, PTL DEF Spec, FlushedStaysFlushed
-----------------------------------------------------------------------------
(* Every block lies below index x, which a later block may start at.         *)
Below(m, x) == \A i \in DOMAIN m : m[i].index + BlockSize <= x

(* The array of counts starts at or before every wrap that is to be flushed, *)
(* and at or before those that may still be opened, behind what is published.*)
BlocksAt(n) ==
  /\ BlocksInOrder
  /\ ended => lastWritten = 0 /\ tsArray = NoCounts
  /\ ~ended /\ pc # "purgeAppend" => Below(meta, lastWritten)
  /\ \A w \in DOMAIN store : w <= MaxWrap /\ lastWritten <= w * NumBuffers
  /\ \A i \in DOMAIN frameJobs : frameJobs[i].wrap <= MaxWrap
  /\ Acquiring => lastWritten = 0 \/ lastWritten <= (n - 1) * NumBuffers

(* The 32-bit index of a slice does not wrap in an acquisition.              *)
IndexInRange == (MaxWrap + 1) * NumBuffers < Word

LEMMA WrapsInRange ==
  ASSUME IndexInRange, NEW w \in Nat, w <= MaxWrap
  PROVE  /\ w * NumBuffers \in Nat /\ (w + 1) * NumBuffers = w * NumBuffers + NumBuffers
         /\ w * NumBuffers + NumBuffers < Word
  <1> USE Constants, BoundsAssumption
  <1>1. w * NumBuffers \in Nat /\ (w + 1) * NumBuffers = w * NumBuffers + NumBuffers  BY SMT
  <1>2. (w + 1) * NumBuffers <= (MaxWrap + 1) * NumBuffers
    <2>1. w + 1 <= MaxWrap + 1  OBVIOUS
    <2>2. \A a, b, c \in Nat : a <= b => a * c <= b * c  BY SMTT(30)
    <2>3. QED  BY <2>1, <2>2
  <1>3. (MaxWrap + 1) * NumBuffers \in Nat  BY SMT
  <1>4. QED  BY <1>1, <1>2, <1>3 DEF IndexInRange

LEMMA WrapsAscend ==
  ASSUME NEW v \in Int, NEW w \in Int, v <= w
  PROVE  v * NumBuffers <= w * NumBuffers
  BY Constants, SMT

(* Where the array moves for a wrap: by whole blocks, up to the wrap, and    *)
(* past it when the wrap fills the block.                                    *)
LEMMA Moved ==
  ASSUME TypeOK, IndexInRange, NEW w \in Nat, w <= MaxWrap, lastWritten <= w * NumBuffers
  PROVE  /\ SkippedTo(w) \in Nat /\ SkippedTo(w) <= w * NumBuffers
         /\ ~(BlocksSkipped(w) > 0) => SkippedTo(w) = lastWritten
         /\ BlocksSkipped(w) > 0 => lastWritten + BlockSize <= SkippedTo(w)
         /\ Base(w) \in Nat /\ SkippedTo(w) + Base(w) = w * NumBuffers
         /\ Base(w) + NumBuffers = BlockSize =>
              /\ SkippedTo(w) + BlockSize = w * NumBuffers + NumBuffers
              /\ Advanced(SkippedTo(w)) = w * NumBuffers + NumBuffers
  <1> USE Constants
  <1>1. /\ w * NumBuffers \in Nat /\ w * NumBuffers + NumBuffers < Word
        /\ lastWritten \in Nat /\ lastWritten <= w * NumBuffers
    BY WrapsInRange DEF TypeOK
  <1>2. \A a \in Nat : a < Word => a % Word = a
    BY SMT
  <1>3. PICK o \in Nat : o = w * NumBuffers - lastWritten
    BY <1>1
  <1>4. Offset(w) = o
    BY <1>1, <1>2, <1>3 DEF Offset
  <1>5. PICK k \in Nat, r \in Nat : k = o \div BlockSize /\ r = o % BlockSize
    BY <1>3, SMT
  <1>6. o = k * BlockSize + r /\ k * BlockSize \in Nat
    <2>1. o % BlockSize = o - BlockSize * (o \div BlockSize)  BY SMT
    <2>2. \A a, b \in Nat : a * b = b * a /\ b * a \in Nat  BY SMT
    <2>3. BlockSize * k = k * BlockSize /\ k * BlockSize \in Nat
      BY <2>2, BlockSize \in Nat, Zenon
    <2>4. r = o - k * BlockSize  BY <1>5, <2>1, <2>3, Zenon
    <2>5. PICK p \in Nat : p = k * BlockSize  BY <2>3, Zenon
    <2>6. o = p + r  BY <2>4, <2>5
    <2>7. QED  BY <2>3, <2>5, <2>6, Zenon
  <1>7. BlocksSkipped(w) = k /\ Base(w) = r
    BY <1>4, <1>5 DEF BlocksSkipped, Base
  <1>8. lastWritten + k * BlockSize + r = w * NumBuffers
    BY <1>1, <1>3, <1>6
  <1>9. SkippedTo(w) = lastWritten + k * BlockSize
    <2>1. lastWritten + k * BlockSize \in Nat /\ lastWritten + k * BlockSize < Word
      BY <1>1, <1>6, <1>8
    <2>2. QED  BY <1>2, <1>7, <2>1 DEF SkippedTo
  <1>10. k > 0 => BlockSize <= k * BlockSize
    <2>1. k > 0 => 1 * BlockSize <= k * BlockSize  BY SMT
    <2>2. QED  BY <2>1
  <1>11. ~(k > 0) => k * BlockSize = 0
    <2>1. ~(k > 0) => k = 0  OBVIOUS
    <2>2. 0 * BlockSize = 0  BY SMT
    <2>3. QED  BY <2>1, <2>2
  <1>12. r + NumBuffers = BlockSize =>
           SkippedTo(w) + BlockSize = w * NumBuffers + NumBuffers
    BY <1>1, <1>6, <1>8, <1>9
  <1>13. r + NumBuffers = BlockSize => Advanced(SkippedTo(w)) = w * NumBuffers + NumBuffers
    BY <1>1, <1>2, <1>12 DEF Advanced
  <1>14. Base(w) \in Nat /\ SkippedTo(w) + Base(w) = w * NumBuffers
    BY <1>1, <1>6, <1>7, <1>8, <1>9
  <1>15. QED  BY <1>1, <1>6, <1>7, <1>8, <1>9, <1>10, <1>11, <1>12, <1>13, <1>14

Blocks == [index : 0..Word-1, counts : [0..BlockSize-1 -> Nat]]
InOrder(m) == \A i, k \in DOMAIN m : i < k => m[i].index + BlockSize <= m[k].index

LEMMA BlockAppended ==
  ASSUME NEW m \in Seq(Blocks), NEW b \in Blocks, InOrder(m), Below(m, b.index)
  PROVE  /\ InOrder(Append(m, b)) /\ Append(m, b) \in Seq(Blocks)
         /\ \A x \in Nat : b.index + BlockSize <= x => Below(Append(m, b), x)
         /\ m \o <<b>> = Append(m, b)
  <1> USE Constants
  <1>1. /\ Len(m) \in Nat /\ DOMAIN m = 1..Len(m)
        /\ Append(m, b) \in Seq(Blocks) /\ DOMAIN Append(m, b) = 1..(Len(m) + 1)
        /\ \A i \in 1..Len(m) : Append(m, b)[i] = m[i]
        /\ Append(m, b)[Len(m) + 1] = b
        /\ m \o <<b>> = Append(m, b)
    OBVIOUS
  <1>2. /\ b.index \in Nat
        /\ \A i \in 1..Len(m) : m[i].index \in Nat
    <2>1. \A c \in Blocks : c.index \in Nat  BY DEF Blocks
    <2>2. QED  BY <1>1, <2>1
  <1>3. InOrder(Append(m, b))
    <2>1. SUFFICES ASSUME NEW i \in 1..(Len(m) + 1), NEW k \in 1..(Len(m) + 1), i < k
                   PROVE  Append(m, b)[i].index + BlockSize <= Append(m, b)[k].index
      BY <1>1 DEF InOrder
    <2>2. i \in 1..Len(m) /\ (k \in 1..Len(m) \/ k = Len(m) + 1)  BY <1>1, <2>1
    <2>3. QED  BY <1>1, <2>1, <2>2 DEF InOrder, Below
  <1>4. ASSUME NEW x \in Nat, b.index + BlockSize <= x
        PROVE  Below(Append(m, b), x)
    <2>1. SUFFICES ASSUME NEW i \in 1..(Len(m) + 1)
                   PROVE  Append(m, b)[i].index + BlockSize <= x
      BY <1>1 DEF Below
    <2>2. i \in 1..Len(m) \/ i = Len(m) + 1  BY <1>1
    <2>3. i \in 1..Len(m) => m[i].index + BlockSize <= b.index  BY <1>1 DEF Below
    <2>4. QED  BY <1>1, <1>2, <1>4, <2>2, <2>3
  <1>5. QED  BY <1>1, <1>3, <1>4

(* Taking the oldest wrap keeps the blocks in order, and leaves the array at *)
(* or before the next wrap.                                                  *)
LEMMA TakeWrapBlocks ==
  ASSUME IInv, IndexInRange, NEW n, BlocksAt(n), ~ended, pc # "purgeAppend",
         NEW w \in DOMAIN store, TakeWrap(w)
  PROVE  /\ BlocksInOrder' /\ Below(meta', lastWritten')
         /\ lastWritten' \in Nat /\ lastWritten' <= (w + 1) * NumBuffers
         /\ \A v \in DOMAIN store' : v \in DOMAIN store /\ lastWritten' <= v * NumBuffers
  <1> USE Constants
  <1>1. w \in Nat /\ w <= MaxWrap /\ lastWritten <= w * NumBuffers
        /\ lastWritten \in Nat /\ TypeOK
    <2>1. TypeOK /\ w \in Nat /\ lastWritten \in 0..Word-1  BY DEF IInv, TypeOK
    <2>2. QED  BY <2>1 DEF BlocksAt
  <1>2. /\ SkippedTo(w) \in Nat /\ SkippedTo(w) <= w * NumBuffers
        /\ ~(BlocksSkipped(w) > 0) => SkippedTo(w) = lastWritten
        /\ BlocksSkipped(w) > 0 => lastWritten + BlockSize <= SkippedTo(w)
        /\ Base(w) + NumBuffers = BlockSize =>
             /\ SkippedTo(w) + BlockSize = w * NumBuffers + NumBuffers
             /\ Advanced(SkippedTo(w)) = w * NumBuffers + NumBuffers
    BY <1>1, Moved
  <1>3. /\ w * NumBuffers \in Nat /\ (w + 1) * NumBuffers = w * NumBuffers + NumBuffers
    BY <1>1, WrapsInRange
  <1>4. meta \in Seq(Blocks) /\ InOrder(meta) /\ Below(meta, lastWritten)
    BY DEF IInv, TypeOK, Blocks, BlocksAt, BlocksInOrder, InOrder
  <1> DEFINE b1 == Block(lastWritten, tsArray)
             b2 == Block(SkippedTo(w), CountsWith(w))
             full == Base(w) + NumBuffers = BlockSize
  <1>5. /\ b1 \in Blocks /\ b1.index = lastWritten
        /\ b2 \in Blocks /\ b2.index = SkippedTo(w)
    <2>1. lastWritten % NumBuffers = 0  BY DEF IInv, CountsInArray
    <2>2. b1 \in Blocks /\ b2 \in Blocks  BY <1>1, <2>1, CountsType DEF Blocks
    <2>3. QED  BY <2>2 DEF Block
  <1>6. PICK mid : mid = meta \o (IF BlocksSkipped(w) > 0 THEN <<b1>> ELSE <<>>)
    OBVIOUS
  <1>7. /\ meta' = mid \o (IF full THEN <<b2>> ELSE <<>>)
        /\ lastWritten' = IF full THEN Advanced(SkippedTo(w)) ELSE SkippedTo(w)
    BY <1>6, Zenon DEF TakeWrap, UpdateCounts
  <1> HIDE DEF b1, b2, full
  <1>8. mid \in Seq(Blocks) /\ InOrder(mid) /\ Below(mid, SkippedTo(w))
    <2>1. CASE BlocksSkipped(w) > 0
      <3>1. mid = meta \o <<b1>>  BY <1>6, <2>1
      <3>2. QED  BY <1>2, <1>4, <1>5, <2>1, <3>1, BlockAppended
    <2>2. CASE ~(BlocksSkipped(w) > 0)
      <3>1. mid = meta  BY <1>4, <1>6, <2>2
      <3>2. QED  BY <1>2, <1>4, <2>2, <3>1
    <2>3. QED  BY <2>1, <2>2
  <1>9. /\ InOrder(meta') /\ Below(meta', lastWritten')
        /\ lastWritten' \in Nat /\ lastWritten' <= w * NumBuffers + NumBuffers
    <2>1. CASE full
      <3>1. /\ SkippedTo(w) + BlockSize = w * NumBuffers + NumBuffers
            /\ lastWritten' = w * NumBuffers + NumBuffers
            /\ meta' = mid \o <<b2>>
        BY <1>2, <1>7, <2>1 DEF full
      <3>2. lastWritten' \in Nat /\ b2.index + BlockSize <= lastWritten'
            /\ lastWritten' <= w * NumBuffers + NumBuffers
        BY <1>2, <1>3, <1>5, <3>1
      <3>3. InOrder(meta') /\ Below(meta', lastWritten')
        BY <1>5, <1>8, <3>1, <3>2, BlockAppended
      <3>4. QED  BY <3>2, <3>3
    <2>2. CASE ~full
      <3>1. meta' = mid /\ lastWritten' = SkippedTo(w)  BY <1>7, <1>8, <2>2
      <3>2. SkippedTo(w) <= w * NumBuffers + NumBuffers  BY <1>2, <1>3
      <3>3. QED  BY <1>2, <1>8, <3>1, <3>2
    <2>3. QED  BY <2>1, <2>2
  <1>10. ASSUME NEW v \in DOMAIN store'
         PROVE  v \in DOMAIN store /\ lastWritten' <= v * NumBuffers
    <2>1. v \in DOMAIN store /\ v # w /\ w <= v /\ v \in Nat
      BY DEF TakeWrap, WithoutWrap, Oldest, IInv, TypeOK
    <2>2. w + 1 <= v /\ w + 1 \in Int /\ v \in Int
      <3>1. w \in Nat  BY <1>1
      <3>2. QED  BY <2>1, <3>1
    <2>3. PICK u \in Int : u = w + 1  BY <2>2
    <2>4. (w + 1) * NumBuffers <= v * NumBuffers /\ v * NumBuffers \in Nat
      <3>0. u <= v  BY <2>2, <2>3
      <3>1. u * NumBuffers <= v * NumBuffers  BY <2>2, <3>0, WrapsAscend, Zenon
      <3>2. \A a \in Nat, n1 \in Nat : a * n1 \in Nat  BY SMT
      <3>3. QED  BY <2>1, <2>3, <3>1, <3>2
    <2>5. QED  BY <1>3, <1>9, <2>1, <2>4
  <1>11. QED  BY <1>3, <1>9, <1>10 DEF InOrder, BlocksInOrder

(* The horizon moves on and the array stays: it is still behind.             *)
LEMMA StillBehind ==
  ASSUME NEW n \in Nat, NEW m \in Nat, m >= n, NEW x \in Nat, x <= (n - 1) * NumBuffers
  PROVE  x <= (m - 1) * NumBuffers
  <1>1. PICK a \in Int, b \in Int : a = n - 1 /\ b = m - 1  OBVIOUS
  <1>2. a <= b  BY <1>1
  <1>3. a * NumBuffers <= b * NumBuffers  BY <1>2, WrapsAscend, Zenon
  <1>4. \A c \in Int, k \in Nat : c * k \in Int  BY SMT
  <1>5. a * NumBuffers \in Int /\ b * NumBuffers \in Int  BY <1>4, Constants
  <1>6. x <= a * NumBuffers  BY <1>1
  <1>7. x <= b * NumBuffers  BY <1>3, <1>5, <1>6
  <1>8. QED  BY <1>1, <1>7

LEMMA StartFrameBlocks ==
  ASSUME IInv, NEW n \in Nat, NEW m \in Nat, BlocksAt(n), m >= n \/ ended, StartFrame
  PROVE  BlocksAt(m)'
  <1>1. PICK l \in 1..MaxPerFrame : \E q \in [1..l -> Sendable] : frameJobs' = q
    BY Zenon DEF StartFrame
  <1>2. /\ pc = "ready" /\ pc' = "slots" /\ ended' = FALSE
        /\ meta' = IF ended THEN <<>> ELSE meta
        /\ UNCHANGED <<slices, jobs, buffers, counts>>
    BY DEF StartFrame
  <1>3. \A i \in DOMAIN frameJobs' : frameJobs'[i].wrap <= MaxWrap
    <2>1. \A j \in Sendable : j.wrap \in 0..MaxWrap  BY DEF Sendable
    <2>2. \A i \in DOMAIN frameJobs' : frameJobs'[i] \in Sendable  BY <1>1
    <2>3. QED  BY <2>1, <2>2, BoundsAssumption
  <1>4. CASE ended
    <2>1. meta' = <<>> /\ lastWritten' = 0 /\ store' = store /\ DOMAIN store = {}
      BY <1>2, <1>4 DEF IInv, Quiet, BlocksAt, slices, counts
    <2>2. QED  BY <1>2, <1>3, <2>1 DEF BlocksAt, BlocksInOrder, Below
  <1>5. CASE ~ended
    <2>1. meta' = meta /\ lastWritten' = lastWritten /\ store' = store /\ m >= n
      BY <1>2, <1>5 DEF slices, counts
    <2>2. lastWritten \in Nat  BY DEF IInv, TypeOK
    <2>3. lastWritten = 0 \/ lastWritten <= (n - 1) * NumBuffers
      BY <1>2, <1>5 DEF BlocksAt, Acquiring
    <2>4. lastWritten' = 0 \/ lastWritten' <= (m - 1) * NumBuffers
      BY <2>1, <2>2, <2>3, StillBehind
    <2>5. BlocksInOrder /\ Below(meta, lastWritten)
          /\ \A w \in DOMAIN store : w <= MaxWrap /\ lastWritten <= w * NumBuffers
      BY <1>2, <1>5 DEF BlocksAt
    <2>6. QED  BY <1>2, <1>3, <2>1, <2>4, <2>5 DEF BlocksAt, BlocksInOrder, Below
  <1>6. QED  BY <1>4, <1>5

LEMMA JobBlocks ==
  ASSUME IInv, NEW n \in Nat, NEW m \in Nat, HorizonAt(n), BlocksAt(n), m >= n,
         KnownWrap \/ NewWrap \/ StaleJob
  PROVE  BlocksAt(m)'
  <1>1. PICK w : w = Head(frameJobs).wrap  OBVIOUS
  <1>2. /\ pc = "slots" /\ pc' = pc /\ ~ended /\ frameJobs' = Tail(frameJobs)
        /\ UNCHANGED <<counts, meta, input>>
        /\ frameJobs \in Seq(Job) /\ frameJobs # <<>>
        /\ DOMAIN store' \subseteq DOMAIN store \cup (IF NewWrap THEN {w} ELSE {})
    BY <1>1 DEF KnownWrap, NewWrap, StaleJob, NextJob, IInv, TypeOK, Quiet, slices
  <1>3. /\ w = frameJobs[1].wrap /\ 1 \in DOMAIN frameJobs /\ Head(frameJobs) \in Job
        /\ \A i \in DOMAIN frameJobs' : i + 1 \in DOMAIN frameJobs /\ frameJobs'[i] = frameJobs[i + 1]
    BY <1>1, <1>2, SMT
  <1>4. w \in Nat /\ w <= MaxWrap
    BY <1>1, <1>3 DEF BlocksAt, Job
  <1>5. \A i \in DOMAIN frameJobs' : frameJobs'[i].wrap <= MaxWrap
    BY <1>3 DEF BlocksAt
  <1>6. lastWritten \in Nat /\ lastWritten' = lastWritten /\ meta' = meta /\ ended' = ended
    BY <1>2 DEF counts, input, IInv, TypeOK
  <1>7. lastWritten = 0 \/ lastWritten <= (n - 1) * NumBuffers
    BY <1>2 DEF BlocksAt, Acquiring
  <1>8. NewWrap => lastWritten <= w * NumBuffers
    <2>1. SUFFICES ASSUME NewWrap PROVE lastWritten <= w * NumBuffers  OBVIOUS
    <2>2. w + 1 >= n  BY <1>1, <2>1, JobHorizon
    <2>3. PICK k \in Nat : k = w + 1  BY <1>4
    <2>4. lastWritten = 0 \/ lastWritten <= (k - 1) * NumBuffers
      BY <1>6, <1>7, <2>2, <2>3, StillBehind
    <2>5. \A a, b \in Nat : a * b \in Nat  BY SMT
    <2>6. w * NumBuffers \in Nat /\ k - 1 = w  BY <1>4, <2>3, <2>5, Constants
    <2>7. QED  BY <2>4, <2>6
  <1>9. \A v \in DOMAIN store' : v <= MaxWrap /\ lastWritten <= v * NumBuffers
    BY <1>2, <1>4, <1>8 DEF BlocksAt
  <1>10. lastWritten = 0 \/ lastWritten <= (m - 1) * NumBuffers
    BY <1>6, <1>7, StillBehind
  <1>11. BlocksInOrder /\ Below(meta, lastWritten)
    BY <1>2 DEF BlocksAt
  <1>12. QED
    BY <1>2, <1>5, <1>6, <1>9, <1>10, <1>11 DEF BlocksAt, BlocksInOrder, Below

LEMMA FlushBlocks ==
  ASSUME IInv, IndexInRange, NEW n \in Nat, NEW m \in Nat, HorizonAt(n), BlocksAt(n),
         m >= n, FlushWrap \/ PurgeWrap
  PROVE  BlocksAt(m)'
  <1>1. PICK w \in DOMAIN store : TakeWrap(w) /\ (FlushWrap => Old(w))
    BY DEF FlushWrap, PurgeWrap
  <1>2. /\ ~ended /\ frameJobs = <<>> /\ frameJobs' = <<>> /\ ~ended' /\ pc # "purgeAppend"
        /\ FlushWrap \/ pc' = "purge"
    <2>1. /\ UNCHANGED <<pc, frameJobs, input>>
          /\ pc = "flush" \/ pc = "purge"
          /\ FlushWrap \/ pc = "purge"
      BY DEF FlushWrap, PurgeWrap
    <2>2. DOMAIN store # {} BY <1>1
    <2>3. QED  BY <2>1, <2>2 DEF IInv, Quiet, input
  <1>3. w \in Nat /\ w <= MaxWrap
    BY <1>1 DEF BlocksAt, IInv, TypeOK
  <1>4. /\ BlocksInOrder' /\ Below(meta', lastWritten')
        /\ lastWritten' \in Nat /\ lastWritten' <= (w + 1) * NumBuffers
        /\ \A v \in DOMAIN store' : v \in DOMAIN store /\ lastWritten' <= v * NumBuffers
    BY <1>1, <1>2, TakeWrapBlocks
  <1>5. FlushWrap => lastWritten' <= (m - 1) * NumBuffers
    <2>1. SUFFICES ASSUME FlushWrap PROVE lastWritten' <= (m - 1) * NumBuffers  OBVIOUS
    <2>2. w + 2 <= n  BY <1>1, <2>1, FlushHorizon
    <2>3. PICK k \in Nat : k = w + 2  BY <1>3
    <2>4. k - 1 = w + 1 /\ m >= k  BY <1>3, <2>2, <2>3
    <2>5. lastWritten' <= (k - 1) * NumBuffers  BY <1>4, <2>4
    <2>6. PICK x \in Nat : x = lastWritten'  BY <1>4
    <2>7. x <= (m - 1) * NumBuffers  BY <2>3, <2>4, <2>5, <2>6, StillBehind
    <2>8. QED  BY <2>6, <2>7
  <1>6. \A v \in DOMAIN store' : v <= MaxWrap /\ lastWritten' <= v * NumBuffers
    BY <1>4 DEF BlocksAt
  <1>7. QED
    BY <1>2, <1>4, <1>5, <1>6 DEF BlocksAt, Acquiring, Below

LEMMA PurgeCountsBlocks ==
  ASSUME IInv, NEW n \in Nat, NEW m \in Nat, BlocksAt(n), PurgeCounts
  PROVE  BlocksAt(m)'
  <1>1. /\ pc = "purge" /\ pc' = "purgeAppend" /\ DOMAIN store = {}
        /\ meta' = IF HasCounts THEN Append(meta, Block(lastWritten, tsArray)) ELSE meta
        /\ tsArray' = IF HasCounts THEN NoCounts ELSE tsArray
        /\ UNCHANGED <<frameJobs, slices, lastWritten, input>>
    BY DEF PurgeCounts
  <1>2. frameJobs = <<>> BY <1>1 DEF IInv, Quiet
  <1>3. InOrder(meta')
    <2>1. InOrder(meta) /\ meta \in Seq(Blocks)
      BY DEF BlocksAt, BlocksInOrder, InOrder, IInv, TypeOK, Blocks
    <2>2. CASE ~HasCounts  BY <1>1, <2>1, <2>2
    <2>3. CASE HasCounts
      <3>1. ~ended
        <4>1. ended => lastWritten = 0 /\ tsArray = NoCounts  BY DEF BlocksAt
        <4>2. \A i \in DOMAIN NoCounts : NoCounts[i] = 0  BY DEF NoCounts
        <4>3. QED  BY <2>3, <4>1, <4>2 DEF HasCounts
      <3>2. Below(meta, lastWritten)  BY <1>1, <3>1 DEF BlocksAt
      <3>3. Block(lastWritten, tsArray) \in Blocks /\ Block(lastWritten, tsArray).index = lastWritten
        BY DEF Block, Blocks, IInv, TypeOK
      <3>4. PICK b \in Blocks : b = Block(lastWritten, tsArray)  BY <3>3
      <3>5. InOrder(Append(meta, b))  BY <2>1, <3>2, <3>3, <3>4, BlockAppended
      <3>6. QED  BY <1>1, <2>3, <3>4, <3>5
    <2>4. QED  BY <2>2, <2>3
  <1>4. ended' => lastWritten' = 0 /\ tsArray' = NoCounts
    BY <1>1 DEF BlocksAt, input
  <1>5. DOMAIN store' = {} /\ frameJobs' = <<>>  BY <1>1, <1>2 DEF slices
  <1>6. QED
    BY <1>1, <1>3, <1>4, <1>5 DEF BlocksAt, BlocksInOrder, InOrder, Acquiring

LEMMA EndIdleBlocks ==
  ASSUME IInv, NEW n \in Nat, NEW m \in Nat, BlocksAt(n), EndIdle
  PROVE  BlocksAt(m)'
  <1>1. /\ ended' = TRUE /\ lastWritten' = 0 /\ tsArray' = NoCounts /\ pc = "purgeAppend"
        /\ UNCHANGED <<frameJobs, store, meta>>
    BY DEF EndIdle
  <1>2. DOMAIN store = {} /\ frameJobs = <<>>  BY <1>1 DEF IInv, Quiet
  <1>3. QED  BY <1>1, <1>2 DEF BlocksAt, BlocksInOrder, Acquiring

LEMMA OtherBlocks ==
  ASSUME IInv, NEW n \in Nat, NEW m \in Nat, BlocksAt(n), m >= n \/ ended,
         \/ StartIdle \/ DuplicateJob \/ EndSlots \/ EndFlush \/ AppendJob \/ EndFrame
         \/ UNCHANGED vars
  PROVE  BlocksAt(m)'
  <1>1. /\ UNCHANGED <<frameJobs, store, counts, meta, input>>
        /\ pc' \notin {"purge", "purgeAppend"} => pc \notin {"purge", "purgeAppend"}
        /\ pc' # "purgeAppend" => pc # "purgeAppend"
    BY DEF StartIdle, DuplicateJob, EndSlots, EndFlush, EndFrame, AppendJob, NextJob, vars, slices
  <1>2. Acquiring' => lastWritten' = 0 \/ lastWritten' <= (m - 1) * NumBuffers
    <2>1. SUFFICES ASSUME Acquiring' PROVE lastWritten' = 0 \/ lastWritten' <= (m - 1) * NumBuffers
      OBVIOUS
    <2>2. Acquiring /\ m >= n  BY <1>1, <2>1 DEF Acquiring, input
    <2>3. lastWritten = 0 \/ lastWritten <= (n - 1) * NumBuffers  BY <2>2 DEF BlocksAt
    <2>4. lastWritten \in Nat /\ lastWritten' = lastWritten  BY <1>1 DEF IInv, TypeOK, counts
    <2>5. QED  BY <2>2, <2>3, <2>4, StillBehind
  <1>3. QED  BY <1>1, <1>2 DEF BlocksAt, BlocksInOrder, Below, counts, input

LEMMA BlocksStep ==
  ASSUME IInv, NEW n \in Nat, HorizonAt(n), BlocksAt(n), [Next]_vars,
         2 \notin Lateness, IndexInRange
  PROVE  \E m \in Nat : HorizonAt(m)' /\ BlocksAt(m)'
  <1>1. PICK m \in Nat : HorizonAt(m)' /\ (m >= n \/ ended)
    BY HorizonStep DEF Further
  <1>2. CASE StartFrame  BY <1>1, <1>2, StartFrameBlocks
  <1>3. CASE KnownWrap \/ NewWrap \/ StaleJob
    <2>1. ~ended  BY <1>3 DEF KnownWrap, NewWrap, StaleJob, NextJob, IInv, Quiet
    <2>2. QED  BY <1>1, <1>3, <2>1, JobBlocks
  <1>4. CASE FlushWrap \/ PurgeWrap
    <2>1. ~ended  BY <1>4 DEF FlushWrap, PurgeWrap, IInv, Quiet
    <2>2. QED  BY <1>1, <1>4, <2>1, FlushBlocks
  <1>5. CASE PurgeCounts  BY <1>1, <1>5, PurgeCountsBlocks
  <1>6. CASE EndIdle  BY <1>1, <1>6, EndIdleBlocks
  <1>7. CASE \/ StartIdle \/ DuplicateJob \/ EndSlots \/ EndFlush \/ AppendJob \/ EndFrame
             \/ UNCHANGED vars
    BY <1>1, <1>7, OtherBlocks
  <1>8. QED  BY <1>2, <1>3, <1>4, <1>5, <1>6, <1>7 DEF Next, Step

LEMMA BlocksInit == Init => BlocksAt(0)
  BY DEF Init, BlocksAt, BlocksInOrder, Below

(* With packets that are never exactly two wraps late, and an acquisition    *)
(* short enough for the 32-bit index of a slice, blocks of counts are        *)
(* published in order, none twice: also over missing wraps, and when a purge *)
(* publishes what is left.                                                   *)
THEOREM BlocksOrdered ==
  ASSUME 2 \notin Lateness, IndexInRange
  PROVE  Spec => []BlocksInOrder
  <1> DEFINE Ordered == \E n \in Nat : HorizonAt(n) /\ BlocksAt(n)
  <1>1. Init => Ordered
    BY HorizonInit, BlocksInit
  <1>2. IInv /\ Ordered /\ [Next]_vars => Ordered'
    BY BlocksStep
  <1>3. Ordered => BlocksInOrder
    BY DEF BlocksAt
  <1> HIDE DEF Ordered
  <1>4. QED  BY <1>1, <1>2, <1>3, Invariant, PTL DEF Spec
-----------------------------------------------------------------------------
(* The points of a sequence of jobs, and of the frames of a dataset.         *)
Expanded(q, s) == FlattenSeq([k \in DOMAIN q |-> Data(q[k], s)])
Pushed(f) == FlattenSeq([k \in DOMAIN f |-> f[k].points])
Frames == Seq([number : Nat, points : Seq(Job)])

LEMMA StreamParts ==
  ASSUME NEW s \in Streams
  PROVE  /\ Streamed(s) = (Pushed(frames[s]) \o points[s]) \o Expanded(jobs, s)
         /\ Streamed(s)' = (Pushed(frames'[s]) \o points'[s]) \o Expanded(jobs', s)
  BY DEF Streamed, Written, Pushed, Expanded

LEMMA DataType ==
  ASSUME NEW j \in Job, NEW s \in Streams
  PROVE  /\ Contents[j.num][s] \in Nat
         /\ Data(j, s) \in Seq(Job) /\ Len(Data(j, s)) = Contents[j.num][s]
         /\ \A i \in 1..Contents[j.num][s] : Data(j, s)[i] = j
  <1>1. Contents[j.num][s] \in Nat  BY SizeType, FrameAssumption
  <1>2. PICK n \in Nat : n = Contents[j.num][s]  BY <1>1
  <1>3. Data(j, s) = [i \in 1..n |-> j]  BY <1>2 DEF Data
  <1>4. QED  BY <1>2, <1>3

LEMMA ExpandedAppend ==
  ASSUME NEW s \in Streams, NEW q \in Seq(Job), NEW j \in Job
  PROVE  /\ Expanded(q, s) \in Seq(Job)
         /\ Expanded(Append(q, j), s) = Expanded(q, s) \o Data(j, s)
  <1>1. PICK f : f = [i \in Job |-> Data(i, s)]  OBVIOUS
  <1>2. \A i \in Job : f[i] \in Seq(Job)
    <2>1. \A i \in Job : Data(i, s) \in Seq(Job)  BY DataType
    <2>2. QED  BY <1>1, <2>1, Zenon
  <1>3. \A r \in Seq(Job) : Expanded(r, s) = FlattenSeq(Mapped(f, r))
    <2>1. SUFFICES ASSUME NEW r \in Seq(Job)
                   PROVE  Expanded(r, s) = FlattenSeq(Mapped(f, r))
      OBVIOUS
    <2>2. \A k \in DOMAIN r : r[k] \in Job  OBVIOUS
    <2>3. \A k \in DOMAIN r : Data(r[k], s) = f[r[k]]  BY <1>1, <2>2, Zenon
    <2>4. [k \in DOMAIN r |-> Data(r[k], s)] = Mapped(f, r)  BY <2>3, Zenon DEF Mapped
    <2>5. QED  BY <2>4, Zenon DEF Expanded
  <1>4. Mapped(f, q) \in Seq(Seq(Job)) /\ Mapped(f, Append(q, j)) = Append(Mapped(f, q), f[j])
    <2>1. Mapped(f, q) \in Seq(Seq(Job))  BY <1>2, MappedType, Zenon
    <2>2. Mapped(f, Append(q, j)) = Append(Mapped(f, q), f[j])  BY MappedAppend
    <2>3. QED  BY <2>1, <2>2
  <1>5. Append(q, j) \in Seq(Job)  OBVIOUS
  <1>6. f[j] = Data(j, s) /\ f[j] \in Seq(Job)  BY <1>1, <1>2, Zenon
  <1>7. Expanded(q, s) = FlattenSeq(Mapped(f, q))  BY <1>3, Zenon
  <1>8. Expanded(Append(q, j), s) = FlattenSeq(Append(Mapped(f, q), f[j]))
    BY <1>3, <1>4, <1>5, Zenon
  <1>9. PICK m : m = Mapped(f, q)  OBVIOUS
  <1>10. FlattenSeq(Append(m, f[j])) = FlattenSeq(m) \o f[j] /\ FlattenSeq(m) \in Seq(Job)
    BY <1>4, <1>6, <1>9, FlattenAppend, FlattenType
  <1>11. QED  BY <1>6, <1>7, <1>8, <1>9, <1>10, Zenon

LEMMA ExpandedEmpty == \A s \in Streams : Expanded(<<>>, s) = <<>>
  <1>1. \A s : [k \in DOMAIN <<>> |-> Data(<<>>[k], s)] = <<>>  OBVIOUS
  <1>2. QED  BY <1>1, FlattenEmpty, Zenon DEF Expanded

LEMMA ExpandedConcat ==
  ASSUME NEW s \in Streams, NEW a \in Seq(Job), NEW b \in Seq(Job)
  PROVE  Expanded(a \o b, s) = Expanded(a, s) \o Expanded(b, s)
  <1> DEFINE Good == {q \in Seq(Job) : Expanded(a \o q, s) = Expanded(a, s) \o Expanded(q, s)}
  <1>0. \A q \in Seq(Job) : Expanded(q, s) \in Seq(Job)
    <2>1. SUFFICES ASSUME NEW q \in Seq(Job) PROVE Expanded(q, s) \in Seq(Job)  OBVIOUS
    <2>2. CASE Job = {}
      <3>1. q = <<>>  BY <2>2
      <3>2. QED  BY <3>1, ExpandedEmpty
    <2>3. CASE Job # {}
      <3>1. PICK j : j \in Job  BY <2>3
      <3>2. QED  BY <3>1, ExpandedAppend
    <2>4. QED  BY <2>2, <2>3
  <1>1. <<>> \in Good
    <2>1. a \o <<>> = a  OBVIOUS
    <2>2. PICK x \in Seq(Job) : x = Expanded(a, s)  BY <1>0
    <2>3. x \o <<>> = x  OBVIOUS
    <2>4. QED  BY <2>1, <2>2, <2>3, ExpandedEmpty
  <1>2. ASSUME NEW q \in Seq(Job), NEW j \in Job, q \in Good
        PROVE  Append(q, j) \in Good
    <2>1. PICK r \in Seq(Job) : r = Append(q, j)  BY AppendFacts, Zenon
    <2>2. a \o r = Append(a \o q, j) /\ a \o q \in Seq(Job)
      <3>1. a \o Append(q, j) = Append(a \o q, j) /\ a \o q \in Seq(Job)  OBVIOUS
      <3>2. QED  BY <2>1, <3>1, Zenon
    <2>3. Expanded(a \o r, s) = Expanded(a \o q, s) \o Data(j, s)
      <3>1. PICK z \in Seq(Job) : z = a \o q  BY <2>2
      <3>2. Expanded(Append(z, j), s) = Expanded(z, s) \o Data(j, s)  BY ExpandedAppend
      <3>3. QED  BY <2>2, <3>1, <3>2, Zenon
    <2>4. Expanded(r, s) = Expanded(q, s) \o Data(j, s)  BY <2>1, ExpandedAppend
    <2>5. Expanded(a \o q, s) = Expanded(a, s) \o Expanded(q, s)  BY <1>2
    <2>6. /\ Expanded(a, s) \in Seq(Job) /\ Expanded(q, s) \in Seq(Job)
          /\ Data(j, s) \in Seq(Job)
      BY <1>0, DataType
    <2>7. Associates(Expanded(a, s), Expanded(q, s), Data(j, s))
      BY <2>6, ConcatAssoc, Zenon
    <2>8. Expanded(a \o r, s) = Expanded(a, s) \o Expanded(r, s)
      BY <2>3, <2>4, <2>5, <2>7, Zenon DEF Associates
    <2>9. r \in Good  BY <2>8
    <2> HIDE DEF Good
    <2>10. QED  BY <2>1, <2>9
  <1> HIDE DEF Good
  <1>3. Seq(Job) \subseteq Good  BY <1>1, <1>2, AllSequences
  <1>4. QED  BY <1>3 DEF Good

LEMMA PushedMore ==
  ASSUME NEW S, NEW f \in Seq([number : Nat, points : Seq(S)]),
         NEW r \in [number : Nat, points : Seq(S)]
  PROVE  /\ Pushed(f) \in Seq(S)
         /\ Pushed(Append(f, r)) = Pushed(f) \o r.points
  <1> DEFINE Frame == [number : Nat, points : Seq(S)]
  <1>1. PICK p : p = [d \in Frame |-> d.points]  OBVIOUS
  <1>2. \A d \in Frame : p[d] = d.points /\ p[d] \in Seq(S)  BY <1>1
  <1>3. f \in Seq(Frame) /\ r \in Frame  OBVIOUS
  <1> HIDE DEF Frame
  <1>4. \A g \in Seq(Frame) : Pushed(g) = FlattenSeq(Mapped(p, g))
    <2>1. SUFFICES ASSUME NEW g \in Seq(Frame) PROVE Pushed(g) = FlattenSeq(Mapped(p, g))
      OBVIOUS
    <2>2. \A k \in DOMAIN g : g[k] \in Frame  OBVIOUS
    <2>3. \A k \in DOMAIN g : g[k].points = p[g[k]]  BY <1>2, <2>2, Zenon
    <2>4. [k \in DOMAIN g |-> g[k].points] = Mapped(p, g)  BY <2>3, Zenon DEF Mapped
    <2>5. QED  BY <2>4, Zenon DEF Pushed
  <1>5. Mapped(p, f) \in Seq(Seq(S))
    <2>1. \A d \in Frame : p[d] \in Seq(S)  BY <1>2
    <2>2. QED  BY <1>3, <2>1, MappedType, Zenon
  <1>6. Mapped(p, Append(f, r)) = Append(Mapped(p, f), p[r])  BY <1>3, MappedAppend
  <1>7. Append(f, r) \in Seq(Frame)  BY <1>3
  <1>8. Pushed(f) = FlattenSeq(Mapped(p, f))  BY <1>3, <1>4, Zenon
  <1>9. Pushed(Append(f, r)) = FlattenSeq(Append(Mapped(p, f), p[r]))
    BY <1>4, <1>6, <1>7, Zenon
  <1>10. PICK m : m = Mapped(p, f)  OBVIOUS
  <1>11. p[r] = r.points /\ p[r] \in Seq(S)  BY <1>2, <1>3
  <1>12. FlattenSeq(Append(m, p[r])) = FlattenSeq(m) \o p[r] /\ FlattenSeq(m) \in Seq(S)
    BY <1>5, <1>10, <1>11, FlattenAppend, FlattenType
  <1>13. QED  BY <1>8, <1>9, <1>10, <1>11, <1>12, Zenon

LEMMA PushedAppend ==
  ASSUME NEW f \in Frames, NEW r \in [number : Nat, points : Seq(Job)]
  PROVE  /\ Pushed(f) \in Seq(Job)
         /\ Pushed(Append(f, r)) = Pushed(f) \o r.points
  BY PushedMore, Zenon DEF Frames

LEMMA PushedType ==
  ASSUME NEW f \in Frames
  PROVE  Pushed(f) \in Seq(Job)
  <1>1. [number |-> 0, points |-> <<>>] \in [number : Nat, points : Seq(Job)]  OBVIOUS
  <1>2. QED  BY <1>1, PushedAppend

LEMMA ExpandedType ==
  ASSUME NEW q \in Seq(Job), NEW s \in Streams
  PROVE  Expanded(q, s) \in Seq(Job)
  <1>1. CASE Job = {}
    <2>1. q = <<>>  BY <1>1
    <2>2. QED  BY <2>1, ExpandedEmpty
  <1>2. CASE Job # {}
    <2>1. PICK j : j \in Job  BY <1>2
    <2>2. QED  BY <2>1, ExpandedAppend
  <1>3. QED  BY <1>1, <1>2

LEMMA StreamType ==
  ASSUME TypeOK, NEW s \in Streams
  PROVE  /\ frames[s] \in Frames /\ Pushed(frames[s]) \in Seq(Job)
         /\ points[s] \in Seq(Job) /\ Expanded(jobs, s) \in Seq(Job)
         /\ Streamed(s) \in Seq(Job)
  <1>1. /\ frames[s] \in Frames /\ points[s] \in Seq(Job) /\ jobs \in Seq(Job)
    BY DEF TypeOK, Frames
  <1>2. Pushed(frames[s]) \in Seq(Job) /\ Expanded(jobs, s) \in Seq(Job)
    BY <1>1, PushedType, ExpandedType
  <1>3. Streamed(s) \in Seq(Job)
    <2>1. Pushed(frames[s]) \o points[s] \in Seq(Job)  BY <1>1, <1>2, ConcatFacts, Zenon
    <2>2. (Pushed(frames[s]) \o points[s]) \o Expanded(jobs, s) \in Seq(Job)
      BY <1>2, <2>1, ConcatFacts, Zenon
    <2>3. QED  BY <2>2, StreamParts, Zenon
  <1>4. QED  BY <1>1, <1>2, <1>3

LEMMA FrameRecord ==
  ASSUME TypeOK, NEW s \in Streams, NEW data \in Seq(Job)
  PROVE  /\ DatasetFrame(s, data) \in [number : Nat, points : Seq(Job)]
         /\ DatasetFrame(s, data).points = data
  <1>1. Rank \in Nat /\ Processes \in Nat  BY ProcessAssumption
  <1>2. PICK n \in Nat : n = frameNumber[s]  BY DEF TypeOK
  <1>3. n * Processes \in Nat  BY <1>1, SMT
  <1>4. Rank + n * Processes \in Nat  BY <1>1, <1>3
  <1>5. FrameId(s) \in Nat  BY <1>2, <1>4, Zenon DEF FrameId
  <1>6. QED  BY <1>5 DEF DatasetFrame

(* The first job of several, and the rest.                                   *)
LEMMA ExpandedHead ==
  ASSUME NEW q \in Seq(Job), q # <<>>, NEW s \in Streams
  PROVE  Expanded(q, s) = Data(Head(q), s) \o Expanded(Tail(q), s)
  <1>1. PICK j \in Job, r \in Seq(Job) : j = Head(q) /\ r = Tail(q) /\ q = <<j>> \o r
    <2>1. Head(q) \in Job /\ Tail(q) \in Seq(Job) /\ q = <<Head(q)>> \o Tail(q)  OBVIOUS
    <2>2. QED  BY <2>1
  <1>2. PICK one \in Seq(Job) : one = <<j>>
    <2>1. \A i \in Job : <<i>> \in Seq(Job)  OBVIOUS
    <2>2. QED  BY <2>1, Zenon
  <1>3. Expanded(q, s) = Expanded(one, s) \o Expanded(r, s)
    <2>1. q = one \o r  BY <1>1, <1>2, Zenon
    <2>2. QED  BY <2>1, ExpandedConcat, Zenon
  <1>4. Expanded(one, s) = Data(j, s)
    <2>1. one = Append(<<>>, j) /\ <<>> \in Seq(Job)  BY <1>2
    <2>2. Expanded(one, s) = Expanded(<<>>, s) \o Data(j, s)  BY <2>1, ExpandedAppend
    <2>3. Expanded(<<>>, s) = <<>>  BY ExpandedEmpty
    <2>4. <<>> \o Data(j, s) = Data(j, s)  BY DataType
    <2>5. QED  BY <2>2, <2>3, <2>4, Zenon
  <1>5. QED  BY <1>1, <1>3, <1>4
-----------------------------------------------------------------------------
(* What the steps do to a stream.  Filling buffers and pushing frames leaves *)
(* it as it is: a job split over two frames, or a frame filled up by an idle *)
(* frame, loses no point and moves none.                                     *)
LEMMA AppendJobStream ==
  ASSUME IInv, AppendJob, NEW s \in Streams
  PROVE  Streamed(s)' = Streamed(s)
  <1>1. PICK j : j = Head(jobs)  OBVIOUS
  <1>2. /\ jobs # <<>> /\ jobs' = Tail(jobs) /\ jobs \in Seq(Job)
        /\ points'[s] = IF Fits(s, j) THEN points[s] \o Data(j, s) ELSE Leftover(s, j)
        /\ frames'[s] =
             IF Fits(s, j) THEN frames[s]
             ELSE Append(frames[s], DatasetFrame(s, points[s] \o SubSeq(Data(j, s), 1, Room(s))))
    BY <1>1 DEF AppendJob, IInv, TypeOK
  <1>3. j \in Job /\ jobs' \in Seq(Job)  BY <1>1, <1>2
  <1>4. Expanded(jobs, s) = Data(j, s) \o Expanded(jobs', s)
    BY <1>1, <1>2, ExpandedHead
  <1>5. PICK p, b, d, x \in Seq(Job) : /\ p = Pushed(frames[s]) /\ b = points[s]
                                       /\ d = Data(j, s) /\ x = Expanded(jobs', s)
    <2>1. Expanded(jobs', s) \in Seq(Job)  BY <1>3, ExpandedType
    <2>2. QED  BY <1>3, <2>1, StreamType, DataType DEF IInv
  <1>6. Streamed(s) = (p \o b) \o (d \o x)
    BY <1>4, <1>5, StreamParts, Zenon
  <1>7. PICK p2, b2 \in Seq(Job) : /\ p2 = Pushed(frames'[s]) /\ b2 = points'[s]
                                   /\ p2 \o b2 = (p \o b) \o d
    <2>1. CASE Fits(s, j)
      <3>1. Pushed(frames'[s]) = p /\ points'[s] = b \o d  BY <1>2, <1>5, <2>1, Zenon
      <3>2. b \o d \in Seq(Job) /\ Associates(p, b, d)  BY ConcatFacts, ConcatAssoc, Zenon
      <3>3. QED  BY <3>1, <3>2 DEF Associates
    <2>2. CASE ~Fits(s, j)
      <3>1. PICK n \in Nat, k \in Nat : n = Len(d) /\ k = Room(s) /\ k <= n
        <4>1. Room(s) \in Nat /\ Contents[j.num][s] \in Nat /\ Len(d) = Contents[j.num][s]
          <5>1. Contents[j.num][s] \in Nat /\ Len(d) = Contents[j.num][s]
            BY <1>3, <1>5, DataType
          <5>2. Len(points[s]) \in Nat /\ Len(points[s]) < FrameQty  BY DEF IInv, TypeOK
          <5>3. Room(s) \in Nat  BY <5>2, FrameAssumption DEF Room
          <5>4. QED  BY <5>1, <5>3
        <4>2. Room(s) <= Contents[j.num][s]  BY <2>2, <4>1 DEF Fits
        <4>3. QED  BY <4>1, <4>2
      <3>2. PICK d1, d2 \in Seq(Job) : /\ d1 = SubSeq(d, 1, k) /\ d2 = SubSeq(d, k + 1, n)
                                       /\ d = d1 \o d2
        <4>1. /\ SubSeq(d, 1, k) \in Seq(Job) /\ SubSeq(d, k + 1, n) \in Seq(Job)
              /\ d = SubSeq(d, 1, k) \o SubSeq(d, k + 1, n)
          <5>1. k \in 0..Len(d)  BY <3>1
          <5>2. QED  BY <3>1, <5>1, SplitAt, Zenon
        <4>2. QED  BY <4>1
      <3>3. points'[s] = d2
        <4>1. Contents[j.num][s] = n  BY <1>3, <1>5, <3>1, DataType
        <4>2. QED  BY <1>2, <1>5, <2>2, <3>1, <3>2, <4>1, Zenon DEF Leftover
      <3>4. PICK data \in Seq(Job) : data = b \o d1  BY ConcatFacts, Zenon
      <3>5. Pushed(frames'[s]) = p \o data /\ p \o data \in Seq(Job)
        <4>1. frames'[s] = Append(frames[s], DatasetFrame(s, data))
          BY <1>2, <1>5, <2>2, <3>1, <3>2, <3>4, Zenon
        <4>2. /\ DatasetFrame(s, data) \in [number : Nat, points : Seq(Job)]
              /\ DatasetFrame(s, data).points = data
          BY FrameRecord DEF IInv
        <4>3. frames[s] \in Frames  BY StreamType DEF IInv
        <4>4. Pushed(frames'[s]) = p \o data  BY <1>5, <4>1, <4>2, <4>3, PushedAppend
        <4>5. QED  BY <4>4, ConcatFacts, Zenon
      <3>6. (p \o (b \o d1)) \o d2 = (p \o b) \o (d1 \o d2)
        <4>1. Regroups(p, b, d1, d2)  BY ConcatFour, Zenon
        <4>2. QED  BY <4>1 DEF Regroups
      <3>7. QED  BY <3>2, <3>3, <3>4, <3>5, <3>6, Zenon
    <2>3. QED  BY <2>1, <2>2
  <1>8. Streamed(s)' = (p2 \o b2) \o x
    BY <1>5, <1>7, StreamParts, Zenon
  <1>9. ((p \o b) \o d) \o x = (p \o b) \o (d \o x)
    <2>1. Associates(p \o b, d, x)  BY ConcatFacts, ConcatAssoc, Zenon
    <2>2. QED  BY <2>1, Zenon DEF Associates
  <1>10. QED  BY <1>6, <1>7, <1>8, <1>9, Zenon

LEMMA EndIdleStream ==
  ASSUME IInv, EndIdle, NEW s \in Streams
  PROVE  Streamed(s)' = Streamed(s)
  <1>1. /\ jobs = <<>> /\ jobs' = <<>> /\ points'[s] = <<>>
        /\ frames'[s] = IF Emptied(s) THEN frames[s]
                        ELSE Append(frames[s], DatasetFrame(s, points[s]))
    BY DEF EndIdle
  <1>2. PICK p, b \in Seq(Job) : p = Pushed(frames[s]) /\ b = points[s]
    BY StreamType DEF IInv
  <1>3. Pushed(frames'[s]) = p \o b
    <2>1. CASE Emptied(s)
      <3>1. b = <<>> /\ Pushed(frames'[s]) = p  BY <1>1, <1>2, <2>1 DEF Emptied
      <3>2. p \o <<>> = p  OBVIOUS
      <3>3. QED  BY <3>1, <3>2
    <2>2. CASE ~Emptied(s)
      <3>1. frames'[s] = Append(frames[s], DatasetFrame(s, b))  BY <1>1, <1>2, <2>2
      <3>2. /\ DatasetFrame(s, b) \in [number : Nat, points : Seq(Job)]
            /\ DatasetFrame(s, b).points = b
        BY FrameRecord DEF IInv
      <3>3. frames[s] \in Frames  BY StreamType DEF IInv
      <3>4. QED  BY <1>2, <3>1, <3>2, <3>3, PushedAppend
    <2>3. QED  BY <2>1, <2>2
  <1>4. Streamed(s)' = ((p \o b) \o <<>>) \o <<>> /\ Streamed(s) = (p \o b) \o <<>>
    <2>1. Expanded(<<>>, s) = <<>>  BY ExpandedEmpty
    <2>2. QED  BY <1>1, <1>2, <1>3, <2>1, StreamParts
  <1>5. PICK x \in Seq(Job) : x = p \o b  BY ConcatFacts, Zenon
  <1>6. x \o <<>> = x  OBVIOUS
  <1>7. QED  BY <1>4, <1>5, <1>6, Zenon

(* A new acquisition starts with empty streams.                              *)
LEMMA StartFrameStream ==
  ASSUME IInv, StartFrame, NEW s \in Streams
  PROVE  Streamed(s)' = IF ended THEN <<>> ELSE Streamed(s)
  <1>1. /\ frames' = IF ended THEN [r \in Streams |-> <<>>] ELSE frames
        /\ jobs' = jobs /\ points' = points
    BY DEF StartFrame, buffers
  <1>2. CASE ended
    <2>1. frames'[s] = <<>> /\ points'[s] = <<>> /\ jobs' = <<>>
      BY <1>1, <1>2 DEF IInv, Quiet
    <2>2. Pushed(<<>>) = <<>>
      <3>1. [k \in DOMAIN <<>> |-> <<>>[k].points] = <<>>  OBVIOUS
      <3>2. QED  BY <3>1, FlattenEmpty, Zenon DEF Pushed
    <2>3. Expanded(<<>>, s) = <<>>  BY ExpandedEmpty
    <2>4. Streamed(s)' = (<<>> \o <<>>) \o <<>>  BY <2>1, <2>2, <2>3, StreamParts
    <2>5. (<<>> \o <<>>) \o <<>> = <<>>
      <3>1. <<>> \in Seq(Job)  OBVIOUS
      <3>2. <<>> \o <<>> = <<>>  BY <3>1, ConcatFacts, Zenon
      <3>3. QED  BY <3>2
    <2>6. QED  BY <1>2, <2>4, <2>5
  <1>3. CASE ~ended
    <2>1. frames' = frames  BY <1>1, <1>3
    <2>2. QED  BY <1>1, <1>3, <2>1, StreamParts, Zenon
  <1>4. QED  BY <1>2, <1>3

(* A wrap that leaves the store goes to the end of every stream.             *)
LEMMA TakeWrapStream ==
  ASSUME IInv, FlushWrap \/ PurgeWrap, NEW q \in Seq(Job), jobs' = jobs \o q, NEW s \in Streams
  PROVE  Streamed(s)' = Streamed(s) \o Expanded(q, s)
  <1>1. frames' = frames /\ points' = points /\ jobs \in Seq(Job)
    BY DEF FlushWrap, PurgeWrap, buffers, IInv, TypeOK
  <1>2. Expanded(jobs', s) = Expanded(jobs, s) \o Expanded(q, s)
    BY <1>1, ExpandedConcat
  <1>3. PICK x \in Seq(Job) : x = Pushed(frames[s]) \o points[s]
    <2>1. Pushed(frames[s]) \in Seq(Job) /\ points[s] \in Seq(Job)  BY StreamType DEF IInv
    <2>2. QED  BY <2>1, ConcatFacts, Zenon
  <1>4. Expanded(jobs, s) \in Seq(Job) /\ Expanded(q, s) \in Seq(Job)
    BY <1>1, ExpandedType
  <1>5. Associates(x, Expanded(jobs, s), Expanded(q, s))
    BY <1>4, ConcatAssoc, Zenon
  <1>6. Streamed(s) = x \o Expanded(jobs, s)  BY <1>3, StreamParts, Zenon
  <1>7. Streamed(s)' = x \o Expanded(jobs', s)  BY <1>1, <1>3, StreamParts, Zenon
  <1>8. QED  BY <1>2, <1>5, <1>6, <1>7, Zenon DEF Associates

(* All other steps.                                                          *)
Still == KnownWrap \/ NewWrap \/ PurgeCounts \/ Turn \/ UNCHANGED vars

LEMMA StillStream ==
  ASSUME Still, NEW s \in Streams
  PROVE  Streamed(s)' = Streamed(s)
  <1>1. UNCHANGED <<frames, points, jobs>>
    BY DEF Still, KnownWrap, NewWrap, PurgeCounts, Turn, EndSlots, EndFlush, StartIdle,
           EndFrame, DuplicateJob, StaleJob, vars, buffers
  <1>2. QED  BY <1>1, StreamParts, Zenon
-----------------------------------------------------------------------------
(* What a sequence of points holds, in which order and how often.            *)
NotAfter(a, b) == SliceOf(a) < SliceOf(b) \/ (SliceOf(a) = SliceOf(b) /\ a.num <= b.num)
Ordered(x) == \A i, k \in DOMAIN x : i < k => NotAfter(x[i], x[k])
Count(x, j) == CountIn(x, {j})

LEMMA OrderedConcat ==
  ASSUME NEW T, NEW x \in Seq(T), NEW y \in Seq(T), Ordered(x), Ordered(y),
         \A a \in Members(x), b \in Members(y) : NotAfter(a, b)
  PROVE  Ordered(x \o y)
  <1>1. SUFFICES ASSUME NEW i \in DOMAIN (x \o y), NEW k \in DOMAIN (x \o y), i < k
                 PROVE  NotAfter((x \o y)[i], (x \o y)[k])
    BY DEF Ordered
  <1>2. i \in Nat /\ k \in Nat /\ Len(x) \in Nat /\ DOMAIN x = 1..Len(x)  OBVIOUS
  <1>3. \/ i \in DOMAIN x /\ (x \o y)[i] = x[i]
        \/ i - Len(x) \in DOMAIN y /\ (x \o y)[i] = y[i - Len(x)] /\ i > Len(x)
    BY ConcatElements
  <1>4. \/ k \in DOMAIN x /\ (x \o y)[k] = x[k]
        \/ k - Len(x) \in DOMAIN y /\ (x \o y)[k] = y[k - Len(x)] /\ k > Len(x)
    BY ConcatElements
  <1>5. CASE i \in DOMAIN x /\ (x \o y)[i] = x[i] /\ k \in DOMAIN x /\ (x \o y)[k] = x[k]
    BY <1>1, <1>5 DEF Ordered
  <1>6. CASE /\ i \in DOMAIN x /\ (x \o y)[i] = x[i]
             /\ k - Len(x) \in DOMAIN y /\ (x \o y)[k] = y[k - Len(x)]
    <2>1. x[i] \in Members(x) /\ y[k - Len(x)] \in Members(y)  BY <1>6 DEF Members
    <2>2. QED  BY <1>6, <2>1
  <1>7. CASE /\ i - Len(x) \in DOMAIN y /\ (x \o y)[i] = y[i - Len(x)]
             /\ k - Len(x) \in DOMAIN y /\ (x \o y)[k] = y[k - Len(x)]
    <2>1. i - Len(x) < k - Len(x)  BY <1>1, <1>2
    <2>2. QED  BY <1>7, <2>1 DEF Ordered
  <1>8. CASE i > Len(x) /\ k \in DOMAIN x
    BY <1>1, <1>2, <1>8
  <1>9. QED  BY <1>3, <1>4, <1>5, <1>6, <1>7, <1>8

(* The points of one job.                                                    *)
LEMMA DataFacts ==
  ASSUME NEW j \in Job, NEW s \in Streams
  PROVE  /\ Members(Data(j, s)) \subseteq {j}
         /\ Ordered(Data(j, s))
         /\ \A I : CountIn(Data(j, s), I) = IF j \in I THEN Contents[j.num][s] ELSE 0
  <1>1. PICK n \in Nat : n = Contents[j.num][s]  BY DataType
  <1>2. PICK d : d = Data(j, s)  OBVIOUS
  <1>3. DOMAIN d = 1..n /\ \A i \in 1..n : d[i] = j  BY <1>1, <1>2 DEF Data
  <1>4. NotAfter(j, j)
    <2>1. j.num \in Nat  BY ContentsAssumption DEF Job
    <2>2. QED  BY <2>1 DEF NotAfter
  <1>5. Members(d) \subseteq {j} /\ Ordered(d)
    BY <1>3, <1>4 DEF Members, Ordered
  <1>6. ASSUME NEW I
        PROVE  CountIn(d, I) = IF j \in I THEN n ELSE 0
    <2>1. CASE j \in I
      <3>1. {k \in DOMAIN d : d[k] \in I} = 1..n  BY <1>3, <2>1
      <3>2. Cardinality(1..n) = n  BY FS_Interval
      <3>3. QED  BY <2>1, <3>1, <3>2 DEF CountIn
    <2>2. CASE j \notin I
      <3>1. {k \in DOMAIN d : d[k] \in I} = {}  BY <1>3, <2>2
      <3>2. QED  BY <2>2, <3>1, FS_EmptySet DEF CountIn
    <2>3. QED  BY <2>1, <2>2
  <1>7. QED  BY <1>1, <1>2, <1>5, <1>6

(* The points of jobs, in order if the jobs are.                             *)
LEMMA ExpandedFacts ==
  ASSUME NEW s \in Streams, NEW q \in Seq(Job)
  PROVE  /\ Members(Expanded(q, s)) \subseteq Members(q)
         /\ Ordered(q) => Ordered(Expanded(q, s))
  <1> DEFINE Good == {r \in Seq(Job) : /\ Members(Expanded(r, s)) \subseteq Members(r)
                                       /\ Ordered(r) => Ordered(Expanded(r, s))}
  <1>1. <<>> \in Good
    <2>1. Expanded(<<>>, s) = <<>> /\ <<>> \in Seq(Job)  BY ExpandedEmpty, EmptyIsSeq
    <2>2. QED  BY <2>1, Zenon
  <1>2. ASSUME NEW r \in Seq(Job), NEW j \in Job, r \in Good
        PROVE  Append(r, j) \in Good
    <2>1. PICK t \in Seq(Job) : t = Append(r, j)  BY AppendFacts, Zenon
    <2>2. PICK x \in Seq(Job), d \in Seq(Job) : x = Expanded(r, s) /\ d = Data(j, s)
      BY ExpandedType, DataType
    <2>3. Expanded(t, s) = x \o d  BY <2>1, <2>2, ExpandedAppend
    <2>4. Members(t) = Members(r) \cup {j}  BY <2>1, MembersAppend
    <2>5. Members(x) \subseteq Members(r) /\ Members(d) \subseteq {j} /\ Ordered(d)
      BY <1>2, <2>2, DataFacts
    <2>6. Members(Expanded(t, s)) \subseteq Members(t)
      BY <2>3, <2>4, <2>5, MembersConcat
    <2>7. ASSUME Ordered(t) PROVE Ordered(x \o d)
      <3>1. PICK n \in Nat : n = Len(r)  OBVIOUS
      <3>2. DOMAIN t = 1..n+1 /\ DOMAIN r = 1..n /\ t[n + 1] = j /\ \A i \in 1..n : t[i] = r[i]
        BY <2>1, <3>1, AppendFacts
      <3>3. Ordered(r)  BY <2>7, <3>2 DEF Ordered
      <3>4. Ordered(x)  BY <1>2, <2>2, <3>3
      <3>5. \A a \in Members(r) : NotAfter(a, j)
        <4>1. ASSUME NEW i \in 1..n PROVE NotAfter(r[i], j)
          <5>1. i \in DOMAIN t /\ n + 1 \in DOMAIN t /\ i < n + 1  BY <3>2
          <5>2. NotAfter(t[i], t[n + 1])  BY <2>7, <5>1 DEF Ordered
          <5>3. QED  BY <3>2, <5>2
        <4>2. QED  BY <3>2, <4>1 DEF Members
      <3>6. QED  BY <2>5, <3>4, <3>5, OrderedConcat
    <2>8. t \in Good  BY <2>3, <2>6, <2>7
    <2> HIDE DEF Good
    <2>9. QED  BY <2>1, <2>8
  <1> HIDE DEF Good
  <1>3. Seq(Job) \subseteq Good  BY <1>1, <1>2, AllSequences
  <1>4. QED  BY <1>3 DEF Good

(* Jobs that differ: each has its points once.                               *)
LEMMA ExpandedCount ==
  ASSUME NEW s \in Streams, NEW j \in Job, NEW q \in Seq(Job), IsInjective(q)
  PROVE  Count(Expanded(q, s), j) = IF j \in Members(q) THEN Contents[j.num][s] ELSE 0
  <1> DEFINE Good == {r \in Seq(Job) : IsInjective(r) =>
               Count(Expanded(r, s), j) = IF j \in Members(r) THEN Contents[j.num][s] ELSE 0}
  <1>1. <<>> \in Good
    <2>1. Expanded(<<>>, s) = <<>> /\ <<>> \in Seq(Job)  BY ExpandedEmpty, EmptyIsSeq
    <2>2. Count(<<>>, j) = 0 /\ Members(<<>>) = {}  BY CountEmpty DEF Members, Count
    <2>3. QED  BY <2>1, <2>2, Zenon
  <1>2. ASSUME NEW r \in Seq(Job), NEW e \in Job, r \in Good
        PROVE  Append(r, e) \in Good
    <2>1. PICK t \in Seq(Job) : t = Append(r, e)  BY AppendFacts, Zenon
    <2>2. ASSUME IsInjective(t)
          PROVE  Count(Expanded(t, s), j) = IF j \in Members(t) THEN Contents[j.num][s] ELSE 0
      <3>1. IsInjective(r) /\ e \notin Members(r)  BY <2>1, <2>2, InjectiveAppend
      <3>2. PICK x \in Seq(Job), d \in Seq(Job) : x = Expanded(r, s) /\ d = Data(e, s)
        BY ExpandedType, DataType
      <3>3. Expanded(t, s) = x \o d  BY <2>1, <3>2, ExpandedAppend
      <3>4. Count(Expanded(t, s), j) = Count(x, j) + Count(d, j)
        BY <3>3, CountConcat DEF Count
      <3>5. Count(x, j) = IF j \in Members(r) THEN Contents[j.num][s] ELSE 0
        BY <1>2, <3>1, <3>2
      <3>6. Count(d, j) = IF j = e THEN Contents[j.num][s] ELSE 0
        BY <3>2, DataFacts DEF Count
      <3>7. Members(t) = Members(r) \cup {e}  BY <2>1, MembersAppend
      <3>8. PICK n \in Nat : n = Contents[j.num][s]  BY DataType
      <3>9. QED  BY <3>1, <3>4, <3>5, <3>6, <3>7, <3>8
    <2>3. t \in Good  BY <2>2
    <2> HIDE DEF Good
    <2>4. QED  BY <2>1, <2>3
  <1> HIDE DEF Good
  <1>3. Seq(Job) \subseteq Good  BY <1>1, <1>2, AllSequences
  <1>4. QED  BY <1>3 DEF Good
-----------------------------------------------------------------------------
(* The jobs of a slot are of its wrap and its buffer; those accepted wait in *)
(* the slot, as long as the store has their wrap.                            *)
Labelled ==
  \A w \in DOMAIN store : \A b \in Slices : \A j \in store[w][b].jobs : j.wrap = w /\ j.buf = b

Placed ==
  \A j \in accepted :
    j.buf \in Slices /\ (j.wrap \in DOMAIN store => j \in store[j.wrap][j.buf].jobs)

(* A wrap leaves the store with all jobs of its slots, each once, by slot and*)
(* packet number.                                                            *)
LEMMA SlotOrderMembers ==
  ASSUME TypeOK, SlotsAccepted, NEW w \in DOMAIN store, NEW q \in InSlotOrder(w)
  PROVE  /\ q \in Seq(Job) /\ IsInjective(q)
         /\ Members(q) = UNION {store[w][b].jobs : b \in Slices}
         /\ \A i, k \in DOMAIN q : i < k => Before(q[i], q[k])
  <1>1. PICK all : all = UNION {store[w][b].jobs : b \in Slices}  OBVIOUS
  <1>2. IsFiniteSet(all) /\ all \subseteq Job
    <2>1. all \subseteq accepted  BY <1>1 DEF SlotsAccepted
    <2>2. QED  BY <2>1, FS_Subset DEF SlotsAccepted, TypeOK
  <1>3. PICK n \in Nat : n = Cardinality(all)  BY <1>2, FS_CardinalityType
  <1>4. q \in [1..n -> all] /\ \A i, k \in 1..n : i < k => Before(q[i], q[k])
    BY <1>1, <1>3 DEF InSlotOrder
  <1>5. q \in Seq(Job)  BY SlotOrderType
  <1>6. \A i \in 1..n : q[i].buf \in Nat /\ q[i].num \in Nat
    <2>1. \A j \in Job : j.buf \in Nat /\ j.num \in Nat  BY ContentsAssumption DEF Job
    <2>2. \A i \in 1..n : q[i] \in all  BY <1>4
    <2>3. QED  BY <1>2, <2>1, <2>2
  <1>7. \A a, b \in 1..n : q[a] = q[b] => a = b
    <2>1. SUFFICES ASSUME NEW a \in 1..n, NEW b \in 1..n, q[a] = q[b], a # b PROVE FALSE
      OBVIOUS
    <2>2. a < b \/ b < a  BY <2>1
    <2>3. Before(q[a], q[a])  BY <1>4, <2>1, <2>2
    <2>4. QED  BY <1>6, <2>3 DEF Before
  <1>8. IsInjective(q)  BY <1>4, <1>7 DEF IsInjective
  <1>9. Members(q) = all
    <2>1. q \in Injection(1..n, all)  BY <1>4, <1>8 DEF Injection
    <2>2. Cardinality(1..n) = Cardinality(all)  BY <1>3, FS_Interval
    <2>3. q \in Surjection(1..n, all)  BY <1>2, <2>1, <2>2, FS_Injection
    <2>4. \A j \in all : \E i \in 1..n : q[i] = j  BY <2>3 DEF Surjection
    <2>5. QED  BY <1>4, <2>4 DEF Members
  <1>10. QED  BY <1>1, <1>4, <1>5, <1>8, <1>9

(* If the slots hold what they should, these are the wrap's jobs, in order.  *)
LEMMA SlotOrderFacts ==
  ASSUME TypeOK, SlotsAccepted, Labelled, Placed, NEW w \in DOMAIN store,
         NEW q \in InSlotOrder(w)
  PROVE  /\ q \in Seq(Job) /\ IsInjective(q) /\ Ordered(q)
         /\ Members(q) = {j \in accepted : j.wrap = w}
  <1>1. PICK all : all = UNION {store[w][b].jobs : b \in Slices}  OBVIOUS
  <1>2. all = {j \in accepted : j.wrap = w}
    <2>1. \A j \in all : j \in accepted /\ j.wrap = w
      BY <1>1 DEF SlotsAccepted, Labelled
    <2>2. \A j \in accepted : j.wrap = w => j \in all
      BY <1>1 DEF Placed
    <2>3. QED  BY <2>1, <2>2
  <1>3. /\ q \in Seq(Job) /\ IsInjective(q) /\ Members(q) = all
        /\ \A i, k \in DOMAIN q : i < k => Before(q[i], q[k])
    BY <1>1, SlotOrderMembers
  <1>4. \A i \in DOMAIN q : q[i].buf \in Nat /\ q[i].num \in Nat /\ q[i].wrap = w
    <2>1. \A j \in Job : j.buf \in Nat /\ j.num \in Nat  BY ContentsAssumption DEF Job
    <2>2. \A i \in DOMAIN q : q[i] \in all /\ q[i] \in Job  BY <1>3 DEF Members
    <2>3. QED  BY <1>2, <2>1, <2>2
  <1>5. Ordered(q)
    <2>1. SUFFICES ASSUME NEW i \in DOMAIN q, NEW k \in DOMAIN q, i < k
                   PROVE  NotAfter(q[i], q[k])
      BY DEF Ordered
    <2>2. Before(q[i], q[k])  BY <1>3, <2>1
    <2>3. PICK m \in Int : m = w * NumBuffers
      <3>1. w \in Nat  BY DEF TypeOK
      <3>2. \A a, b \in Nat : a * b \in Int  BY SMT
      <3>3. QED  BY <3>1, <3>2, Constants
    <2>4. SliceOf(q[i]) = m + q[i].buf /\ SliceOf(q[k]) = m + q[k].buf
      BY <1>4, <2>3, Zenon DEF SliceOf
    <2>5. QED  BY <1>4, <2>2, <2>4 DEF NotAfter, Before
  <1>6. QED  BY <1>2, <1>3, <1>5

(* The streams hold the jobs of the wraps that have left the store, in order.*)
StreamHolds(x, s) ==
  /\ \A j \in Members(x) : j \in accepted /\ \A w \in DOMAIN store : j.wrap < w
  /\ Ordered(x)
  /\ \A j \in accepted : Count(x, j) = IF j.wrap \in DOMAIN store THEN 0 ELSE Contents[j.num][s]

StreamsHold ==
  /\ Labelled /\ Placed
  /\ ended => lastWritten = 0
  /\ \A s \in Streams : StreamHolds(Streamed(s), s)

(* Slices follow in order of wrap.                                           *)
LEMMA EarlierWrap ==
  ASSUME NEW a \in Job, NEW b \in Job, a.wrap < b.wrap, a.buf \in Slices, b.buf \in Slices
  PROVE  NotAfter(a, b)
  <1>1. PICK v \in Nat, w \in Nat : v = a.wrap /\ w = b.wrap /\ v < w  BY DEF Job
  <1>2. PICK k \in Nat : k = v + 1 /\ k <= w  BY <1>1
  <1>3. \A i, n \in Nat : i * n \in Nat  BY SMT
  <1>4. v * NumBuffers \in Nat /\ w * NumBuffers \in Nat /\ k * NumBuffers \in Nat
    BY <1>1, <1>2, <1>3, Constants
  <1>5. k * NumBuffers <= w * NumBuffers
    <2>1. k \in Int /\ w \in Int  BY <1>2
    <2>2. QED  BY <1>2, <2>1, WrapsAscend, Zenon
  <1>6. k * NumBuffers = v * NumBuffers + NumBuffers
    BY <1>2, Constants
  <1>7. SliceOf(a) = v * NumBuffers + a.buf /\ SliceOf(b) = w * NumBuffers + b.buf
    BY <1>1, Zenon DEF SliceOf
  <1>8. a.buf \in Nat /\ b.buf \in Nat /\ a.buf < NumBuffers
    BY Constants DEF Slices
  <1>9. SliceOf(a) < SliceOf(b)
    <2>1. PICK m1, m2 \in Nat : m1 = v * NumBuffers /\ m2 = w * NumBuffers  BY <1>4
    <2>2. m1 + NumBuffers <= m2  BY <1>5, <1>6, <2>1
    <2>3. m1 + a.buf < m2 + b.buf  BY <1>8, <2>1, <2>2, Constants
    <2>4. QED  BY <1>7, <2>1, <2>3
  <1>10. QED  BY <1>9 DEF NotAfter

(* The slots of a wrap as a job finds them, and what taking it in does.      *)
Opened(w) == IF w \in DOMAIN store THEN store[w] ELSE EmptyWrap

LEMMA JobTaken ==
  ASSUME IInv, NEW j, j = Head(frameJobs), KnownWrap \/ NewWrap
  PROVE  /\ Opened(j.wrap) \in [Slices -> Slot]
         /\ j.buf \in Slices => j \notin Opened(j.wrap)[j.buf].jobs
         /\ store' = [v \in DOMAIN store \cup {j.wrap} |->
                        IF v = j.wrap THEN WithJob(Opened(j.wrap), j) ELSE store[v]]
  <1>1. PICK w : w = j.wrap  OBVIOUS
  <1>2. CASE KnownWrap
    <2>1. /\ store' = [store EXCEPT ![w] = WithJob(store[w], j)] /\ w \in DOMAIN store
          /\ ~Duplicate(store[w], j)
      BY <1>1, <1>2 DEF KnownWrap
    <2>2. store \in [DOMAIN store -> [Slices -> Slot]]  BY DEF IInv, TypeOK
    <2>3. Opened(w) = store[w] /\ DOMAIN store \cup {w} = DOMAIN store  BY <2>1 DEF Opened
    <2>4. store' = [v \in DOMAIN store \cup {w} |->
                      IF v = w THEN WithJob(Opened(w), j) ELSE store[v]]
      BY <2>1, <2>2, <2>3
    <2>5. j.buf \in Slices => j \notin store[w][j.buf].jobs  BY <2>1 DEF Duplicate
    <2>6. Opened(w) \in [Slices -> Slot]  BY <2>1, <2>2, <2>3
    <2>7. QED  BY <1>1, <2>3, <2>4, <2>5, <2>6, Zenon
  <1>3. CASE NewWrap
    <2>1. /\ w \notin DOMAIN store
          /\ store' = [v \in DOMAIN store \cup {w} |->
                         IF v = w THEN WithJob(EmptyWrap, j) ELSE store[v]]
      BY <1>1, <1>3 DEF NewWrap
    <2>2. Opened(w) = EmptyWrap  BY <2>1 DEF Opened
    <2>3. j.buf \in Slices => j \notin EmptyWrap[j.buf].jobs  BY DEF EmptyWrap
    <2>4. QED  BY <1>1, <2>1, <2>2, <2>3, EmptyWrapType
  <1>4. QED  BY <1>2, <1>3

(* A job goes to its slot: the streams are as they were, and do not have it. *)
LEMMA JobStreams ==
  ASSUME IInv, NEW n \in Nat, HorizonAt(n), StreamsHold, KnownWrap \/ NewWrap
  PROVE  StreamsHold'
  <1>1. PICK j : j = Head(frameJobs)  OBVIOUS
  <1>2. PICK w : w = j.wrap  OBVIOUS
  <1>3. /\ j \in Job /\ w \in Nat /\ Accept(j) /\ ~ended' /\ Acquiring
        /\ UNCHANGED <<frames, points, jobs>>
    <2>1. /\ Accept(j) /\ NextJob /\ UNCHANGED <<frames, points, jobs, input>>
      BY <1>1 DEF KnownWrap, NewWrap, buffers
    <2>2. j \in Job  BY <1>1, <2>1, HeadJob DEF IInv
    <2>3. QED  BY <1>2, <2>1, <2>2 DEF Job, NextJob, input, Acquiring, IInv, Quiet
  <1>4. PICK old \in [Slices -> Slot] :
          /\ old = IF w \in DOMAIN store THEN store[w] ELSE EmptyWrap
          /\ store' = [v \in DOMAIN store \cup {w} |-> IF v = w THEN WithJob(old, j) ELSE store[v]]
    BY <1>1, <1>2, JobTaken DEF Opened
  <1>5. DOMAIN store' = DOMAIN store \cup {w}  BY <1>4
  (* a wrap that is new has no job yet, here or in a stream *)
  <1>6. w \notin DOMAIN store => \A v \in Nat : Flushed(v) => v < w
    <2>1. SUFFICES ASSUME w \notin DOMAIN store, NEW v \in Nat, Flushed(v) PROVE v < w
      OBVIOUS
    <2>2. NewWrap  BY <1>1, <1>2, <2>1 DEF KnownWrap
    <2>3. w + 1 >= n  BY <1>1, <1>2, <2>2, JobHorizon
    <2>4. v + 2 <= n  BY <1>3, <2>1 DEF HorizonAt
    <2>5. QED  BY <1>3, <2>3, <2>4
  <1>7. w \notin DOMAIN store => \A i \in accepted : i.wrap # w
    <2>1. SUFFICES ASSUME w \notin DOMAIN store, NEW i \in accepted, i.wrap = w PROVE FALSE
      OBVIOUS
    <2>2. Flushed(w)  BY <2>1 DEF Flushed
    <2>3. QED  BY <1>3, <1>6, <2>1, <2>2
  <1>8. Labelled'
    <2>1. \A b \in Slices : \A i \in old[b].jobs : i.wrap = w /\ i.buf = b
      BY <1>4 DEF StreamsHold, Labelled, EmptyWrap
    <2>2. \A b \in Slices : \A i \in WithJob(old, j)[b].jobs : i.wrap = w /\ i.buf = b
      BY <1>2, <2>1 DEF WithJob
    <2>3. QED  BY <1>4, <2>2 DEF StreamsHold, Labelled
  <1>9. Placed'
    <2>1. SUFFICES ASSUME NEW i \in accepted'
                   PROVE  /\ i.buf \in Slices
                          /\ i.wrap \in DOMAIN store' => i \in store'[i.wrap][i.buf].jobs
      BY DEF Placed
    <2>2. CASE i \in accepted
      <3>1. i.buf \in Slices /\ (i.wrap \in DOMAIN store => i \in store[i.wrap][i.buf].jobs)
        BY <2>2 DEF StreamsHold, Placed
      <3>2. CASE i.wrap = w
        <4>1. w \in DOMAIN store /\ i \in old[i.buf].jobs  BY <1>4, <1>7, <2>2, <3>1, <3>2
        <4>2. i \in WithJob(old, j)[i.buf].jobs  BY <3>1, <4>1 DEF WithJob
        <4>3. store'[w] = WithJob(old, j)  BY <1>4
        <4>4. QED  BY <3>1, <3>2, <4>2, <4>3
      <3>3. CASE i.wrap # w
        <4>1. i.wrap \in DOMAIN store' => i.wrap \in DOMAIN store /\ store'[i.wrap] = store[i.wrap]
          BY <1>4, <3>3
        <4>2. QED  BY <3>1, <4>1
      <3>4. QED  BY <3>2, <3>3
    <2>3. CASE i \notin accepted
      <3>1. i = j /\ j.buf \in Slices  BY <1>3, <2>1, <2>3 DEF Accept
      <3>2. store'[w] = WithJob(old, j)  BY <1>4
      <3>3. j \in WithJob(old, j)[j.buf].jobs  BY <3>1 DEF WithJob
      <3>4. QED  BY <1>2, <3>1, <3>2, <3>3
    <2>4. QED  BY <2>2, <2>3
  <1>10. ASSUME NEW s \in Streams PROVE StreamHolds(Streamed(s), s)'
    <2>1. PICK x \in Seq(Job) : x = Streamed(s)  BY StreamType DEF IInv
    <2>2. Streamed(s)' = x  BY <1>3, <2>1, StreamParts, Zenon
    <2>3. StreamHolds(x, s)  BY <2>1 DEF StreamsHold
    <2>4. \A i \in Members(x) : i \in accepted' /\ \A v \in DOMAIN store' : i.wrap < v
      <3>1. SUFFICES ASSUME NEW i \in Members(x)
                     PROVE  i \in accepted' /\ \A v \in DOMAIN store' : i.wrap < v
        OBVIOUS
      <3>2. i \in accepted /\ \A v \in DOMAIN store : i.wrap < v  BY <2>3 DEF StreamHolds
      <3>3. i.wrap \in Nat  BY <3>2 DEF IInv, TypeOK, Job
      <3>4. i.wrap \notin DOMAIN store  BY <3>2, <3>3
      <3>5. Flushed(i.wrap)  BY <3>2, <3>4 DEF Flushed
      <3>6. i.wrap < w  BY <1>6, <3>2, <3>3, <3>5
      <3>7. QED  BY <1>3, <1>5, <3>2, <3>6 DEF Accept
    <2>5. ASSUME NEW i \in accepted'
          PROVE  Count(x, i) = IF i.wrap \in DOMAIN store' THEN 0 ELSE Contents[i.num][s]
      <3>1. CASE i \in accepted
        <4>1. i.wrap \in DOMAIN store' <=> i.wrap \in DOMAIN store  BY <1>5, <1>7, <3>1
        <4>2. QED  BY <2>3, <3>1, <4>1 DEF StreamHolds
      <3>2. CASE i \notin accepted
        <4>1. i = j  BY <1>3, <2>5, <3>2 DEF Accept
        <4>2. i \notin Members(x)  BY <2>3, <3>2 DEF StreamHolds
        <4>3. Count(x, i) = 0  BY <4>2, CountType DEF Count
        <4>4. QED  BY <1>2, <1>5, <4>1, <4>3
      <3>3. QED  BY <3>1, <3>2
    <2>6. QED  BY <2>2, <2>3, <2>4, <2>5 DEF StreamHolds
  <1>11. QED  BY <1>3, <1>8, <1>9, <1>10 DEF StreamsHold

(* The oldest wrap moves to the ends of the streams.                         *)
LEMMA TakeWrapStreams ==
  ASSUME IInv, StreamsHold, FlushWrap \/ PurgeWrap
  PROVE  StreamsHold'
  <1>1. PICK w \in DOMAIN store : TakeWrap(w)  BY DEF FlushWrap, PurgeWrap
  <1>2. /\ ~ended' /\ accepted' = accepted
        /\ store' = [v \in DOMAIN store \ {w} |-> store[v]]
        /\ w \in Nat /\ DOMAIN store \subseteq Nat
        /\ \A v \in DOMAIN store : w <= v
    BY <1>1 DEF FlushWrap, PurgeWrap, TakeWrap, WithoutWrap, Oldest, IInv, TypeOK, Quiet, input
  <1>3. PICK q \in InSlotOrder(w) : jobs' = jobs \o q  BY <1>1 DEF TakeWrap
  <1>4. /\ q \in Seq(Job) /\ IsInjective(q) /\ Ordered(q)
        /\ Members(q) = {j \in accepted : j.wrap = w}
    BY SlotOrderFacts DEF IInv, StreamsHold
  <1>5. Labelled' /\ Placed'
    BY <1>2 DEF StreamsHold, Labelled, Placed
  <1>6. accepted \subseteq Job  BY DEF IInv, TypeOK
  <1>7. ASSUME NEW s \in Streams PROVE StreamHolds(Streamed(s), s)'
    <2>1. PICK x \in Seq(Job) : x = Streamed(s)  BY StreamType DEF IInv
    <2>2. PICK y \in Seq(Job) : y = Expanded(q, s)  BY <1>4, ExpandedType
    <2>3. PICK z \in Seq(Job) : z = x \o y  BY ConcatFacts, Zenon
    <2>4. Streamed(s)' = z  BY <1>3, <1>4, <2>1, <2>2, <2>3, TakeWrapStream
    <2>5. StreamHolds(x, s)  BY <2>1 DEF StreamsHold
    <2>6. Members(y) \subseteq Members(q) /\ Ordered(y)
      BY <1>4, <2>2, ExpandedFacts
    <2>7. Members(z) = Members(x) \cup Members(y)  BY <2>3, MembersConcat
    <2>8. \A i \in Members(z) : i \in accepted /\ \A v \in DOMAIN store' : i.wrap < v
      <3>1. SUFFICES ASSUME NEW i \in Members(z)
                     PROVE  i \in accepted /\ \A v \in DOMAIN store' : i.wrap < v
        OBVIOUS
      <3>2. CASE i \in Members(x)  BY <1>2, <2>5, <3>2 DEF StreamHolds
      <3>3. CASE i \in Members(y)
        <4>1. i \in accepted /\ i.wrap = w  BY <1>4, <2>6, <3>3
        <4>2. \A v \in DOMAIN store' : v \in DOMAIN store /\ v # w  BY <1>2
        <4>3. QED  BY <1>2, <4>1, <4>2
      <3>4. QED  BY <2>7, <3>2, <3>3
    <2>9. Ordered(z)
      <3>1. ASSUME NEW a \in Members(x), NEW b \in Members(y) PROVE NotAfter(a, b)
        <4>1. a \in accepted /\ a.wrap < w  BY <2>5 DEF StreamHolds
        <4>2. b \in accepted /\ b.wrap = w  BY <1>4, <2>6
        <4>3. a.buf \in Slices /\ b.buf \in Slices  BY <4>1, <4>2 DEF StreamsHold, Placed
        <4>4. QED  BY <1>6, <4>1, <4>2, <4>3, EarlierWrap
      <3>2. QED  BY <2>3, <2>5, <2>6, <3>1, OrderedConcat DEF StreamHolds
    <2>10. ASSUME NEW i \in accepted
           PROVE  Count(z, i) = IF i.wrap \in DOMAIN store' THEN 0 ELSE Contents[i.num][s]
      <3>1. i \in Job  BY <1>6
      <3>2. Count(z, i) = Count(x, i) + Count(y, i)  BY <2>3, CountConcat DEF Count
      <3>3. Count(x, i) = IF i.wrap \in DOMAIN store THEN 0 ELSE Contents[i.num][s]
        BY <2>5 DEF StreamHolds
      <3>4. Count(y, i) = IF i.wrap = w THEN Contents[i.num][s] ELSE 0
        <4>1. Count(y, i) = IF i \in Members(q) THEN Contents[i.num][s] ELSE 0
          BY <1>4, <2>2, <3>1, ExpandedCount
        <4>2. i \in Members(q) <=> i.wrap = w  BY <1>4
        <4>3. QED  BY <4>1, <4>2
      <3>5. PICK c \in Nat : c = Contents[i.num][s]  BY <3>1, DataType
      <3>6. i.wrap \in DOMAIN store' <=> i.wrap \in DOMAIN store /\ i.wrap # w  BY <1>2
      <3>7. QED  BY <3>2, <3>3, <3>4, <3>5, <3>6
    <2>11. QED  BY <1>2, <2>4, <2>8, <2>9, <2>10 DEF StreamHolds
  <1>8. QED  BY <1>2, <1>5, <1>7 DEF StreamsHold

(* A new acquisition starts from empty streams.                              *)
LEMMA StartFrameStreams ==
  ASSUME IInv, StreamsHold, StartFrame
  PROVE  StreamsHold'
  <1>1. /\ ended' = FALSE /\ UNCHANGED <<slices, jobs, buffers, counts>>
        /\ accepted' = IF ended THEN {} ELSE accepted
    BY DEF StartFrame
  <1>2. CASE ended
    <2>1. accepted' = {} /\ DOMAIN store' = {}  BY <1>1, <1>2 DEF IInv, Quiet, slices
    <2>2. \A s \in Streams : Streamed(s)' = <<>>  BY <1>2, StartFrameStream
    <2>3. \A s \in Streams : StreamHolds(Streamed(s), s)'
      BY <2>1, <2>2 DEF StreamHolds, Members, Ordered
    <2>4. Labelled' /\ Placed'  BY <2>1 DEF Labelled, Placed
    <2>5. QED  BY <1>1, <2>3, <2>4 DEF StreamsHold
  <1>3. CASE ~ended
    <2>1. accepted' = accepted /\ store' = store  BY <1>1, <1>3 DEF slices
    <2>2. \A s \in Streams : Streamed(s)' = Streamed(s)  BY <1>3, StartFrameStream
    <2>3. \A s \in Streams : StreamHolds(Streamed(s), s)'
      BY <2>1, <2>2 DEF StreamHolds, StreamsHold
    <2>4. Labelled' /\ Placed'  BY <2>1 DEF StreamsHold, Labelled, Placed
    <2>5. QED  BY <1>1, <2>3, <2>4 DEF StreamsHold
  <1>4. QED  BY <1>2, <1>3

LEMMA OtherStreams ==
  ASSUME IInv, StreamsHold, Turn \/ PurgeCounts \/ AppendJob \/ EndIdle \/ UNCHANGED vars
  PROVE  StreamsHold'
  <1>1. /\ UNCHANGED <<store, accepted>>
        /\ ended' => lastWritten' = 0
    <2>1. CASE EndIdle  BY <2>1 DEF EndIdle
    <2>2. CASE ~EndIdle
      <3>1. UNCHANGED <<slices, lastWritten, accepted, ended>>
        <4>1. CASE Turn
          BY <4>1 DEF Turn, EndSlots, EndFlush, StartIdle, EndFrame, DuplicateJob, StaleJob,
                      counts, input
        <4>2. CASE PurgeCounts  BY <4>2 DEF PurgeCounts, input
        <4>3. CASE AppendJob  BY <4>3 DEF AppendJob, counts, input
        <4>4. CASE UNCHANGED vars  BY <4>4 DEF vars, counts, input
        <4>5. QED  BY <2>2, <4>1, <4>2, <4>3, <4>4
      <3>2. QED  BY <3>1 DEF slices, StreamsHold
    <2>3. QED  BY <2>1, <2>2
  <1>2. ASSUME NEW s \in Streams PROVE Streamed(s)' = Streamed(s)
    BY AppendJobStream, EndIdleStream, StillStream DEF Still
  <1>3. Labelled' /\ Placed'  BY <1>1 DEF StreamsHold, Labelled, Placed
  <1>4. \A s \in Streams : StreamHolds(Streamed(s), s)'
    BY <1>1, <1>2 DEF StreamHolds, StreamsHold
  <1>5. QED  BY <1>1, <1>3, <1>4 DEF StreamsHold

LEMMA StreamsStep ==
  ASSUME IInv, NEW n \in Nat, HorizonAt(n), StreamsHold, [Next]_vars
  PROVE  StreamsHold'
  <1>1. CASE StartFrame  BY <1>1, StartFrameStreams
  <1>2. CASE KnownWrap \/ NewWrap  BY <1>2, JobStreams
  <1>3. CASE FlushWrap \/ PurgeWrap  BY <1>3, TakeWrapStreams
  <1>4. CASE Turn \/ PurgeCounts \/ AppendJob \/ EndIdle \/ UNCHANGED vars
    BY <1>4, OtherStreams
  <1>5. QED  BY <1>1, <1>2, <1>3, <1>4 DEF Next, Step, Turn

LEMMA StreamsInit == Init => StreamsHold
  <1> SUFFICES ASSUME Init PROVE StreamsHold  OBVIOUS
  <1>1. Labelled /\ Placed /\ lastWritten = 0  BY DEF Init, Labelled, Placed
  <1>2. ASSUME NEW s \in Streams PROVE StreamHolds(Streamed(s), s)
    <2>1. frames[s] = <<>> /\ points[s] = <<>> /\ jobs = <<>> /\ accepted = {}
      BY DEF Init
    <2>2. Pushed(<<>>) = <<>>
      <3>1. [k \in DOMAIN <<>> |-> <<>>[k].points] = <<>>  OBVIOUS
      <3>2. QED  BY <3>1, FlattenEmpty, Zenon DEF Pushed
    <2>3. Expanded(<<>>, s) = <<>>  BY ExpandedEmpty
    <2>4. Streamed(s) = (<<>> \o <<>>) \o <<>>  BY <2>1, <2>2, <2>3, StreamParts
    <2>5. (<<>> \o <<>>) \o <<>> = <<>>
      <3>1. <<>> \in Seq(Job)  OBVIOUS
      <3>2. <<>> \o <<>> = <<>>  BY <3>1, ConcatFacts, Zenon
      <3>3. QED  BY <3>2
    <2>6. Streamed(s) = <<>>  BY <2>4, <2>5
    <2>7. QED  BY <2>1, <2>6 DEF StreamHolds, Members, Ordered
  <1>3. QED  BY <1>1, <1>2 DEF StreamsHold

LEMMA StreamsInvariant ==
  ASSUME 2 \notin Lateness
  PROVE  Spec => [](IInv /\ StreamsHold)
  <1> DEFINE Steady == (\E n \in Nat : HorizonAt(n)) /\ StreamsHold
  <1>1. Init => Steady  BY HorizonInit, StreamsInit
  <1>2. IInv /\ Steady /\ [Next]_vars => Steady'
    BY HorizonStep, StreamsStep DEF Further
  <1>3. Steady => StreamsHold  OBVIOUS
  <1> HIDE DEF Steady
  <1>4. QED  BY <1>1, <1>2, <1>3, Invariant, PTL DEF Spec

(* Whatever the order in which packets arrive, if none is exactly two wraps  *)
(* late, points are stored in order of slice and packet number.              *)
THEOREM StreamsOrdered ==
  ASSUME 2 \notin Lateness
  PROVE  Spec => []StreamOrdered
  <1>1. StreamsHold => StreamOrdered
    BY DEF StreamsHold, StreamHolds, Ordered, NotAfter, StreamOrdered
  <1>2. QED  BY <1>1, StreamsInvariant, PTL

(* Every point of an accepted job is in its slot or, once, in the stream.    *)
THEOREM PointsKept ==
  ASSUME 2 \notin Lateness
  PROVE  Spec => []NothingLost
  <1>1. ASSUME IInv, StreamsHold PROVE NothingLost
    <2>1. SUFFICES ASSUME NEW j \in accepted, NEW s \in Streams
                   PROVE  Cardinality({i \in DOMAIN Streamed(s) : Streamed(s)[i] = j}) =
                            IF j.wrap \in DOMAIN store /\ j \in store[j.wrap][j.buf].jobs
                            THEN 0 ELSE Contents[j.num][s]
      BY DEF NothingLost
    <2>2. Count(Streamed(s), j) = IF j.wrap \in DOMAIN store THEN 0 ELSE Contents[j.num][s]
      BY <1>1 DEF StreamsHold, StreamHolds
    <2>3. j.wrap \in DOMAIN store => j \in store[j.wrap][j.buf].jobs
      BY <1>1 DEF StreamsHold, Placed
    <2>4. Cardinality({i \in DOMAIN Streamed(s) : Streamed(s)[i] = j}) = Count(Streamed(s), j)
      <3>1. PICK x : x = Streamed(s)  OBVIOUS
      <3>2. {i \in DOMAIN x : x[i] = j} = {i \in DOMAIN x : x[i] \in {j}}  OBVIOUS
      <3>3. QED  BY <3>1, <3>2 DEF Count, CountIn
    <2>5. QED  BY <2>2, <2>3, <2>4, Zenon
  <1>2. QED  BY <1>1, StreamsInvariant, PTL

(* When an idle frame has ended the acquisition, the datasets hold the jobs  *)
(* that were accepted and nothing is kept for the next acquisition.          *)
THEOREM AcquisitionEnds ==
  ASSUME 2 \notin Lateness
  PROVE  Spec => []AcquisitionComplete
  <1>1. ASSUME IInv, StreamsHold PROVE AcquisitionComplete
    <2>1. SUFFICES ASSUME ended
                   PROVE  /\ DOMAIN store = {} /\ jobs = <<>> /\ currentWrap = 0 /\ lastWritten = 0
                          /\ \A s \in Streams :
                               /\ points[s] = <<>>
                               /\ {Written(s)[i] : i \in DOMAIN Written(s)} =
                                    {j \in accepted : Contents[j.num][s] > 0}
      BY DEF AcquisitionComplete
    <2>2. /\ DOMAIN store = {} /\ jobs = <<>> /\ currentWrap = 0 /\ lastWritten = 0
          /\ \A s \in Streams : points[s] = <<>>
      BY <1>1, <2>1 DEF IInv, Quiet, StreamsHold
    <2>3. ASSUME NEW s \in Streams
          PROVE  Members(Written(s)) = {j \in accepted : Contents[j.num][s] > 0}
      <3>1. PICK x \in Seq(Job) : x = Written(s)
        <4>1. Pushed(frames[s]) \in Seq(Job) /\ points[s] \in Seq(Job)
          BY <1>1, StreamType DEF IInv
        <4>2. Written(s) = Pushed(frames[s]) \o points[s]  BY Zenon DEF Written, Pushed
        <4>3. QED  BY <4>1, <4>2, ConcatFacts, Zenon
      <3>2. Streamed(s) = x
        <4>1. Streamed(s) = Written(s) \o Expanded(jobs, s)  BY Zenon DEF Streamed, Expanded
        <4>2. Expanded(<<>>, s) = <<>>  BY ExpandedEmpty
        <4>3. x \o <<>> = x  OBVIOUS
        <4>4. QED  BY <2>2, <3>1, <4>1, <4>2, <4>3, Zenon
      <3>3. StreamHolds(x, s)  BY <1>1, <3>2 DEF StreamsHold
      <3>4. \A j : Count(x, j) > 0 <=> j \in Members(x)  BY CountType DEF Count
      <3>5. \A j \in accepted : Count(x, j) = Contents[j.num][s]
        BY <2>2, <3>3 DEF StreamHolds
      <3>6. Members(x) \subseteq accepted  BY <3>3 DEF StreamHolds
      <3>7. QED  BY <3>1, <3>4, <3>5, <3>6
    <2>4. QED  BY <2>2, <2>3 DEF Members
  <1>2. QED  BY <1>1, StreamsInvariant, PTL
-----------------------------------------------------------------------------
(***************************************************************************)
(* Proofs about the counts that are published: for packets that are never  *)
(* exactly two wraps late, and an acquisition short enough for the 32-bit  *)
(* index of a slice, they agree with the stream of events.                 *)
(*                                                                         *)
(* A slice has its count in one block only, published or still filled, as  *)
(* the blocks are in order; publishing a block and starting the next moves *)
(* its counts, and a wrap adds those of its slots, which are the events of *)
(* the jobs in them, where the array has none yet.                         *)
(***************************************************************************)

(* A slice is covered by one block of several in order, or by none.          *)
PublishedBy(m, slice) == {k \in DOMAIN m : Covers(m[k].index, slice)}
PublishedSums(g, m, slice, S) ==
  g = [s \in SUBSET S |->
         IF s = {} THEN 0
         ELSE m[CHOOSE x \in s : TRUE].counts[slice - m[CHOOSE x \in s : TRUE].index]
                + g[s \ {CHOOSE x \in s : TRUE}]]

LEMMA PublishedSum ==
  ASSUME NEW slice, NEW m, NEW S, S = PublishedBy(m, slice), IsFiniteSet(S)
  PROVE  Published(m, slice) = SumOf([k \in S |-> m[k].counts[slice - m[k].index]], S)
  <1>1. PICK v : v = [k \in S |-> m[k].counts[slice - m[k].index]]  OBVIOUS
  <1>2. PICK g : g = CHOOSE f : PublishedSums(f, m, slice, S)  OBVIOUS
  <1>3. Published(m, slice) = g[S]
    BY <1>2, Zenon DEF Published, PublishedBy, MapThenSumSet, MapThenFoldSet, PublishedSums
  <1>4. \A s \in SUBSET S : s # {} =>
          v[CHOOSE x \in s : TRUE]
            = m[CHOOSE x \in s : TRUE].counts[slice - m[CHOOSE x \in s : TRUE].index]
    <2>1. \A s \in SUBSET S : s # {} => (CHOOSE x \in s : TRUE) \in S  OBVIOUS
    <2>2. QED  BY <1>1, <2>1, Zenon
  <1>5. ASSUME NEW f PROVE PublishedSums(f, m, slice, S) <=> Sums(f, v, S)
    <2>1. ASSUME NEW s \in SUBSET S
          PROVE  (IF s = {} THEN 0
                  ELSE m[CHOOSE x \in s : TRUE].counts[slice - m[CHOOSE x \in s : TRUE].index]
                         + f[s \ {CHOOSE x \in s : TRUE}])
                   = IF s = {} THEN 0
                     ELSE v[CHOOSE x \in s : TRUE] + f[s \ {CHOOSE x \in s : TRUE}]
      <3>1. PICK y : y = CHOOSE x \in s : TRUE  OBVIOUS
      <3>2. PICK c : c = m[y].counts[slice - m[y].index]  OBVIOUS
      <3>3. s # {} => c = v[y]  BY <1>4, <3>1, <3>2, Zenon
      <3>4. (IF s = {} THEN 0 ELSE c + f[s \ {y}]) = IF s = {} THEN 0 ELSE v[y] + f[s \ {y}]
        BY <3>3
      <3>5. QED  BY <3>1, <3>2, <3>4, Zenon
    <2>2. QED  BY <2>1, Zenon DEF PublishedSums, Sums
  <1>6. PICK f : Sums(f, v, S)  BY SumsExists
  <1>7. Sums(g, v, S)  BY <1>2, <1>5, <1>6, Zenon
  <1>8. g[S] = SumOf(v, S)  BY <1>7, SumOfIs
  <1>9. QED  BY <1>1, <1>3, <1>8

LEMMA PublishedNone ==
  ASSUME NEW slice, NEW m, PublishedBy(m, slice) = {}
  PROVE  Published(m, slice) = 0
  BY FS_EmptySet, PublishedSum, SumOfEmpty

LEMMA PublishedOne ==
  ASSUME NEW slice, NEW m, NEW k,
         \A i : i \in DOMAIN m /\ Covers(m[i].index, slice) <=> i = k,
         m[k].counts[slice - m[k].index] \in Nat
  PROVE  Published(m, slice) = m[k].counts[slice - m[k].index]
  <1>1. PICK S : S = PublishedBy(m, slice)  OBVIOUS
  <1>2. S = {k} /\ IsFiniteSet(S)
    <2>1. \A i : i \in S <=> i = k  BY <1>1 DEF PublishedBy
    <2>2. S = {k}  BY <2>1, Zenon
    <2>3. IsFiniteSet({k})  BY FS_Singleton
    <2>4. QED  BY <2>2, <2>3
  <1>3. PICK v : v = [i \in S |-> m[i].counts[slice - m[i].index]]  OBVIOUS
  <1>4. v[k] = m[k].counts[slice - m[k].index] /\ \A i \in S : v[i] \in Nat  BY <1>2, <1>3
  <1>5. SumOf(v, S) = v[k] + SumOf(v, S \ {k})  BY <1>2, <1>4, SumOfRemove
  <1>6. S \ {k} = {}  BY <1>2
  <1>7. SumOf(v, S \ {k}) = 0  BY <1>6, SumOfEmpty
  <1>8. Published(m, slice) = SumOf(v, S)
    <2>1. Published(m, slice) = SumOf([i \in S |-> m[i].counts[slice - m[i].index]], S)
      <3>1. IsFiniteSet(S)  BY <1>2
      <3>2. QED  BY <1>1, <3>1, PublishedSum, Zenon
    <2>2. QED  BY <1>3, <2>1, Zenon
  <1>9. QED  BY <1>4, <1>5, <1>7, <1>8

Counts == [0..BlockSize-1 -> Nat]

LEMMA BlockFacts ==
  /\ \A b \in Blocks : b.index \in Nat /\ b.counts \in Counts
  /\ \A index \in 0..Word-1, array \in Counts :
       /\ Block(index, array) \in Blocks
       /\ Block(index, array).index = index /\ Block(index, array).counts = array
  BY DEF Blocks, Counts, Block

(* The count of a slice in one block.                                        *)
Held(index, array, slice) == IF Covers(index, slice) THEN array[slice - index] ELSE 0

LEMMA HeldType ==
  ASSUME NEW index \in Nat, NEW array \in Counts, NEW slice \in Nat
  PROVE  Held(index, array, slice) \in Nat
  <1>1. Covers(index, slice) => slice - index \in 0..BlockSize-1
    BY Constants DEF Covers
  <1>2. QED  BY <1>1 DEF Held, Counts

LEMMA PublishedAppend ==
  ASSUME NEW m \in Seq(Blocks), InOrder(m), NEW b \in Blocks, Below(m, b.index),
         NEW slice \in Nat
  PROVE  /\ Published(m, slice) \in Nat
         /\ Published(Append(m, b), slice) = Published(m, slice) + Held(b.index, b.counts, slice)
  <1> DEFINE Covering(q) == {k \in DOMAIN q : Covers(q[k].index, slice)}
  <1>1. \A q \in Seq(Blocks) : \A k \in DOMAIN q : q[k] \in Blocks  OBVIOUS
  <1>2. ASSUME NEW q \in Seq(Blocks), InOrder(q), NEW k \in DOMAIN q, Covers(q[k].index, slice)
        PROVE  /\ Covering(q) = {k} /\ Published(q, slice) = Held(q[k].index, q[k].counts, slice)
               /\ Published(q, slice) \in Nat
    <2>1. \A i \in DOMAIN q : i \in Nat /\ q[i].index \in Nat
      <3>1. \A i \in DOMAIN q : i \in Nat  OBVIOUS
      <3>2. QED  BY <1>1, <3>1, BlockFacts
    <2>2. \A i \in DOMAIN q : Covers(q[i].index, slice) => i = k
      <3>1. SUFFICES ASSUME NEW i \in DOMAIN q, Covers(q[i].index, slice), i # k PROVE FALSE
        OBVIOUS
      <3>2. i < k \/ k < i  BY <2>1, <3>1
      <3>3. \/ q[i].index + BlockSize <= q[k].index
            \/ q[k].index + BlockSize <= q[i].index
        BY <1>2, <3>2 DEF InOrder
      <3>4. QED  BY <1>2, <2>1, <3>1, <3>3, Constants DEF Covers
    <2>3. Covering(q) = {k}  BY <1>2, <2>2
    <2>4. q[k].counts[slice - q[k].index] \in Nat
      <3>1. slice - q[k].index \in 0..BlockSize-1  BY <1>2, <2>1, Constants DEF Covers
      <3>2. q[k].counts \in Counts  BY <1>1, <1>2, BlockFacts
      <3>3. QED  BY <3>1, <3>2 DEF Counts
    <2>5. Published(q, slice) = q[k].counts[slice - q[k].index]
      <3>1. \A i : i \in DOMAIN q /\ Covers(q[i].index, slice) <=> i = k  BY <1>2, <2>2
      <3>2. QED  BY <2>4, <3>1, PublishedOne, SMTT(30)
    <2>6. QED  BY <1>2, <2>3, <2>4, <2>5 DEF Held
  <1>3. ASSUME NEW q \in Seq(Blocks), Covering(q) = {} PROVE Published(q, slice) = 0
    BY <1>3, PublishedNone DEF PublishedBy
  <1>4. PICK n \in Nat, t \in Seq(Blocks) :
          /\ n = Len(m) /\ t = Append(m, b) /\ InOrder(t)
          /\ DOMAIN t = 1..n+1 /\ DOMAIN m = 1..n /\ t[n + 1] = b /\ \A i \in 1..n : t[i] = m[i]
    <2>1. PICK t \in Seq(Blocks) : t = Append(m, b)  BY AppendFacts, Zenon
    <2>2. InOrder(t)  BY <2>1, BlockAppended, Zenon
    <2>3. PICK n \in Nat : n = Len(m)  OBVIOUS
    <2>4. DOMAIN t = 1..n+1 /\ DOMAIN m = 1..n /\ t[n + 1] = b /\ \A i \in 1..n : t[i] = m[i]
      BY <2>1, <2>3, AppendFacts
    <2>5. QED  BY <2>1, <2>2, <2>3, <2>4
  <1>5. b.index \in Nat /\ b.counts \in Counts /\ \A i \in 1..n : m[i].index \in Nat
    BY <1>1, <1>4, BlockFacts
  <1>6. CASE Covers(b.index, slice)
    <2>1. Covering(m) = {}
      BY <1>4, <1>5, <1>6, Constants DEF Below, Covers
    <2>2. Published(m, slice) = 0  BY <1>3, <2>1
    <2>3. Published(t, slice) = Held(b.index, b.counts, slice)
      <3>1. n + 1 \in DOMAIN t /\ Covers(t[n + 1].index, slice)  BY <1>4, <1>6
      <3>2. Published(t, slice) = Held(t[n + 1].index, t[n + 1].counts, slice)
        BY <1>2, <1>4, <3>1
      <3>3. QED  BY <1>4, <3>2
    <2>4. Held(b.index, b.counts, slice) \in Nat  BY <1>5, HeldType
    <2>5. QED  BY <1>4, <2>2, <2>3, <2>4
  <1>7. CASE ~Covers(b.index, slice)
    <2>1. Held(b.index, b.counts, slice) = 0  BY <1>7 DEF Held
    <2>2. CASE Covering(m) = {}
      <3>1. Covering(t) = {}  BY <1>4, <1>7, <2>2
      <3>2. Published(m, slice) = 0 /\ Published(t, slice) = 0  BY <1>3, <2>2, <3>1
      <3>3. QED  BY <1>4, <2>1, <3>2
    <2>3. CASE Covering(m) # {}
      <3>1. PICK k \in DOMAIN m : Covers(m[k].index, slice)  BY <2>3
      <3>2. k \in DOMAIN t /\ t[k] = m[k]  BY <1>4, <3>1
      <3>3. /\ Published(m, slice) = Held(m[k].index, m[k].counts, slice)
            /\ Published(m, slice) \in Nat
        BY <1>2, <3>1
      <3>4. Published(t, slice) = Held(m[k].index, m[k].counts, slice)
        BY <1>2, <1>4, <3>1, <3>2
      <3>5. QED  BY <1>4, <2>1, <3>3, <3>4
    <2>4. QED  BY <2>2, <2>3
  <1>8. QED  BY <1>6, <1>7

(* The count of a slice, from blocks and the array that is being filled.     *)
Total(m, index, array, slice) == Held(index, array, slice) + Published(m, slice)

LEMMA CountIsTotal ==
  ASSUME NEW slice
  PROVE  /\ CountOf(slice) = Total(meta, lastWritten, tsArray, slice)
         /\ CountOf(slice)' = Total(meta', lastWritten', tsArray', slice)
  <1>1. CountOf(slice) = Pending(slice) + Published(meta, slice)  BY Zenon DEF CountOf
  <1>2. CountOf(slice)' = Pending(slice)' + Published(meta', slice)  BY Zenon DEF CountOf
  <1>3. Pending(slice) = Held(lastWritten, tsArray, slice)  BY Zenon DEF Pending, Held
  <1>4. Pending(slice)' = Held(lastWritten', tsArray', slice)  BY Zenon DEF Pending, Held
  <1>5. QED  BY <1>1, <1>2, <1>3, <1>4, Zenon DEF Total

LEMMA NothingHeld ==
  ASSUME NEW index, NEW slice \in Nat, index \in Nat
  PROVE  Held(index, NoCounts, slice) = 0 /\ NoCounts \in Counts
  <1>1. Covers(index, slice) => slice - index \in 0..BlockSize-1
    BY Constants DEF Covers
  <1>2. QED  BY <1>1 DEF Held, NoCounts, Counts

(* Publishing what the array holds, and starting another.                    *)
LEMMA PublishKeeps ==
  ASSUME NEW m \in Seq(Blocks), InOrder(m), NEW index \in 0..Word-1, Below(m, index),
         NEW array \in Counts, NEW next \in Nat, NEW slice \in Nat
  PROVE  Total(Append(m, Block(index, array)), next, NoCounts, slice) =
           Total(m, index, array, slice)
  <1>1. PICK b \in Blocks : b = Block(index, array) /\ b.index = index /\ b.counts = array
    BY BlockFacts
  <1>2. /\ Published(m, slice) \in Nat
        /\ Published(Append(m, b), slice) = Published(m, slice) + Held(index, array, slice)
    <2>1. Below(m, b.index)  BY <1>1, Zenon
    <2>2. /\ Published(m, slice) \in Nat
          /\ Published(Append(m, b), slice) = Published(m, slice) + Held(b.index, b.counts, slice)
      BY <2>1, PublishedAppend
    <2>3. QED  BY <1>1, <2>2, Zenon
  <1>3. index \in Nat  BY Constants
  <1>4. Held(next, NoCounts, slice) = 0 /\ Held(index, array, slice) \in Nat
    BY <1>3, NothingHeld, HeldType
  <1>5. QED  BY <1>1, <1>2, <1>4 DEF Total

(* Filling the array with the counts of the slots of a wrap.                 *)
FilledWith(array, base, slots) ==
  [i \in 0..BlockSize-1 |-> IF i \in base .. base + NumBuffers - 1
                            THEN slots[i - base].events ELSE array[i]]

EventsIn(slots, start, slice) ==
  IF start <= slice /\ slice < start + NumBuffers THEN slots[slice - start].events ELSE 0

LEMMA FillAdds ==
  ASSUME NEW m \in Seq(Blocks), NEW index \in Nat, NEW array \in Counts,
         NEW base \in Nat, base + NumBuffers <= BlockSize,
         NEW slots \in [Slices -> Slot], NEW slice \in Nat,
         Published(m, slice) \in Nat,
         \A i \in base .. base + NumBuffers - 1 : array[i] = 0
  PROVE  /\ FilledWith(array, base, slots) \in Counts
         /\ Total(m, index, FilledWith(array, base, slots), slice) =
              Total(m, index, array, slice) + EventsIn(slots, index + base, slice)
  <1> USE Constants
  <1>1. \A i \in base .. base + NumBuffers - 1 : i - base \in Slices /\ i \in 0..BlockSize-1
    BY DEF Slices
  <1>2. \A b \in Slices : slots[b].events \in Nat  BY DEF Slot
  <1>3. PICK filled : filled = FilledWith(array, base, slots)  OBVIOUS
  <1>4. filled \in Counts
    BY <1>1, <1>2, <1>3 DEF FilledWith, Counts
  <1>5. Held(index, filled, slice) = Held(index, array, slice) + EventsIn(slots, index + base, slice)
    <2>1. CASE ~Covers(index, slice)
      <3>1. EventsIn(slots, index + base, slice) = 0  BY <2>1 DEF Covers, EventsIn
      <3>2. QED  BY <2>1, <3>1 DEF Held
    <2>2. CASE Covers(index, slice)
      <3>1. PICK i \in 0..BlockSize-1 : i = slice - index  BY <2>2 DEF Covers
      <3>2. array[i] \in Nat  BY DEF Counts
      <3>3. CASE i \in base .. base + NumBuffers - 1
        <4>1. filled[i] = slots[i - base].events /\ array[i] = 0  BY <1>3, <3>3 DEF FilledWith
        <4>2. index + base <= slice /\ slice < index + base + NumBuffers
              /\ slice - (index + base) = i - base
          BY <3>1, <3>3
        <4>3. EventsIn(slots, index + base, slice) = slots[i - base].events
          BY <4>2 DEF EventsIn
        <4>4. slots[i - base].events \in Nat  BY <1>1, <1>2, <3>3
        <4>5. QED  BY <2>2, <3>1, <4>1, <4>3, <4>4 DEF Held
      <3>4. CASE i \notin base .. base + NumBuffers - 1
        <4>1. filled[i] = array[i]  BY <1>3, <3>4 DEF FilledWith
        <4>2. ~(index + base <= slice /\ slice < index + base + NumBuffers)
          BY <3>1, <3>4
        <4>3. EventsIn(slots, index + base, slice) = 0  BY <4>2 DEF EventsIn
        <4>4. QED  BY <2>2, <3>1, <3>2, <4>1, <4>3 DEF Held
      <3>5. QED  BY <3>3, <3>4
    <2>3. QED  BY <2>1, <2>2
  <1>6. Held(index, array, slice) \in Nat /\ EventsIn(slots, index + base, slice) \in Nat
    <2>1. Held(index, array, slice) \in Nat  BY HeldType
    <2>2. index + base <= slice /\ slice < index + base + NumBuffers =>
            slice - (index + base) \in Slices
      BY DEF Slices
    <2>3. QED  BY <1>2, <2>1, <2>2 DEF EventsIn
  <1>7. QED  BY <1>3, <1>4, <1>5, <1>6 DEF Total
-----------------------------------------------------------------------------
(* Counting the points of jobs: those of one slot, those of one slice.       *)
JobsOf(w, b) == {j \in Job : j.wrap = w /\ j.buf = b}
AtSlice(slice) == {j \in Job : SliceOf(j) = slice}

LEMMA CountSame ==
  ASSUME NEW x, NEW J, NEW K, \A e \in Members(x) : e \in J <=> e \in K
  PROVE  CountIn(x, J) = CountIn(x, K)
  <1>1. \A i \in DOMAIN x : x[i] \in J <=> x[i] \in K  BY DEF Members
  <1>2. {i \in DOMAIN x : x[i] \in J} = {i \in DOMAIN x : x[i] \in K}  BY <1>1
  <1>3. QED  BY <1>2, Zenon DEF CountIn

LEMMA CountNone ==
  ASSUME NEW T, NEW x \in Seq(T), NEW J, \A e \in Members(x) : e \notin J
  PROVE  CountIn(x, J) = 0
  BY CountType

LEMMA InjectiveExtended ==
  ASSUME NEW T, NEW r \in Seq(T), NEW e \in T, IsInjective(r), e \notin Members(r)
  PROVE  IsInjective(Append(r, e))
  <1>0. PICK n \in Nat : n = Len(r)  OBVIOUS
  <1>1. PICK t \in Seq(T) : t = Append(r, e)  BY AppendFacts, Zenon
  <1>2. DOMAIN t = 1..n+1 /\ DOMAIN r = 1..n /\ t[n + 1] = e /\ \A i \in 1..n : t[i] = r[i]
    BY <1>0, <1>1, AppendFacts
  <1>3. \A i \in 1..n : r[i] # e  BY <1>2 DEF Members
  <1>4. \A a, b \in 1..n : r[a] = r[b] => a = b  BY <1>2 DEF IsInjective
  <1>5. ASSUME NEW a \in 1..n+1, NEW b \in 1..n+1, t[a] = t[b] PROVE a = b
    <2>1. (a \in 1..n \/ a = n + 1) /\ (b \in 1..n \/ b = n + 1)  OBVIOUS
    <2>2. QED  BY <1>2, <1>3, <1>4, <1>5, <2>1
  <1>6. IsInjective(t)  BY <1>2, <1>5 DEF IsInjective
  <1>7. QED  BY <1>1, <1>6

(* Jobs with one more: its points are added.                                 *)
LEMMA ExpandedMore ==
  ASSUME NEW s \in Streams, NEW q \in Seq(Job), NEW j \in Job, NEW J
  PROVE  /\ CountIn(Expanded(q, s), J) \in Nat /\ CountIn(Data(j, s), J) \in Nat
         /\ CountIn(Expanded(Append(q, j), s), J) =
              CountIn(Expanded(q, s), J) + CountIn(Data(j, s), J)
  <1>1. PICK x \in Seq(Job), d \in Seq(Job) : x = Expanded(q, s) /\ d = Data(j, s)
    BY ExpandedType, DataType
  <1>2. Expanded(Append(q, j), s) = x \o d  BY <1>1, ExpandedAppend
  <1>3. CountIn(x \o d, J) = CountIn(x, J) + CountIn(d, J)  BY CountConcat
  <1>4. CountIn(x, J) \in Nat /\ CountIn(d, J) \in Nat  BY CountType
  <1>5. QED  BY <1>1, <1>2, <1>3, <1>4, Zenon

(* Jobs without one of them: its points are gone, all others still there.    *)
Without(q, j, s, r) ==
  /\ IsInjective(r) /\ Members(r) = Members(q) \ {j}
  /\ \A J : CountIn(Expanded(q, s), J) = CountIn(Expanded(r, s), J) + CountIn(Data(j, s), J)

LEMMA JobRemoved ==
  ASSUME NEW s \in Streams, NEW j \in Job, NEW q \in Seq(Job), IsInjective(q), j \in Members(q)
  PROVE  \E r \in Seq(Job) : Without(q, j, s, r)
  <1> DEFINE Good == {t \in Seq(Job) :
               IsInjective(t) /\ j \in Members(t) => \E r \in Seq(Job) : Without(t, j, s, r)}
  <1>1. <<>> \in Good
    <2>1. Members(<<>>) = {} /\ <<>> \in Seq(Job)  BY EmptyIsSeq DEF Members
    <2>2. QED  BY <2>1
  <1>2. ASSUME NEW p \in Seq(Job), NEW e \in Job, p \in Good
        PROVE  Append(p, e) \in Good
    <2>1. PICK t \in Seq(Job) : t = Append(p, e)  BY AppendFacts, Zenon
    <2>2. ASSUME IsInjective(t), j \in Members(t)
          PROVE  \E r \in Seq(Job) : Without(t, j, s, r)
      <3>1. IsInjective(p) /\ e \notin Members(p)  BY <2>1, <2>2, InjectiveAppend
      <3>2. Members(t) = Members(p) \cup {e}  BY <2>1, MembersAppend
      <3>3. \A J : CountIn(Expanded(t, s), J) = CountIn(Expanded(p, s), J) + CountIn(Data(e, s), J)
        <4>1. TAKE J
        <4>2. CountIn(Expanded(Append(p, e), s), J) =
                CountIn(Expanded(p, s), J) + CountIn(Data(e, s), J)
          BY ExpandedMore
        <4>3. QED  BY <2>1, <4>2, Zenon
      <3>4. CASE e = j
        <4>1. Members(p) = Members(t) \ {j}  BY <3>1, <3>2, <3>4
        <4>2. Without(t, j, s, p)  BY <3>1, <3>3, <3>4, <4>1, Zenon DEF Without
        <4>3. QED  BY <4>2
      <3>5. CASE e # j
        <4>1. j \in Members(p)  BY <2>2, <3>2, <3>5
        <4>2. PICK r \in Seq(Job) : Without(p, j, s, r)  BY <1>2, <3>1, <4>1
        <4>3. PICK u \in Seq(Job) : u = Append(r, e)  BY AppendFacts, Zenon
        <4>4. Members(r) = Members(p) \ {j} /\ IsInjective(r)  BY <4>2 DEF Without
        <4>5. e \notin Members(r)  BY <3>1, <4>4
        <4>6. IsInjective(u)  BY <4>3, <4>4, <4>5, InjectiveExtended
        <4>7. Members(u) = Members(r) \cup {e}  BY <4>3, MembersAppend
        <4>8. Members(u) = Members(t) \ {j}  BY <3>2, <3>5, <4>4, <4>7
        <4>9. ASSUME NEW J
              PROVE  CountIn(Expanded(t, s), J) =
                       CountIn(Expanded(u, s), J) + CountIn(Data(j, s), J)
          <5>1. PICK a, b, c, d : /\ a = CountIn(Expanded(p, s), J) /\ b = CountIn(Data(e, s), J)
                                  /\ c = CountIn(Expanded(r, s), J) /\ d = CountIn(Data(j, s), J)
            OBVIOUS
          <5>2. b \in Nat /\ c \in Nat /\ d \in Nat
            BY <5>1, ExpandedMore
          <5>3. CountIn(Expanded(u, s), J) = c + b  BY <4>3, <5>1, ExpandedMore
          <5>4. a = c + d  BY <4>2, <5>1, Zenon DEF Without
          <5>5. CountIn(Expanded(t, s), J) = a + b  BY <3>3, <5>1, Zenon
          <5>6. a + b = (c + b) + d  BY <5>2, <5>4
          <5>7. QED  BY <5>1, <5>3, <5>5, <5>6, Zenon
        <4>10. Without(t, j, s, u)  BY <4>6, <4>8, <4>9, Zenon DEF Without
        <4>11. QED  BY <4>10
      <3>6. QED  BY <3>4, <3>5
    <2>3. t \in Good  BY <2>2
    <2> HIDE DEF Good
    <2>4. QED  BY <2>1, <2>3
  <1> HIDE DEF Good
  <1>3. Seq(Job) \subseteq Good  BY <1>1, <1>2, AllSequences
  <1>4. QED  BY <1>3 DEF Good
-----------------------------------------------------------------------------
(* A slot counts the events of its jobs: as many as any jobs, each once, have*)
(* there whose jobs of that slot are those in it.                            *)
Counted(slot, w, b) ==
  \A q \in Seq(Job) : IsInjective(q) /\ Members(q) \cap JobsOf(w, b) = slot.jobs =>
    CountIn(Expanded(q, "event"), JobsOf(w, b)) = slot.events

EventsCounted == \A w \in DOMAIN store : \A b \in Slices : Counted(store[w][b], w, b)

LEMMA OpenedCounted ==
  ASSUME EventsCounted, NEW w, NEW b \in Slices
  PROVE  Counted(Opened(w)[b], w, b)
  <1>1. CASE w \in DOMAIN store  BY <1>1 DEF Opened, EventsCounted
  <1>2. CASE w \notin DOMAIN store
    <2>1. Opened(w)[b].jobs = {} /\ Opened(w)[b].events = 0  BY <1>2 DEF Opened, EmptyWrap
    <2>2. ASSUME NEW q \in Seq(Job), Members(q) \cap JobsOf(w, b) = {}
          PROVE  CountIn(Expanded(q, "event"), JobsOf(w, b)) = 0
      <3>1. PICK x \in Seq(Job) : x = Expanded(q, "event")  BY ExpandedType DEF Streams
      <3>2. Members(x) \subseteq Members(q)  BY <3>1, ExpandedFacts DEF Streams
      <3>3. \A e \in Members(x) : e \notin JobsOf(w, b)  BY <2>2, <3>2
      <3>4. CountIn(x, JobsOf(w, b)) = 0  BY <3>3, CountNone
      <3>5. QED  BY <3>1, <3>4, Zenon
    <2>3. QED  BY <2>1, <2>2 DEF Counted
  <1>3. QED  BY <1>1, <1>2

LEMMA JobCounted ==
  ASSUME IInv, EventsCounted, KnownWrap \/ NewWrap
  PROVE  EventsCounted'
  <1>1. PICK j : j = Head(frameJobs)  OBVIOUS
  <1>2. j \in Job
    <2>1. NextJob  BY DEF KnownWrap, NewWrap
    <2>2. QED  BY <1>1, <2>1, HeadJob DEF IInv
  <1>3. PICK w : w = j.wrap  OBVIOUS
  <1>4. PICK old : /\ old = Opened(w) /\ old \in [Slices -> Slot]
                   /\ j.buf \in Slices => j \notin old[j.buf].jobs
                   /\ store' = [v \in DOMAIN store \cup {w} |->
                                  IF v = w THEN WithJob(old, j) ELSE store[v]]
    BY <1>1, <1>3, JobTaken
  <1>5. ASSUME NEW v \in DOMAIN store', NEW b \in Slices
        PROVE  Counted(store'[v][b], v, b)
    <2>1. CASE v # w
      <3>1. store'[v] = store[v] /\ v \in DOMAIN store  BY <1>4, <2>1
      <3>2. QED  BY <3>1 DEF EventsCounted
    <2>2. CASE v = w /\ b # j.buf
      <3>1. store'[v] = WithJob(old, j)  BY <1>4, <2>2
      <3>2. WithJob(old, j)[b] = old[b]  BY <2>2 DEF WithJob
      <3>3. Counted(old[b], w, b)  BY <1>4, OpenedCounted
      <3>4. QED  BY <2>2, <3>1, <3>2, <3>3
    <2>3. CASE v = w /\ b = j.buf
      <3>1. store'[v] = WithJob(old, j)  BY <1>4, <2>3
      <3>2. /\ store'[v][b].jobs = old[b].jobs \cup {j}
            /\ store'[v][b].events = old[b].events + Contents[j.num]["event"]
        BY <2>3, <3>1 DEF WithJob
      <3>3. Counted(old[b], w, b)  BY <1>4, OpenedCounted
      <3>4. SUFFICES ASSUME NEW q \in Seq(Job), IsInjective(q),
                            Members(q) \cap JobsOf(w, b) = old[b].jobs \cup {j}
                     PROVE  CountIn(Expanded(q, "event"), JobsOf(w, b)) =
                              old[b].events + Contents[j.num]["event"]
        BY <2>3, <3>2 DEF Counted
      <3>5. j \in Members(q)  BY <3>4
      <3>6. PICK r \in Seq(Job) : Without(q, j, "event", r)
        BY <1>2, <3>4, <3>5, JobRemoved DEF Streams
      <3>7. Members(r) = Members(q) \ {j} /\ IsInjective(r)  BY <3>6 DEF Without
      <3>8. Members(r) \cap JobsOf(w, b) = old[b].jobs
        <4>1. j \notin old[b].jobs  BY <1>4, <2>3
        <4>2. QED  BY <3>4, <3>7, <4>1
      <3>9. CountIn(Expanded(r, "event"), JobsOf(w, b)) = old[b].events
        BY <3>3, <3>7, <3>8 DEF Counted
      <3>10. j \in JobsOf(w, b)  BY <1>2, <1>3, <2>3 DEF JobsOf
      <3>11. CountIn(Data(j, "event"), JobsOf(w, b)) = Contents[j.num]["event"]
        BY <1>2, <3>10, DataFacts DEF Streams
      <3>12. QED  BY <3>6, <3>9, <3>11, Zenon DEF Without
    <2>4. QED  BY <2>1, <2>2, <2>3
  <1>6. QED  BY <1>5 DEF EventsCounted
-----------------------------------------------------------------------------
(* The counts agree with the stream of events, and none is left in the array *)
(* once a purge has published it.                                            *)
Agrees(m, index, array, x) ==
  \A slice \in Nat : Total(m, index, array, slice) = CountIn(x, AtSlice(slice))

CountsHold ==
  /\ EventsCounted
  /\ pc = "purgeAppend" => tsArray = NoCounts
  /\ Agrees(meta, lastWritten, tsArray, Streamed("event"))

(* The jobs of a wrap have, in each slice, the events its slots count.       *)
LEMMA WrapEvents ==
  ASSUME IInv, StreamsHold, EventsCounted, NEW w \in DOMAIN store, NEW q \in InSlotOrder(w),
         NEW slice \in Nat
  PROVE  CountIn(Expanded(q, "event"), AtSlice(slice)) =
           EventsIn(store[w], w * NumBuffers, slice)
  <1> USE Constants
  <1>1. /\ q \in Seq(Job) /\ IsInjective(q) /\ Members(q) = {j \in accepted : j.wrap = w}
    BY SlotOrderFacts DEF IInv, StreamsHold
  <1>2. PICK start \in Nat : start = w * NumBuffers
    <2>1. w \in Nat  BY DEF IInv, TypeOK
    <2>2. \A a, b \in Nat : a * b \in Nat  BY SMT
    <2>3. QED  BY <2>1, <2>2
  <1>3. \A j \in Members(q) : j \in Job /\ j.buf \in Slices /\ SliceOf(j) = start + j.buf
    <2>1. SUFFICES ASSUME NEW j \in Members(q)
                   PROVE  j \in Job /\ j.buf \in Slices /\ SliceOf(j) = start + j.buf
      OBVIOUS
    <2>2. j \in accepted /\ j.wrap = w  BY <1>1
    <2>3. j \in Job /\ j.buf \in Slices  BY <2>2 DEF IInv, TypeOK, StreamsHold, Placed
    <2>4. QED  BY <1>2, <2>2, <2>3, Zenon DEF SliceOf
  <1>4. PICK x \in Seq(Job) : x = Expanded(q, "event")  BY <1>1, ExpandedType DEF Streams
  <1>5. Members(x) \subseteq Members(q)  BY <1>1, <1>4, ExpandedFacts DEF Streams
  <1>6. CASE start <= slice /\ slice < start + NumBuffers
    <2>1. PICK b \in Slices : b = slice - start  BY <1>6 DEF Slices
    <2>2. \A e \in Members(x) : e \in AtSlice(slice) <=> e \in JobsOf(w, b)
      <3>1. SUFFICES ASSUME NEW e \in Members(x)
                     PROVE  e \in AtSlice(slice) <=> e \in JobsOf(w, b)
        OBVIOUS
      <3>2. e \in Job /\ e.wrap = w /\ e.buf \in Slices /\ SliceOf(e) = start + e.buf
        BY <1>1, <1>3, <1>5
      <3>3. start + e.buf = slice <=> e.buf = b  BY <2>1, <3>2 DEF Slices
      <3>4. QED  BY <3>2, <3>3 DEF AtSlice, JobsOf
    <2>3. Members(q) \cap JobsOf(w, b) = store[w][b].jobs
      <3>1. ASSUME NEW j \in Members(q), j.buf = b PROVE j \in store[w][b].jobs
        BY <1>1, <3>1 DEF StreamsHold, Placed
      <3>2. ASSUME NEW j \in store[w][b].jobs PROVE j \in Members(q) /\ j \in JobsOf(w, b)
        <4>1. j \in accepted /\ j \in Job  BY DEF IInv, SlotsAccepted, TypeOK
        <4>2. j.wrap = w /\ j.buf = b  BY DEF StreamsHold, Labelled
        <4>3. QED  BY <1>1, <4>1, <4>2 DEF JobsOf
      <3>3. QED  BY <3>1, <3>2 DEF JobsOf
    <2>4. CountIn(x, JobsOf(w, b)) = store[w][b].events
      BY <1>1, <1>4, <2>3, Zenon DEF EventsCounted, Counted
    <2>5. CountIn(x, AtSlice(slice)) = CountIn(x, JobsOf(w, b))  BY <2>2, CountSame
    <2>6. EventsIn(store[w], start, slice) = store[w][b].events
      BY <1>6, <2>1 DEF EventsIn
    <2>7. QED  BY <1>2, <1>4, <2>4, <2>5, <2>6, Zenon
  <1>7. CASE ~(start <= slice /\ slice < start + NumBuffers)
    <2>1. \A e \in Members(x) : e \notin AtSlice(slice)
      <3>1. SUFFICES ASSUME NEW e \in Members(x) PROVE SliceOf(e) # slice
        BY DEF AtSlice
      <3>2. e.buf \in Slices /\ SliceOf(e) = start + e.buf  BY <1>3, <1>5
      <3>3. QED  BY <1>7, <3>2 DEF Slices
    <2>2. CountIn(x, AtSlice(slice)) = 0  BY <2>1, CountNone
    <2>3. EventsIn(store[w], start, slice) = 0  BY <1>7 DEF EventsIn
    <2>4. QED  BY <1>2, <1>4, <2>2, <2>3, Zenon
  <1>8. QED  BY <1>6, <1>7

(* A wrap that is in the store has no events in the stream, so no counts.    *)
LEMMA NoEventsYet ==
  ASSUME IInv, StreamsHold, NEW w \in DOMAIN store, NEW slice \in Nat, w * NumBuffers <= slice
  PROVE  CountIn(Streamed("event"), AtSlice(slice)) = 0
  <1> USE Constants
  <1>1. PICK x \in Seq(Job) : x = Streamed("event")  BY StreamType DEF IInv, Streams
  <1>2. \A e \in Members(x) : e \notin AtSlice(slice)
    <2>1. SUFFICES ASSUME NEW e \in Members(x) PROVE SliceOf(e) # slice
      BY DEF AtSlice
    <2>2. e \in accepted /\ e.wrap < w  BY <1>1 DEF StreamsHold, StreamHolds, Streams
    <2>3. e \in Job /\ e.buf \in Slices /\ e.wrap \in Nat /\ w \in Nat
      BY <2>2 DEF IInv, TypeOK, StreamsHold, Placed, Job
    <2>4. PICK v \in Nat, u \in Nat : v = e.wrap /\ u = v + 1 /\ u <= w  BY <2>2, <2>3
    <2>5. u * NumBuffers <= w * NumBuffers
      <3>1. u \in Int /\ w \in Int  BY <2>3
      <3>2. QED  BY <2>4, <3>1, WrapsAscend, Zenon
    <2>6. PICK a \in Nat, b \in Nat, c \in Nat :
            a = v * NumBuffers /\ b = u * NumBuffers /\ c = w * NumBuffers
      <3>1. \A i, n \in Nat : i * n \in Nat  BY SMT
      <3>2. QED  BY <2>3, <2>4, <3>1
    <2>7. b = a + NumBuffers  BY <2>4, <2>6, SMTT(30)
    <2>8. SliceOf(e) = a + e.buf  BY <2>4, <2>6, Zenon DEF SliceOf
    <2>9. a + e.buf < b  BY <2>3, <2>7 DEF Slices
    <2>10. b <= slice  BY <2>5, <2>6
    <2>11. QED  BY <2>3, <2>8, <2>9, <2>10 DEF Slices
  <1>3. CountIn(x, AtSlice(slice)) = 0  BY <1>2, CountNone
  <1>4. QED  BY <1>1, <1>3, Zenon

(* The wrap's blocks are skipped, its counts filled in, its block published. *)
LEMMA WrapCounted ==
  ASSUME IInv, IndexInRange, NEW n, BlocksAt(n), StreamsHold, CountsHold, ~ended,
         pc # "purgeAppend", NEW w \in DOMAIN store, TakeWrap(w), NEW slice \in Nat
  PROVE  Total(meta', lastWritten', tsArray', slice) =
           Total(meta, lastWritten, tsArray, slice) + EventsIn(store[w], w * NumBuffers, slice)
  <1> USE Constants
  <1>1. /\ TypeOK /\ w \in Nat /\ w <= MaxWrap /\ lastWritten <= w * NumBuffers
        /\ lastWritten \in 0..Word-1 /\ lastWritten \in Nat /\ tsArray \in Counts
        /\ store[w] \in [Slices -> Slot] /\ lastWritten % NumBuffers = 0
        /\ Base(w) + NumBuffers <= BlockSize
    <2>1. /\ TypeOK /\ w \in Nat /\ lastWritten \in 0..Word-1 /\ tsArray \in Counts
          /\ store[w] \in [Slices -> Slot]
      BY DEF IInv, TypeOK, Counts
    <2>2. lastWritten % NumBuffers = 0 /\ Base(w) + NumBuffers <= BlockSize
      BY DEF IInv, CountsInArray
    <2>3. w <= MaxWrap /\ lastWritten <= w * NumBuffers  BY DEF BlocksAt
    <2>4. QED  BY <2>1, <2>2, <2>3
  <1>2. /\ SkippedTo(w) \in Nat
        /\ ~(BlocksSkipped(w) > 0) => SkippedTo(w) = lastWritten
        /\ BlocksSkipped(w) > 0 => lastWritten + BlockSize <= SkippedTo(w)
        /\ Base(w) \in Nat /\ SkippedTo(w) + Base(w) = w * NumBuffers
        /\ Base(w) + NumBuffers = BlockSize => Advanced(SkippedTo(w)) \in Nat
    <2>1. w * NumBuffers + NumBuffers \in Nat  BY <1>1, WrapsInRange
    <2>2. QED  BY <1>1, <2>1, Moved
  <1>3. SkippedTo(w) \in 0..Word-1  BY <1>1, CountsType
  <1>4. meta \in Seq(Blocks) /\ InOrder(meta) /\ Below(meta, lastWritten)
    BY DEF IInv, TypeOK, Blocks, BlocksAt, BlocksInOrder, InOrder
  <1> DEFINE b1 == Block(lastWritten, tsArray)
             b2 == Block(SkippedTo(w), CountsWith(w))
             full == Base(w) + NumBuffers = BlockSize
  <1>5. b1 \in Blocks /\ b1.index = lastWritten
    BY <1>1, BlockFacts
  <1>6. PICK mid : mid = meta \o (IF BlocksSkipped(w) > 0 THEN <<b1>> ELSE <<>>)
    OBVIOUS
  <1>7. /\ meta' = mid \o (IF full THEN <<b2>> ELSE <<>>)
        /\ lastWritten' = IF full THEN Advanced(SkippedTo(w)) ELSE SkippedTo(w)
        /\ tsArray' = IF full THEN NoCounts ELSE CountsWith(w)
    BY <1>6, Zenon DEF TakeWrap, UpdateCounts
  <1> HIDE DEF b1, b2, full
  <1>8. mid \in Seq(Blocks) /\ InOrder(mid) /\ Below(mid, SkippedTo(w))
    <2>1. CASE BlocksSkipped(w) > 0
      <3>1. mid = meta \o <<b1>>  BY <1>6, <2>1
      <3>2. QED  BY <1>1, <1>2, <1>4, <1>5, <2>1, <3>1, BlockAppended
    <2>2. CASE ~(BlocksSkipped(w) > 0)
      <3>1. mid = meta  BY <1>4, <1>6, <2>2
      <3>2. QED  BY <1>2, <1>4, <2>2, <3>1
    <2>3. QED  BY <2>1, <2>2
  <1>9. PICK index \in 0..Word-1, base \in Nat :
          index = SkippedTo(w) /\ base = Base(w) /\ index \in Nat
    BY <1>2, <1>3
  <1>10. PICK array, filled : array = ArrayFor(w) /\ filled = CountsWith(w)
    OBVIOUS
  <1>11. PICK slots \in [Slices -> Slot], start \in Nat :
          slots = store[w] /\ start = w * NumBuffers
    <2>1. w * NumBuffers \in Nat  BY <1>1, WrapsInRange
    <2>2. QED  BY <1>1, <2>1, Zenon
  <1>12. ASSUME NEW sl \in Nat
         PROVE  Total(mid, index, array, sl) = Total(meta, lastWritten, tsArray, sl)
    <2>1. CASE BlocksSkipped(w) > 0
      <3>1. mid = Append(meta, b1)
        <4>1. mid = meta \o <<b1>>  BY <1>6, <2>1
        <4>2. QED  BY <1>1, <1>4, <1>5, <4>1, BlockAppended
      <3>2. array = NoCounts  BY <1>9, <1>10, <1>11, <2>1 DEF ArrayFor
      <3>3. index \in Nat  OBVIOUS
      <3>4. Total(Append(meta, Block(lastWritten, tsArray)), index, NoCounts, sl) =
              Total(meta, lastWritten, tsArray, sl)
        BY <1>1, <1>4, <3>3, PublishKeeps
      <3>5. QED  BY <3>1, <3>2, <3>4, Zenon DEF b1
    <2>2. CASE ~(BlocksSkipped(w) > 0)
      <3>1. mid = meta  BY <1>4, <1>6, <2>2
      <3>2. array = tsArray /\ index = lastWritten  BY <1>2, <1>9, <1>10, <1>11, <2>2 DEF ArrayFor
      <3>3. QED  BY <3>1, <3>2
    <2>3. QED  BY <2>1, <2>2
  <1>13. array \in Counts
    <2>1. NoCounts \in Counts  BY NothingHeld
    <2>2. QED  BY <1>1, <1>9, <1>10, <1>11, <2>1 DEF ArrayFor
  <1>14. \A sl \in Nat : Published(mid, sl) \in Nat
    <2>1. PICK b \in Blocks : b = Block(index, array) /\ b.index = index
      BY <1>13, BlockFacts
    <2>2. Below(mid, b.index)  BY <1>8, <1>9, <1>10, <1>11, <2>1
    <2>3. QED  BY <1>8, <2>2, PublishedAppend
  (* the array has no counts of this wrap: it would be another's *)
  <1>15. ASSUME NEW i \in base .. base + NumBuffers - 1
         PROVE  array[i] = 0
    <2>1. i \in 0..BlockSize-1 /\ i \in Nat  BY <1>1, <1>9, <1>10, <1>11
    <2>2. PICK sl \in Nat : sl = index + i  BY <2>1
    <2>3. start <= sl /\ Covers(index, sl) /\ sl - index = i
      BY <1>2, <1>9, <1>10, <1>11, <2>1, <2>2 DEF Covers
    <2>4. CountIn(Streamed("event"), AtSlice(sl)) = 0
      BY <1>9, <1>10, <1>11, <2>3, NoEventsYet
    <2>5. Total(meta, lastWritten, tsArray, sl) = 0
      BY <2>4 DEF CountsHold, Agrees
    <2>6. Total(mid, index, array, sl) = 0  BY <1>12, <2>5
    <2>7. Held(index, array, sl) = array[i]  BY <2>3 DEF Held
    <2>8. array[i] \in Nat  BY <1>13, <2>1 DEF Counts
    <2>9. Published(mid, sl) \in Nat  BY <1>14
    <2>10. array[i] + Published(mid, sl) = 0  BY <2>6, <2>7, Zenon DEF Total
    <2>11. QED  BY <2>8, <2>9, <2>10
  <1>16. filled = FilledWith(array, base, slots)
    BY <1>9, <1>10, <1>11, Zenon DEF CountsWith, FilledWith
  <1>17. /\ filled \in Counts
         /\ Total(mid, index, filled, slice) =
              Total(mid, index, array, slice) + EventsIn(slots, index + base, slice)
    <2>1. index \in Nat /\ base + NumBuffers <= BlockSize  BY <1>1, <1>9, <1>10, <1>11
    <2>2. Published(mid, slice) \in Nat  BY <1>14
    <2>3. /\ FilledWith(array, base, slots) \in Counts
          /\ Total(mid, index, FilledWith(array, base, slots), slice) =
               Total(mid, index, array, slice) + EventsIn(slots, index + base, slice)
      BY <1>8, <1>13, <1>15, <2>1, <2>2, FillAdds
    <2>4. QED  BY <1>16, <2>3, Zenon
  <1>18. Total(meta', lastWritten', tsArray', slice) = Total(mid, index, filled, slice)
    <2>1. CASE full
      <3>1. meta' = mid \o <<b2>> /\ tsArray' = NoCounts /\ lastWritten' \in Nat
        BY <1>2, <1>7, <2>1 DEF full
      <3>2. b2 = Block(index, filled)  BY <1>9, <1>10, <1>11, Zenon DEF b2
      <3>3. b2 \in Blocks /\ b2.index = index  BY <1>17, <3>2, BlockFacts
      <3>4. Below(mid, b2.index) /\ Below(mid, index)  BY <1>8, <1>9, <1>10, <1>11, <3>3
      <3>5. meta' = Append(mid, b2)  BY <1>8, <3>1, <3>3, <3>4, BlockAppended
      <3>6. PICK next \in Nat : next = lastWritten'  BY <3>1
      <3>7. Total(Append(mid, Block(index, filled)), next, NoCounts, slice) =
              Total(mid, index, filled, slice)
        BY <1>8, <1>17, <3>4, PublishKeeps
      <3>8. QED  BY <3>1, <3>2, <3>5, <3>6, <3>7, Zenon
    <2>2. CASE ~full
      <3>1. meta' = mid /\ lastWritten' = index /\ tsArray' = filled
        BY <1>7, <1>8, <1>9, <1>10, <1>11, <2>2
      <3>2. QED  BY <3>1
    <2>3. QED  BY <2>1, <2>2
  <1>19. index + base = start  BY <1>2, <1>9, <1>10, <1>11
  <1>20. Total(mid, index, array, slice) = Total(meta, lastWritten, tsArray, slice)
    BY <1>12
  <1>21. QED  BY <1>9, <1>10, <1>11, <1>17, <1>18, <1>19, <1>20, Zenon

LEMMA TakeWrapCounts ==
  ASSUME IInv, IndexInRange, NEW n, BlocksAt(n), StreamsHold, CountsHold, FlushWrap \/ PurgeWrap
  PROVE  CountsHold'
  <1>1. PICK w \in DOMAIN store : TakeWrap(w)  BY DEF FlushWrap, PurgeWrap
  <1>2. /\ pc' = pc /\ pc # "purgeAppend" /\ ~ended
        /\ store' = [v \in DOMAIN store \ {w} |-> store[v]]
    BY <1>1 DEF FlushWrap, PurgeWrap, TakeWrap, WithoutWrap, IInv, Quiet
  <1>3. PICK q \in InSlotOrder(w) : jobs' = jobs \o q  BY <1>1 DEF TakeWrap
  <1>4. q \in Seq(Job)  BY SlotOrderFacts DEF IInv, StreamsHold
  <1>5. EventsCounted'  BY <1>2 DEF CountsHold, EventsCounted
  <1>6. ASSUME NEW slice \in Nat
        PROVE  Total(meta', lastWritten', tsArray', slice) =
                 CountIn(Streamed("event")', AtSlice(slice))
    <2>1. PICK x \in Seq(Job), y \in Seq(Job) : x = Streamed("event") /\ y = Expanded(q, "event")
      BY <1>4, StreamType, ExpandedType DEF IInv, Streams
    <2>2. Streamed("event")' = x \o y  BY <1>3, <1>4, <2>1, TakeWrapStream DEF Streams
    <2>3. CountIn(x \o y, AtSlice(slice)) = CountIn(x, AtSlice(slice)) + CountIn(y, AtSlice(slice))
      BY CountConcat
    <2>4. CountIn(y, AtSlice(slice)) = EventsIn(store[w], w * NumBuffers, slice)
      BY <2>1, WrapEvents DEF CountsHold
    <2>5. CountIn(x, AtSlice(slice)) = Total(meta, lastWritten, tsArray, slice)
      BY <2>1 DEF CountsHold, Agrees
    <2>6. Total(meta', lastWritten', tsArray', slice) =
            Total(meta, lastWritten, tsArray, slice) + EventsIn(store[w], w * NumBuffers, slice)
      BY <1>1, <1>2, WrapCounted
    <2>7. QED  BY <2>2, <2>3, <2>4, <2>5, <2>6, Zenon
  <1>7. QED  BY <1>2, <1>5, <1>6 DEF CountsHold, Agrees

(* A purge publishes what the array holds, if anything.                      *)
LEMMA PurgeCountsCounts ==
  ASSUME IInv, NEW n, BlocksAt(n), CountsHold, PurgeCounts
  PROVE  CountsHold'
  <1> USE Constants
  <1>1. /\ UNCHANGED <<store, lastWritten>> /\ Streamed("event")' = Streamed("event")
        /\ meta' = IF HasCounts THEN Append(meta, Block(lastWritten, tsArray)) ELSE meta
        /\ tsArray' = IF HasCounts THEN NoCounts ELSE tsArray
        /\ pc = "purge"
    BY StillStream DEF PurgeCounts, slices, Still, Streams
  <1>2. /\ lastWritten \in 0..Word-1 /\ lastWritten \in Nat /\ tsArray \in Counts
    BY DEF IInv, TypeOK, Counts
  <1>3. CASE HasCounts
    <2>1. ~ended  BY <1>3 DEF BlocksAt, HasCounts, NoCounts
    <2>2. meta \in Seq(Blocks) /\ InOrder(meta) /\ Below(meta, lastWritten)
      BY <1>1, <2>1 DEF IInv, TypeOK, Blocks, BlocksAt, BlocksInOrder, InOrder
    <2>3. \A slice \in Nat : Total(Append(meta, Block(lastWritten, tsArray)), lastWritten,
                                   NoCounts, slice) = Total(meta, lastWritten, tsArray, slice)
      BY <1>2, <2>2, PublishKeeps
    <2>4. Agrees(meta', lastWritten', tsArray', Streamed("event")')
      BY <1>1, <1>3, <2>3, Zenon DEF CountsHold, Agrees
    <2>5. QED  BY <1>1, <1>3, <2>4 DEF CountsHold, EventsCounted
  <1>4. CASE ~HasCounts
    <2>1. tsArray = NoCounts  BY <1>2, <1>4 DEF HasCounts, NoCounts, Counts
    <2>2. Agrees(meta', lastWritten', tsArray', Streamed("event")')
      BY <1>1, <1>4, Zenon DEF CountsHold, Agrees
    <2>3. QED  BY <1>1, <1>4, <2>1, <2>2 DEF CountsHold, EventsCounted
  <1>5. QED  BY <1>3, <1>4

LEMMA EndIdleCounts ==
  ASSUME IInv, CountsHold, EndIdle
  PROVE  CountsHold'
  <1>1. /\ tsArray = NoCounts /\ tsArray' = NoCounts /\ lastWritten' = 0
        /\ UNCHANGED <<store, meta>> /\ Streamed("event")' = Streamed("event")
    BY EndIdleStream DEF EndIdle, CountsHold, Streams
  <1>2. lastWritten \in Nat  BY Constants DEF IInv, TypeOK
  <1>3. ASSUME NEW slice \in Nat
        PROVE  Total(meta, 0, NoCounts, slice) = Total(meta, lastWritten, NoCounts, slice)
    <2>1. Held(0, NoCounts, slice) = 0 /\ Held(lastWritten, NoCounts, slice) = 0
      BY <1>2, NothingHeld
    <2>2. QED  BY <2>1, Zenon DEF Total
  <1>4. Agrees(meta', lastWritten', tsArray', Streamed("event")')
    BY <1>1, <1>3, Zenon DEF CountsHold, Agrees
  <1>5. QED  BY <1>1, <1>4 DEF CountsHold, EventsCounted

LEMMA NothingAgrees ==
  ASSUME NEW index \in Nat
  PROVE  Agrees(<<>>, index, NoCounts, <<>>)
  <1>1. SUFFICES ASSUME NEW slice \in Nat
                 PROVE  Total(<<>>, index, NoCounts, slice) = CountIn(<<>>, AtSlice(slice))
    BY DEF Agrees
  <1>2. Held(index, NoCounts, slice) = 0  BY NothingHeld
  <1>3. PICK m \in Seq(Blocks) : m = <<>>  BY EmptyIsSeq
  <1>4. {k \in DOMAIN m : Covers(m[k].index, slice)} = {}  BY <1>3
  <1>5. Published(m, slice) = 0  BY <1>4, PublishedNone DEF PublishedBy
  <1>6. Total(m, index, NoCounts, slice) = 0  BY <1>2, <1>5 DEF Total
  <1>7. QED  BY <1>3, <1>6, CountEmpty, Zenon

LEMMA StartFrameCounts ==
  ASSUME IInv, NEW n, BlocksAt(n), CountsHold, StartFrame
  PROVE  CountsHold'
  <1>1. /\ UNCHANGED <<store, lastWritten, tsArray>> /\ pc' = "slots"
        /\ meta' = IF ended THEN <<>> ELSE meta
        /\ Streamed("event")' = IF ended THEN <<>> ELSE Streamed("event")
    BY StartFrameStream DEF StartFrame, slices, counts, Streams
  <1>2. CASE ended
    <2>1. tsArray = NoCounts /\ lastWritten = 0  BY <1>2 DEF BlocksAt
    <2>2. Agrees(<<>>, 0, NoCounts, <<>>)  BY NothingAgrees
    <2>3. Agrees(meta', lastWritten', tsArray', Streamed("event")')
      BY <1>1, <1>2, <2>1, <2>2
    <2>4. QED  BY <1>1, <2>3 DEF CountsHold, EventsCounted
  <1>3. CASE ~ended
    <2>1. Agrees(meta', lastWritten', tsArray', Streamed("event")')
      BY <1>1, <1>3 DEF CountsHold
    <2>2. QED  BY <1>1, <2>1 DEF CountsHold, EventsCounted
  <1>4. QED  BY <1>2, <1>3

LEMMA OtherCounts ==
  ASSUME IInv, CountsHold, KnownWrap \/ NewWrap \/ AppendJob \/ Turn \/ UNCHANGED vars
  PROVE  CountsHold'
  <1>1. Streamed("event")' = Streamed("event")
    BY AppendJobStream, StillStream DEF Still, Streams
  <1>2. EventsCounted'
    <2>1. CASE KnownWrap \/ NewWrap  BY <2>1, JobCounted DEF CountsHold
    <2>2. CASE AppendJob \/ Turn \/ UNCHANGED vars
      <3>1. store' = store
        BY <2>2 DEF AppendJob, Turn, EndSlots, EndFlush, StartIdle, EndFrame, DuplicateJob,
                    StaleJob, vars, slices
      <3>2. QED  BY <3>1 DEF CountsHold, EventsCounted
    <2>3. QED  BY <2>1, <2>2
  <1>3. UNCHANGED <<meta, lastWritten, tsArray>> /\ (pc' = "purgeAppend" => pc = "purgeAppend")
    <2>1. CASE KnownWrap \/ NewWrap  BY <2>1 DEF KnownWrap, NewWrap, counts
    <2>2. CASE AppendJob  BY <2>2 DEF AppendJob, counts
    <2>3. CASE Turn
      BY <2>3 DEF Turn, EndSlots, EndFlush, StartIdle, EndFrame, DuplicateJob, StaleJob, counts
    <2>4. CASE UNCHANGED vars  BY <2>4 DEF vars, counts
    <2>5. QED  BY <2>1, <2>2, <2>3, <2>4
  <1>4. QED  BY <1>1, <1>2, <1>3 DEF CountsHold

LEMMA CountsStep ==
  ASSUME IInv, IndexInRange, NEW n, BlocksAt(n), StreamsHold, CountsHold, [Next]_vars
  PROVE  CountsHold'
  <1>1. CASE StartFrame  BY <1>1, StartFrameCounts
  <1>2. CASE FlushWrap \/ PurgeWrap  BY <1>2, TakeWrapCounts
  <1>3. CASE PurgeCounts  BY <1>3, PurgeCountsCounts
  <1>4. CASE EndIdle  BY <1>4, EndIdleCounts
  <1>5. CASE KnownWrap \/ NewWrap \/ AppendJob \/ Turn \/ UNCHANGED vars
    BY <1>5, OtherCounts
  <1>6. QED  BY <1>1, <1>2, <1>3, <1>4, <1>5 DEF Next, Step, Turn

LEMMA CountsInit == Init => CountsHold
  <1> SUFFICES ASSUME Init PROVE CountsHold  OBVIOUS
  <1>1. EventsCounted /\ pc = "ready"  BY DEF Init, EventsCounted
  <1>2. meta = <<>> /\ lastWritten = 0 /\ tsArray = NoCounts  BY DEF Init
  <1>3. Streamed("event") = <<>>
    <2>1. StreamsHold  BY StreamsInit
    <2>2. accepted = {} /\ "event" \in Streams  BY DEF Init, Streams
    <2>3. PICK x \in Seq(Job) : x = Streamed("event")  BY InitInv, StreamType, <2>2 DEF IInv
    <2>4. Members(x) = {}  BY <2>1, <2>2, <2>3 DEF StreamsHold, StreamHolds
    <2>5. x = <<>>
      <3>1. PICK l \in Nat : l = Len(x)  OBVIOUS
      <3>2. l # 0 => x[1] \in Members(x)  BY <3>1 DEF Members
      <3>3. QED  BY <2>4, <3>1, <3>2
    <2>6. QED  BY <2>3, <2>5
  <1>4. Agrees(<<>>, 0, NoCounts, <<>>)  BY NothingAgrees
  <1>5. QED  BY <1>1, <1>2, <1>3, <1>4 DEF CountsHold

(* If no packet is exactly two wraps late and the index of a slice does not  *)
(* wrap, a reader of the metadata finds the events of every slice.           *)
THEOREM CountsAgree ==
  ASSUME 2 \notin Lateness, IndexInRange
  PROVE  Spec => []CountsMatchStream
  <1> DEFINE Steady == (\E n \in Nat : HorizonAt(n) /\ BlocksAt(n)) /\ StreamsHold /\ CountsHold
  <1>1. Init => Steady
    BY HorizonInit, BlocksInit, StreamsInit, CountsInit
  <1>2. IInv /\ Steady /\ [Next]_vars => Steady'
    BY BlocksStep, StreamsStep, CountsStep
  <1>3. IInv /\ Steady => CountsMatchStream
    <2>1. SUFFICES ASSUME IInv, Steady, NEW slice \in 0..(MaxWrap + 1) * NumBuffers - 1
                   PROVE  CountOf(slice) = Cardinality({i \in DOMAIN Streamed("event") :
                                                          SliceOf(Streamed("event")[i]) = slice})
      BY DEF CountsMatchStream
    <2>2. slice \in Nat
      <3>1. \A a, b \in Nat : a * b \in Nat  BY SMT
      <3>2. QED  BY <3>1, Constants, BoundsAssumption
    <2>3. PICK x \in Seq(Job) : x = Streamed("event")  BY <2>1, StreamType DEF IInv, Streams
    <2>4. CountOf(slice) = CountIn(x, AtSlice(slice))
      BY <2>1, <2>2, <2>3, CountIsTotal DEF CountsHold, Agrees
    <2>5. {i \in DOMAIN x : x[i] \in AtSlice(slice)} = {i \in DOMAIN x : SliceOf(x[i]) = slice}
      BY DEF AtSlice
    <2>6. QED  BY <2>3, <2>4, <2>5, Zenon DEF CountIn
  <1> HIDE DEF Steady
  <1>4. QED  BY <1>1, <1>2, <1>3, Invariant, PTL DEF Spec
=============================================================================
