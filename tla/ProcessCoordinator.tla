------------------------- MODULE ProcessCoordinator -------------------------
(***************************************************************************)
(* The event mode of the FrameProcessor plugin: LATRDProcessCoordinator    *)
(* with the LATRDTimeSliceWrap, LATRDTimeSliceBuffer and LATRDBuffer       *)
(* objects it owns.                                                        *)
(*                                                                         *)
(* Packets of a time slice arrive in any order, and slices interleave.     *)
(* The coordinator keeps the jobs of the two newest wraps (a wrap is       *)
(* NumBuffers consecutive slices), flushes older wraps into the datasets   *)
(* in slice order, and publishes how many events each slice has, from      *)
(* which a reader finds a slice in a dataset.  An idle frame flushes all.  *)
(*                                                                         *)
(* One thread runs process_frame; its loops are steps here, ordered by pc. *)
(* The decoding of words by the worker threads is over when a job is put   *)
(* in a slot (frame_to_jobs waits for every result), so a job carries its  *)
(* decoded content.  The three event datasets grow in lock-step, and so do *)
(* the two cue datasets: each group is one stream.  Statistics, the daq    *)
(* version message and current_ts_buffer_, which no decision depends on,   *)
(* are left out.                                                           *)
(***************************************************************************)
EXTENDS Integers, Sequences, FiniteSets, SequencesExt

CONSTANTS
  NumBuffers,        (* number_of_time_slice_buffers: slices in a wrap        *)
  WriteSize,         (* time_slice_write_size: wraps in a published block     *)
  FrameQty,          (* frame_qty_: points in a frame of a dataset            *)
  Processes, Rank,   (* concurrent processes, and the rank of this one        *)
  Word,              (* 2^32, the range of uint32_t                           *)
  Contents,          (* packet number -> points it decodes to, per stream     *)
  MaxWrap,           (* bound: wraps in an acquisition                        *)
  MaxPackets,        (* bound: packets in an acquisition                      *)
  MaxPerFrame,       (* bound: packets in a frame                             *)
  Lateness           (* how many wraps behind the newest a packet may arrive  *)

Streams == {"event", "cue"}

ASSUME SliceAssumption == NumBuffers \in Nat \ {0} /\ WriteSize \in Nat \ {0}
ASSUME WordAssumption == Word \in Nat /\ Word > NumBuffers * WriteSize /\ Word % NumBuffers = 0
ASSUME FrameAssumption == FrameQty \in Nat \ {0}
ASSUME ProcessAssumption == Processes \in Nat \ {0} /\ Rank \in 0..Processes-1
ASSUME ContentsAssumption ==
  DOMAIN Contents \subseteq Nat /\ Contents \in [DOMAIN Contents -> [Streams -> 0..FrameQty]]
ASSUME BoundsAssumption ==
  MaxWrap \in Nat /\ MaxPackets \in Nat /\ MaxPerFrame \in Nat /\ Lateness \subseteq Nat

VARIABLES
  pc,                (* where process_frame is                                *)
  frameJobs,         (* completed_jobs: jobs of the frame, in packet order    *)
  currentWrap,       (* current_ts_wrap_                                      *)
  store,             (* ts_store_: wrap -> slot of each time slice buffer     *)
  jobs,              (* jobs taken from the store, to be appended             *)
  points,            (* rawDataPtr_ and currentPoint_ of each LATRDBuffer     *)
  frameNumber,       (* frameNumber_ of each LATRDBuffer                      *)
  lastWritten,       (* last_written_ts_index_                                *)
  tsArray,           (* ts_index_array_                                       *)
  frames,            (* history: frames pushed to each dataset                *)
  meta,              (* history: time slice messages published                *)
  accepted,          (* history: jobs put in a slot in this acquisition       *)
  newest,            (* history: highest wrap received in this acquisition    *)
  packets,           (* history: packets received in this acquisition         *)
  ended              (* history: an idle frame has ended the acquisition      *)

slices == <<currentWrap, store>>
buffers == <<points, frameNumber>>
counts == <<lastWritten, tsArray>>
input == <<newest, packets, ended>>
vars == <<pc, frameJobs, slices, jobs, buffers, counts, frames, meta, accepted, input>>

Job == [wrap : Nat, buf : Nat, num : DOMAIN Contents]
Slot == [jobs : SUBSET Job, events : Nat]
Slices == 0..NumBuffers-1
BlockSize == WriteSize * NumBuffers
NoCounts == [i \in 0..BlockSize-1 |-> 0]

Init ==
  /\ pc = "ready"
  /\ frameJobs = <<>>
  /\ currentWrap = 0
  /\ store = [w \in {} |-> {}]
  /\ jobs = <<>>
  /\ points = [s \in Streams |-> <<>>]
  /\ frameNumber = [s \in Streams |-> 0]
  /\ lastWritten = 0
  /\ tsArray = NoCounts
  /\ frames = [s \in Streams |-> <<>>]
  /\ meta = <<>>
  /\ accepted = {}
  /\ newest = 0
  /\ packets = 0
  /\ ended = FALSE
-----------------------------------------------------------------------------
(* frame_to_jobs: a frame of data arrives, and its jobs are put in slots.    *)
(* Its slice number is read from the packet and may be out of range.         *)

Behind(w, newer) == IF w < newer THEN newer - w ELSE 0

Sendable ==
  {j \in [wrap : 0..MaxWrap, buf : 0..NumBuffers, num : DOMAIN Contents] :
     Behind(j.wrap, IF ended THEN 0 ELSE newest) \in Lateness}

Highest(S) == {m \in S : \A x \in S : x <= m}

StartFrame ==
  /\ pc = "ready"
  /\ \E n \in 1..MaxPerFrame : \E q \in [1..n -> Sendable] :
       /\ (IF ended THEN 0 ELSE packets) + n <= MaxPackets
       /\ \A i, k \in 1..n : i < k => Behind(q[k].wrap, q[i].wrap) \in Lateness
       /\ frameJobs' = q
       /\ newest' \in Highest({IF ended THEN 0 ELSE newest} \cup {q[i].wrap : i \in 1..n})
       /\ packets' = (IF ended THEN 0 ELSE packets) + n
  /\ pc' = "slots"
  /\ ended' = FALSE
  /\ frames' = IF ended THEN [s \in Streams |-> <<>>] ELSE frames
  /\ meta' = IF ended THEN <<>> ELSE meta
  /\ accepted' = IF ended THEN {} ELSE accepted
  /\ UNCHANGED <<slices, jobs, buffers, counts>>

EmptyWrap == [b \in Slices |-> [jobs |-> {}, events |-> 0]]
Duplicate(slots, j) == j.buf \in Slices /\ \E k \in slots[j.buf].jobs : k.num = j.num

WithJob(slots, j) ==
  [b \in Slices |->
     IF b = j.buf
     THEN [jobs |-> slots[b].jobs \cup {j}, events |-> slots[b].events + Contents[j.num]["event"]]
     ELSE slots[b]]

Recent(w) == w + 1 >= currentWrap

Accept(j) == accepted' = IF j.buf \in Slices THEN accepted \cup {j} ELSE accepted
NextJob == pc = "slots" /\ frameJobs # <<>>

KnownWrap ==
  LET j == Head(frameJobs) IN
  /\ NextJob /\ j.wrap \in DOMAIN store /\ ~Duplicate(store[j.wrap], j)
  /\ store' = [store EXCEPT ![j.wrap] = WithJob(@, j)]
  /\ Accept(j)
  /\ frameJobs' = Tail(frameJobs)
  /\ UNCHANGED <<pc, currentWrap, jobs, buffers, counts, frames, meta, input>>

NewWrap ==
  LET j == Head(frameJobs) IN
  /\ NextJob /\ j.wrap \notin DOMAIN store /\ Recent(j.wrap)
  /\ store' = [w \in DOMAIN store \cup {j.wrap} |->
                 IF w = j.wrap THEN WithJob(EmptyWrap, j) ELSE store[w]]
  /\ currentWrap' = j.wrap
  /\ Accept(j)
  /\ frameJobs' = Tail(frameJobs)
  /\ UNCHANGED <<pc, jobs, buffers, counts, frames, meta, input>>

StaleJob ==
  LET j == Head(frameJobs) IN
  /\ NextJob /\ j.wrap \notin DOMAIN store /\ ~Recent(j.wrap)
  /\ frameJobs' = Tail(frameJobs)
  /\ UNCHANGED <<pc, slices, jobs, buffers, counts, frames, meta, accepted, input>>

(* LATRDTimeSliceBuffer::add_job throws and nothing catches it: the thread   *)
(* that runs the plugin is gone.                                             *)
DuplicateJob ==
  LET j == Head(frameJobs) IN
  /\ NextJob /\ j.wrap \in DOMAIN store /\ Duplicate(store[j.wrap], j)
  /\ pc' = "halted"
  /\ UNCHANGED <<frameJobs, slices, jobs, buffers, counts, frames, meta, accepted, input>>

EndSlots ==
  /\ pc = "slots" /\ frameJobs = <<>>
  /\ pc' = "flush"
  /\ UNCHANGED <<frameJobs, slices, jobs, buffers, counts, frames, meta, accepted, input>>
-----------------------------------------------------------------------------
(* update_time_slice_meta_data, its while loop in closed form: lastWritten   *)
(* moves by whole blocks until the wrap falls into the block it starts.      *)

Offset(w) == (w * NumBuffers - lastWritten) % Word
BlocksSkipped(w) == Offset(w) \div BlockSize
Base(w) == Offset(w) % BlockSize
SkippedTo(w) == (lastWritten + BlocksSkipped(w) * BlockSize) % Word

Block(index, array) == [index |-> index, counts |-> array]

ArrayKept(w) == tsArray                                       \* mutant: array not cleared
ArrayFor(w) == IF BlocksSkipped(w) > 0 THEN NoCounts ELSE tsArray

CountsWith(w) ==
  [i \in 0..BlockSize-1 |->
     IF i \in Base(w) .. Base(w) + NumBuffers - 1
     THEN store[w][i - Base(w)].events
     ELSE ArrayFor(w)[i]]

AdvancedByWraps(index) == (index + WriteSize) % Word          \* mutant: wraps for slices
NotAdvanced(index) == index                                   \* mutant: index forgotten
Advanced(index) == (index + BlockSize) % Word

UpdateCounts(w) ==
  LET full == Base(w) + NumBuffers = BlockSize
      skipped == IF BlocksSkipped(w) > 0 THEN <<Block(lastWritten, tsArray)>> ELSE <<>>
      filled == IF full THEN <<Block(SkippedTo(w), CountsWith(w))>> ELSE <<>>
  IN /\ meta' = meta \o skipped \o filled
     /\ lastWritten' = IF full THEN Advanced(SkippedTo(w)) ELSE SkippedTo(w)
     /\ tsArray' = IF full THEN NoCounts ELSE CountsWith(w)
-----------------------------------------------------------------------------
(* check_for_data_to_write and purge_remaining_jobs: the oldest wrap leaves  *)
(* the store, its jobs in order of slice and, in a slice, of packet number.  *)

Before(j, k) == j.buf < k.buf \/ (j.buf = k.buf /\ j.num < k.num)

ArrivalOrder(w) ==                                            \* mutant: order left to chance
  LET all == UNION {store[w][b].jobs : b \in Slices}
  IN {q \in [1..Cardinality(all) -> all] : \A i, k \in DOMAIN q : i # k => q[i] # q[k]}

InSlotOrder(w) ==
  LET all == UNION {store[w][b].jobs : b \in Slices}
  IN {q \in [1..Cardinality(all) -> all] : \A i, k \in DOMAIN q : i < k => Before(q[i], q[k])}

Oldest(w) == w \in DOMAIN store /\ \A v \in DOMAIN store : w <= v

WithoutWrap(w) == [v \in DOMAIN store \ {w} |-> store[v]]

TakeWrap(w) ==
  /\ Oldest(w)
  /\ UpdateCounts(w)
  /\ \E q \in InSlotOrder(w) : jobs' = jobs \o q
  /\ store' = WithoutWrap(w)

OldTooSoon(w) == w < currentWrap                              \* mutant: one wrap too soon
Old(w) == w < currentWrap - 1

FlushWrap ==
  /\ pc = "flush"
  /\ \E w \in DOMAIN store : Old(w) /\ TakeWrap(w)
  /\ UNCHANGED <<pc, frameJobs, currentWrap, buffers, frames, accepted, input>>

EndFlush ==
  /\ pc = "flush" /\ ~\E w \in DOMAIN store : Old(w)
  /\ pc' = "append"
  /\ UNCHANGED <<frameJobs, slices, jobs, buffers, counts, frames, meta, accepted, input>>

StartIdle ==
  /\ pc = "ready"
  /\ pc' = "purge"
  /\ UNCHANGED <<frameJobs, slices, jobs, buffers, counts, frames, meta, accepted, input>>

PurgeWrap ==
  /\ pc = "purge"
  /\ \E w \in DOMAIN store : TakeWrap(w)
  /\ UNCHANGED <<pc, frameJobs, currentWrap, buffers, frames, accepted, input>>

HasCounts == lastWritten > 0 \/ \E i \in DOMAIN tsArray : tsArray[i] > 0

PurgeCounts ==
  /\ pc = "purge" /\ DOMAIN store = {}
  /\ meta' = IF HasCounts THEN Append(meta, Block(lastWritten, tsArray)) ELSE meta
  /\ tsArray' = IF HasCounts THEN NoCounts ELSE tsArray
  /\ pc' = "purgeAppend"
  /\ UNCHANGED <<frameJobs, slices, jobs, buffers, lastWritten, frames, accepted, input>>
-----------------------------------------------------------------------------
(* add_jobs_to_buffer and LATRDBuffer::appendData, for every stream.         *)

Data(j, s) == [i \in 1..Contents[j.num][s] |-> j]
Room(s) == FrameQty - Len(points[s])
FitsExactly(s, j) == Contents[j.num][s] <= Room(s)            \* mutant: full buffer kept
Fits(s, j) == Contents[j.num][s] < Room(s)
NoLeftover(s, j) == <<>>                                      \* mutant: tail of the job lost
Leftover(s, j) == SubSeq(Data(j, s), Room(s) + 1, Contents[j.num][s])

RankBlocks(s) == Rank * Processes + frameNumber[s]            \* mutant: not interleaved
FrameId(s) == Rank + frameNumber[s] * Processes
DatasetFrame(s, data) == [number |-> FrameId(s), points |-> data]

AppendJob ==
  LET j == Head(jobs) IN
  /\ pc \in {"append", "purgeAppend"} /\ jobs # <<>>
  /\ points' = [s \in Streams |-> IF Fits(s, j) THEN points[s] \o Data(j, s) ELSE Leftover(s, j)]
  /\ frames' = [s \in Streams |->
       IF Fits(s, j) THEN frames[s]
       ELSE Append(frames[s], DatasetFrame(s, points[s] \o SubSeq(Data(j, s), 1, Room(s))))]
  /\ frameNumber' = [s \in Streams |-> IF Fits(s, j) THEN frameNumber[s] ELSE frameNumber[s] + 1]
  /\ jobs' = Tail(jobs)
  /\ UNCHANGED <<pc, frameJobs, slices, counts, meta, accepted, input>>

EndFrame ==
  /\ pc = "append" /\ jobs = <<>>
  /\ pc' = "ready"
  /\ UNCHANGED <<frameJobs, slices, jobs, buffers, counts, frames, meta, accepted, input>>

(* purge_remaining_buffers, then the resets of process_frame.  The last      *)
(* frame of a stream is padded with zeros, which are no points.              *)
NothingRemains(s) == TRUE                                     \* mutant: partial frame left
Emptied(s) == points[s] = <<>>

EndIdle ==
  /\ pc = "purgeAppend" /\ jobs = <<>>
  /\ frames' = [s \in Streams |->
       IF Emptied(s) THEN frames[s] ELSE Append(frames[s], DatasetFrame(s, points[s]))]
  /\ points' = [s \in Streams |-> <<>>]
  /\ frameNumber' = [s \in Streams |-> 0]
  /\ currentWrap' = 0
  /\ lastWritten' = 0
  /\ tsArray' = NoCounts
  /\ pc' = "ready"
  /\ ended' = TRUE
  /\ UNCHANGED <<frameJobs, store, jobs, meta, accepted, newest, packets>>

Step ==
  \/ KnownWrap \/ NewWrap \/ StaleJob \/ DuplicateJob \/ EndSlots
  \/ FlushWrap \/ EndFlush \/ PurgeWrap \/ PurgeCounts
  \/ AppendJob \/ EndFrame \/ EndIdle

Next == StartFrame \/ StartIdle \/ Step

Spec == Init /\ [][Next]_vars
-----------------------------------------------------------------------------
(* Types: a buffer between two jobs always has room for one more point.      *)
TypeOK ==
  /\ pc \in {"ready", "slots", "flush", "append", "purge", "purgeAppend", "halted"}
  /\ frameJobs \in Seq(Job) /\ jobs \in Seq(Job)
  /\ currentWrap \in Nat
  /\ DOMAIN store \subseteq Nat
  /\ store \in [DOMAIN store -> [Slices -> Slot]]
  /\ points \in [Streams -> Seq(Job)]
  /\ \A s \in Streams : Len(points[s]) < FrameQty
  /\ frameNumber \in [Streams -> Nat]
  /\ lastWritten \in 0..Word-1
  /\ tsArray \in [0..BlockSize-1 -> Nat]
  /\ frames \in [Streams -> Seq([number : Nat, points : Seq(Job)])]
  /\ meta \in Seq([index : 0..Word-1, counts : [0..BlockSize-1 -> Nat]])
  /\ accepted \subseteq Job
  /\ newest \in Nat /\ packets \in Nat /\ ended \in BOOLEAN

(* What a stream holds, in order: in frames, in the buffer, on the way to it. *)
Written(s) == FlattenSeq([k \in DOMAIN frames[s] |-> frames[s][k].points]) \o points[s]
Streamed(s) == Written(s) \o FlattenSeq([k \in DOMAIN jobs |-> Data(jobs[k], s)])

(* The events a reader of the metadata believes a slice to have.             *)
Covers(index, slice) == index <= slice /\ slice < index + BlockSize
Pending(slice) == IF Covers(lastWritten, slice) THEN tsArray[slice - lastWritten] ELSE 0
Published(blocks, slice) ==
  MapThenSumSet(LAMBDA k : blocks[k].counts[slice - blocks[k].index],
                {k \in DOMAIN blocks : Covers(blocks[k].index, slice)})
CountOf(slice) == Pending(slice) + Published(meta, slice)

SliceOf(j) == j.wrap * NumBuffers + j.buf

(* The time slice metadata agrees with the datasets: a slice has as many     *)
(* events in the stream as the messages and the pending array say, also      *)
(* while wraps are missing, blocks are skipped or a purge is half done.  A   *)
(* reader that adds up the counts finds the events of every slice            *)
(* (update_time_slice_meta_data, purge_time_slice_meta_data).                *)
CountsMatchStream ==
  \A slice \in 0..(MaxWrap + 1) * NumBuffers - 1 :
    CountOf(slice) = Cardinality({i \in DOMAIN Streamed("event") :
                                    SliceOf(Streamed("event")[i]) = slice})

(* Points are stored in order of slice and, in a slice, of packet number,    *)
(* in whatever order the packets arrived (check_for_data_to_write).          *)
StreamOrdered ==
  \A s \in Streams : \A i, k \in DOMAIN Streamed(s) :
    LET a == Streamed(s)[i]  b == Streamed(s)[k] IN
    i < k => \/ SliceOf(a) < SliceOf(b)
             \/ SliceOf(a) = SliceOf(b) /\ a.num <= b.num

(* Every point of a job that was put in a slot is in the slot or, once, in   *)
(* the stream, however the job was split over two frames (appendData).       *)
NothingLost ==
  \A j \in accepted, s \in Streams :
    LET waiting == j.wrap \in DOMAIN store /\ j \in store[j.wrap][j.buf].jobs
    IN Cardinality({i \in DOMAIN Streamed(s) : Streamed(s)[i] = j}) =
         IF waiting THEN 0 ELSE Contents[j.num][s]

(* The frames of a dataset carry the numbers of this rank with no gap, and   *)
(* only the last frame of an acquisition may be partly filled: the place of  *)
(* a point in the dataset follows from the counts (retrieveCurrentFrame).    *)
FramesInterleave ==
  \A s \in Streams : \A k \in DOMAIN frames[s] :
    /\ frames[s][k].number = Rank + (k - 1) * Processes
    /\ k < Len(frames[s]) \/ ~ended => Len(frames[s][k].points) = FrameQty

(* When an idle frame has ended the acquisition, every job of it is in the   *)
(* datasets and nothing is kept for the next one (process_frame).            *)
AcquisitionComplete ==
  ended /\ pc = "ready" =>
    /\ DOMAIN store = {} /\ jobs = <<>> /\ currentWrap = 0 /\ lastWritten = 0
    /\ \A s \in Streams :
         /\ points[s] = <<>>
         /\ {Written(s)[i] : i \in DOMAIN Written(s)} =
              {j \in accepted : Contents[j.num][s] > 0}

(* Blocks of counts are published in order, none twice: the writer stores    *)
(* each at its index (publish_time_slice_meta_data).                         *)
BlocksInOrder ==
  \A i, k \in DOMAIN meta : i < k => meta[i].index + BlockSize <= meta[k].index

(* The slots of a wrap never cross the end of the array of counts, even      *)
(* after the 32-bit index has wrapped: the code writes them with no check    *)
(* (update_time_slice_meta_data).                                            *)
CountsInArray ==
  /\ lastWritten % NumBuffers = 0
  /\ \A w \in DOMAIN store : Base(w) + NumBuffers <= BlockSize

(* A wrap that was flushed to the datasets is never opened again in the same *)
(* acquisition: its events and counts are final (frame_to_jobs).             *)
Flushed(w) == w \notin DOMAIN store /\ \E j \in accepted : j.wrap = w
FlushedStaysFlushed ==
  [][\A w \in 0..MaxWrap : Flushed(w) => w \notin DOMAIN store']_vars
=============================================================================
