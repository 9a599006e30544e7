------------------------------- MODULE Timepix -------------------------------
(***************************************************************************)
(* The Timepix prototype: a parser (timepix_data_parser.py) that reads a   *)
(* stack of files of words and writes the events to Nexus files, a slice   *)
(* of random size to each in turn, and a monitor (timepix_vds_writer.py),  *)
(* another process, that makes virtual datasets of equal blocks of events  *)
(* while the files still grow (SWMR: what was flushed can be read).        *)
(*                                                                         *)
(* An event is its number among those the parser counts; zero is the fill  *)
(* value, which a new dataset of one point has.  The cue datasets and the  *)
(* times, which nobody reads, are left out.                                *)
(***************************************************************************)
EXTENDS Integers, Sequences, SequencesExt, FiniteSetsExt

CONSTANTS
  NexusFiles,        (* bound of the model: files                             *)
  SliceSizes,        (* random sizes of a time slice: 1000..20000             *)
  Chunk,             (* events written at a time: 1000                        *)
  VdsBlock,          (* block_size: 50000                                     *)
  Samples,           (* samples: events to process                            *)
  MaxStack           (* bound of the model: files of words behind the first   *)

(* By default two files, with blocks larger than a slice of each.            *)
ASSUME NexusAssumption ==
  /\ NexusFiles \in Nat \ {0} /\ Chunk \in Nat \ {0} /\ MaxStack \in Nat
  /\ SliceSizes \subseteq Nat \ {0} /\ SliceSizes # {}
  /\ VdsBlock \in Nat /\ \A size \in SliceSizes : VdsBlock > NexusFiles * size
ASSUME SamplesAssumption == Samples \in Nat \ {0} /\ Samples % VdsBlock = 0

VARIABLES
  numFiles,          (* num_files                                             *)
  hdf,               (* h5_flag: the words are in HDF5 files                  *)
  stack,             (* files of words not yet opened                         *)
  parser,            (* where the parser is                                   *)
  courses,           (* course timestamps above zero, of the last two         *)
  events,            (* _count                                                *)
  current,           (* _current_file                                         *)
  sliceEvents,       (* _time_slice_count                                     *)
  sliceSize,         (* _time_slices                                          *)
  buffered,          (* _event_ids, _event_times                              *)
  fileCounts,        (* _file_counts                                          *)
  sliceCounts,       (* _slice_counts                                         *)
  nexus,             (* event_id and event_index of each file, as flushed     *)
  monitor,           (* where the monitor is                                  *)
  taken,             (* count: events in virtual datasets                     *)
  reading,           (* current_file of the monitor                           *)
  eventPtrs,         (* _event_ptrs                                           *)
  slicePtrs,         (* _slice_ptrs                                           *)
  eventQty,          (* event_qty                                             *)
  toRead,            (* events_to_read                                        *)
  blocks,            (* blocks                                                *)
  timepixVds         (* sources of the events of the top level dataset        *)

input == <<numFiles, hdf, stack>>
slice == <<current, sliceEvents, sliceSize>>
written == <<buffered, fileCounts, sliceCounts, nexus>>
parserVars == <<input, parser, courses, events, slice, written>>
monitorVars == <<monitor, taken, reading, eventPtrs, slicePtrs, eventQty, toRead, blocks, timepixVds>>
timepixVars == <<parserVars, monitorVars>>

NewFile == [event_id |-> <<0>>, event_index |-> <<0>>]
TimepixFiles == 0..(numFiles - 1)
ForFiles(value) == [f \in TimepixFiles |-> value]

ParserInit ==
  /\ numFiles \in 1..NexusFiles /\ hdf \in BOOLEAN /\ stack \in 0..MaxStack
  /\ parser = "reading" /\ courses = 0 /\ events = 0
  /\ current = 0 /\ sliceEvents = 0 /\ sliceSize \in [TimepixFiles -> SliceSizes]
  /\ buffered = <<>> /\ fileCounts = ForFiles(0) /\ sliceCounts = ForFiles(0)
  /\ nexus = ForFiles(NewFile)

MonitorInit ==
  /\ monitor = "looking" /\ taken = 0 /\ reading = 0
  /\ eventPtrs = ForFiles(0) /\ slicePtrs = ForFiles(0)
  /\ eventQty = 0 /\ toRead = 0 /\ blocks = <<>> /\ timepixVds = <<>>

TimepixInit == ParserInit /\ MonitorInit

NextOf(f) == (f + 1) % numFiles

(* execute: at the end of a slice the next file's turn comes.                *)
SliceEnded == sliceEvents = sliceSize[current]
NextSlice ==
  /\ parser = "reading" /\ SliceEnded
  /\ \E size \in SliceSizes : sliceSize' = [sliceSize EXCEPT ![current] = size]
  /\ current' = NextOf(current)
  /\ sliceEvents' = 0
  /\ UNCHANGED <<input, parser, courses, events, written>>

(* read_next: a word of this file or the first one of the next.  The reader  *)
(* of HDF5 files pops two names and opens the second.  It fails on the last  *)
(* name, and both fail on a new file with no words.                          *)
Popped == IF hdf THEN 2 ELSE 1
Reads == parser = "reading" /\ ~SliceEnded
read_next == Reads /\ stack' \in {stack, stack - Popped} \cap Nat
ReadError ==
  /\ Reads /\ stack > 0
  /\ parser' = "dead"
  /\ stack' = Max({0, stack - Popped})
  /\ UNCHANGED <<numFiles, hdf, courses, events, slice, written>>
EndOfStack ==
  /\ Reads /\ stack = 0
  /\ parser' = "closed"
  /\ UNCHANGED <<input, courses, events, slice, written>>

(* Words that are no events of the file: a course timestamp, a cue, an event *)
(* before two course timestamps or whose time matches neither of them.       *)
ReadOther ==
  /\ read_next
  /\ courses' \in {courses, Min({2, courses + 1})}
  /\ UNCHANGED <<numFiles, hdf, parser, events, slice, written>>

(* An event: the events read are written when there are enough, at the end   *)
(* of the slice and at the last; then, as a step of its own, the marker.     *)
Resized(data, n, values) ==
  [k \in 1..n |-> IF k > n - Len(values) THEN values[k - n + Len(values)]
                  ELSE IF k \in DOMAIN data THEN data[k] ELSE 0]
LastOfSlice == sliceEvents + 1 = sliceSize[current] \/ events + 1 = Samples
FlushesFull(ids) == Len(ids) >= Chunk              \* mutant: what is left of a slice stays
Flushes(ids) == Len(ids) >= Chunk \/ LastOfSlice
ReadEvent ==
  LET ids == Append(buffered, events + 1) IN
  /\ read_next /\ courses = 2
  /\ events' = events + 1
  /\ sliceEvents' = sliceEvents + 1
  /\ fileCounts' = [fileCounts EXCEPT ![current] = @ + 1]
  /\ buffered' = IF Flushes(ids) THEN <<>> ELSE ids
  /\ nexus' = IF Flushes(ids)
              THEN [nexus EXCEPT ![current].event_id = Resized(@, fileCounts[current] + 1, ids)]
              ELSE nexus
  /\ parser' = IF LastOfSlice THEN "marker" ELSE "reading"
  /\ UNCHANGED <<numFiles, hdf, courses, current, sliceSize, sliceCounts>>

WriteMarker ==
  /\ parser = "marker"
  /\ sliceCounts' = [sliceCounts EXCEPT ![current] = @ + 1]
  /\ nexus' = [nexus EXCEPT ![current].event_index =
                 Resized(@, sliceCounts[current] + 1, <<fileCounts[current]>>)]
  /\ parser' = IF events = Samples THEN "closed" ELSE "reading"
  /\ UNCHANGED <<input, courses, events, slice, buffered, fileCounts>>

Parser == NextSlice \/ ReadError \/ EndOfStack \/ ReadOther \/ ReadEvent \/ WriteMarker

(* execute of the monitor: every second it adds up the sizes of the files    *)
(* and makes a virtual dataset of each whole block there is.                 *)
Look ==
  /\ monitor = "looking"
  /\ eventQty' = MapThenSumSet(LAMBDA f : Len(nexus[f].event_id), TimepixFiles)
  /\ monitor' = "looked"
  /\ UNCHANGED <<parserVars, taken, reading, eventPtrs, slicePtrs, toRead, blocks, timepixVds>>

StartBlock ==
  /\ monitor = "looked" /\ eventQty >= taken + VdsBlock
  /\ blocks' = <<>> /\ toRead' = VdsBlock
  /\ monitor' = "block"
  /\ UNCHANGED <<parserVars, taken, reading, eventPtrs, slicePtrs, eventQty, timepixVds>>

AllTakenPast == taken > Samples                     \* mutant: one event more
AllTaken == taken >= Samples
EndLook ==
  /\ monitor = "looked" /\ eventQty < taken + VdsBlock
  /\ monitor' = IF AllTaken THEN "closed" ELSE "looking"
  /\ UNCHANGED <<parserVars, taken, reading, eventPtrs, slicePtrs, eventQty, toRead, blocks, timepixVds>>

(* The events up to the next marker of the file, or those still to read; it  *)
(* waits for a marker that is not yet there.                                 *)
NextTimeSlice == nexus[reading].event_index[slicePtrs[reading] + 1]
EventsReady == NextTimeSlice - eventPtrs[reading]
AddBlock(qty) ==
  /\ monitor = "block" /\ toRead > 0
  /\ Len(nexus[reading].event_index) > slicePtrs[reading]
  /\ blocks' = Append(blocks, [file |-> reading, offset |-> eventPtrs[reading], qty |-> qty])
  /\ eventPtrs' = [eventPtrs EXCEPT ![reading] = @ + qty]
  /\ toRead' = toRead - qty
  /\ UNCHANGED <<parserVars, monitor, taken, eventQty, timepixVds>>
PartOfSlice ==
  /\ AddBlock(toRead) /\ EventsReady >= toRead
  /\ UNCHANGED <<reading, slicePtrs>>
RestOfTimeSlice ==
  /\ AddBlock(EventsReady) /\ EventsReady < toRead
  /\ slicePtrs' = [slicePtrs EXCEPT ![reading] = @ + 1]
  /\ reading' = NextOf(reading)

(* A virtual dataset of the block, which the top level dataset shows behind  *)
(* those before it.  A block of no events selects nothing.                   *)
Sources(block) == [k \in 1..block.qty |-> [file |-> block.file, place |-> block.offset + k]]
create_top_level_VDS_file(files, file) == files \o file
create_VDS_file ==
  /\ monitor = "block" /\ toRead = 0
  /\ timepixVds' = create_top_level_VDS_file(timepixVds, FlattenSeq([k \in DOMAIN blocks |-> Sources(blocks[k])]))
  /\ taken' = taken + VdsBlock
  /\ monitor' = "looked"
  /\ UNCHANGED <<parserVars, reading, eventPtrs, slicePtrs, eventQty, toRead, blocks>>

Monitor == Look \/ StartBlock \/ EndLook \/ PartOfSlice \/ RestOfTimeSlice \/ create_VDS_file

TimepixNext == (Parser /\ UNCHANGED monitorVars) \/ Monitor

(* Both processes run.                                                       *)
TimepixFairness == WF_timepixVars(Parser /\ UNCHANGED monitorVars) /\ WF_timepixVars(Monitor)
TimepixSpec == TimepixInit /\ [][TimepixNext]_timepixVars /\ TimepixFairness

(* The top level dataset has the events in the order in which one file would *)
(* have them (test_timepix_reconstruction.py:57), at any time, also while    *)
(* slices are half written or a marker lags behind its events; a file that   *)
(* is read before its first slice would show a marker of zero.               *)
VdsMatchesRaw ==
  \A k \in DOMAIN timepixVds :
    LET data == nexus[timepixVds[k].file].event_id IN
    timepixVds[k].place \in DOMAIN data /\ data[timepixVds[k].place] = k

(* When the parser has written all samples the monitor makes all its virtual *)
(* datasets and ends (timepix_vds_writer.py:187).                            *)
MonitorEnds == parser = "closed" /\ events = Samples ~> monitor = "closed"
=============================================================================
