----------------------------- MODULE MetaWriter -----------------------------
(***************************************************************************)
(* TristanMetaWriter (tristan_meta_writer.py): the messages of all the     *)
(* FrameProcessors of an acquisition become one file, which has the number *)
(* of events of each time slice, one dataset for each module.              *)
(*                                                                         *)
(* A module's slices go to its processors in turn, and each processor      *)
(* stores its own slices in its own raw file and publishes the counts in   *)
(* blocks, in order (ProcessCoordinator).  The messages of different       *)
(* processors interleave.  Slices have numbers; the writer shifts them all *)
(* so that the place of a count tells the processor that took the slice.   *)
(***************************************************************************)
EXTENDS Integers, Sequences, FiniteSets, SequencesExt, FiniteSetsExt

CONSTANTS
  FpsPerModule,      (* _fps_per_module: processors with each module's address *)
  BlockSize,         (* qty: counts in a time_slice message                   *)
  NumBlocks,         (* bound of the model: messages of a processor           *)
  MaxCount           (* bound of the model: events of a module in a slice     *)

(* The readers of the file take the processors of the first module for the   *)
(* number in every module (meta_to_vds.py:144, vds_tester.py:101).           *)
ASSUME FpsAssumption ==
  /\ FpsPerModule \in Seq(Nat \ {0}) /\ FpsPerModule # <<>>
  /\ \A m, n \in DOMAIN FpsPerModule : FpsPerModule[m] = FpsPerModule[n]
ASSUME BlockAssumption == BlockSize \in Nat \ {0} /\ NumBlocks \in Nat /\ MaxCount \in Nat

VARIABLES
  count,             (* events of each module in each slice                   *)
  first,             (* the processor of a module that takes slice 0          *)
  published,         (* messages sent by each processor                       *)
  indexOffset,       (* _time_slice_index_offset, or None                     *)
  tsQty,             (* the ts_qty datasets                                   *)
  maxIndex,          (* _max_index_per_module                                 *)
  daqVersion,        (* the daq_version dataset                               *)
  closed             (* _close_file was called                                *)

acquisition == <<count, first>>
file == <<tsQty, daqVersion, closed>>
writer == <<published, indexOffset, maxIndex, file>>

None == -1
Modules == DOMAIN FpsPerModule
Fps == FpsPerModule[1]
Ranks == 0..(Len(FpsPerModule) * Fps - 1)
Slices == 0..(NumBlocks * BlockSize - 1)

(* The detector and the start of the processors: rank r has local number     *)
(* r % Fps in its module and takes every Fps-th slice.                       *)
ModuleOf(rank) == rank \div Fps + 1
Takes(rank, s) == (s + first) % Fps = rank % Fps
Count(rank, s) == IF Takes(rank, s) THEN count[ModuleOf(rank)][s] ELSE 0

WriterInit ==
  /\ count \in [Modules -> [Slices -> 0..MaxCount]]
  /\ first \in 0..(Fps - 1)
  /\ published = [r \in Ranks |-> 0]
  /\ indexOffset = None
  /\ tsQty = [m \in Modules |-> <<>>]
  /\ maxIndex = [m \in Modules |-> 0]
  /\ daqVersion = <<>>
  /\ closed = FALSE

(* _add_value: the dataset grows as needed, filled with zeros.               *)
AddValues(dataset, values) ==
  [i \in 1..Max({Len(dataset)} \cup {p + 1 : p \in DOMAIN values}) |->
     IF i - 1 \in DOMAIN values THEN values[i - 1]
     ELSE IF i \in DOMAIN dataset THEN dataset[i] ELSE 0]
AddValue(dataset, value, offset) == AddValues(dataset, [p \in {offset} |-> value])

(* rank_to_module: one turn for each module, and no end when it is found.    *)
rank_to_module(rank) ==
  FoldLeft(LAMBDA found, fps : IF found.rank >= fps
                               THEN [module |-> found.module + 1, rank |-> found.rank - fps]
                               ELSE found,
           [module |-> 1, rank |-> rank], FpsPerModule).module

(* The two loops that bring rank - offset into 0..fps.                       *)
OffsetUnshifted(rank, slice, fps) == 0               \* mutant: places are slice numbers
OffsetFrom(rank, slice, fps) ==
  LET difference == rank - slice IN
  IF difference < 0 THEN difference % fps
  ELSE IF difference > fps THEN ((difference - 1) % fps) + 1 ELSE difference

(* handle_time_slice: the first count above zero of all messages fixes the   *)
(* offset of all.                                                            *)
FirstPositive(array) == Min({k \in DOMAIN array : array[k] > 0})
handle_time_slice(rank, index, array) ==
  LET module == rank_to_module(rank)
      positive == {k \in DOMAIN array : array[k] > 0}
      offset == IF indexOffset # None \/ positive = {} THEN indexOffset
                ELSE OffsetFrom(rank, index + FirstPositive(array), FpsPerModule[module])
      places == {index + k + offset : k \in positive}
  IN
  /\ indexOffset' = offset
  /\ tsQty' = [tsQty EXCEPT ![module] = AddValues(@, [p \in places |-> array[p - index - offset]])]
  /\ maxIndex' = [maxIndex EXCEPT ![module] = Max({@} \cup places)]

(* A processor publishes the next message: first the version, then blocks.   *)
DaqVersion(rank) ==
  /\ ~closed /\ published[rank] = 0
  /\ published' = [published EXCEPT ![rank] = 1]
  /\ daqVersion' = AddValue(daqVersion, 1, rank)
  /\ UNCHANGED <<acquisition, indexOffset, tsQty, maxIndex, closed>>

TimeSlice(rank) ==
  LET index == (published[rank] - 1) * BlockSize IN
  /\ ~closed /\ published[rank] \in 1..NumBlocks
  /\ published' = [published EXCEPT ![rank] = @ + 1]
  /\ handle_time_slice(rank, index, [k \in 0..(BlockSize - 1) |-> Count(rank, index + k)])
  /\ UNCHANGED <<acquisition, daqVersion, closed>>

(* _close_file, when all processors have stopped: datasets that end early    *)
(* get a zero at the last place.                                             *)
PaddedNever(m) == tsQty[m]                           \* mutant: no padding
Padded(m) ==
  LET last == Max(Range(maxIndex)) IN
  IF maxIndex[m] < last THEN AddValue(tsQty[m], 0, last) ELSE tsQty[m]

Close ==
  /\ ~closed /\ \A r \in Ranks : published[r] = NumBlocks + 1
  /\ closed' = TRUE
  /\ tsQty' = [m \in Modules |-> Padded(m)]
  /\ UNCHANGED <<acquisition, published, indexOffset, maxIndex, daqVersion>>

WriterNext == Close \/ \E r \in Ranks : DaqVersion(r) \/ TimeSlice(r)
=============================================================================
