--------------------------- MODULE VirtualDataset ---------------------------
(***************************************************************************)
(* The files behind an acquisition: what TristanMetaWriter wrote, the raw  *)
(* files of the processors, the virtual dataset that meta_to_vds.py maps   *)
(* over them, and the checks of vds_tester.py.                             *)
(*                                                                         *)
(* An event in a raw file is its slice, module and number in both, a cue   *)
(* its rank and number; Fill is the zero in the rest of the last frame.    *)
(***************************************************************************)
EXTENDS MetaWriter

CONSTANTS
  FrameQty,          (* points of a dataset frame of a raw file                *)
  Ticks              (* bound of the model: times in a slice that are told apart *)
ASSUME FrameQtyAssumption == FrameQty \in Nat \ {0}
ASSUME TicksAssumption == Ticks \in Nat \ {0}

VARIABLES
  vds,               (* the virtual datasets, as they read, and history: the  *)
                     (* cues in the raw files                                 *)
  vdsState           (* "none", "created", "legacy" or "raised"               *)

vars == <<acquisition, writer, vds, vdsState>>

Init == WriterInit /\ vds = [events |-> <<>>, cues |-> <<>>, rawCues |-> <<>>] /\ vdsState = "none"

Fill == <<>>
Repeat(value, n) == [k \in 1..n |-> value]
Concat(f(_), n) == FlattenSeq([i \in 1..n |-> f(i)])
WholeFrames(s) == s \o Repeat(Fill, (-Len(s)) % FrameQty)

(* The raw files: a processor's slices in order (ProcessCoordinator).        *)
NumSlices == NumBlocks * BlockSize
Events(s, m, n) == [k \in 1..n |-> <<s, m, k>>]
RawEvents(rank) ==
  WholeFrames(Concat(LAMBDA i : Events(i - 1, ModuleOf(rank), Count(rank, i - 1)), NumSlices))
RawCues(rank, n) == WholeFrames([k \in 1..n |-> <<rank, k>>])

(* Metafile.__init__: raw files are numbered through the modules.            *)
RawFile(m, i) == Fps * (m - 1) + i

(* What both versions do with the counts: over the places, and over the      *)
(* names at each, a count maps the next events of the raw file it is in.     *)
Entries(sizes) == {e \in UNION {(DOMAIN sizes[n]) \X {n} : n \in DOMAIN sizes} : sizes[e[2]][e[1]] > 0}
Before(d, e) == d[1] < e[1] \/ (d[1] = e[1] /\ d[2] < e[2])
Mappings(sizes, fileOf) ==
  LET Earlier(e) == {d \in Entries(sizes) : Before(d, e)}
      Total(E) == MapThenSumSet(LAMBDA d : sizes[d[2]][d[1]], E)
  IN {[file |-> fileOf[e], qty |-> sizes[e[2]][e[1]],
       vdsOffset |-> Total(Earlier(e)),
       rawOffset |-> Total({d \in Earlier(e) : fileOf[d] = fileOf[e]})] : e \in Entries(sizes)}

(* createTimesliceLookup (version 1) and create_event_vdset (version 0).     *)
TurnFromOne(place) == place % Fps                    \* mutant: places counted from one
Turn(place) == (place - 1) % Fps
createTimesliceLookup == Mappings(tsQty, [e \in Entries(tsQty) |-> RawFile(e[2], Turn(e[1]))])
create_event_vdset(tsRank) == Mappings(tsRank, [e \in Entries(tsRank) |-> e[2]])

(* create_mapping, read: HDF5 reads zero where there is no source.           *)
Point(data, p) == IF p \in DOMAIN data THEN data[p] ELSE Fill
ReadEvents(mappings) ==
  [p \in 1..MapThenSumSet(LAMBDA k : k.qty, mappings) |->
     LET k == CHOOSE k \in mappings : p - k.vdsOffset \in 1..k.qty
     IN Point(RawEvents(k.file), k.rawOffset + p - k.vdsOffset)]

(* The cues of a raw file end before its first zero, which numpy's argmin    *)
(* finds; a file without one has a smallest cue somewhere instead.           *)
HasEnd(n) == n % FrameQty # 0
CueLengths(cues) ==
  {lengths \in [Ranks -> 0..FrameQty] :
     \A r \in Ranks : IF HasEnd(cues[r]) THEN lengths[r] = cues[r] ELSE lengths[r] < cues[r]}
(* bound of the model: one processor has another number of cues than one     *)
CueNumbers == UNION {{[r \in Ranks |-> IF r = q THEN n ELSE 1] : n \in 1..FrameQty} : q \in Ranks}
ReadCues(cues, lengths) ==
  Concat(LAMBDA i : SubSeq(RawCues(i - 1, cues[i - 1]), 1, lengths[i - 1]), Cardinality(Ranks))

(* create_vds_file1, of a file this writer made.  create_ctrl_maps1 raises   *)
(* when a raw file's cues fill its frames: no events are mapped then.        *)
create_vds_file1 ==
  /\ closed /\ vdsState = "none"
  /\ \E cues \in CueNumbers :
       \/ /\ \A r \in Ranks : HasEnd(cues[r])
          /\ vdsState' = "created"
          /\ vds' = [events |-> ReadEvents(createTimesliceLookup), cues |-> ReadCues(cues, cues),
                     rawCues |-> cues]
       \/ /\ \E r \in Ranks : ~HasEnd(cues[r])
          /\ vdsState' = "raised" /\ UNCHANGED vds
  /\ UNCHANGED <<acquisition, writer>>

(* create_vds_file0, of a file of version 0: an older writer's, with the     *)
(* counts of each processor's own slices.                                    *)
LegacyCounts(rank) ==
  Concat(LAMBDA i : IF Takes(rank, i - 1) THEN <<Count(rank, i - 1)>> ELSE <<>>, NumSlices)
create_vds_file0 ==
  /\ closed /\ vdsState = "none"
  /\ \E cues \in CueNumbers : \E lengths \in CueLengths(cues) :
       vds' = [events |-> ReadEvents(create_event_vdset([r \in Ranks |-> LegacyCounts(r)])),
               cues |-> ReadCues(cues, lengths), rawCues |-> cues]
  /\ vdsState' = "legacy"
  /\ UNCHANGED <<acquisition, writer>>

Next ==
  \/ WriterNext /\ UNCHANGED <<vds, vdsState>>
  \/ create_vds_file1
  \/ create_vds_file0
Spec == Init /\ [][Next]_vars

(* Every event is in the virtual dataset once, by time slice and module,     *)
(* and every cue, whichever processor's message came first and fixed the     *)
(* offset of all (tristan_meta_writer.py:152, vds_tester.py:79).  A file of  *)
(* version 0 also has every event once, though not by slice.                 *)
Times(value, s) == Cardinality({i \in DOMAIN s : s[i] = value})
VdsComplete ==
  /\ vdsState = "created" =>
       /\ vds.events = Concat(LAMBDA i : Concat(LAMBDA m : Events(i - 1, m, count[m][i - 1]), Len(FpsPerModule)),
                              NumSlices)
       /\ \A r \in Ranks : Times(<<r, 1>>, vds.cues) = 1
  /\ vdsState = "legacy" =>
       \A m \in Modules, s \in Slices :
         \A k \in 1..MaxCount : Times(<<s, m, k>>, vds.events) = (IF k <= count[m][s] THEN 1 ELSE 0)

(* The checks of vds_tester.py, each of which is a run of its own.           *)
getTsQtiesForRawfile(rank) ==
  LET qties == tsQty[ModuleOf(rank)]
  IN [p \in {p \in DOMAIN qties : (p - 1) % Fps = rank % Fps} |-> qties[p]]
SumOver(S, f(_)) == MapThenSumSet(f, S)

(* The length without the zeros at the end.  The loop goes on below zero     *)
(* when there is nothing else: to -1, for data without any to an IndexError  *)
(* (which is -1 here; the check does not pass either way).                   *)
Nonzero(data) == {i \in DOMAIN data : data[i] # Fill}
RealLength(data) == IF Nonzero(data) = {} THEN -1 ELSE Max(Nonzero(data))

(* check_qties: the meta file has the counts of each raw file, or else WRONG.*)
check_qties ==
  \A r \in Ranks :
    LET qties == getTsQtiesForRawfile(r)
    IN SumOver(DOMAIN qties, LAMBDA p : qties[p]) = RealLength(RawEvents(r))

(* check_vds_qties: the virtual dataset has as many points as the raw files. *)
check_vds_qties ==
  /\ Len(vds.events) = SumOver(Ranks, LAMBDA r : RealLength(RawEvents(r)))
  /\ Len(vds.cues) = SumOver(Ranks, LAMBDA r : RealLength(RawCues(r, vds.rawCues[r])))

(* dump_vds_data, dump_rf_data: sorted, they are the same.  The loop of the  *)
(* latter has no end but an IndexError for a raw file of zeros, or of none.  *)
dump_vds_data(value) == Times(value, vds.events)
dump_rf_data(value) ==
  SumOver(Ranks, LAMBDA r : Times(value, SubSeq(RawEvents(r), 1, RealLength(RawEvents(r)))))
Dumped == \A r \in Ranks : Nonzero(RawEvents(r)) # {}
DumpsAgree ==
  /\ Dumped
  /\ \A value \in Range(vds.events) \cup ((Slices \X Modules \X (1..MaxCount)) \cup {Fill}) :
       dump_vds_data(value) = dump_rf_data(value)

(* The time of an event in the virtual dataset, given the tick of its slice  *)
(* at which its module's event of that number comes; Fill reads zero, and no *)
(* event has that time.                                                      *)
Clocks == [Modules \X (1..MaxCount) -> 1..Ticks]
TimeOf(tick, event) == IF event = Fill THEN 0 ELSE event[1] * Ticks + tick[event[2], event[3]]

(* append_timestamp_values: the first and the last time of a count.          *)
append_timestamp_values(tick, k) ==
  [lo |-> TimeOf(tick, vds.events[k.vdsOffset + 1]),
   hi |-> TimeOf(tick, vds.events[k.vdsOffset + k.qty])]

(* check_for_zeros: in the order of their offsets, the counts whose first or *)
(* last time is zero and those said to be in "bad ts order".                 *)
ByOffset(mappings) ==
  [i \in 1..Cardinality(mappings) |->
     CHOOSE k \in mappings : Cardinality({d \in mappings : d.vdsOffset < k.vdsOffset}) = i - 1]
check_for_zeros(lookup, tick) ==
  LET Look(seen, k) ==
        LET t == append_timestamp_values(tick, k) IN
        IF t.lo = 0 \/ t.hi = 0 THEN [seen EXCEPT !.zeros = @ \cup {k}]
        ELSE IF seen.curmax < t.lo THEN [seen EXCEPT !.curmin = t.lo, !.curmax = t.hi]
        ELSE IF t.lo < seen.curmax /\ seen.curmin < t.hi THEN seen
        ELSE [seen EXCEPT !.disordered = @ \cup {k}]
  IN FoldLeft(Look, [curmin |-> 0, curmax |-> 0, zeros |-> {}, disordered |-> {}], ByOffset(lookup))

(* All datasets of a closed file have one length, when any has a count       *)
(* behind the first place (the "ragged edges" of tristan_meta_writer.py:93). *)
EvenEdges == Max(Range(maxIndex)) > 0 => \A m, n \in Modules : Len(tsQty[m]) = Len(tsQty[n])

(* The checks of quantities and the dumps of vds_tester.py pass on what the  *)
(* processors, the meta writer and meta_to_vds.py make, in whatever order    *)
(* the messages came, just when each raw file has an event: a processor      *)
(* without one is reported, or ends the check (vds_tester.py:184, 218, 269). *)
(* No zero is found, at whatever times the events come in their slices, and  *)
(* what is said to be in bad order is a count that does not overlap another  *)
(* one of the same slice before it, never one of another slice: the order of *)
(* the slices is right, though the test, which asks counts of one slice to   *)
(* overlap or to ascend, says otherwise (vds_tester.py:330).                 *)
SliceOf(k) == vds.events[k.vdsOffset + 1][1]
Overlap(t, u) == t.lo < u.hi /\ u.lo < t.hi
TesterPasses ==
  /\ closed => EvenEdges /\ (check_qties <=> Dumped)
  /\ vdsState = "created" =>
       /\ check_vds_qties <=> Dumped
       /\ DumpsAgree <=> Dumped
       /\ LET lookup == createTimesliceLookup IN
          \A tick \in Clocks :
            LET found == check_for_zeros(lookup, tick)
                Ends(k) == append_timestamp_values(tick, k)
            IN /\ found.zeros = {}
               /\ \A k \in found.disordered : \E d \in lookup :
                    /\ d.vdsOffset < k.vdsOffset /\ SliceOf(d) = SliceOf(k)
                    /\ ~Overlap(Ends(d), Ends(k))
=============================================================================
