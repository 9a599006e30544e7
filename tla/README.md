# TLA+ models of the LATRD / Tristan data acquisition

This directory holds TLA+ specifications of the program in `src/`, the TLC
configurations that check them on small instances, and proofs that TLAPS checks.
`PROJECT.json` lists the components, the runs, the mutants that each property
detects, the source lines behind each definition, and the hazards of the code.

## The system

A detector sends UDP packets. A **FrameReceiver** process gathers them into
buffers in shared memory, a **FrameProcessor** process turns buffers into frames
of HDF5 datasets and into metadata messages, and a **meta writer** puts the
messages into a file. An HTTP **control adapter** arms and starts the detector.
Several receiver/processor pairs run side by side and interleave their dataset
frames by rank. The receiver, the processor, the writer and the channels between
them come from odin-data; this repository holds the plugins.

| Component | State | Operations | Talks to | What makes it correct |
|---|---|---|---|---|
| Frame decoder (`frameReceiver/src/LATRDFrameDecoder.cpp`) | current frame and frame last seen, cached write target, map frame -> buffer, queue of empty buffers, header of each buffer, scratch buffer | packet header, packet, buffer monitor (timer), reset of statistics | `ready_callback_` to the processor; released buffers come back | one owner per buffer; no write into a buffer that was handed over; nothing taken is lost or overtaken; idle frame last |
| Process coordinator (`LATRDProcessCoordinator.cpp`, `LATRDTimeSliceWrap.cpp`, `LATRDTimeSliceBuffer.cpp`, `LATRDBuffer.cpp`) | time slice store of wraps, current wrap, array of counts and its index, points and frame number of each dataset | data frame, idle frame | frames to the next plugin, `time_slice` and `daq_version` messages | points in slice order, none lost; counts agree with the datasets; frames of a rank contiguous; idle completes |
| Job pool (`LATRDProcessCoordinator.cpp`, `LATRDProcessJob.cpp`) | stack of job objects, job queue, results queue, eight worker threads | get, dispatch, decode, gather, release | workers through two blocking queues; reads the shared buffer | one user per job; results in packet order; no read after the frame is returned; the gather ends |
| Word decoding (`processDataWord`, `getFullTimestamp`; `data_word.py`, `tristan_parse_raw_h5.py`) | course timestamps seen | pure functions | job pool, Python readers | full timestamps from truncated ones |
| Process plugin (`LATRDProcessPlugin.cpp`) | mode, raw mode, raw buffer, rank, processes, time of the last idle frame | configure, process_frame, process_raw, status | coordinator, integral, HDF5 plugin | nothing taken is kept back; each acquisition is closed; a configuration does not touch a running acquisition |
| Count mode (`LATRDProcessIntegral.cpp`, `LATRDImageJob.cpp`) | store of image jobs | data frame, idle frame | image frames to the next plugin | each image sent once, complete or at the end |
| Meta writer (`control/latrd/meta/tristan_meta_writer.py`) | offset of the time slice index, highest index per module, datasets | time slice, version, close | messages of every rank | each count at its place in the file, whatever the order of messages |
| Virtual datasets (`sandbox/meta_to_vds.py`, `sandbox/vds_tester.py`) | the files | create the virtual dataset, check it | meta file, raw files | every event and cue once, by time slice |
| Control adapter, channel, messages (`control/latrd/detector/tristan_control_adapter.py`, `latrd_channel.py`, `latrd_message.py`) | parameters and status, `_comms_lock`, message counter | PUT, GET, send and receive, update loop (thread) | HTTP clients, detector over ZeroMQ | start answers truthfully; `acquisition_complete` follows the detector; replies go to their requests |
| Control simulator (`control_simulator.py`), reactor (`latrd_reactor.py`), event producer (`event_simulator.py`) | state, configuration, threads, packets sent | get, put, post; arm, run and stop; packet sending | adapter; UDP | a run ends; state follows the last command |
| Packet generators and replay tools (`event_simulator.py`, `tristan_packet_generator.py`, `latrd_pcap_replay.py`, `latrd_image_pcap_replay.py`) | packets by slice or image, threads, counter | create, load a capture, send | UDP ports | slices to ports in turn, in order, idle packets around the data |
| Timepix prototype (`sandbox/timepix_*.py`, readers, `nexus_swmr_file.py`) | Nexus files that grow, pointers of the monitor | parse, flush, look, make virtual datasets | two processes share files | the virtual dataset has the events in their order; the monitor ends |
| Timestamp manager, meta HTTP adapter, command line tools, packaging, performance programs, other scripts | none that lasts | | | not modelled |

The hard parts: buffers change hands between two processes while the decoder
keeps a cached pointer; buffers run out and come back at any time; a timer
releases frames behind the packet handlers; packets of several slices and wraps
interleave and come late; blocks of counts are published early and skipped;
threads share job objects and the frame's memory; configuration changes under
the frames; control answers come late and status is replaced under the start
sequence; messages of several processors meet in one file; one process reads
files that another one is writing. `PROJECT.json` lists the hazards
by line, with the properties that would catch them or why none does yet.

## Modules

| Module | What it is |
|---|---|
| `FrameDecoder` | the frame decoder, detailed |
| `PacketStream` | what a frame decoder promises: packets are taken or lost on arrival and delivered in batches, in the order of arrival |
| `FrameDecoderProofs` | inductive invariant of `FrameDecoder`, its theorems, and the proof that it implements `PacketStream` |
| `ProcessCoordinator` | event mode of the FrameProcessor plugin |
| `ProcessCoordinatorMC` | packet contents for its TLC instances |
| `SequenceLemmas` | induction over numbers and sequences; what flattening, counting and adding up give |
| `ProcessCoordinatorProofs` | inductive invariant of `ProcessCoordinator`; the order in which wraps and blocks of counts leave it; the points it stores, in order, none lost; the counts it publishes against them |
| `WorkerPool` | how one frame is decoded by several threads |
| `WorkerPoolProofs` | inductive invariant of `WorkerPool` and its theorems |
| `ProcessIntegral` | count mode: the store of image jobs |
| `DataBuffer` | `LATRDBuffer` as a value with its operations |
| `ProcessPlugin`, `ProcessPluginMC` | the plugin: `ProcessCoordinator`, `ProcessIntegral` and the raw mode composed, the mode changed at any time |
| `ProcessPluginProofs` | what holds of the coordinator holds in the plugin; the end is notified; images are whole; packets and raw words are kept |
| `PluginConfiguration`, `PluginConfigurationMC` | `configure` against `process_frame`, buffer by buffer |
| `ParameterTree` | the nested dictionaries of the control software |
| `ControlChannel` | messages, identifiers and the two directions of the ZeroMQ channel |
| `ControlAdapter`, `ControlSimulator` | the two ends of the channel |
| `ControlSystem`, `ControlSystemMC` | both composed, with clients and faults |
| `ControlSystemProofs` | inductive invariant of `ControlSystem` and its theorems |
| `MetaWriter` | the messages of all processors become one file |
| `VirtualDataset` | `MetaWriter` with raw files, `meta_to_vds.py` and `vds_tester.py` |
| `Timepix` | parser, growing files and monitor of the Timepix prototype |
| `TimepixProofs` | inductive invariant of both processes: the virtual datasets match the raw files |
| `ReconstructionMC` | `VirtualDataset` and `Timepix`, one kind in a behaviour |
| `PacketWords` | packets as words: how they are made, and how times are read from them |
| `PacketSenders`, `PacketSendersMC` | the generators and replay tools, a thread for each port |
| `PacketSendersProofs` | the simulator counts every packet that it sends |

### FrameDecoder

The receiver's reactor runs each handler to its end in one thread, so an action
is a whole handler. `process_packet_header` and `process_packet` are called for
each packet, with the payload read in between and no other handler; they are one
action, split by outcome: `PacketFills` (the frame stays open),
`PacketCompletes` (the frame, and for an idle packet every other open frame,
goes to the processor) and `PacketCompletesDropped` (the same test passes while
packets are dropped). `Count` holds what they share. `MonitorBuffers` is the
timer; the clock is abstracted to `FrameOverdue`, which lets any open frame
exceed its timeout at any moment. `BufferReturned` is external: the processor
releases a buffer and the receiver puts it on the empty queue; any buffer that
is downstream may come back at any time.

| TLA+ | Code |
|---|---|
| `currentFrame`, `seen`, `target`, `dropping` | `current_frame_`, `current_frame_seen_`, `current_frame_buffer_`, `dropping_frame_data_` |
| `mapped`, `emptyQueue` | `frame_buffer_map_`, `empty_buffer_queue_` |
| `hdr[b]` | the `FrameHeader` at the start of a buffer; `packets` stands for `packets_received` and lists which packets were counted |
| `downstream`, `ready` | buffers and frames handed to `ready_callback_` |
| `arrived`, `lost` | history |

Packets carry no content; a packet is its number of arrival, and data or idle.
What `ready_callback_` hands over is a sequence, also within one handler: the
frames that an idle packet flushes, by frame number, and behind them its own
(`HandedOver`).

### ProcessCoordinator

`process_frame` is sequential, with loops over packets, wraps and jobs; each
iteration is a step, ordered by `pc`: `ready -> slots -> flush -> append ->
ready` for data and `ready -> purge -> purgeAppend -> ready` for an idle frame.
`StartFrame` chooses the jobs of a frame in packet order, as `frame_to_jobs` has
them once all results are gathered; `KnownWrap`, `NewWrap`, `StaleJob` and
`DuplicateJob` are the branches for one job; `FlushWrap` is one wrap of
`check_for_data_to_write`, `PurgeWrap` one wrap of `purge_remaining_jobs`;
`UpdateCounts` is `update_time_slice_meta_data` with its while loop in closed
form, in arithmetic modulo `Word` (2^32 in the code); `AppendJob` is one job of
`add_jobs_to_buffer` over all streams, with `LATRDBuffer::appendData`;
`EndIdle` is `purge_remaining_buffers` and the resets.

The three event datasets take the same number of points of every job, and so do
the two cue datasets: each group is one stream. A job carries what it decodes
to. A packet comes a number of wraps of the set `Lateness` behind the newest
wrap, and its slice number may be out of range (`buf = NumBuffers`). A duplicate packet
halts the thread: `add_job` throws and nothing in the repository catches it.

The array of counts is indexed with no check in the code; `Base`, `CountsWith`
and `CountsInArray` keep the width of the unsigned difference.

### WorkerPool

`DropPacket` and `DispatchJob` are one iteration of the dispatch loop,
`GatherJob` one of the gathering loop, `TakeJob` and `FinishJob` the two ends of
an iteration of `processTask`. `StoreJobs` and `ReleaseJob` stand for what the
time slice store (ProcessCoordinator) does with the jobs: keeps any of them,
loses the others, and gives back any of those it keeps, in this frame or a later
one. A queue's lock is held for one operation, which is therefore atomic; the
blocking `remove` is an action that is disabled while the queue is empty. A
worker's result is the pair (frame, packet) whose words it has read.

### ProcessPlugin, ProcessIntegral, DataBuffer

`ProcessPlugin` EXTENDS `ProcessCoordinator` and `ProcessIntegral` and adds
`process_frame` and `process_raw`. In event mode the steps of the coordinator
are the plugin's (`EventFrame`, `EventIdle`, `Coordinate`, `EndAcquisition`);
a frame in count mode or raw mode is one step (`CountData`, `CountEnd`,
`RawData`, `RawEnd`), for nothing in it depends on what another thread does.
`SetMode`, `SetRawMode` and `ResetFrame` are `configure` and may come between
any two steps: `raw_mode_` and `mode_` are read once, at the start of a frame, so
a frame is finished in the mode in which it began. What the mode left behind
stays in the coordinator, the integral or the raw buffer until the next idle
frame *of that mode*, which is why `PacketsKept` speaks of that idle frame.

`before` and `notified` are the number of frames returned before the idle frame
and whether the end of the acquisition was notified. The clock is one bit: the
last idle frame is over 1500 ms old or it is not. The end is notified in event
mode only; the code of the other two modes never does.

An image job is its last packet, the packets recorded, how often each packet's
counts were added, and whether it was sent. `AsFrames` orders images as the
`std::map` does. `TakeCounts` is external: any packets, each at most
`MaxCopies` times, in any order.

`DataBuffer` states `LATRDBuffer` as operations on a value, because the raw
buffer and `PluginConfiguration` need several of them.

### PluginConfiguration

`Message` is the arrival of a configuration, whose steps `Configure` then takes
one buffer at a time in the order of the code (`process` before `frame_qty`);
`StartJob`, `StartIdle`, `AppendJob`, `PurgeBuffer` and `ResetNumber` are the
loops of the coordinator over the same buffers in the other thread. Two datasets
stand for the five. The data races on a buffer's fields and on the shared pointer
that `frame_qty` replaces are abstracted to an order of the two accesses.

### Control

`ControlSystem` EXTENDS `ControlAdapter` and `ControlSimulator`, which share
`ControlChannel` and `ParameterTree`.

| TLA+ | Code |
|---|---|
| `lock` | `_comms_lock`, with its holder |
| `putPc`, `job`, `putMsg`, `polls` | the thread of a PUT request: `put`, `start_acquisition`, `send_recv` |
| `updPc`, `updMsg` | the thread of `update_loop` |
| `status`, `param` | `_parameters['status']`, `_param` |
| `toDetector`, `toAdapter` | the sockets' queues, `CHANNEL_HWM` messages each way |
| `up`, `state`, `store` | the simulator's process, `_store` |
| `busy`, `arming`, `scripts`, `unsent`, `sent` | the sleeping handler of `run`, the threads of `execute_arm` and `execute_script`, the sender threads and `_sent_packets` |

A request is made (`MakePut`, `UpdateSends`), sent under the lock, and returns
(`PutReply`, `UpdateReply`) with its reply or, after `DETECTOR_TIMEOUT`, without;
`PutDiscard` and `UpdateDiscard` skip the replies of requests given up before.
`new_id` is not locked, so two threads that make a message at a time may get one
identifier; `collided` remembers that it happened. Identifiers that nobody can
tell apart any more are reused, which is sound because the code only compares
them for equality. `Waits` is one turn of a polling loop, which looks at the
status that the update thread left. `EndRound` includes the exceptions that
leave a round of the update thread.

A GET takes no lock (`get`), so the writes of a round to the status are steps of
their own: `StatusReply` replaces the dictionary by the detector's, in which
`connected` and `acquisition_complete` are unset and read as null
(`tristan_control_adapter.py:758`), then come the requests of a new connection,
if any, then `SetConnected` (783) and `SetComplete` (823). `GoesOn` is the lock
held with no request under way. `ViewConverges` says just when a client may read
null: in this part of a round, again and again, and at no other time.

`Late` is a timeout although the detector was about to answer; it and
`DetectorDies` and `SendFails` are counted as faults. The run command takes as
long as the timeout, so that its reply may be late without a fault. A dead
detector loses the request it was handling, a prefix of the queue, and a suffix of
its responses, and is started again. A dictionary is a function from paths to
values; `apply_parameters` and `read_parameters` raise where a path runs into a
leaf, and the reactor then drops the request without a reply.

### MetaWriter, VirtualDataset, Timepix

A processor's counts are what `ProcessCoordinator` publishes: blocks in order,
one for each rank, and `TimeSlice(rank)` hands one to the writer in any order
of ranks. `handle_time_slice` fixes the offset with the first positive count of
all; `OffsetFrom` is the two loops in closed form; `AddValues` is the growth of
a dataset with zeros. `Close` pads the datasets. `create_vds_file1` and
`create_vds_file0` are the two versions of `meta_to_vds.py`, given as the set of
mappings they make and read as HDF5 reads them, zero where a source has no
point. The checks of `vds_tester.py` are the operators of the same names.
`RealLength` is the loop that cuts off zeros, which goes on to -1 (or to an
`IndexError`) for a raw file without a single event, and `check_for_zeros` is the
fold with `curmin` and `curmax`, over times of the events that are chosen freely
within their slices (`Clocks`). So the tester does not simply pass: `TesterPasses`
says that the checks of quantities and the dumps pass exactly when each raw file
has an event, that no zero is found, and that "bad ts order" is reported
only of a count of a slice which does not overlap a count of another module in the
same slice, which the test demands (`vds_tester.py:330`) and nothing in the system
promises; it is never reported of the order of slices.

`Timepix` has the parser (`ReadEvent`, `ReadOther`, `WriteMarker`, `NextSlice`,
`ReadError`, `EndOfStack`) and the monitor (`Look`, `StartBlock`, `PartOfSlice`,
`RestOfTimeSlice`, `create_VDS_file`, `EndLook`) as two processes; what the
monitor sees of a file is what was flushed, and a marker is flushed after its
events. Two facts of this code are kept as they are: the reader of HDF5 files
pops two names and opens the second, and a new index dataset holds one zero.
`NexusAssumption` demands blocks larger than one slice of every file. With more
files or smaller blocks than the defaults (`-f 3`) the monitor can begin a file
before its first marker, take that zero for a marker of an empty slice and go on
out of step. The call of `TimepixDataParser` in
`test_timepix_reconstruction.py` lacks the argument `h5_flag` and cannot run; the
order that the test compares is the one of `VdsMatchesRaw`.

### PacketWords, PacketSenders

`PacketWords` makes the packets of the generators as sequences of course and
event words and reads their times in the three ways of the code (`EventTimes`
of the coordinator, `ParserTimes` of `data_word.py`, `RawTimes` of
`tristan_parse_raw_h5.py`). `PacketSenders` has the five programs as variants of
one thread for each port, where they differ in an action of their own
(`SimulatorDelay`, `GeneratorDelay`, `ReplayDelay`, ...). `counter` is
`_sent_packets`, read and written in two steps under `_mutex`. A replay reads a
small capture of its own or the datagrams that a generator has just sent.

## Runs

| Run | Instance | Shows |
|---|---|---|
| `FrameDecoder` | 2 buffers, 2 packets a frame, 5 arrivals; 76,634 states | ownership of buffers, room, freshness of frame numbers, what is lost with an idle packet, buffers not changed under the reader, refinement of `PacketStream`, delivery |
| `FrameDecoder_DropEndsWithFrame` | the same | violated: after a whole frame was lost, the next one is lost too while a buffer is free |
| `FrameDecoder_IdleDetected` | the same | violated: an idle packet is lost while a buffer is free |
| `ProcessCoordinator` | 2 slices a wrap, blocks of 2 wraps, wraps 0..4, 4 packets in frames of 1 or 2, none, 1 or 3 wraps late; 598,366 states | counts, order, no loss, blocks, frame numbers, end of an acquisition; flushed wraps stay flushed |
| `ProcessCoordinator_Reopened` | 1 slice a wrap, up to 2 wraps late | violated: a flushed wrap is opened again |
| `ProcessPlugin` | event mode with 4 packets over wraps 0..2, up to 2 wraps late, index modulo 4; two images of 2 and 1 packets, each delivered up to twice; raw packets of 2 words; 4 frames of data in all, modes changed at any time; 3,402,460 states | the array of counts is not overrun, images are whole, nothing taken is kept back, the end is notified |
| `PluginConfiguration_WhileWriting` | 2 datasets, 3 jobs, one message | violated: a configuration is applied while an acquisition is written |
| `WorkerPool` | 3 packets, 2 workers, 2 job objects at the start, 2 frames; 86,877 states | one user per job, packets in place, buffer not read after gathering, gathering ends |
| `ControlSystem` | a tree of 2 leaves, PUTs of a start, a stop, a leaf, a branch and a path below a leaf, 1 poll, 1 packet, 2 queued messages each way, 2 of PUTs and faults; 257,719 states | a start answered without error ran, replies match, completion is never early, PUTs are answered, what clients read converges, runs end |
| `ControlSystem_RunWhenArmed` | two PUTs of a start or of `command/arm`, no faults | violated: the run command reaches a detector that is not armed |
| `Reconstruction` | 2 modules of 2 processors, 2 blocks of 2 slices, up to 1 event of a module in a slice, up to 2 of the first; events at one of 3 times in a slice; Timepix: up to 2 files, slices of 2 or 3 events, blocks of 7, 14 events; 535,608 states | the virtual datasets have every event at its place, what the tester reports, the monitor ends |
| `PacketSenders` | 3 ports, up to 3 slices, captures of up to 4 datagrams, Timepix streams of up to 6 words, 1 send fails; 483,347 states | slices in turn and in order, the counter, times of events, idle packets around the data |

Why the bounds are enough.

- Decoder: two buffers are the least with which one frame can be open while
  another is downstream, and with which the queue can be empty in front of an idle
  packet; five arrivals give two frames, an idle packet and two packets behind
  it, so that a shortage, its end, and the next acquisition all happen.
- Coordinator: wraps 0..4 with blocks of two give published, skipped and pending
  blocks in one acquisition, a predecessor that comes late, gaps, and a packet
  three wraps late that is stale; two wraps late is the case of
  `ProcessCoordinator_Reopened`. The contents of a packet (with `FrameQty` 3)
  make jobs that fit, that fill a frame exactly and that are split. An
  acquisition may follow another, for any number of times, because the
  histories start afresh with the first frame after an idle one. In
  `ProcessPlugin`, `Word` 4 makes the index wrap within a few wraps, which is
  what a packet two wraps late leads to.
- Plugin: four frames are two of one mode around two of another; two images
  are the least that interleave and of which the later one can be complete
  first; two copies of each packet let an image be sent twice.
- Pool: two workers finish in either order, three packets are more than the two
  initial jobs so that new objects are created, and the second frame uses them
  again.
- Control: two events are two PUT requests that follow each other, or one and a
  fault; `MaxPolls` 1 lets a loop end for either reason; the update thread runs
  as often as it likes. Seven identifiers are more than can be in use.
- Reconstruction: two modules and two processors have every case of the offset,
  two blocks let messages cross; counts of zero leave raw files and slices
  empty; a count of two (in one slice, `FewEvents`) is the least with a first and
  a last event at different times and fills the frame of a raw file, and three times
  let a single event of another module come before, within or behind it; seven events are no multiple of a slice, so
  that a virtual dataset ends within one.
- Senders: with three ports and up to three slices every port has its turn and a
  port may have nothing to send; packets of three events with `Quarter` 4 cross
  a quarter and the range of the fine timestamp.

`CHECK_DEADLOCK` is off in the runs: the models stop where their bound on
arrivals is reached with nothing left to do (and where a duplicate halts the
thread).

Fairness.

- Decoder: time passes (an open frame becomes overdue), the reactor runs its
  timer, and the processor gives buffers back; packets need never arrive.
- Pool: the plugin's thread goes on, and each worker does, which is what threads
  that block on a queue with a notified condition do; frames need never arrive.
- Control: `WF` for the threads of the detector and its restart. `SF` for the
  PUT and the update thread: `_comms_lock` is an `RLock`, which is not fair, so
  that a thread's step is disabled again and again; but the update thread sleeps
  between two rounds, and a thread that waits gets the lock in the end. Clients
  need not do anything, and faults never have to happen.
- Timepix: parser and monitor run. Senders: each thread runs, and a program that
  loads a capture goes on to send it.
- Coordinator and plugin: safety only.

### Findings

1. Packets are dropped beyond the frame that found no buffer, with buffers free
   again: the decoder looks for one only when the frame number changes, and a
   dropped packet is not counted, so the number never moves on until an idle
   packet comes (`LATRDFrameDecoder.cpp:154`, log lines 160, "for this frame", and
   173).
2. An idle packet lost for want of a buffer leaves the decoder at frame number 0
   with an idle scratch header; all later packets are lost until a restart
   (`:274`, comment 281-282). `LostIdle` says precisely when this is, and is
   proved.
3. A packet of the previous wrap moves `current_ts_wrap_` back, and a packet of
   a flushed wrap then opens it again (`LATRDProcessCoordinator.cpp:356`,
   comments 360 and 390). With packets at most one wrap late it cannot happen,
   which is proved (`FlushIsFinal`): the order of the datasets, the counts and the
   completeness of an acquisition rest on it.
4. The start sequence polls the status that the update thread left before the
   arm command: after an earlier arm the run command is sent at once, while the
   detector is arming (`tristan_control_adapter.py:536`, comment 546). The run
   can then begin with a packet counter that the arming thread still resets, and
   never end; `RunEnds` excepts such runs (`disturbed`).
5. `process` is applied to one buffer after another while an acquisition is being
   written (`LATRDProcessPlugin.cpp:209`, comment 193), so that frame numbers of
   one dataset, or of two datasets of one event, belong to different ranks.

## Proofs

| Theorem | Statement |
|---|---|
| `FrameDecoderProofs!Invariant` | `Spec => []IInv` |
| `TypeCorrect`, `Ownership`, `TargetOwned`, `RoomForPacket`, `IdleLost` | `TypeOK`, `BufferOwnership`, `WriteTargetOwned`, `OpenFrameHasRoom`, `LostIdle` |
| `ReadersUndisturbed` | `DownstreamStable` |
| `ImplementsStream`, `PacketsConserved` | `Spec => StreamSpec`, and with it `Conserved` and `InOrder` of `PacketStream` |
| `NumbersFresh` | `FrameNumbersFresh` |
| `ProcessCoordinatorProofs!Invariant` | `Spec => []IInv` |
| `TypeCorrect`, `CountsBounded`, `FramesContiguous` | `TypeOK`, `CountsInArray`, `FramesInterleave` |
| `FlushIsFinal` (a), `BlocksOrdered` (a, b) | `FlushedStaysFlushed`, `BlocksInOrder` |
| `StreamsOrdered`, `PointsKept`, `AcquisitionEnds` (a) | `StreamOrdered`, `NothingLost`, `AcquisitionComplete` |
| `CountsAgree` (a, b) | `CountsMatchStream` |
| `ProcessPluginProofs!RunsCoordinator`, `PluginCountsBounded` | `PluginSpec => Spec`, `CountsInArray` |
| `EndIsNotified`, `ImagesAreWhole`, `PacketsAreKept` (c) | `EndNotified`, `ImagesWhole`, `PacketsKept` |
| `WorkerPoolProofs!Invariant` | `Spec => []IInv` |
| `TypeCorrect`, `ExclusiveUse`, `InPlace`, `FrameReleased` | `TypeOK`, `OneUser`, `PacketsInPlace`, `FrameNotRead` |
| `ControlSystemProofs!Invariant` | `Spec => []IInv` |
| `TypeCorrect`, `LockExclusive` | `TypeOK`, `LockOwned` |
| `OkRan`, `RepliesOwn`, `CompleteAfterEnd` | `OkMeansRan`, `RepliesMatched`, `NotCompleteEarly` |
| `TimepixProofs!InvariantHolds` | `TimepixSpec => [](ParserInv /\ MonitorInv)` |
| `DatasetsMatch` | `VdsMatchesRaw` |
| `PacketSendersProofs!AllAreCounted` | `CountsSent` |

Some need more than the assumptions on the constants, and say so in their
statement.

- (a) `2 \notin Lateness`: no packet is exactly two wraps behind the newest. One
  wrap late is what the code is written for (the comment at
  `LATRDProcessCoordinator.cpp:390`), three or more are refused; two are
  finding 3, and `ProcessCoordinator_Reopened` shows that the theorems fail
  without the assumption.
- (b) `(MaxWrap + 1) * NumBuffers < Word`: the index of a slice fits its 32 bits,
  that is, an acquisition has fewer than 2^30 wraps. Without it the indices
  published start again from zero and are not in order.
- (c) `FrameQty >= 2`: a frame has room for the two words of a raw packet.

The run `ProcessCoordinator` is an instance of (a) and (b), `ProcessPlugin` of (c).
`CountsBounded`, `EndIsNotified`, `ImagesAreWhole` and the rest need neither (a) nor (b): the run
`ProcessPlugin` has packets two wraps late and an index that wraps.

Assumptions. Decoder: the set of buffers is finite and not empty, the scratch
buffer is none of them, a frame has at least one packet. Coordinator: sizes are
positive; `Word` is a multiple of the slices in a wrap and exceeds a block (2^32,
4 and 40 in the code); the rank is below the number of processes; a packet
decodes to at most `FrameQty` points (at most 1,024 words against 2,097,152 in
the code). Pool: a frame has at least one packet. Control: the channel holds at
least one message each way, and there are more than `2 * Capacity + 2`
identifiers, which is all that can be in use; nothing is assumed of how many
faults there are, nor of the trees. Count mode: images are numbered, and each has
a last packet; nothing is assumed of how often or in which order packets
come. Timepix: a block of the monitor has more events than one slice of every
file together (`block_size` 50000, two files, slices of at most 20000 events), and
the samples are a whole number of blocks. TLC evaluates the assumptions in the
runs of these modules.

The argument for the decoder. None of the properties is inductive alone:
ownership needs that the write target is the mapped buffer of the frame last
seen, for otherwise a completing packet would hand over a buffer it does not
own; that needs that at most the current frame is open, and that no frame is open
while packets are dropped; and that needs the room in the open frame and what
the idle number stands for (`LostIdle`). `IInv` is their conjunction with the
types, and there is one lemma per action. For the refinement the batch of
`PacketStream` is the sequence of packets the open frame holds (`Pending`), what was
delivered is that of the frames handed over, one after another (`Delivered`),
and each handler adds to the batch, hands it over or loses a packet; an idle packet
may do two of these at once, and must then hand over the open frame before its
own. `InOrder` is a consequence of `PacketStream` alone, whose packets
arrive in the order of their numbers.
`NumbersFresh` needs that the frames handed over since the last idle frame are
numbered below the current one, or equal to it after a timeout (`NumbersInv`).

The argument for the coordinator. `IInv` joins the types with `FramesInterleave`
and `CountsInArray` and three facts they rest on: `SlotsAccepted` (what lies in a
slot was accepted, so it is finite), `Quiet` (what is empty between frames and between
acquisitions) and `FramesCounted` (the frame number of a buffer is the number of
frames its dataset has). `CountsInArray` follows because `Word` and the block are
multiples of `NumBuffers`, so that the unsigned difference is too, also when it
has wrapped: an aligned place below the end of the array has room for a whole
wrap.

The argument for the order of wraps. The invariants after this are about a
number `n` that is no variable of the model, the highest wrap met so far
(`HorizonAt`): the wrap last opened is `n` or `n - 1`, a flushed wrap is at least
two behind it, and no job still in hand is exactly two behind it or behind a job
before it. Each step gives an `n` for the state after it that is not lower
(`Further`), so a flushed wrap is behind every wrap that can still be opened.
`BlocksAt(n)` adds that every published block lies below the pending one, and
that the pending one begins at or before every wrap that is in the store or may
still be opened: whichever blocks the loop of `update_time_slice_meta_data` then
publishes or skips, the next one begins where they end.

The argument for the stream. What a dataset gets is `Expanded`, the points of
the jobs on their way, after what is `Pushed` and what the buffer holds.
`AppendJob` moves points from one to the next and `EndIdle` pushes the buffer, so
neither changes the stream; only a wrap that leaves the store does, at its end.
`StreamsHold` says that the stream is ordered, that every job in it is older than
all wraps in the store, and how often each accepted job is in it. A
wrap that leaves is the oldest and its jobs come out in the order of slots and
packet numbers (`SlotOrderFacts`).

Induction. The proofs about the stream, count mode and Timepix need that `FlattenSeq` of a
sequence with one more element is what it was followed by that element. It is
defined by recursion, and the induction theorems of the library cannot be
applied, but an induction over the *set* of sequences or numbers for which a
formula holds can be stated without an operator: `LeastNumber` finds a least
number from the well-foundedness of the inclusion of finite sets (a library
theorem with no operator parameter), `AllNumbers` and `AllSequences` follow. `SequenceLemmas` has these, and from them `FlattenAppend`,
`CountAppend` and the sums over finite sets (`SumOfRemove`, `SumOfChange`).

The argument for the counts. A slice is covered by at most one published block
because they are in order, so that the sum over blocks is one number or zero
(`SumOver`); publishing or skipping a block moves its counts from the array to
the messages and leaves `Total` as it was. `EventsCounted` is the missing link: the
count of events in a slot is the number of points its jobs bring to the stream.
When a wrap is flushed its slots add to the array where there was zero, and their
jobs to the stream where there was none.

The argument for the plugin. Every step of the plugin takes a step of the
coordinator or leaves it alone, so what is proved of the one holds in the other.
That the idle frame notifies the end is not seen from the coordinator alone: until
an idle frame, the jobs of the newest wrap are in the store (`NewestKept`), for only
older wraps are flushed, however late packets are; while it is handled, a point of
them is in the store, in a job or in a buffer, or a frame was returned since
(`OnTheWay`); and at its end only the frames are left. Raw words: the frames pushed
and the buffer together hold what was taken (`InRaw`), and each operation of a
buffer keeps that.

The argument for count mode. `Assembling` relates the store of images, the images
sent and how often each packet came, and is kept by every packet of a frame, not
only by the frame (`FoldLeft` is one packet after another). The pixels of a packet
in the images sent and, while it is not sent, in the stored image are at most its
copies and at least one if there is any (`PixelsKept`); a stored image that is
marked as sent was sent (`SentWhole`), so that deleting it loses nothing. An image
that is sent again was deleted before, which takes its last packet, and cannot be
complete again before that packet has come again: `EndsCounted` counts the copies
of the packet that ends an image, and that is the packet which `ImagesWhole` says
was delivered twice. `ImagesWhole` speaks of the images sent before the
idle frame, which sends incomplete images too.

The argument for Timepix. The parser writes a slice to each file in turn, so in
round `R` the files in front of the current one have `R + 1` marked slices and
those behind it `R` (`Rounds`). An event is numbered by its place in its file and
the events of the other files in front of its slice, which their markers tell
(`Placed`); what is written later does not change these. The monitor takes
slices in the same turn (`Turns`), and the events it has taken of all files add
up to `taken` (`Taken`), so the event it takes next has the next number, also
when a block ends within a slice (`Pointers`). It must not read the zero with which
a new index dataset starts as a marker: when the monitor finds a whole block, each
file has a marker (`Looks`), for without one there is less than a slice of every
file. That is what the assumption on the size of a block is for.

The argument for the pool. The dispatching thread only counts, so the question
is why a count of `NumPackets` means that no job is under way. `NoJob` and
`Done` are the packets that made no job and those that were gathered: two
disjoint sets, whose sizes are the two counters (`Counted`). A job under way is
for an event packet that is in neither (`Flying`), and no two are for the same
packet (`FlyingApart`); when the sizes add up to all packets there is none left.
`Apart` and `NoneTwice` are `OneUser` in a form that each step can be checked
against, `Decoded` says what a queued result holds, `Placed` and `Positions`
what was gathered and where the thread is.

The argument for control. Replies: a new identifier is fresh because identifiers
in use are fewer than `Ids` (a fact about cardinalities), so a message held and
what the channel still has of other messages never share one (`Apart`), unless
two threads took the same (`collided`). A start that ran: from the moment
the arm command is sent, a status request that can still be answered was made
after the PUT request came (`ReplyRan`), and the state last seen is therefore
either old and not "running" any more when the run command is made, or of this
request (`SeenRan`). Completion: the update thread holds the lock from its
status request to the end of its round, so nothing is sent behind the request
(`AskedLast`), and no run can start between the answer and its use (`ReplyIdle`,
`SeenIdle`, `Quiet`), which is as late as `SetComplete`. Messages carry trees of any kind, so the channel is a
sequence over some set and the proofs are about untyped sequences. The types
(`TypeOK`) follow from the same invariant and the fields of the messages in the
channel.

The argument for the counter of the simulator. A thread that has read the counter
has the lock until it has written it (`OneReader`), so what it adds one to is
still the counter. What is added up is the number of data packets on each
wire, so the proof also needs that an idle packet is told from one of data by its header
(`IdleIsNoData`, `PacketIsData`, for every slice and number of words).

Only model-checked: `SentInTurn` (it is stated with `SelectSeq`,
whose definition the provers do not expand), `DecodedTimes` (words are
bit fields made with powers of two, and read back by folds over sequences),
`VdsComplete` and `TesterPasses` (the virtual datasets are given by the headers
of a closed file and checked against all counts at once; the inductive invariant of the
writer, across the messages of all ranks, is not written).
Liveness (`TakenIsDelivered`, `FrameGathered`, `PutAnswered`, `ViewConverges`,
`RunEnds`, `MonitorEnds`, `IdleEnds`) and `ENABLED` are out of the prover's reach.

## Not modelled

- Statistics, logging, the version accessors and the `daq_version` message of
  the processors; the size of the sensor and the acquisition identifier; cue words
  and the fields of an event besides its time.
- Buffers smaller than the points of one packet (`frame_qty`): the code then
  copies past the end of memory, and nothing can be said of the state after it.
- The engineering commands of the adapter, which go the way of any other PUT; the
  timers of the reactor, which nothing registers.
- The timestamp manager, which nothing uses; the meta writer's HTTP adapter,
  which forwards parameters; command line tools, performance programs and other
  scripts, which keep no state; `versioneer.py` and the generated `_version.py`,
  which are third-party.
- odin-data itself (receiver, processor, HDF5 writer, shared buffers), which is
  external and stands behind the actions that return buffers and write files.

## Plan

1. The meta writer and the virtual datasets, from the order of blocks that
   `BlocksOrdered` proves of each processor; sums over blocks as in
   `CountsAgree`.
2. The turns of `PacketSenders` (`SentInTurn`), with
   lemmas about `SelectSeq` like those about `FlattenSeq`.
3. Refinement: an abstract stream of slices that `ProcessCoordinator` implements,
   and `WorkerPool` as the implementation of its `StartFrame`.
