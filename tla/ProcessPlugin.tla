--------------------------- MODULE ProcessPlugin ---------------------------
(***************************************************************************)
(* LATRDProcessPlugin: hands each frame to the coordinator (event mode),   *)
(* to the integral (count mode) or to a buffer of raw words, pushes the    *)
(* frames it gets back, and tells the chain of plugins when an acquisition *)
(* has ended.                                                              *)
(*                                                                         *)
(* process_frame runs in the plugin's thread and reads raw_mode_ and mode_ *)
(* once, when it starts.  configure runs in another thread and holds a     *)
(* mutex that process_frame does not take, so that the mode changes at any *)
(* time, also while the coordinator is at work on a frame or in the middle *)
(* of an acquisition.  time_energy and time_only are one mode: no code     *)
(* tells them apart.  What configure does to the buffers of the            *)
(* coordinator is in PluginConfiguration.                                  *)
(*                                                                         *)
(* Packets of the other mode are dropped by the coordinator and by the     *)
(* integral and are not sent here.  The clock that an idle frame is        *)
(* compared with is left out: the last one may be over 1500 ms ago or not. *)
(***************************************************************************)
EXTENDS ProcessCoordinator, ProcessIntegral, DataBuffer

CONSTANTS
  MaxFrames          (* bound: frames of data, in all modes together          *)

VARIABLES
  mode,              (* mode_                                                 *)
  rawMode,           (* raw_mode_                                             *)
  rawBuffer,         (* rawBuffer_                                            *)
  rawOpen,           (* history: no idle frame has ended the raw acquisition  *)
  rawTaken,          (* history: packets taken in this raw acquisition        *)
  rawFrames,         (* history: frames pushed in it                          *)
  before,            (* frames the coordinator had returned before idle       *)
  notified,          (* history: the last idle frame told the end             *)
  taken              (* history: frames of data taken                         *)

rawPushed == <<rawOpen, rawTaken, rawFrames>>
raw == <<rawBuffer, rawPushed>>
modes == <<mode, rawMode>>
ends == <<before, notified>>
plugin == <<vars, integral, modes, raw, ends, taken>>

(* A raw packet has a header word and a data word.                           *)
Words(n) == <<[packet |-> n, word |-> 1], [packet |-> n, word |-> 2]>>

PluginInit ==
  /\ Init /\ IntegralInit
  /\ mode = "event" /\ rawMode = FALSE
  /\ rawBuffer = ForProcess(Buffer(FrameQty), Processes, Rank)
  /\ rawOpen = FALSE /\ rawTaken = 0 /\ rawFrames = <<>>
  /\ before = 0 /\ notified = FALSE /\ taken = 0
-----------------------------------------------------------------------------
(* configure: mode, raw_mode and reset_frame.  An unknown mode is logged.    *)

SetMode(m) ==
  /\ mode' = m
  /\ UNCHANGED <<vars, integral, rawMode, raw, ends, taken>>

SetRawMode(on) ==
  /\ rawMode' = on
  /\ UNCHANGED <<vars, integral, mode, raw, ends, taken>>

ResetFrame ==
  /\ rawBuffer' = NumberReset(rawBuffer)
  /\ UNCHANGED <<vars, integral, modes, rawPushed, ends, taken>>

Configure ==
  \/ \E m \in {"event", "count"} : SetMode(m)
  \/ \E on \in BOOLEAN : SetRawMode(on)
  \/ ResetFrame
-----------------------------------------------------------------------------
(* process_frame in event mode: the steps of the coordinator, and the end of *)
(* the acquisition when its idle frame returned frames or came late.         *)

NextFrame == taken < MaxFrames /\ taken' = taken + 1

Returned == Len(frames["event"]) + Len(frames["cue"])

EventFrame ==
  /\ ~rawMode /\ mode = "event"
  /\ NextFrame
  /\ StartFrame
  /\ UNCHANGED <<integral, modes, raw, ends>>

EventIdle ==
  /\ ~rawMode /\ mode = "event"
  /\ StartIdle
  /\ before' = Returned
  /\ UNCHANGED <<integral, modes, raw, notified, taken>>

IdleDone == pc = "purgeAppend" /\ pc' = "ready"

Coordinate ==
  /\ Step /\ ~IdleDone
  /\ UNCHANGED <<integral, modes, raw, ends, taken>>

FlushedBuffers(n) == \E s \in Streams : Len(frames'[s]) > Len(frames[s])  \* mutant: purged jobs forgotten
FlushedFrames(n) == Len(frames'["event"]) + Len(frames'["cue"]) > n

EndAcquisition ==
  /\ EndIdle
  /\ \E late \in BOOLEAN : notified' = (FlushedFrames(before) \/ late)
  /\ UNCHANGED <<integral, modes, raw, before, taken>>
-----------------------------------------------------------------------------
(* process_frame in count mode.                                              *)

CountData ==
  /\ pc = "ready" /\ ~rawMode /\ mode = "count"
  /\ NextFrame
  /\ \E n \in 1..MaxPerFrame : \E arrived \in [1..n -> Packets] : TakeCounts(arrived)
  /\ UNCHANGED <<vars, modes, raw, ends>>

CountEnd ==
  /\ pc = "ready" /\ ~rawMode /\ mode = "count"
  /\ EndCounts
  /\ UNCHANGED <<vars, modes, raw, ends, taken>>
-----------------------------------------------------------------------------
(* process_raw: the words of a packet, and what is left on an idle frame.    *)

RawPacket == IF rawOpen THEN rawTaken + 1 ELSE 1
RawBefore == IF rawOpen THEN rawFrames ELSE <<>>

RawData ==
  /\ pc = "ready" /\ rawMode
  /\ NextFrame
  /\ rawOpen' = TRUE /\ rawTaken' = RawPacket
  /\ rawFrames' = RawBefore \o AppendedFrames(rawBuffer, Words(RawPacket))
  /\ rawBuffer' = AfterAppend(rawBuffer, Words(RawPacket))
  /\ UNCHANGED <<vars, integral, modes, ends>>

RawEnd ==
  /\ pc = "ready" /\ rawMode
  /\ rawOpen' = FALSE
  /\ rawFrames' = rawFrames \o Retrieved(rawBuffer)
  /\ rawBuffer' = AfterRetrieve(rawBuffer)
  /\ UNCHANGED <<vars, integral, modes, rawTaken, ends, taken>>

ProcessFrame ==
  \/ EventFrame \/ EventIdle \/ Coordinate \/ EndAcquisition
  \/ CountData \/ CountEnd
  \/ RawData \/ RawEnd

PluginNext == Configure \/ ProcessFrame
PluginSpec == PluginInit /\ [][PluginNext]_plugin
-----------------------------------------------------------------------------
(* A complete image is whole: every packet of it that has pixels is in it,   *)
(* in whatever order packets of several images arrived, and it is sent once  *)
(* unless the network delivered a packet of it twice (verify_image).         *)
Whole(f) == \A n \in DOMAIN f.pixels :
              [image |-> f.number, id |-> n] \in Blank \/ f.pixels[n] > 0
ImagesWhole ==
  counting => \A n \in DOMAIN imagesSent :
    /\ Whole(imagesSent[n])
    /\ \A m \in DOMAIN imagesSent \ {n} :
         imagesSent[m].number = imagesSent[n].number =>
           \E p \in Packets : p.image = imagesSent[n].number /\ counted[p] > 1

(* What count mode or raw mode has taken is pushed by the next idle frame of *)
(* that mode, also when the mode was changed in between: the counts of a     *)
(* packet at least once and never more often than it came, the words of raw  *)
(* packets once and in order (process_frame, process_raw).                   *)
Pixels(sent, p) ==
  MapThenSumSet(LAMBDA n : sent[n].pixels[p.id], {n \in DOMAIN sent : sent[n].number = p.image})
RawPushed == FlattenSeq([n \in DOMAIN rawFrames |-> rawFrames[n].points])
CountsKept ==
  ~counting => \A p \in Packets \ Blank :
    /\ Pixels(imagesSent, p) <= counted[p]
    /\ counted[p] > 0 => Pixels(imagesSent, p) > 0
WordsKept ==
  /\ RawPushed \o rawBuffer.points = FlattenSeq([n \in 1..rawTaken |-> Words(n)])
  /\ ~rawOpen => rawBuffer.points = <<>>
PacketsKept == CountsKept /\ WordsKept

(* An acquisition whose newest wrap has a point is always notified by its    *)
(* idle frame, however soon it comes: a frame that the points just filled    *)
(* counts, although nothing is left in the buffer (process_frame).           *)
NewestHasPoints ==
  \E j \in accepted : j.wrap = newest /\ \E s \in Streams : Contents[j.num][s] > 0
EndNotified ==
  [][IdleDone /\ ~ended /\ NewestHasPoints => notified']_plugin
=============================================================================
