------------------------ MODULE PluginConfiguration ------------------------
(***************************************************************************)
(* What LATRDProcessPlugin::configure does to the dataset buffers of the   *)
(* coordinator while process_frame fills them.                             *)
(*                                                                         *)
(* configure runs in the thread of the control channel and takes mutex_;   *)
(* process_frame runs in the plugin's thread and does not.  Every buffer   *)
(* is configured, or replaced by a new one, in a step of its own, and a    *)
(* job is appended to every buffer in a step of its own, so that the steps *)
(* of the two threads interleave.  Two datasets stand for the five.  A     *)
(* buffer that is replaced while a point is copied to it is freed under    *)
(* the copy: the copy is here as if it had come before, whose points are   *)
(* lost with the buffer as well.  The sensor's size and the acquisition id *)
(* are left out.                                                           *)
(***************************************************************************)
EXTENDS DataBuffer

CONSTANTS
  FrameQty,          (* LATRD::frame_qty, the points in a frame at the start  *)
  Sizes,             (* values of frame_qty in a configuration                *)
  Places,            (* values of process: how many processes, and the rank   *)
  MaxJobs,           (* bound: jobs in an acquisition                         *)
  MaxMessages        (* bound: configuration messages                         *)

Datasets == <<"event_time_offset", "event_id">>
RawData == "raw_data"
Names == {Datasets[n] : n \in DOMAIN Datasets} \cup {RawData}

VARIABLES
  buffer,            (* the LATRDBuffer of each dataset                       *)
  frameQty,          (* frame_qty_ of the coordinator                         *)
  place,             (* concurrent_processes_ and concurrent_rank_            *)
  doing, at,         (* process_frame: what it does to the datasets, in order *)
  jobs,              (* history: jobs appended in this acquisition            *)
  todo,              (* configure: the steps that are left                    *)
  messages,          (* history: messages handled                             *)
  frames             (* history: frames pushed to each dataset in it          *)

processing == <<doing, at, jobs, frames>>
configuring == <<frameQty, place, todo, messages>>
vars == <<buffer, processing, configuring>>

Init ==
  /\ buffer = [d \in Names |-> Buffer(FrameQty)]
  /\ frameQty = FrameQty
  /\ place = [processes |-> 1, rank |-> 0]
  /\ doing = "nothing" /\ at = 0 /\ jobs = 0
  /\ todo = <<>> /\ messages = 0
  /\ frames = [d \in Names |-> <<>>]
-----------------------------------------------------------------------------
(* add_jobs_to_buffer, purge_remaining_buffers and the resets of the frame   *)
(* numbers: each goes through the datasets one by one.                       *)

Points(n) == <<[job |-> n, point |-> 1], [job |-> n, point |-> 2]>>
Dataset == Datasets[at]

Start(what) == doing = "nothing" /\ doing' = what /\ at' = 1

StartJob ==
  /\ jobs < MaxJobs
  /\ Start("append")
  /\ jobs' = jobs + 1
  /\ frames' = IF jobs = 0 THEN [d \in Names |-> <<>>] ELSE frames
  /\ UNCHANGED <<buffer, configuring>>

StartIdle ==
  /\ Start("purge")
  /\ UNCHANGED <<buffer, frames, jobs, configuring>>

(* The dataset after this one, or else what comes next.                      *)
Move(next) ==
  IF at < Len(Datasets) THEN at' = at + 1 /\ doing' = doing
  ELSE doing' = next /\ at' = IF next = "nothing" THEN 0 ELSE 1

Push(d, new) == frames' = [frames EXCEPT ![d] = @ \o new]

AppendJob ==
  /\ doing = "append"
  /\ Push(Dataset, AppendedFrames(buffer[Dataset], Points(jobs)))
  /\ buffer' = [buffer EXCEPT ![Dataset] = AfterAppend(@, Points(jobs))]
  /\ Move("nothing")
  /\ UNCHANGED <<jobs, configuring>>

PurgeBuffer ==
  /\ doing = "purge"
  /\ Push(Dataset, Retrieved(buffer[Dataset]))
  /\ buffer' = [buffer EXCEPT ![Dataset] = AfterRetrieve(@)]
  /\ Move("reset")
  /\ UNCHANGED <<jobs, configuring>>

ResetNumber ==
  /\ doing = "reset"
  /\ buffer' = [buffer EXCEPT ![Dataset] = NumberReset(@)]
  /\ Move("nothing")
  /\ jobs' = IF doing' = "nothing" THEN 0 ELSE jobs
  /\ UNCHANGED <<frames, configuring>>

ProcessFrame == StartJob \/ StartIdle \/ AppendJob \/ PurgeBuffer \/ ResetNumber
-----------------------------------------------------------------------------
(* configure: process comes before frame_qty, whatever the message says      *)
(* first.  The plugin keeps the rank and reports it; configureFrameSize      *)
(* makes new buffers, which are for rank 0 of one process.  The raw buffer   *)
(* is configured as well, and never replaced.                                *)

ForEach(step) == [n \in DOMAIN Datasets |-> [step EXCEPT !.dataset = Datasets[n]]]
ProcessStep(p) == [op |-> "process", dataset |-> RawData, place |-> p]
ProcessSteps(p) == ForEach(ProcessStep(p)) \o <<ProcessStep(p)>>
SizeSteps(n) == <<[op |-> "qty", size |-> n]>> \o ForEach([op |-> "new", dataset |-> RawData])

Message ==
  /\ todo = <<>> /\ messages < MaxMessages
  /\ messages' = messages + 1
  /\ \/ \E p \in Places : place' = p /\ todo' = ProcessSteps(p)
     \/ \E n \in Sizes : place' = place /\ todo' = SizeSteps(n)
     \/ \E p \in Places, n \in Sizes : place' = p /\ todo' = ProcessSteps(p) \o SizeSteps(n)
  /\ UNCHANGED <<buffer, frameQty, processing>>

Configure ==
  /\ todo # <<>>
  /\ todo' = Tail(todo)
  /\ LET step == Head(todo) IN
       \/ /\ step.op = "process"
          /\ buffer' = [buffer EXCEPT ![step.dataset] =
                          ForProcess(@, step.place.processes, step.place.rank)]
          /\ UNCHANGED frameQty
       \/ /\ step.op = "qty"
          /\ frameQty' = IF step.size > 0 THEN step.size ELSE frameQty
          /\ UNCHANGED buffer
       \/ /\ step.op = "new"
          /\ buffer' = [buffer EXCEPT ![step.dataset] = Buffer(frameQty)]
          /\ UNCHANGED frameQty
  /\ UNCHANGED <<place, messages, processing>>

Next == ProcessFrame \/ Message \/ Configure
Spec == Init /\ [][Next]_vars
-----------------------------------------------------------------------------
(* An acquisition is being written: a point is in a buffer, or has left in a *)
(* frame, and no idle frame has ended it.                                    *)
Writing == \E d \in Names : buffer[d].points # <<>> \/ buffer[d].number > 0

(* The comment of configureProcess: "The configuration is not applied if the *)
(* writer is currently writing."  The code does not look: the frames of the  *)
(* rest of an acquisition are numbered for another process, and the datasets *)
(* of an event change at different points.                                   *)
NotAppliedWhileWriting ==
  [][Writing => \A d \in Names : /\ buffer'[d].processes = buffer[d].processes
                                /\ buffer'[d].rank = buffer[d].rank]_vars
=============================================================================
