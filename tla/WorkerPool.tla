----------------------------- MODULE WorkerPool -----------------------------
(***************************************************************************)
(* How LATRDProcessCoordinator decodes the packets of one frame on several *)
(* threads.  The plugin's thread takes a job object for every event packet *)
(* of the frame and queues it (jobQueue_); worker threads decode the words *)
(* that the job points to, which lie in the frame's own buffer, and queue  *)
(* the job again (resultsQueue_); the plugin's thread waits for all of     *)
(* them, orders them by packet, and hands them to the time slice store,    *)
(* from which they come back to the stack of job objects.                  *)
(*                                                                         *)
(* What the store does with a job is ProcessCoordinator; here it keeps it, *)
(* loses it (a stale packet) or gives it back.  A WorkQueue is a queue     *)
(* whose remove blocks while it is empty.                                  *)
(***************************************************************************)
EXTENDS Integers, Sequences, FiniteSets

CONSTANTS
  NumPackets,        (* num_primary_packets: packets in a frame               *)
  InitialJobs,       (* job objects on the stack at the start                 *)
  Workers,           (* the threads that run processTask                      *)
  MaxFrames          (* bound of the model: frames of data                    *)

ASSUME PacketsAssumption == NumPackets \in Nat \ {0}
ASSUME JobsAssumption == InitialJobs \in Nat
ASSUME FramesAssumption == MaxFrames \in Nat

VARIABLES
  pc,                (* where process_frame is                                *)
  frameNo, frame,    (* the frame in hand, and the kind of each packet        *)
  index,             (* loop counter of the dispatch                          *)
  dropped,           (* dropped_packets: packets that make no job             *)
  processed,         (* processed_jobs                                        *)
  completed,         (* completed_jobs: packet -> job, or None                *)
  job,               (* the fields of each job object                         *)
  stack,             (* jobStack_                                             *)
  jobQueue, resultsQueue,
  working,           (* the job each worker is decoding, or None              *)
  held               (* jobs in the time slice store                          *)

gathering == <<dropped, processed, completed>>
queues == <<jobQueue, resultsQueue>>
vars == <<pc, frameNo, frame, index, gathering, job, stack, queues, working, held>>

Kinds == {"missing", "event", "count"}
Packets == 1..NumPackets
None == 0
NoData == <<0, 0>>
Blank == [id |-> None, data |-> NoData, results |-> NoData]
Created == DOMAIN job

Init ==
  /\ pc = "idle"
  /\ frameNo = 0
  /\ frame = [p \in Packets |-> "missing"]
  /\ index = 1
  /\ dropped = 0
  /\ processed = 0
  /\ completed = [p \in Packets |-> None]
  /\ job = [o \in 1..InitialJobs |-> Blank]
  /\ stack = [i \in 1..InitialJobs |-> i]
  /\ jobQueue = <<>>
  /\ resultsQueue = <<>>
  /\ working = [t \in Workers |-> None]
  /\ held = {}
-----------------------------------------------------------------------------
(* The plugin's thread.                                                      *)

StartFrame ==
  /\ pc = "idle" /\ frameNo < MaxFrames
  /\ pc' = "dispatch"
  /\ frameNo' = frameNo + 1
  /\ frame' \in [Packets -> Kinds]
  /\ index' = 1
  /\ dropped' = 0
  /\ processed' = 0
  /\ completed' = [p \in Packets |-> None]
  /\ UNCHANGED <<job, stack, queues, working, held>>

IsDroppedIfMissing(kind) == kind = "missing"        \* mutant: wrong mode not counted
IsDropped(kind) == kind # "event"

DropPacket ==
  /\ pc = "dispatch" /\ index \in Packets /\ frame[index] # "event"
  /\ dropped' = IF IsDropped(frame[index]) THEN dropped + 1 ELSE dropped
  /\ index' = index + 1
  /\ UNCHANGED <<pc, frameNo, frame, processed, completed, job, stack, queues, working, held>>

(* getJob: the top of the stack, or a new object when the stack is empty.    *)
NextJob == IF stack = <<>> THEN Cardinality(Created) + 1 ELSE stack[Len(stack)]
StackKept == stack                                  \* mutant: top not popped
StackPopped == IF stack = <<>> THEN stack ELSE SubSeq(stack, 1, Len(stack) - 1)

DispatchJob ==
  /\ pc = "dispatch" /\ index \in Packets /\ frame[index] = "event"
  /\ job' = [o \in Created \cup {NextJob} |->
               IF o = NextJob
               THEN [id |-> index, data |-> <<frameNo, index>>, results |-> NoData]
               ELSE job[o]]
  /\ stack' = StackPopped
  /\ jobQueue' = Append(jobQueue, NextJob)
  /\ index' = index + 1
  /\ UNCHANGED <<pc, frameNo, frame, gathering, resultsQueue, working, held>>

EndDispatch ==
  /\ pc = "dispatch" /\ index > NumPackets
  /\ pc' = "gather"
  /\ UNCHANGED <<frameNo, frame, index, gathering, job, stack, queues, working, held>>

WaitingOneLess == processed + dropped + 1 < NumPackets   \* mutant: one job not waited for
Waiting == processed + dropped < NumPackets
PlaceOfArrival(o) == processed + 1                  \* mutant: in order of completion
PlaceOf(o) == job[o].id

GatherJob ==
  /\ pc = "gather" /\ Waiting /\ resultsQueue # <<>>
  /\ completed' = [completed EXCEPT ![PlaceOf(Head(resultsQueue))] = Head(resultsQueue)]
  /\ processed' = processed + 1
  /\ resultsQueue' = Tail(resultsQueue)
  /\ UNCHANGED <<pc, frameNo, frame, index, dropped, job, stack, jobQueue, working, held>>

EndGather ==
  /\ pc = "gather" /\ ~Waiting
  /\ pc' = "store"
  /\ UNCHANGED <<frameNo, frame, index, gathering, job, stack, queues, working, held>>

(* Each job is put in the store, or is stale and let go.                     *)
StoreJobs ==
  /\ pc = "store"
  /\ \E stored \in SUBSET ({completed[p] : p \in Packets} \ {None}) : held' = held \cup stored
  /\ pc' = "release"
  /\ UNCHANGED <<frameNo, frame, index, gathering, job, stack, queues, working>>

(* releaseJob, for a job whose data has been appended.                       *)
ReleaseJob ==
  /\ pc = "release"
  /\ \E o \in held :
       /\ job' = [job EXCEPT ![o] = Blank]
       /\ stack' = Append(stack, o)
       /\ held' = held \ {o}
  /\ UNCHANGED <<pc, frameNo, frame, index, gathering, queues, working>>

EndFrame ==
  /\ pc = "release"
  /\ pc' = "idle"
  /\ UNCHANGED <<frameNo, frame, index, gathering, job, stack, queues, working, held>>
-----------------------------------------------------------------------------
(* processTask: the counts of the job are zeroed before its words are read.  *)

TakeJob(t) ==
  /\ working[t] = None /\ jobQueue # <<>>
  /\ working' = [working EXCEPT ![t] = Head(jobQueue)]
  /\ job' = [job EXCEPT ![Head(jobQueue)].results = NoData]
  /\ jobQueue' = Tail(jobQueue)
  /\ UNCHANGED <<pc, frameNo, frame, index, gathering, stack, resultsQueue, held>>

FinishJob(t) ==
  /\ working[t] # None
  /\ job' = [job EXCEPT ![working[t]].results = job[working[t]].data]
  /\ resultsQueue' = Append(resultsQueue, working[t])
  /\ working' = [working EXCEPT ![t] = None]
  /\ UNCHANGED <<pc, frameNo, frame, index, gathering, stack, jobQueue, held>>

Process ==
  \/ DropPacket \/ DispatchJob \/ EndDispatch \/ GatherJob \/ EndGather
  \/ StoreJobs \/ ReleaseJob \/ EndFrame

Work(t) == TakeJob(t) \/ FinishJob(t)

Next == StartFrame \/ Process \/ \E t \in Workers : Work(t)

Spec == Init /\ [][Next]_vars
FairSpec == Spec /\ WF_vars(Process) /\ \A t \in Workers : WF_vars(Work(t))
-----------------------------------------------------------------------------
Data == {NoData} \cup ((1..MaxFrames) \X Packets)

(* Types, and the shape of the job objects: they are 1, 2, ... as created,   *)
(* and one that lies on the stack has been reset (releaseJob).               *)
TypeOK ==
  /\ pc \in {"idle", "dispatch", "gather", "store", "release"}
  /\ frameNo \in 0..MaxFrames
  /\ frame \in [Packets -> Kinds]
  /\ index \in 1..NumPackets + 1
  /\ dropped \in Nat /\ processed \in Nat
  /\ IsFiniteSet(Created) /\ Created = 1..Cardinality(Created)
  /\ job \in [Created -> [id : {None} \cup Packets, data : Data, results : Data]]
  /\ completed \in [Packets -> {None} \cup Created]
  /\ \A i \in DOMAIN stack : job[stack[i]] = Blank
  /\ stack \in Seq(Created) /\ jobQueue \in Seq(Created) /\ resultsQueue \in Seq(Created)
  /\ working \in [Workers -> {None} \cup Created]
  /\ held \subseteq Created

InSeq(o, s) == \E i \in DOMAIN s : s[i] = o
Once(s) == \A i, k \in DOMAIN s : s[i] = s[k] => i = k
Gathered(o) == pc \in {"dispatch", "gather", "store"} /\ \E p \in Packets : completed[p] = o
Decoding(o) == \E t \in Workers : working[t] = o

Users == {"stack", "jobQueue", "resultsQueue", "worker", "completed", "store"}
Uses(user, o) ==
  \/ user = "stack" /\ InSeq(o, stack)
  \/ user = "jobQueue" /\ InSeq(o, jobQueue)
  \/ user = "resultsQueue" /\ InSeq(o, resultsQueue)
  \/ user = "worker" /\ Decoding(o)
  \/ user = "completed" /\ Gathered(o)
  \/ user = "store" /\ o \in held

(* A job object has one user at a time: it is on the stack, queued, with one *)
(* worker, gathered or in the store, in no two of these and in none twice.   *)
(* Two threads never write to the arrays of one job (getJob, releaseJob).    *)
OneUser ==
  /\ Once(stack) /\ Once(jobQueue) /\ Once(resultsQueue)
  /\ \A t, u \in Workers : working[t] = working[u] /\ working[t] # None => t = u
  /\ \A o \in Created : \A a, b \in Users : Uses(a, o) /\ Uses(b, o) => a = b

(* However the workers interleave, each event packet of the frame ends up as *)
(* the job at its own place, decoded from its own words (frame_to_jobs).     *)
PacketsInPlace ==
  pc = "store" =>
    \A p \in Packets :
      /\ completed[p] # None <=> frame[p] = "event"
      /\ completed[p] # None => /\ job[completed[p]].id = p
                                /\ job[completed[p]].results = <<frameNo, p>>

(* No worker reads the frame's buffer once the frame has been gathered: the  *)
(* buffer may go back to the frame receiver when process_frame returns.      *)
FrameNotRead ==
  pc \notin {"dispatch", "gather"} =>
    jobQueue = <<>> /\ resultsQueue = <<>> /\ \A t \in Workers : working[t] = None

(* Every frame is gathered: the count of packets that make no job and the    *)
(* count of results always meet, and nobody waits for the other forever.     *)
FrameGathered == pc = "dispatch" ~> pc = "store"
=============================================================================
