------------------------- MODULE ProcessPluginProofs -------------------------
(***************************************************************************)
(* Proofs about ProcessPlugin, for packets that come in any order.         *)
(*                                                                         *)
(* Whatever the modes, the coordinator takes its own steps or none, so all *)
(* that holds of it holds in the plugin.  An idle frame tells the end of   *)
(* the acquisition because the jobs of the newest wrap are in the store    *)
(* until then: while they are on the way to the datasets, a point of them  *)
(* is in the store, in a job or in a buffer, or has been pushed since.     *)
(***************************************************************************)
EXTENDS ProcessPlugin, ProcessCoordinatorProofs

LEMMA CoordinatorInit == PluginInit => Init
  BY DEF PluginInit

LEMMA CoordinatorStep == [PluginNext]_plugin => [Next]_vars
  <1>1. CASE EventFrame  BY <1>1 DEF EventFrame, Next
  <1>2. CASE EventIdle  BY <1>2 DEF EventIdle, Next
  <1>3. CASE Coordinate  BY <1>3 DEF Coordinate, Next
  <1>4. CASE EndAcquisition  BY <1>4 DEF EndAcquisition, Next, Step
  <1>5. CASE CountData \/ CountEnd \/ RawData \/ RawEnd
    BY <1>5 DEF CountData, CountEnd, RawData, RawEnd
  <1>6. CASE Configure  BY <1>6 DEF Configure, SetMode, SetRawMode, ResetFrame
  <1>7. CASE UNCHANGED plugin  BY <1>7 DEF plugin
  <1>8. QED
    BY <1>1, <1>2, <1>3, <1>4, <1>5, <1>6, <1>7 DEF PluginNext, ProcessFrame

(* The modes never make the coordinator do what it would not do alone.       *)
THEOREM RunsCoordinator == PluginSpec => Spec
  BY CoordinatorInit, CoordinatorStep, PTL DEF PluginSpec, Spec

(* So the slots of a wrap stay within the array of counts.                   *)
THEOREM PluginCountsBounded == PluginSpec => []CountsInArray
  BY RunsCoordinator, CountsBounded, PTL
-----------------------------------------------------------------------------
Purging == pc \in {"purge", "purgeAppend"}
HasPoints(j) == \E s \in Streams : Contents[j.num][s] > 0

(* Until an idle frame, the jobs of the newest wrap are in the store.        *)
NewestKept ==
  ~ended /\ ~Purging =>
    /\ currentWrap <= newest
    /\ \A i \in DOMAIN frameJobs : frameJobs[i].wrap <= newest
    /\ \A j \in accepted :
         /\ j.wrap <= newest
         /\ j.wrap = newest =>
              j.buf \in Slices /\ newest \in DOMAIN store /\ j \in store[newest][j.buf].jobs

(* A point is on its way to the datasets, or came there since the idle frame.*)
OnTheWay ==
  \/ before < Returned
  \/ \E s \in Streams : points[s] # <<>>
  \/ \E i \in DOMAIN jobs : HasPoints(jobs[i])
  \/ \E w \in DOMAIN store : \E b \in Slices : \E j \in store[w][b].jobs : HasPoints(j)

EndInSight ==
  ~ended /\ Purging => before <= Returned /\ (NewestHasPoints => OnTheWay)

EndsInv == before \in Nat /\ NewestKept /\ EndInSight

LEMMA ReturnedType ==
  ASSUME TypeOK
  PROVE  /\ \A s \in Streams : Len(frames[s]) \in Nat
         /\ Returned \in Nat
         /\ "event" \in Streams /\ "cue" \in Streams /\ \A s \in Streams : s = "event" \/ s = "cue"
  <1>1. \A s \in Streams : frames[s] \in Seq([number : Nat, points : Seq(Job)])  BY DEF TypeOK
  <1>2. \A s \in Streams : Len(frames[s]) \in Nat  BY <1>1
  <1>3. "event" \in Streams /\ "cue" \in Streams /\ \A s \in Streams : s = "event" \/ s = "cue"
    BY DEF Streams
  <1>4. PICK e \in Nat, c \in Nat : e = Len(frames["event"]) /\ c = Len(frames["cue"])
    <2>1. Len(frames["event"]) \in Nat /\ Len(frames["cue"]) \in Nat  BY <1>2, <1>3, Zenon
    <2>2. QED  BY <2>1, Zenon
  <1>5. Returned = e + c  BY <1>4, Zenon DEF Returned
  <1>6. QED  BY <1>2, <1>3, <1>5

LEMMA StartFrameEnds ==
  ASSUME IInv, EndsInv, StartFrame
  PROVE  NewestKept' /\ EndInSight'
  <1>1. PICK base \in Nat : base = IF ended THEN 0 ELSE newest  BY DEF IInv, TypeOK
  <1> DEFINE Chosen(n, q) ==
        frameJobs' = q /\ newest' \in Highest({base} \cup {q[i].wrap : i \in 1..n})
  <1>a. PICK n \in 1..MaxPerFrame : \E q \in [1..n -> Sendable] : Chosen(n, q)
    BY <1>1, Zenon DEF StartFrame
  <1>2. PICK q \in [1..n -> Sendable] : Chosen(n, q)
    BY <1>a
  <1>3. base <= newest' /\ \A i \in 1..n : q[i].wrap <= newest'
    BY <1>2 DEF Highest
  <1>4. /\ pc' = "slots" /\ UNCHANGED <<currentWrap, store>>
        /\ accepted' = IF ended THEN {} ELSE accepted
    BY DEF StartFrame, slices
  <1>5. newest' \in Nat /\ currentWrap \in Nat
    <2>1. IInv'  BY StartFrameStep
    <2>2. QED  BY <2>1 DEF IInv, TypeOK
  <1>6. \A i \in DOMAIN frameJobs' : frameJobs'[i].wrap <= newest'  BY <1>2, <1>3
  <1>7. CASE ended
    <2>1. currentWrap = 0 /\ accepted' = {}  BY <1>4, <1>7 DEF IInv, Quiet
    <2>2. QED  BY <1>4, <1>5, <1>6, <2>1 DEF NewestKept, EndInSight, Purging
  <1>8. CASE ~ended
    <2>1. /\ currentWrap <= newest /\ newest \in Nat /\ newest <= newest' /\ accepted' = accepted
          /\ \A j \in accepted :
               /\ j.wrap <= newest
               /\ j.wrap = newest =>
                    j.buf \in Slices /\ newest \in DOMAIN store /\ j \in store[newest][j.buf].jobs
      <3>1. ~Purging  BY DEF StartFrame, Purging
      <3>2. QED  BY <1>1, <1>3, <1>4, <1>8, <3>1 DEF EndsInv, NewestKept
    <2>2. \A j \in accepted : j.wrap \in Nat  BY DEF IInv, TypeOK, Job
    <2>3. \A j \in accepted : j.wrap <= newest' /\ (j.wrap = newest' => newest' = newest)
      BY <1>5, <2>1, <2>2
    <2>4. QED  BY <1>4, <1>5, <1>6, <2>1, <2>3 DEF NewestKept, EndInSight, Purging
  <1>9. QED  BY <1>7, <1>8

LEMMA JobEnds ==
  ASSUME IInv, EndsInv, KnownWrap \/ NewWrap
  PROVE  NewestKept' /\ EndInSight'
  <1>1. PICK j : j = Head(frameJobs)  BY DEF NextJob
  <1>2. NextJob /\ ~ended /\ ~Purging /\ pc' = pc /\ UNCHANGED input /\ Accept(j)
    <2>1. NextJob /\ pc' = pc /\ UNCHANGED input /\ Accept(j)
      BY <1>1 DEF KnownWrap, NewWrap
    <2>2. QED  BY <2>1 DEF NextJob, Purging, IInv, Quiet
  <1>3. /\ currentWrap <= newest /\ newest' = newest /\ ended' = ended
        /\ \A i \in DOMAIN frameJobs : frameJobs[i].wrap <= newest
        /\ \A k \in accepted :
             /\ k.wrap <= newest
             /\ k.wrap = newest =>
                  k.buf \in Slices /\ newest \in DOMAIN store /\ k \in store[newest][k.buf].jobs
    BY <1>2 DEF EndsInv, NewestKept, input
  <1>4. /\ j.wrap <= newest /\ frameJobs' = Tail(frameJobs)
        /\ \A i \in DOMAIN Tail(frameJobs) : Tail(frameJobs)[i].wrap <= newest
    <2>1. frameJobs \in Seq(Job) /\ frameJobs # <<>>  BY <1>2 DEF IInv, TypeOK, NextJob
    <2>2. 1 \in DOMAIN frameJobs /\ Head(frameJobs) = frameJobs[1]  BY <2>1
    <2>3. \A i \in DOMAIN Tail(frameJobs) :
            i + 1 \in DOMAIN frameJobs /\ Tail(frameJobs)[i] = frameJobs[i + 1]
      BY <2>1
    <2>4. frameJobs' = Tail(frameJobs)  BY DEF KnownWrap, NewWrap
    <2>5. QED  BY <1>1, <1>3, <2>2, <2>3, <2>4
  <1>5. currentWrap' <= newest  BY <1>1, <1>3, <1>4 DEF KnownWrap, NewWrap
  <1>6. PICK w : w = j.wrap  OBVIOUS
  <1>7. PICK old : /\ old = Opened(w)
                   /\ store' = [v \in DOMAIN store \cup {w} |->
                                  IF v = w THEN WithJob(old, j) ELSE store[v]]
    BY <1>1, <1>6, JobTaken
  <1>8. ASSUME NEW k \in accepted', k.wrap = newest
        PROVE  k.buf \in Slices /\ newest \in DOMAIN store' /\ k \in store'[newest][k.buf].jobs
    <2>1. CASE k \in accepted
      <3>1. k.buf \in Slices /\ newest \in DOMAIN store /\ k \in store[newest][k.buf].jobs
        BY <1>3, <1>8, <2>1
      <3>2. CASE newest = w
        <4>1. old = store[newest]  BY <1>7, <3>1, <3>2 DEF Opened
        <4>2. k \in WithJob(old, j)[k.buf].jobs  BY <3>1, <4>1 DEF WithJob
        <4>3. newest \in DOMAIN store' /\ store'[newest] = WithJob(old, j)  BY <1>7, <3>2
        <4>4. QED  BY <3>1, <4>2, <4>3
      <3>3. CASE newest # w
        <4>1. newest \in DOMAIN store' /\ store'[newest] = store[newest]  BY <1>7, <3>1, <3>3
        <4>2. QED  BY <3>1, <4>1
      <3>4. QED  BY <3>2, <3>3
    <2>2. CASE k \notin accepted
      <3>1. k = j /\ j.buf \in Slices  BY <1>2, <1>8, <2>2 DEF Accept
      <3>2. w \in DOMAIN store' /\ store'[w] = WithJob(old, j)  BY <1>7
      <3>3. j \in WithJob(old, j)[j.buf].jobs  BY <3>1 DEF WithJob
      <3>4. QED  BY <1>6, <1>8, <3>1, <3>2, <3>3
    <2>3. QED  BY <2>1, <2>2
  <1>9. \A k \in accepted' : k.wrap <= newest  BY <1>2, <1>3, <1>4 DEF Accept
  <1>10. QED  BY <1>2, <1>3, <1>4, <1>5, <1>8, <1>9 DEF NewestKept, EndInSight, Purging

(* An idle frame starts, or a frame of data goes on.                         *)
LEMMA TurnEnds ==
  ASSUME IInv, EndsInv, Turn, StartIdle => before' = Returned
  PROVE  NewestKept' /\ EndInSight'
  <1>1. CASE StartIdle
    <2>1. /\ pc = "ready" /\ pc' = "purge" /\ UNCHANGED <<store, jobs, points, frames, accepted>>
          /\ newest' = newest /\ ended' = ended
      BY <1>1 DEF StartIdle, slices, buffers, input
    <2>2. NewestKept'  BY <2>1 DEF NewestKept, Purging
    <2>3. ASSUME ~ended
          PROVE  before' <= Returned' /\ (NewestHasPoints' => OnTheWay')
      <3>1. Returned' = Returned  BY <2>1 DEF Returned
      <3>2. Returned \in Nat  BY ReturnedType DEF IInv
      <3>3. ASSUME NewestHasPoints' PROVE OnTheWay'
        <4>1. PICK j \in accepted : j.wrap = newest /\ HasPoints(j)
          BY <2>1, <3>3 DEF NewestHasPoints, HasPoints
        <4>2. j.buf \in Slices /\ newest \in DOMAIN store /\ j \in store[newest][j.buf].jobs
          BY <2>1, <2>3, <4>1 DEF EndsInv, NewestKept, Purging
        <4>3. newest \in DOMAIN store' /\ j \in store'[newest][j.buf].jobs  BY <2>1, <4>2
        <4>4. QED  BY <4>1, <4>2, <4>3 DEF OnTheWay, HasPoints
      <3>4. QED  BY <1>1, <3>1, <3>2, <3>3
    <2>4. QED  BY <2>1, <2>2, <2>3 DEF EndInSight
  <1>2. CASE StaleJob
    <2>1. /\ NextJob /\ frameJobs' = Tail(frameJobs) /\ UNCHANGED <<pc, slices, accepted, input>>
      BY <1>2 DEF StaleJob
    <2>2. frameJobs \in Seq(Job) /\ frameJobs # <<>>  BY <2>1 DEF IInv, TypeOK, NextJob
    <2>3. \A i \in DOMAIN Tail(frameJobs) :
            i + 1 \in DOMAIN frameJobs /\ Tail(frameJobs)[i] = frameJobs[i + 1]
      BY <2>2
    <2>4. ~Purging  BY <2>1 DEF NextJob, Purging
    <2>5. QED
      BY <2>1, <2>3, <2>4 DEF EndsInv, NewestKept, EndInSight, Purging, slices, input
  <1>3. CASE EndSlots \/ EndFlush \/ EndFrame \/ DuplicateJob
    <2>1. /\ UNCHANGED <<frameJobs, currentWrap, store, accepted, newest, ended>>
          /\ ~Purging /\ ~Purging'
      BY <1>3 DEF EndSlots, EndFlush, EndFrame, DuplicateJob, NextJob, Purging, slices, input
    <2>2. QED  BY <2>1 DEF EndsInv, NewestKept, EndInSight
  <1>4. QED  BY <1>1, <1>2, <1>3 DEF Turn

(* Wraps that are flushed are older than the newest.                         *)
LEMMA FlushEnds ==
  ASSUME IInv, EndsInv, FlushWrap
  PROVE  NewestKept' /\ EndInSight'
  <1>1. PICK w \in DOMAIN store : Old(w) /\ store' = [v \in DOMAIN store \ {w} |-> store[v]]
    BY DEF FlushWrap, TakeWrap, WithoutWrap
  <1>2. UNCHANGED <<pc, frameJobs, currentWrap, accepted, newest, ended>> /\ ~Purging
    BY DEF FlushWrap, input, Purging
  <1>3. ASSUME ~ended
        PROVE  NewestKept'
    <2>1. /\ currentWrap <= newest /\ \A i \in DOMAIN frameJobs : frameJobs[i].wrap <= newest
          /\ \A j \in accepted :
               /\ j.wrap <= newest
               /\ j.wrap = newest =>
                    j.buf \in Slices /\ newest \in DOMAIN store /\ j \in store[newest][j.buf].jobs
      BY <1>2, <1>3 DEF EndsInv, NewestKept
    <2>2. newest # w
      <3>1. newest \in Nat /\ currentWrap \in Nat  BY DEF IInv, TypeOK
      <3>2. QED  BY <1>1, <2>1, <3>1 DEF Old
    <2>3. newest \in DOMAIN store => newest \in DOMAIN store' /\ store'[newest] = store[newest]
      BY <1>1, <2>2
    <2>4. QED  BY <1>2, <2>1, <2>3 DEF NewestKept
  <1>4. QED  BY <1>2, <1>3 DEF NewestKept, EndInSight, Purging

(* A purge takes the jobs out of the store, none is left behind.             *)
LEMMA PurgeEnds ==
  ASSUME IInv, EndsInv, PurgeWrap, before' = before
  PROVE  NewestKept' /\ EndInSight'
  <1>1. PICK w \in DOMAIN store : TakeWrap(w)  BY DEF PurgeWrap
  <1>2. PICK q \in InSlotOrder(w) : jobs' = jobs \o q  BY <1>1 DEF TakeWrap
  <1>3. /\ pc = "purge" /\ pc' = "purge" /\ ended' = ended /\ UNCHANGED <<points, frames, accepted>>
        /\ newest' = newest
        /\ store' = [v \in DOMAIN store \ {w} |-> store[v]]
    BY <1>1 DEF PurgeWrap, TakeWrap, WithoutWrap, buffers, input
  <1>4. q \in Seq(Job) /\ Members(q) = UNION {store[w][b].jobs : b \in Slices}
    BY SlotOrderMembers DEF IInv
  <1>5. jobs \in Seq(Job)  BY DEF IInv, TypeOK
  <1>6. Members(jobs') = Members(jobs) \cup Members(q)
    <2>1. Members(jobs \o q) = Members(jobs) \cup Members(q)
      BY <1>4, <1>5, MembersConcat, ZenonT(30)
    <2>2. QED  BY <1>2, <2>1
  <1>7. Returned' = Returned  BY <1>3 DEF Returned
  <1>8. ASSUME ~ended, NewestHasPoints PROVE OnTheWay'
    <2>1. OnTheWay  BY <1>3, <1>8 DEF EndsInv, EndInSight, Purging
    <2>2. CASE before < Returned  BY <1>7, <2>2 DEF OnTheWay
    <2>3. CASE \E s \in Streams : points[s] # <<>>  BY <1>3, <2>3 DEF OnTheWay
    <2>4. CASE \E j \in Members(jobs) \cup Members(q) : HasPoints(j)
      <3>1. PICK i \in DOMAIN jobs' : HasPoints(jobs'[i])  BY <1>6, <2>4 DEF Members
      <3>2. QED  BY <3>1 DEF OnTheWay, HasPoints
    <2>5. CASE \E i \in DOMAIN jobs : HasPoints(jobs[i])
      <3>1. \E j \in Members(jobs) : HasPoints(j)  BY <2>5 DEF Members
      <3>2. QED  BY <2>4, <3>1
    <2>6. CASE \E v \in DOMAIN store : \E b \in Slices : \E j \in store[v][b].jobs : HasPoints(j)
      <3>a. PICK v \in DOMAIN store, b \in Slices : \E k \in store[v][b].jobs : HasPoints(k)
        BY <2>6
      <3>1. PICK j \in store[v][b].jobs : HasPoints(j)  BY <3>a
      <3>2. CASE v = w
        <4>1. j \in Members(q)  BY <1>4, <3>1, <3>2
        <4>2. QED  BY <2>4, <3>1, <4>1
      <3>3. CASE v # w
        <4>1. v \in DOMAIN store' /\ j \in store'[v][b].jobs  BY <1>3, <3>1, <3>3
        <4>2. QED  BY <3>1, <4>1 DEF OnTheWay, HasPoints
      <3>4. QED  BY <3>2, <3>3
    <2>7. QED  BY <2>1, <2>2, <2>3, <2>5, <2>6 DEF OnTheWay
  <1>9. NewestHasPoints' => NewestHasPoints  BY <1>3 DEF NewestHasPoints
  <1>10. QED
    BY <1>3, <1>7, <1>8, <1>9 DEF EndsInv, NewestKept, EndInSight, Purging

(* A job with points leaves one in a buffer, or fills a frame.               *)
LEMMA AppendEnds ==
  ASSUME IInv, EndsInv, AppendJob, before' = before
  PROVE  NewestKept' /\ EndInSight'
  <1>1. /\ UNCHANGED <<pc, frameJobs, currentWrap, store, accepted, newest, ended>>
        /\ jobs # <<>> /\ jobs' = Tail(jobs)
    BY DEF AppendJob, slices, input
  <1>2. PICK j \in Job : j = Head(jobs) /\ j = jobs[1]
    BY <1>1 DEF IInv, TypeOK
  <1>3. ASSUME NEW s \in Streams
        PROVE  IF Fits(s, j) THEN frames'[s] = frames[s] /\ points'[s] = points[s] \o Data(j, s)
               ELSE Len(frames'[s]) = Len(frames[s]) + 1
    <2>1. /\ points'[s] = IF Fits(s, j) THEN points[s] \o Data(j, s) ELSE Leftover(s, j)
          /\ frames'[s] = IF Fits(s, j) THEN frames[s]
               ELSE Append(frames[s], DatasetFrame(s, points[s] \o SubSeq(Data(j, s), 1, Room(s))))
      BY <1>2 DEF AppendJob
    <2>2. frames[s] \in Seq([number : Nat, points : Seq(Job)])  BY DEF IInv, TypeOK
    <2>3. \A x : Len(Append(frames[s], x)) = Len(frames[s]) + 1  BY <2>2
    <2>4. QED  BY <2>1, <2>3, Zenon
  <1>4. /\ \A s \in Streams : Len(frames[s]) \in Nat /\ Len(frames'[s]) \in Nat
        /\ Returned \in Nat /\ Returned' \in Nat
        /\ "event" \in Streams /\ "cue" \in Streams /\ \A s \in Streams : s = "event" \/ s = "cue"
    <2>1. \A s \in Streams : Len(frames[s]) \in Nat  BY ReturnedType DEF IInv
    <2>2. ASSUME NEW s \in Streams PROVE Len(frames'[s]) \in Nat
      BY <1>3, <2>1, <2>2
    <2>3. "event" \in Streams /\ "cue" \in Streams /\ \A s \in Streams : s = "event" \/ s = "cue"
      BY DEF Streams
    <2>4. PICK f \in Nat, g \in Nat : f = Len(frames'["event"]) /\ g = Len(frames'["cue"])
      <3>1. Len(frames'["event"]) \in Nat /\ Len(frames'["cue"]) \in Nat  BY <2>2, <2>3, Zenon
      <3>2. QED  BY <3>1, Zenon
    <2>5. Returned' = f + g  BY <2>4, Zenon DEF Returned
    <2>6. QED  BY <2>1, <2>2, <2>3, <2>5, ReturnedType DEF IInv
  <1>5. PICK e \in Nat, c \in Nat, f \in Nat, g \in Nat :
          /\ e = Len(frames["event"]) /\ c = Len(frames["cue"])
          /\ f = Len(frames'["event"]) /\ g = Len(frames'["cue"])
    <2>1. /\ Len(frames["event"]) \in Nat /\ Len(frames["cue"]) \in Nat
          /\ Len(frames'["event"]) \in Nat /\ Len(frames'["cue"]) \in Nat
      BY <1>4, Zenon
    <2>2. QED  BY <2>1, Zenon
  <1>a. Returned = e + c /\ Returned' = f + g  BY <1>5, Zenon DEF Returned
  <1>b. e <= f /\ c <= g /\ \A s \in Streams : ~Fits(s, j) => e < f \/ c < g
    <2>1. (IF Fits("event", j) THEN f = e ELSE f = e + 1) /\ (IF Fits("cue", j) THEN g = c ELSE g = c + 1)
      BY <1>3, <1>4, <1>5
    <2>2. e <= f /\ c <= g /\ (~Fits("event", j) => e < f) /\ (~Fits("cue", j) => c < g)  BY <2>1
    <2>3. QED  BY <1>4, <2>2, Zenon
  <1>6. Returned' >= Returned  BY <1>a, <1>b
  <1>7. ASSUME NEW s \in Streams, ~Fits(s, j) PROVE Returned' > Returned
    BY <1>a, <1>b, <1>7
  <1>8. ASSUME ~ended, Purging, NewestHasPoints PROVE OnTheWay'
    <2>1. OnTheWay /\ before <= Returned /\ before \in Nat  BY <1>8 DEF EndsInv, EndInSight
    <2>2. CASE before < Returned
      <3>1. before < Returned'  BY <1>4, <1>6, <2>1, <2>2
      <3>2. QED  BY <3>1 DEF OnTheWay
    <2>3. CASE \E s \in Streams : ~Fits(s, j)
      <3>1. Returned' > Returned  BY <1>7, <2>3
      <3>2. before < Returned'  BY <1>4, <2>1, <3>1
      <3>3. QED  BY <3>2 DEF OnTheWay
    <2>4. ASSUME NEW s \in Streams, Fits(s, j), points[s] # <<>> \/ Contents[j.num][s] > 0
          PROVE  OnTheWay'
      <3>1. points[s] \in Seq(Job) /\ Data(j, s) \in Seq(Job) /\ Len(Data(j, s)) = Contents[j.num][s]
        BY DataType DEF IInv, TypeOK
      <3>2. PICK a \in Seq(Job), d \in Seq(Job) : a = points[s] /\ d = Data(j, s)  BY <3>1
      <3>3. a \o d # <<>>
        <4>1. Len(a \o d) = Len(a) + Len(d) /\ Len(a) \in Nat /\ Len(d) \in Nat  BY <3>2
        <4>2. a # <<>> => Len(a) > 0  BY <3>2
        <4>3. Len(a \o d) > 0  BY <2>4, <3>1, <3>2, <4>1, <4>2
        <4>4. QED  BY <4>3
      <3>4. points'[s] = a \o d  BY <1>3, <2>4, <3>2, Zenon
      <3>5. QED  BY <3>3, <3>4 DEF OnTheWay
    <2>5. CASE \E s \in Streams : points[s] # <<>>  BY <2>3, <2>4, <2>5
    <2>6. CASE HasPoints(j)  BY <2>3, <2>4, <2>6 DEF HasPoints
    <2>7. CASE \E i \in DOMAIN jobs : HasPoints(jobs[i])
      <3>1. PICK i \in DOMAIN jobs : HasPoints(jobs[i])  BY <2>7
      <3>2. CASE i = 1  BY <1>2, <2>6, <3>1, <3>2
      <3>3. CASE i # 1
        <4>1. jobs \in Seq(Job)  BY DEF IInv, TypeOK
        <4>2. PICK k \in Nat : k = i - 1 /\ k \in DOMAIN Tail(jobs) /\ Tail(jobs)[k] = jobs[i]
          BY <1>1, <3>3, <4>1
        <4>3. k \in DOMAIN jobs' /\ HasPoints(jobs'[k])  BY <1>1, <3>1, <4>2
        <4>4. QED  BY <4>3 DEF OnTheWay, HasPoints
      <3>4. QED  BY <3>2, <3>3
    <2>8. CASE \E v \in DOMAIN store : \E b \in Slices : \E k \in store[v][b].jobs : HasPoints(k)
      BY <1>1, <2>8 DEF OnTheWay, HasPoints
    <2>9. QED  BY <2>1, <2>2, <2>5, <2>7, <2>8 DEF OnTheWay
  <1>9. NewestHasPoints' => NewestHasPoints  BY <1>1 DEF NewestHasPoints
  <1>10. NewestKept'  BY <1>1 DEF EndsInv, NewestKept, Purging
  <1>11. ASSUME ~ended, Purging PROVE before' <= Returned'
    BY <1>4, <1>6, <1>11 DEF EndsInv, EndInSight
  <1>12. QED  BY <1>1, <1>8, <1>9, <1>10, <1>11 DEF EndInSight, Purging

LEMMA EndsStep == IInv /\ EndsInv /\ [PluginNext]_plugin => EndsInv'
  <1> SUFFICES ASSUME IInv, EndsInv, [PluginNext]_plugin PROVE EndsInv'  OBVIOUS
  <1>1. CASE EventFrame
    <2>1. StartFrame /\ before' = before  BY <1>1 DEF EventFrame, ends
    <2>2. QED  BY <2>1, StartFrameEnds DEF EndsInv
  <1>2. CASE EventIdle
    <2>1. StartIdle /\ before' = Returned  BY <1>2 DEF EventIdle
    <2>2. Returned \in Nat  BY ReturnedType DEF IInv
    <2>3. QED  BY <2>1, <2>2, TurnEnds DEF EndsInv, Turn
  <1>3. CASE Coordinate
    <2>1. Step /\ before' = before  BY <1>3 DEF Coordinate, ends
    <2>2. CASE KnownWrap \/ NewWrap  BY <2>1, <2>2, JobEnds DEF EndsInv
    <2>3. CASE StaleJob \/ DuplicateJob \/ EndSlots \/ EndFlush \/ EndFrame
      <3>1. ~StartIdle
        BY <2>3 DEF StaleJob, DuplicateJob, EndSlots, EndFlush, EndFrame, NextJob, StartIdle
      <3>2. QED  BY <2>1, <2>3, <3>1, TurnEnds DEF EndsInv, Turn
    <2>4. CASE FlushWrap  BY <2>1, <2>4, FlushEnds DEF EndsInv
    <2>5. CASE PurgeWrap  BY <2>1, <2>5, PurgeEnds DEF EndsInv
    <2>6. CASE PurgeCounts
      <3>1. /\ pc = "purge" /\ pc' = "purgeAppend" /\ newest' = newest /\ ended' = ended
            /\ UNCHANGED <<store, jobs, points, frames, accepted>>
        BY <2>6 DEF PurgeCounts, slices, buffers, input
      <3>2. NewestKept'  BY <3>1 DEF NewestKept, Purging
      <3>3. Returned' = Returned  BY <3>1 DEF Returned
      <3>4. (NewestHasPoints' <=> NewestHasPoints) /\ (OnTheWay => OnTheWay')
        BY <2>1, <3>1, <3>3 DEF NewestHasPoints, OnTheWay, HasPoints
      <3>5. EndInSight'  BY <2>1, <3>1, <3>3, <3>4 DEF EndsInv, EndInSight, Purging
      <3>6. QED  BY <2>1, <3>2, <3>5 DEF EndsInv
    <2>7. CASE AppendJob  BY <2>1, <2>7, AppendEnds DEF EndsInv
    <2>8. CASE EndIdle
      <3>1. ended'  BY <2>8 DEF EndIdle
      <3>2. QED  BY <2>1, <3>1 DEF EndsInv, NewestKept, EndInSight
    <2>9. QED  BY <2>1, <2>2, <2>3, <2>4, <2>5, <2>6, <2>7, <2>8 DEF Step
  <1>4. CASE EndAcquisition
    <2>1. ended' /\ before' = before  BY <1>4 DEF EndAcquisition, EndIdle
    <2>2. QED  BY <2>1 DEF EndsInv, NewestKept, EndInSight
  <1>5. CASE UNCHANGED <<vars, before>>
    BY <1>5 DEF vars, slices, buffers, input, EndsInv, NewestKept, EndInSight, Purging, Returned,
                NewestHasPoints, OnTheWay, HasPoints
  <1>6. CASE CountData \/ CountEnd \/ RawData \/ RawEnd \/ Configure \/ UNCHANGED plugin
    BY <1>5, <1>6 DEF CountData, CountEnd, RawData, RawEnd, Configure, SetMode, SetRawMode,
                      ResetFrame, plugin, ends
  <1>7. QED  BY <1>1, <1>2, <1>3, <1>4, <1>6 DEF PluginNext, ProcessFrame

LEMMA EndsInit == PluginInit => EndsInv
  BY DEF PluginInit, Init, EndsInv, NewestKept, EndInSight, Purging

(* An idle frame that ends an acquisition whose newest wrap has a point has  *)
(* frames to push, and so notifies the end.                                  *)
LEMMA EndTold ==
  ASSUME IInv, EndsInv, [PluginNext]_plugin, IdleDone, ~ended, NewestHasPoints
  PROVE  notified'
  <1>1. EndAcquisition
    <2>1. ~EventFrame /\ ~EventIdle
      BY DEF IdleDone, EventFrame, StartFrame, EventIdle, StartIdle
    <2>2. ~Coordinate  BY DEF Coordinate
    <2>3. pc' # pc  BY DEF IdleDone
    <2>4. ~Configure
      BY <2>3 DEF Configure, SetMode, SetRawMode, ResetFrame, vars
    <2>5. ~(CountData \/ CountEnd \/ RawData \/ RawEnd)
      BY <2>3 DEF CountData, CountEnd, RawData, RawEnd, vars
    <2>6. ~(UNCHANGED plugin)  BY <2>3 DEF plugin, vars
    <2>7. QED  BY <2>1, <2>2, <2>4, <2>5, <2>6 DEF PluginNext, ProcessFrame
  <1>2. /\ EndIdle /\ pc = "purgeAppend" /\ jobs = <<>> /\ DOMAIN store = {}
    BY <1>1 DEF EndAcquisition, EndIdle, IInv, Quiet
  <1>3. before \in Nat /\ before <= Returned /\ OnTheWay
    BY <1>2 DEF EndsInv, EndInSight, Purging
  <1>4. before < Returned \/ \E s \in Streams : points[s] # <<>>
    BY <1>2, <1>3 DEF OnTheWay
  <1>5. ASSUME NEW s \in Streams
        PROVE  Len(frames'[s]) = IF points[s] = <<>> THEN Len(frames[s]) ELSE Len(frames[s]) + 1
    <2>1. frames'[s] = IF points[s] = <<>> THEN frames[s]
                       ELSE Append(frames[s], DatasetFrame(s, points[s]))
      BY <1>2 DEF EndIdle, Emptied
    <2>2. frames[s] \in Seq([number : Nat, points : Seq(Job)])  BY DEF IInv, TypeOK
    <2>3. \A x : Len(Append(frames[s], x)) = Len(frames[s]) + 1  BY <2>2
    <2>4. QED  BY <2>1, <2>3, Zenon
  <1>6. /\ \A s \in Streams : Len(frames[s]) \in Nat
        /\ "event" \in Streams /\ "cue" \in Streams /\ \A s \in Streams : s = "event" \/ s = "cue"
    BY ReturnedType DEF IInv
  <1>7. Len(frames'["event"]) + Len(frames'["cue"]) > before
    <2>1. PICK e \in Nat, c \in Nat : e = Len(frames["event"]) /\ c = Len(frames["cue"])
      BY <1>6
    <2>2. PICK f \in Nat, d \in Nat : f = Len(frames'["event"]) /\ d = Len(frames'["cue"])
      BY <1>5, <1>6
    <2>3. /\ f = IF points["event"] = <<>> THEN e ELSE e + 1
          /\ d = IF points["cue"] = <<>> THEN c ELSE c + 1
      BY <1>5, <1>6, <2>1, <2>2
    <2>4. before <= e + c  BY <1>3, <2>1 DEF Returned
    <2>5. before < e + c \/ points["event"] # <<>> \/ points["cue"] # <<>>
      BY <1>4, <1>6, <2>1 DEF Returned
    <2>6. f + d > before  BY <1>3, <2>3, <2>4, <2>5
    <2>7. QED  BY <2>2, <2>6
  <1>8. QED  BY <1>1, <1>7 DEF EndAcquisition, FlushedFrames

(* The end of an acquisition is notified, however late or early packets came.*)
THEOREM EndIsNotified == PluginSpec => EndNotified
  <1>1. IInv /\ EndsInv /\ [PluginNext]_plugin =>
          [IdleDone /\ ~ended /\ NewestHasPoints => notified']_plugin
    BY EndTold
  <1>2. PluginSpec => []IInv  BY RunsCoordinator, Invariant, PTL
  <1>3. QED  BY <1>1, <1>2, EndsInit, EndsStep, PTL DEF PluginSpec, EndNotified
-----------------------------------------------------------------------------
(* Raw mode.  A buffer holds less than a frame, and the frames that left it, *)
(* with what it holds, are the words of the packets taken.                   *)
RawWord == [packet : Nat, word : Nat]
RawFrame == [number : Nat, points : Seq(RawWord)]
RawBuffer ==
  [size : {FrameQty}, points : Seq(RawWord), number : Nat, processes : Nat, rank : Nat]

RawType ==
  /\ rawBuffer \in RawBuffer /\ Len(rawBuffer.points) < FrameQty
  /\ rawFrames \in Seq(RawFrame)
  /\ rawTaken \in Nat /\ rawOpen \in BOOLEAN

RawInv == RawType /\ WordsKept

Sent(n) == FlattenSeq([k \in 1..n |-> Words(k)])

LEMMA SentMore ==
  ASSUME NEW n \in Nat
  PROVE  /\ Words(n + 1) \in Seq(RawWord) /\ Len(Words(n + 1)) = 2
         /\ Sent(n) \in Seq(RawWord)
         /\ Sent(n + 1) = Sent(n) \o Words(n + 1)
  <1>1. \A k \in Nat : Words(k) \in Seq(RawWord) /\ Len(Words(k)) = 2
    BY DEF Words, RawWord
  <1>2. PICK g : g = [k \in Nat |-> Words(k)]  OBVIOUS
  <1>3. \A k \in Nat : g[k] = Words(k) /\ g[k] \in Seq(RawWord)  BY <1>1, <1>2
  <1>4. \A m \in Nat : [k \in 1..m |-> Words(k)] = [k \in 1..m |-> g[k]]
    <2>1. \A m \in Nat : \A k \in 1..m : Words(k) = g[k]  BY <1>3
    <2>2. QED  BY <2>1, Zenon
  <1>5. PICK w \in Seq(Seq(RawWord)), x \in Seq(RawWord) :
          w = [k \in 1..n |-> g[k]] /\ x = g[n + 1]
    <2>1. [k \in 1..n |-> g[k]] \in Seq(Seq(RawWord)) /\ g[n + 1] \in Seq(RawWord)  BY <1>3
    <2>2. QED  BY <2>1, Zenon
  <1>6. Append(w, x) = [k \in 1..n+1 |-> g[k]]
    <2>1. PICK v : v = [k \in 1..n+1 |-> g[k]]  OBVIOUS
    <2>2. v \in Seq(Seq(RawWord)) /\ Len(v) = n + 1  BY <1>3, <2>1
    <2>3. v[n + 1] = x /\ \A k \in 1..n : v[k] = w[k]  BY <1>5, <2>1
    <2>4. Len(w) = n  BY <1>5
    <2>5. Append(w, x) = v  BY <2>2, <2>3, <2>4
    <2>6. QED  BY <2>1, <2>5
  <1>7. FlattenSeq(w) \in Seq(RawWord) /\ FlattenSeq(Append(w, x)) = FlattenSeq(w) \o x
    BY FlattenType, FlattenAppend, Zenon
  <1>8. n + 1 \in Nat /\ x = Words(n + 1)  BY <1>3, <1>5
  <1>9. Sent(n) = FlattenSeq(w) /\ Sent(n + 1) = FlattenSeq(Append(w, x))
    BY <1>4, <1>5, <1>6, <1>8, Zenon DEF Sent
  <1>10. Sent(n + 1) = Sent(n) \o Words(n + 1)  BY <1>7, <1>8, <1>9, Zenon
  <1>11. QED  BY <1>1, <1>7, <1>8, <1>9, <1>10

(* Frames and points after an operation of the buffer hold what was before,  *)
(* and the data.                                                             *)
InRaw(f, b) == Pushed(f) \o b.points

LEMMA RawPushedMore ==
  ASSUME NEW f \in Seq(RawFrame), NEW r \in RawFrame
  PROVE  Pushed(f) \in Seq(RawWord) /\ Pushed(Append(f, r)) = Pushed(f) \o r.points
  BY PushedMore, Zenon DEF RawFrame

LEMMA RawNumber ==
  ASSUME NEW b \in RawBuffer
  PROVE  b.rank + b.number * b.processes \in Nat
  <1>1. \A i, k \in Nat : i * k \in Nat  BY SMT
  <1>2. PICK m \in Nat : m = b.number * b.processes  BY <1>1 DEF RawBuffer
  <1>3. QED  BY <1>2 DEF RawBuffer

LEMMA RetrieveHolds ==
  ASSUME NEW f \in Seq(RawFrame), NEW b \in RawBuffer
  PROVE  /\ f \o Retrieved(b) \in Seq(RawFrame) /\ AfterRetrieve(b) \in RawBuffer
         /\ AfterRetrieve(b).points = <<>> /\ Pushed(f \o Retrieved(b)) = InRaw(f, b)
  <1>1. CASE b.points = <<>>
    <2>1. f \o <<>> = f /\ Retrieved(b) = <<>> /\ AfterRetrieve(b) = b
      BY <1>1 DEF Retrieved, AfterRetrieve
    <2>2. [number |-> 0, points |-> <<>>] \in RawFrame  BY DEF RawFrame
    <2>3. Pushed(f) \in Seq(RawWord)  BY <2>2, RawPushedMore
    <2>4. Pushed(f) \o <<>> = Pushed(f)  BY <2>3
    <2>5. QED  BY <1>1, <2>1, <2>4 DEF InRaw
  <1>2. CASE b.points # <<>>
    <2>1. PICK r \in RawFrame : r.points = b.points /\ Retrieved(b) = <<r>>
      BY <1>2, RawNumber DEF Retrieved, RawFrame, RawBuffer
    <2>2. f \o <<r>> = Append(f, r)  OBVIOUS
    <2>3. f \o Retrieved(b) \in Seq(RawFrame)  BY <2>1
    <2>4. Pushed(f \o Retrieved(b)) = InRaw(f, b)
      BY <2>1, <2>2, RawPushedMore DEF InRaw
    <2>5. AfterRetrieve(b) \in RawBuffer /\ AfterRetrieve(b).points = <<>>
      <3>1. AfterRetrieve(b) = [size |-> b.size, points |-> <<>>, number |-> b.number + 1,
                                processes |-> b.processes, rank |-> b.rank]
        BY <1>2 DEF AfterRetrieve, RawBuffer
      <3>2. b.number + 1 \in Nat /\ <<>> \in Seq(RawWord)  BY DEF RawBuffer
      <3>3. QED  BY <3>1, <3>2 DEF RawBuffer
    <2>6. QED  BY <2>3, <2>4, <2>5
  <1>3. QED  BY <1>1, <1>2

LEMMA AppendHolds ==
  ASSUME NEW f \in Seq(RawFrame), NEW b \in RawBuffer, Len(b.points) < FrameQty,
         NEW d \in Seq(RawWord), Len(d) <= FrameQty
  PROVE  /\ f \o AppendedFrames(b, d) \in Seq(RawFrame)
         /\ AfterAppend(b, d) \in RawBuffer /\ Len(AfterAppend(b, d).points) < FrameQty
         /\ InRaw(f \o AppendedFrames(b, d), AfterAppend(b, d)) = InRaw(f, b) \o d
  <1>0. PICK p \in Seq(RawWord) : p = Pushed(f)
    <2>1. [number |-> 0, points |-> <<>>] \in RawFrame  BY DEF RawFrame
    <2>2. QED  BY <2>1, RawPushedMore
  <1>1. PICK q \in Seq(RawWord) : q = b.points  BY DEF RawBuffer
  <1>2. PICK k \in Nat : k = Free(b) /\ k = FrameQty - Len(q) /\ k > 0
    BY <1>1, FrameAssumption DEF Free, RawBuffer
  <1>3. CASE Holds(b, d)
    <2>1. AppendedFrames(b, d) = <<>> /\ AfterAppend(b, d) = [b EXCEPT !.points = @ \o d]
      BY <1>3 DEF AppendedFrames, AfterAppend
    <2>2. q \o d \in Seq(RawWord) /\ Len(q \o d) < FrameQty
      BY <1>2, <1>3, FrameAssumption DEF Holds
    <2>3. AfterAppend(b, d).points = q \o d /\ AfterAppend(b, d) \in RawBuffer
      BY <1>1, <2>1, <2>2 DEF RawBuffer
    <2>4. f \o AppendedFrames(b, d) = f  BY <2>1
    <2>5. Associates(p, q, d)  BY ConcatAssoc
    <2>6. InRaw(f \o AppendedFrames(b, d), AfterAppend(b, d)) = InRaw(f, b) \o d
      BY <1>0, <1>1, <2>3, <2>4, <2>5, Zenon DEF InRaw, Associates
    <2>7. QED  BY <2>2, <2>3, <2>4, <2>6
  <1>4. CASE ~Holds(b, d)
    <2>1. PICK n \in Nat : n = Len(d) /\ k \in 0..n /\ n <= FrameQty
      BY <1>2, <1>4 DEF Holds
    <2>2. PICK u \in Seq(RawWord), v \in Seq(RawWord) :
            u = SubSeq(d, 1, k) /\ v = SubSeq(d, k + 1, n) /\ d = u \o v
      <3>1. k \in 0..Len(d)  BY <2>1
      <3>2. /\ SubSeq(d, 1, k) \in Seq(RawWord) /\ SubSeq(d, k + 1, Len(d)) \in Seq(RawWord)
            /\ d = SubSeq(d, 1, k) \o SubSeq(d, k + 1, Len(d))
        BY <3>1, SplitAt, Zenon
      <3>3. QED  BY <2>1, <3>2, Zenon
    <2>3. PICK full \in RawBuffer : full = Filled(b, d) /\ full.points = q \o u
      <3>1. q \o u \in Seq(RawWord)  OBVIOUS
      <3>2. Filled(b, d) = [b EXCEPT !.points = q \o u]  BY <1>1, <1>2, <2>2 DEF Filled
      <3>3. QED  BY <3>1, <3>2 DEF RawBuffer
    <2>4. PICK rest \in RawBuffer : rest = AfterRetrieve(full)  BY RetrieveHolds
    <2>5. /\ AppendedFrames(b, d) = Retrieved(full)
          /\ AfterAppend(b, d) = [rest EXCEPT !.points = v]
      BY <1>2, <1>4, <2>1, <2>2, <2>3, <2>4 DEF AppendedFrames, AfterAppend, Rest
    <2>6. AfterAppend(b, d) \in RawBuffer /\ AfterAppend(b, d).points = v
      BY <2>5 DEF RawBuffer
    <2>7. Len(v) < FrameQty
      <3>1. Len(SubSeq(d, k + 1, n)) = n - k  BY <2>1
      <3>2. Len(v) = n - k  BY <2>2, <3>1
      <3>3. QED  BY <1>2, <2>1, <3>2, FrameAssumption
    <2>8. f \o AppendedFrames(b, d) \in Seq(RawFrame)
          /\ Pushed(f \o AppendedFrames(b, d)) = p \o (q \o u)
      <3>1. f \o Retrieved(full) \in Seq(RawFrame) /\ Pushed(f \o Retrieved(full)) = InRaw(f, full)
        BY RetrieveHolds
      <3>2. QED  BY <1>0, <2>3, <2>5, <3>1, Zenon DEF InRaw
    <2>9. Regroups(p, q, u, v)  BY ConcatFour
    <2>10. InRaw(f \o AppendedFrames(b, d), AfterAppend(b, d)) = (p \o q) \o (u \o v)
      BY <2>6, <2>8, <2>9, Zenon DEF InRaw, Regroups
    <2>11. InRaw(f, b) \o d = (p \o q) \o (u \o v)
      BY <1>0, <1>1, <2>2, Zenon DEF InRaw
    <2>12. QED  BY <2>6, <2>7, <2>8, <2>10, <2>11
  <1>5. QED  BY <1>3, <1>4

LEMMA WordsAre ==
  WordsKept <=> /\ InRaw(rawFrames, rawBuffer) = Sent(rawTaken)
                /\ ~rawOpen => rawBuffer.points = <<>>
  BY Zenon DEF WordsKept, RawPushed, Pushed, InRaw, Sent

LEMMA RawInit == PluginInit => RawInv
  <1> SUFFICES ASSUME PluginInit PROVE RawInv  OBVIOUS
  <1>1. /\ rawBuffer = [size |-> FrameQty, points |-> <<>>, number |-> 0,
                        processes |-> Processes, rank |-> Rank]
        /\ rawFrames = <<>> /\ rawTaken = 0 /\ rawOpen = FALSE
    BY DEF PluginInit, ForProcess, Buffer
  <1>2. RawType
    <2>1. Processes \in Nat /\ Rank \in Nat /\ Len(<<>>) < FrameQty
      BY FrameAssumption, ProcessAssumption
    <2>2. <<>> \in Seq(RawWord) /\ <<>> \in Seq(RawFrame)  BY EmptyIsSeq
    <2>3. rawBuffer \in RawBuffer /\ Len(rawBuffer.points) < FrameQty
      BY <1>1, <2>1, <2>2 DEF RawBuffer
    <2>4. QED  BY <1>1, <2>2, <2>3 DEF RawType
  <1>3. FlattenSeq([n \in DOMAIN rawFrames |-> rawFrames[n].points]) = <<>>
    <2>1. [n \in DOMAIN rawFrames |-> rawFrames[n].points] = <<>>  BY <1>1
    <2>2. QED  BY <2>1, FlattenEmpty
  <1>4. FlattenSeq([n \in 1..rawTaken |-> Words(n)]) = <<>>
    <2>1. [n \in 1..0 |-> Words(n)] = <<>>  OBVIOUS
    <2>2. QED  BY <1>1, <2>1, FlattenEmpty
  <1>5. <<>> \o rawBuffer.points = <<>> /\ rawBuffer.points = <<>>  BY <1>1
  <1>6. QED  BY <1>2, <1>3, <1>4, <1>5, Zenon DEF RawInv, WordsKept, RawPushed

LEMMA RawDataStep ==
  ASSUME RawInv, RawData, FrameQty >= 2
  PROVE  RawInv'
  <1>1. PICK n \in Nat : n = IF rawOpen THEN rawTaken ELSE 0  BY DEF RawInv, RawType
  <1>2. PICK f \in Seq(RawFrame) : f = IF rawOpen THEN rawFrames ELSE <<>>
    <2>1. rawFrames \in Seq(RawFrame) /\ <<>> \in Seq(RawFrame)
      BY EmptyIsSeq DEF RawInv, RawType
    <2>2. QED  BY <2>1, Zenon
  <1>3. RawPacket = n + 1 /\ RawBefore = f  BY <1>1, <1>2 DEF RawPacket, RawBefore
  <1>4. PICK d : d = Words(n + 1)  OBVIOUS
  <1>5. /\ rawOpen' = TRUE /\ rawTaken' = n + 1
        /\ rawFrames' = f \o AppendedFrames(rawBuffer, d)
        /\ rawBuffer' = AfterAppend(rawBuffer, d)
    BY <1>3, <1>4 DEF RawData
  <1>6. d \in Seq(RawWord) /\ Len(d) <= FrameQty
    BY <1>4, SentMore, FrameAssumption
  <1>7. InRaw(f, rawBuffer) = Sent(n)
    <2>1. CASE rawOpen  BY <1>1, <1>2, <2>1, WordsAre DEF RawInv
    <2>2. CASE ~rawOpen
      <3>1. f = <<>> /\ n = 0 /\ rawBuffer.points = <<>>
        BY <1>1, <1>2, <2>2 DEF RawInv, WordsKept
      <3>2. Pushed(<<>>) = <<>>
        <4>1. \A g : g = <<>> => [k \in DOMAIN g |-> g[k].points] = <<>>  OBVIOUS
        <4>2. QED  BY <4>1, FlattenEmpty DEF Pushed
      <3>3. Sent(0) = <<>>
        <4>1. [k \in 1..0 |-> Words(k)] = <<>>  OBVIOUS
        <4>2. QED  BY <4>1, FlattenEmpty DEF Sent
      <3>4. <<>> \o <<>> = <<>>  OBVIOUS
      <3>5. QED  BY <3>1, <3>2, <3>3, <3>4, Zenon DEF InRaw
    <2>3. QED  BY <2>1, <2>2
  <1>8. /\ rawFrames' \in Seq(RawFrame)
        /\ rawBuffer' \in RawBuffer /\ Len(rawBuffer'.points) < FrameQty
        /\ InRaw(rawFrames', rawBuffer') = InRaw(f, rawBuffer) \o d
    BY <1>5, <1>6, AppendHolds DEF RawInv, RawType
  <1>9. InRaw(rawFrames', rawBuffer') = Sent(n + 1)
    BY <1>4, <1>7, <1>8, SentMore
  <1>10. RawType'  BY <1>5, <1>8 DEF RawType
  <1>11. WordsKept'
    BY <1>5, <1>9, Zenon DEF WordsKept, RawPushed, Pushed, InRaw, Sent
  <1>12. QED  BY <1>10, <1>11 DEF RawInv

LEMMA RawEndStep ==
  ASSUME RawInv, RawEnd
  PROVE  RawInv'
  <1>1. /\ rawOpen' = FALSE /\ rawTaken' = rawTaken
        /\ rawFrames' = rawFrames \o Retrieved(rawBuffer)
        /\ rawBuffer' = AfterRetrieve(rawBuffer)
    BY DEF RawEnd
  <1>2. /\ rawFrames' \in Seq(RawFrame) /\ rawBuffer' \in RawBuffer
        /\ rawBuffer'.points = <<>> /\ Pushed(rawFrames') = InRaw(rawFrames, rawBuffer)
    BY <1>1, RetrieveHolds DEF RawInv, RawType
  <1>3. InRaw(rawFrames, rawBuffer) = Sent(rawTaken)  BY WordsAre DEF RawInv
  <1>4. Sent(rawTaken) \in Seq(RawWord)  BY SentMore DEF RawInv, RawType
  <1>5. Sent(rawTaken) \o <<>> = Sent(rawTaken)  BY <1>4
  <1>6. InRaw(rawFrames', rawBuffer') = Sent(rawTaken')
    BY <1>1, <1>2, <1>3, <1>5, Zenon DEF InRaw
  <1>7. Len(<<>>) < FrameQty  BY FrameAssumption
  <1>8. RawType'  BY <1>1, <1>2, <1>7 DEF RawInv, RawType
  <1>9. WordsKept'
    BY <1>1, <1>2, <1>6, Zenon DEF WordsKept, RawPushed, Pushed, InRaw, Sent
  <1>10. QED  BY <1>8, <1>9 DEF RawInv

LEMMA RawStep == RawInv /\ [PluginNext]_plugin /\ FrameQty >= 2 => RawInv'
  <1> SUFFICES ASSUME RawInv, [PluginNext]_plugin, FrameQty >= 2 PROVE RawInv'  OBVIOUS
  <1>1. CASE RawData  BY <1>1, RawDataStep
  <1>2. CASE RawEnd  BY <1>2, RawEndStep
  <1>3. CASE UNCHANGED raw
    BY <1>3 DEF raw, rawPushed, RawInv, RawType, WordsKept, RawPushed
  <1>4. CASE ResetFrame
    <2>1. rawBuffer' = [rawBuffer EXCEPT !.number = 0] /\ UNCHANGED rawPushed
      BY <1>4 DEF ResetFrame, NumberReset
    <2>2. rawBuffer' \in RawBuffer /\ rawBuffer'.points = rawBuffer.points
      BY <2>1 DEF RawInv, RawType, RawBuffer
    <2>3. QED  BY <2>1, <2>2 DEF rawPushed, RawInv, RawType, WordsKept, RawPushed
  <1>5. CASE EventFrame \/ EventIdle \/ Coordinate \/ EndAcquisition \/ CountData \/ CountEnd
    BY <1>3, <1>5 DEF EventFrame, EventIdle, Coordinate, EndAcquisition, CountData, CountEnd
  <1>6. CASE UNCHANGED plugin  BY <1>3, <1>6 DEF plugin
  <1>7. CASE Configure
    BY <1>3, <1>4, <1>7 DEF Configure, SetMode, SetRawMode
  <1>8. QED  BY <1>1, <1>2, <1>5, <1>6, <1>7 DEF PluginNext, ProcessFrame

(* The words of raw packets are pushed once and in order, whatever the mode  *)
(* changes in between, when a frame has room for the words of a packet.      *)
THEOREM WordsAreKept ==
  ASSUME FrameQty >= 2
  PROVE  PluginSpec => []WordsKept
  <1>1. RawInv /\ [PluginNext]_plugin => RawInv'  BY RawStep
  <1>2. RawInv => WordsKept  BY DEF RawInv
  <1>3. QED  BY <1>1, <1>2, RawInit, PTL DEF PluginSpec
-----------------------------------------------------------------------------
(* The packets of a frame are stored one after the other.                    *)
Folds(g, st, q) ==
  g = [s \in SUBSET DOMAIN q |-> IF s = {} THEN st ELSE Stored(g[s \ {Max(s)}], q[Max(s)])]

LEMMA FoldDef ==
  ASSUME NEW st, NEW q
  PROVE  FoldLeft(Stored, st, q) = (CHOOSE g : Folds(g, st, q))[DOMAIN q]
  BY Zenon DEF FoldLeft, MapThenFoldSet, Folds

LEMMA MaxIsIn ==
  ASSUME NEW n \in Nat, NEW s \in SUBSET (1..n), s # {}
  PROVE  Max(s) \in s /\ \A x \in s : Max(s) >= x
  <1>1. PICK T \in SUBSET Nat : T = {k \in Nat : \A x \in s : x <= k}  OBVIOUS
  <1>2. n \in T  BY <1>1
  <1>3. PICK k \in T : \A m \in T : k <= m  BY <1>2, LeastNumber
  <1>4. \A x \in s : x \in Nat /\ x >= 1 /\ x <= k  BY <1>1, <1>3
  <1>5. k \in s
    <2>1. SUFFICES ASSUME k \notin s PROVE FALSE  OBVIOUS
    <2>2. PICK x \in s : TRUE  OBVIOUS
    <2>3. \A y \in s : y <= k - 1  BY <1>3, <1>4, <2>1
    <2>4. k - 1 \in T  BY <1>1, <1>3, <1>4, <2>2, <2>3
    <2>5. QED  BY <1>3, <2>4
  <1>6. \E y \in s : \A x \in s : y >= x  BY <1>4, <1>5
  <1>7. QED  BY <1>6 DEF Max

FoldsNext(g, q, s) == g[s] = Stored(g[s \ {Max(s)}], q[Max(s)])

LEMMA FoldExists ==
  ASSUME NEW T, NEW st, NEW q \in Seq(T)
  PROVE  \E g : Folds(g, st, q)
  <1>0. PICK N \in Nat : N = Len(q) /\ DOMAIN q = 1..N  OBVIOUS
  <1> DEFINE S == 1..N
             Upto(n) == {s \in SUBSET S : Cardinality(s) <= n}
             Part(g, n) == g = [s \in Upto(n) |->
                             IF s = {} THEN st ELSE Stored(g[s \ {Max(s)}], q[Max(s)])]
             Good == {n \in Nat : \E g : Part(g, n)}
  <1>a. IsFiniteSet(S) /\ Cardinality(S) = N  BY FS_Interval
  <1>1. \A s \in SUBSET S : IsFiniteSet(s) /\ Cardinality(s) \in Nat /\ (Cardinality(s) = 0 <=> s = {})
    BY <1>a, FS_Subset, FS_CardinalityType, FS_EmptySet
  <1>2. 0 \in Good
    <2>1. \A s \in Upto(0) : s = {}  BY <1>1
    <2>2. PICK g : g = [s \in Upto(0) |-> st]  OBVIOUS
    <2> HIDE DEF Upto
    <2>3. \A s \in Upto(0) : g[s] = IF s = {} THEN st ELSE Stored(g[s \ {Max(s)}], q[Max(s)])
      BY <2>1, <2>2, Zenon
    <2>4. Part(g, 0)  BY <2>2, <2>3, Zenon
    <2>5. QED  BY <2>4
  <1>3. ASSUME NEW n \in Nat, n \in Good PROVE n + 1 \in Good
    <2>1. PICK h : Part(h, n)  BY <1>3
    <2>2. PICK g : g = [s \in Upto(n + 1) |->
                          IF s = {} THEN st ELSE Stored(h[s \ {Max(s)}], q[Max(s)])]
      OBVIOUS
    <2>3. ASSUME NEW s \in Upto(n) PROVE s \in Upto(n + 1) /\ g[s] = h[s]
      <3>1. s \in Upto(n + 1)  BY <1>1, <1>3
      <3> HIDE DEF Upto
      <3>2. QED  BY <2>1, <2>2, <3>1, Zenon
    <2>4. ASSUME NEW s \in Upto(n + 1), s # {} PROVE s \ {Max(s)} \in Upto(n)
      <3>1. PICK x : x = Max(s) /\ x \in s  BY <2>4, MaxIsIn
      <3>2. s \ {x} \in SUBSET S /\ Cardinality(s \ {x}) = Cardinality(s) - 1 /\ Cardinality(s) \in Nat
        <4>1. IsFiniteSet(S) /\ s \in SUBSET S /\ s # {} /\ x \in s  BY <1>a, <2>4, <3>1
        <4> HIDE DEF S
        <4>2. QED  BY <4>1, Smaller
      <3>3. s \ {x} \in Upto(n)  BY <3>2, <1>3
      <3>4. QED  BY <3>1, <3>3
    <2> HIDE DEF Upto
    <2>5. \A s \in Upto(n + 1) : g[s] = IF s = {} THEN st ELSE Stored(g[s \ {Max(s)}], q[Max(s)])
      BY <2>2, <2>3, <2>4, Zenon
    <2>6. Part(g, n + 1)  BY <2>2, <2>5, Zenon
    <2>7. \E f : Part(f, n + 1)
      <3> HIDE DEF Part
      <3>1. QED  BY <2>6
    <2> HIDE DEF Part
    <2>8. QED  BY <1>3, <2>7
  <1>4. Nat \subseteq Good
    <2> HIDE DEF Good
    <2>1. QED  BY <1>2, <1>3, AllNumbers
  <1>6. Upto(N) = SUBSET DOMAIN q
    <2>1. \A s \in SUBSET S : Cardinality(s) <= N  BY <1>a, FS_Subset
    <2>2. QED  BY <1>0, <2>1
  <1>7. PICK g : Part(g, N)  BY <1>4
  <1> HIDE DEF Upto, Good
  <1>8. Folds(g, st, q)  BY <1>6, <1>7, Zenon DEF Folds
  <1>9. QED  BY <1>8

(* What is stored after each of the packets.                                 *)
Stores(h, st, q) ==
  h[0] = st /\ \A k \in Nat : k + 1 \in DOMAIN q => h[k + 1] = Stored(h[k], q[k + 1])

LEMMA FoldStores ==
  ASSUME NEW T, NEW st, NEW q \in Seq(T)
  PROVE  \E h : Stores(h, st, q) /\ FoldLeft(Stored, st, q) = h[Len(q)]
  <1>0. PICK N \in Nat : N = Len(q) /\ DOMAIN q = 1..N  OBVIOUS
  <1>1. PICK g : g = CHOOSE f : Folds(f, st, q)  OBVIOUS
  <1>2. Folds(g, st, q)  BY <1>1, FoldExists, Zenon
  <1>3. PICK h : h = [k \in 0..N |-> g[1..k]]  OBVIOUS
  <1>4. FoldLeft(Stored, st, q) = h[N]
    <2>1. h[N] = g[DOMAIN q]  BY <1>0, <1>3
    <2>2. QED  BY <1>1, <2>1, FoldDef, Zenon
  <1>5. \A s \in SUBSET DOMAIN q :
          g[s] = IF s = {} THEN st ELSE Stored(g[s \ {Max(s)}], q[Max(s)])
    BY <1>2, Zenon DEF Folds
  <1>6. h[0] = st
    <2>1. h[0] = g[{}]  BY <1>3
    <2>2. QED  BY <1>5, <2>1, Zenon
  <1>7. ASSUME NEW k \in Nat, k + 1 \in DOMAIN q PROVE h[k + 1] = Stored(h[k], q[k + 1])
    <2>a. k + 1 <= N /\ k + 1 \in 1..k+1  BY <1>0, <1>7
    <2>1. 1..k+1 \in SUBSET (1..N) /\ 1..k+1 # {} /\ k + 1 <= N
      <3>1. \A x \in 1..k+1 : x \in 1..N  BY <2>a
      <3>2. QED  BY <2>a, <3>1
    <2>2. Max(1..k+1) \in 1..k+1 /\ \A x \in 1..k+1 : Max(1..k+1) >= x
      BY <2>1, MaxIsIn
    <2>3. Max(1..k+1) = k + 1
      <3>1. PICK m : m = Max(1..k+1)  OBVIOUS
      <3>2. m \in 1..k+1 /\ m >= k + 1  BY <2>2, <3>1
      <3>3. QED  BY <3>1, <3>2
    <2>4. (1..k+1) \ {k + 1} = 1..k  OBVIOUS
    <2>5. h[k + 1] = g[1..k+1] /\ h[k] = g[1..k]  BY <1>3, <2>1
    <2>6. 1..k+1 \in SUBSET DOMAIN q  BY <1>0, <2>1
    <2>7. g[1..k+1] = Stored(g[(1..k+1) \ {k + 1}], q[k + 1])
      BY <1>5, <2>1, <2>3, <2>6, Zenon
    <2>8. QED  BY <2>4, <2>5, <2>7, Zenon
  <1>8. Stores(h, st, q)  BY <1>6, <1>7, Zenon DEF Stores
  <1>9. QED  BY <1>0, <1>4, <1>8
-----------------------------------------------------------------------------
(* What is stored and what was sent, between frames and between the packets  *)
(* of a frame: st is the store, im the images sent, ct how often each packet *)
(* was taken.  Ending is the packet that ends an image: it came again before *)
(* an image can be sent again.                                               *)
Ids(i) == 0..LastPacket[i]
Ending(i) == [image |-> i, id |-> LastPacket[i]]

ImageJob(i) ==
  [eoi : {-1, LastPacket[i]}, ids : SUBSET Ids(i), pixels : [Ids(i) -> Nat], sent : BOOLEAN]
Recorded(i, job) ==
  /\ \A n \in job.ids : job.pixels[n] > 0
  /\ job.eoi # -1 => Ending(i) \in Blank \/ job.pixels[LastPacket[i]] > 0
ImageStore(st) ==
  /\ DOMAIN st \subseteq DOMAIN LastPacket /\ IsFiniteSet(DOMAIN st)
  /\ \A i \in DOMAIN st : st[i] \in ImageJob(i) /\ Recorded(i, st[i])
ImageOf(i) == [number : {i}, pixels : [Ids(i) -> Nat]]
AllImages == UNION {ImageOf(i) : i \in DOMAIN LastPacket}

FramesOf(im, i) == {n \in DOMAIN im : im[n].number = i}
SentPixels(im, p) == SumOf([n \in DOMAIN im |-> im[n].pixels[p.id]], FramesOf(im, p.image))
JobPixels(st, p) ==
  IF p.image \in DOMAIN st /\ ~st[p.image].sent THEN st[p.image].pixels[p.id] ELSE 0

WasSent(im, i) == \E n \in DOMAIN im : im[n].number = i
Ended(st, i) == i \in DOMAIN st /\ st[i].eoi # -1

PixelsKept(st, im, ct) ==
  \A p \in Packets \ Blank :
    /\ SentPixels(im, p) + JobPixels(st, p) <= ct[p]
    /\ ct[p] > 0 => SentPixels(im, p) + JobPixels(st, p) > 0
SentWhole(st, im) ==
  /\ \A n \in DOMAIN im : Whole(im[n])
  /\ \A i \in DOMAIN st : st[i].sent => WasSent(im, i)
EndsCounted(st, im, ct) ==
  /\ \A i \in DOMAIN LastPacket : WasSent(im, i) \/ Ended(st, i) => ct[Ending(i)] > 0
  /\ \A i \in DOMAIN st : WasSent(im, i) /\ Ended(st, i) /\ ~st[i].sent => ct[Ending(i)] > 1
  /\ \A m, n \in DOMAIN im : m # n /\ im[m].number = im[n].number => ct[Ending(im[m].number)] > 1

CountTypes(st, im, ct) == ImageStore(st) /\ im \in Seq(AllImages) /\ ct \in [Packets -> Nat]
Assembling(st, im, ct) ==
  CountTypes(st, im, ct) /\ PixelsKept(st, im, ct) /\ SentWhole(st, im) /\ EndsCounted(st, im, ct)

LEMMA PacketFacts ==
  /\ \A i \in DOMAIN LastPacket : i \in Nat /\ LastPacket[i] \in Nat /\ Ending(i) \in Packets
  /\ \A p \in Packets : /\ p.image \in DOMAIN LastPacket /\ p.id \in Ids(p.image)
                        /\ p = [image |-> p.image, id |-> p.id]
                        /\ (p.id = LastPacket[p.image] <=> p = Ending(p.image))
  <1>1. \A i \in DOMAIN LastPacket : i \in Nat /\ LastPacket[i] \in Nat  BY CountAssumption
  <1>2. ASSUME NEW p \in Packets
        PROVE  /\ p.image \in DOMAIN LastPacket /\ p.id \in Ids(p.image)
               /\ p = [image |-> p.image, id |-> p.id]
    <2>1. PICK i \in DOMAIN LastPacket : p \in {[image |-> i, id |-> n] : n \in 0..LastPacket[i]}
      BY DEF Packets
    <2>2. PICK n \in 0..LastPacket[i] : p = [image |-> i, id |-> n]  BY <2>1
    <2>3. QED  BY <2>2 DEF Ids
  <1>3. ASSUME NEW i \in DOMAIN LastPacket PROVE Ending(i) \in Packets
    <2>1. LastPacket[i] \in 0..LastPacket[i]  BY <1>1
    <2>2. Ending(i) \in {[image |-> i, id |-> n] : n \in 0..LastPacket[i]}  BY <2>1 DEF Ending
    <2>3. QED  BY <2>2 DEF Packets
  <1>4. \A p \in Packets : p.id = LastPacket[p.image] <=> p = Ending(p.image)
    BY <1>2 DEF Ending
  <1>5. QED  BY <1>1, <1>2, <1>3, <1>4

LEMMA ImageFacts ==
  ASSUME NEW f \in AllImages
  PROVE  /\ f.number \in DOMAIN LastPacket /\ f.pixels \in [Ids(f.number) -> Nat]
  <1>1. PICK i \in DOMAIN LastPacket : f \in ImageOf(i)  BY DEF AllImages
  <1>2. QED  BY <1>1 DEF ImageOf

LEMMA SentPixelsType ==
  ASSUME NEW im \in Seq(AllImages), NEW p \in Packets
  PROVE  /\ IsFiniteSet(FramesOf(im, p.image)) /\ SentPixels(im, p) \in Nat
         /\ \A n \in FramesOf(im, p.image) : im[n].pixels[p.id] \in Nat
         /\ \A n \in FramesOf(im, p.image) : im[n].pixels[p.id] > 0 => SentPixels(im, p) > 0
  <1>1. PICK S : S = FramesOf(im, p.image)  OBVIOUS
  <1>2. PICK v : v = [n \in DOMAIN im |-> im[n].pixels[p.id]]  OBVIOUS
  <1>3. IsFiniteSet(S)
    <2>1. IsFiniteSet(1..Len(im))  BY FS_Interval
    <2>2. S \in SUBSET (1..Len(im))  BY <1>1 DEF FramesOf
    <2>3. QED  BY <2>1, <2>2, FS_Subset
  <1>4. \A n \in S : im[n].pixels[p.id] \in Nat /\ v[n] = im[n].pixels[p.id]
    <2>1. SUFFICES ASSUME NEW n \in S
                   PROVE  im[n].pixels[p.id] \in Nat /\ v[n] = im[n].pixels[p.id]
      OBVIOUS
    <2>2. n \in DOMAIN im /\ im[n].number = p.image /\ im[n] \in AllImages
      BY <1>1 DEF FramesOf
    <2>3. p.id \in Ids(im[n].number)  BY <2>2, PacketFacts
    <2>4. im[n].pixels[p.id] \in Nat  BY <2>2, <2>3, ImageFacts
    <2>5. QED  BY <1>2, <2>2, <2>4
  <1>5. SentPixels(im, p) = SumOf(v, S)  BY <1>1, <1>2, Zenon DEF SentPixels
  <1>6. SumOf(v, S) \in Nat /\ \A n \in S : SumOf(v, S) = v[n] + SumOf(v, S \ {n})
    BY <1>3, <1>4, SumOfRemove
  <1>7. \A n \in S : SumOf(v, S \ {n}) \in Nat
    <2>1. SUFFICES ASSUME NEW n \in S PROVE SumOf(v, S \ {n}) \in Nat  OBVIOUS
    <2>2. IsFiniteSet(S \ {n}) /\ \A m \in S \ {n} : v[m] \in Nat  BY <1>3, <1>4, FS_Subset
    <2>3. QED  BY <2>2, SumOfRemove
  <1>8. \A n \in S : im[n].pixels[p.id] > 0 => SentPixels(im, p) > 0
    <2>1. SUFFICES ASSUME NEW n \in S, im[n].pixels[p.id] > 0 PROVE SentPixels(im, p) > 0
      OBVIOUS
    <2>2. PICK a \in Nat : a = v[n] /\ a > 0  BY <1>4, <2>1
    <2>3. PICK b \in Nat : b = SumOf(v, S \ {n})  BY <1>7, <2>1
    <2>4. SentPixels(im, p) = a + b  BY <1>5, <1>6, <2>1, <2>2, <2>3, Zenon
    <2>5. QED  BY <2>2, <2>3, <2>4
  <1>9. QED  BY <1>1, <1>3, <1>4, <1>5, <1>6, <1>8

(* A packet changes the job of its image only.                               *)
JobBefore(st, p) == IF p.image \in DOMAIN st THEN st[p.image] ELSE NewImage(p.image)

Adds(st, p, job, new, i) ==
  /\ DOMAIN new = DOMAIN st \cup {i} /\ \A k \in DOMAIN st : k # i => new[k] = st[k]
  /\ new[i] \in ImageJob(i) /\ Recorded(i, new[i])
  /\ new[i].sent = job.sent
  /\ new[i].pixels[p.id] = job.pixels[p.id] + (IF p \in Blank THEN 0 ELSE 1)
  /\ \A n \in Ids(i) : job.pixels[n] \in Nat /\ (n # p.id => new[i].pixels[n] = job.pixels[n])
  /\ (new[i].eoi # -1 <=> job.eoi # -1 \/ p = Ending(i))

LEMMA StoredJob ==
  ASSUME NEW st, ImageStore(st), NEW p \in Packets
  PROVE  Adds(st, p, JobBefore(st, p), Stored(st, p), p.image)
  <1>i. PICK i : i = p.image  OBVIOUS
  <1>n. PICK new : new = Stored(st, p)  OBVIOUS
  <1>j. PICK job : job = JobBefore(st, p)  OBVIOUS
  <1> SUFFICES Adds(st, p, job, new, i)  BY <1>i, <1>n, <1>j, Zenon
  <1>1. /\ i \in DOMAIN LastPacket /\ LastPacket[i] \in Nat /\ p.id \in Ids(i)
        /\ (p.id = LastPacket[i] <=> p = Ending(i))
    BY <1>i, PacketFacts
  <1>2. job \in ImageJob(i) /\ Recorded(i, job)
    <2>1. CASE i \in DOMAIN st  BY <1>i, <1>j, <2>1 DEF ImageStore, JobBefore
    <2>2. CASE i \notin DOMAIN st
      <3>1. job = [eoi |-> -1, ids |-> {}, pixels |-> [n \in Ids(i) |-> 0], sent |-> FALSE]
        BY <1>i, <1>j, <2>2, Zenon DEF JobBefore, NewImage, Ids
      <3>2. [n \in Ids(i) |-> 0] \in [Ids(i) -> Nat]  OBVIOUS
      <3>3. job \in ImageJob(i)  BY <3>1, <3>2 DEF ImageJob
      <3>4. Recorded(i, job)  BY <3>1 DEF Recorded
      <3>5. QED  BY <3>3, <3>4
    <2>3. QED  BY <2>1, <2>2
  <1>3. new = [k \in DOMAIN st \cup {i} |->
                 IF k = i THEN WithEnd(WithPixels(job, p), p) ELSE st[k]]
    BY <1>i, <1>n, <1>j, Zenon DEF Stored, JobBefore
  <1>4. PICK mid : mid = WithPixels(job, p)  OBVIOUS
  <1>5. /\ mid \in ImageJob(i) /\ mid.eoi = job.eoi /\ mid.sent = job.sent
        /\ \A n \in mid.ids : mid.pixels[n] > 0
        /\ (mid.eoi # -1 => Ending(i) \in Blank \/ mid.pixels[LastPacket[i]] > 0)
        /\ mid.pixels[p.id] = job.pixels[p.id] + (IF p \in Blank THEN 0 ELSE 1)
        /\ \A n \in Ids(i) : job.pixels[n] \in Nat /\ (n # p.id => mid.pixels[n] = job.pixels[n])
    <2>1. /\ job.pixels \in [Ids(i) -> Nat] /\ job.ids \subseteq Ids(i) /\ LastPacket[i] \in Ids(i)
          /\ \A n \in job.ids : job.pixels[n] > 0
          /\ job.eoi # -1 => Ending(i) \in Blank \/ job.pixels[LastPacket[i]] > 0
      BY <1>1, <1>2 DEF ImageJob, Recorded, Ids
    <2>2. CASE p \in Blank  BY <1>2, <1>4, <1>1, <2>1, <2>2 DEF WithPixels
    <2>3. CASE p \notin Blank
      <3>1. mid = [job EXCEPT !.pixels[p.id] = @ + 1, !.ids = @ \cup {p.id}]
        BY <1>4, <2>3 DEF WithPixels
      <3>2. PICK pix : pix = [job.pixels EXCEPT ![p.id] = @ + 1]  OBVIOUS
      <3>3. /\ pix \in [Ids(i) -> Nat] /\ pix[p.id] = job.pixels[p.id] + 1
            /\ \A n \in Ids(i) : n # p.id => pix[n] = job.pixels[n]
        BY <1>1, <2>1, <3>2
      <3>4. mid = [eoi |-> job.eoi, ids |-> job.ids \cup {p.id}, pixels |-> pix, sent |-> job.sent]
        BY <1>2, <3>1, <3>2 DEF ImageJob
      <3>5. mid \in ImageJob(i)  BY <1>1, <1>2, <2>1, <3>3, <3>4 DEF ImageJob
      <3>6. mid.eoi = job.eoi /\ mid.sent = job.sent /\ mid.pixels = pix /\ mid.ids = job.ids \cup {p.id}
        BY <3>4
      <3>7. \A n \in Ids(i) : pix[n] >= job.pixels[n] /\ job.pixels[n] \in Nat  BY <2>1, <3>3
      <3>8. pix[p.id] > 0  BY <1>1, <2>1, <3>3
      <3>9. \A n \in Ids(i) : job.pixels[n] > 0 => pix[n] > 0  BY <2>1, <3>3, <3>7
      <3>10. \A n \in job.ids \cup {p.id} : pix[n] > 0  BY <2>1, <3>8, <3>9
      <3>11. job.eoi # -1 => Ending(i) \in Blank \/ pix[LastPacket[i]] > 0  BY <2>1, <3>9
      <3>12. QED  BY <2>3, <3>3, <3>5, <3>6, <3>7, <3>10, <3>11
    <2>4. QED  BY <2>2, <2>3
  <1>6. new[i] = WithEnd(mid, p) /\ DOMAIN new = DOMAIN st \cup {i}
        /\ \A k \in DOMAIN st : k # i => new[k] = st[k]
    BY <1>3, <1>4
  <1>7. CASE p = Ending(i)
    <2>1. new[i] = [mid EXCEPT !.eoi = p.id] /\ p.id = LastPacket[i]
      BY <1>i, <1>1, <1>6, <1>7 DEF WithEnd
    <2>2. new[i] = [eoi |-> LastPacket[i], ids |-> mid.ids, pixels |-> mid.pixels, sent |-> mid.sent]
      BY <1>5, <2>1 DEF ImageJob
    <2>3. new[i] \in ImageJob(i)  BY <1>5, <2>2 DEF ImageJob
    <2>4. new[i].eoi # -1 /\ new[i].pixels = mid.pixels /\ new[i].sent = mid.sent /\ new[i].ids = mid.ids
      BY <1>1, <2>2
    <2>5. Ending(i) \in Blank \/ mid.pixels[LastPacket[i]] > 0
      <3>1. SUFFICES ASSUME p \notin Blank PROVE mid.pixels[p.id] > 0  BY <1>7, <2>1, Zenon
      <3>2. PICK a \in Nat : a = job.pixels[p.id]  BY <1>1, <1>5
      <3>3. mid.pixels[p.id] = a + 1  BY <1>5, <3>1, <3>2
      <3>4. QED  BY <3>3
    <2>6. Recorded(i, new[i])  BY <1>5, <2>4, <2>5 DEF Recorded
    <2>7. /\ new[i].sent = job.sent
          /\ new[i].pixels[p.id] = job.pixels[p.id] + (IF p \in Blank THEN 0 ELSE 1)
          /\ \A n \in Ids(i) : job.pixels[n] \in Nat /\ (n # p.id => new[i].pixels[n] = job.pixels[n])
      BY <1>5, <2>4, Zenon
    <2>8. QED  BY <1>6, <1>7, <2>3, <2>4, <2>6, <2>7, Zenon DEF Adds
  <1>8. CASE p # Ending(i)
    <2>1. new[i] = mid  BY <1>i, <1>1, <1>6, <1>8 DEF WithEnd
    <2>2. Recorded(i, new[i])  BY <1>5, <2>1 DEF Recorded
    <2>3. QED  BY <1>5, <1>6, <1>8, <2>1, <2>2 DEF Adds
  <1>9. QED  BY <1>7, <1>8

LEMMA JobPixelsType ==
  ASSUME NEW st, ImageStore(st), NEW q \in Packets
  PROVE  JobPixels(st, q) \in Nat
  <1>1. q.id \in Ids(q.image)  BY PacketFacts
  <1>2. \A k \in DOMAIN st : st[k].pixels \in [Ids(k) -> Nat]  BY DEF ImageStore, ImageJob
  <1>3. QED  BY <1>1, <1>2 DEF JobPixels

LEMMA StoredPixels ==
  ASSUME NEW st, ImageStore(st), NEW p \in Packets, NEW q \in Packets \ Blank,
         NEW job, job = JobBefore(st, p), NEW new, new = Stored(st, p)
  PROVE  JobPixels(new, q) = JobPixels(st, q) + (IF q = p /\ ~job.sent THEN 1 ELSE 0)
  <1>1. PICK i : i = p.image  OBVIOUS
  <1>0. Adds(st, p, job, new, i)  BY <1>1, StoredJob, Zenon
  <1>2. /\ DOMAIN new = DOMAIN st \cup {i} /\ \A k \in DOMAIN st : k # i => new[k] = st[k]
        /\ new[i].sent = job.sent
        /\ new[i].pixels[p.id] = job.pixels[p.id] + (IF p \in Blank THEN 0 ELSE 1)
        /\ \A n \in Ids(i) : job.pixels[n] \in Nat /\ (n # p.id => new[i].pixels[n] = job.pixels[n])
    BY <1>0, Zenon DEF Adds
  <1>3. PICK b \in Nat : b = JobPixels(st, q)  BY JobPixelsType
  <1>4. q.id \in Ids(q.image) /\ (q = p <=> q.image = i /\ q.id = p.id)
    BY <1>1, PacketFacts
  <1>5. CASE q.image # i
    <2>1. q.image \in DOMAIN new <=> q.image \in DOMAIN st  BY <1>2, <1>5
    <2>2. q.image \in DOMAIN st => new[q.image] = st[q.image]  BY <1>2, <1>5
    <2>3. JobPixels(new, q) = b  BY <1>3, <2>1, <2>2, Zenon DEF JobPixels
    <2>4. q # p  BY <1>4, <1>5
    <2>5. QED  BY <1>3, <2>3, <2>4
  <1>6. CASE q.image = i
    <2>1. b = IF job.sent THEN 0 ELSE job.pixels[q.id]
      <3>1. CASE i \in DOMAIN st  BY <1>1, <1>3, <1>6, <3>1, Zenon DEF JobPixels, JobBefore
      <3>2. CASE i \notin DOMAIN st
        <4>1. b = 0  BY <1>3, <1>6, <3>2 DEF JobPixels
        <4>2. job = NewImage(i)  BY <1>1, <3>2 DEF JobBefore
        <4>3. job.sent = FALSE /\ job.pixels[q.id] = 0
          BY <1>4, <1>6, <4>2 DEF NewImage, Ids
        <4>4. QED  BY <4>1, <4>3
      <3>3. QED  BY <3>1, <3>2
    <2>2. JobPixels(new, q) = IF job.sent THEN 0 ELSE new[i].pixels[q.id]
      BY <1>2, <1>6 DEF JobPixels
    <2>3. CASE job.sent  BY <1>3, <2>1, <2>2, <2>3
    <2>4. CASE ~job.sent /\ q = p
      <3>1. new[i].pixels[q.id] = job.pixels[q.id] + 1  BY <1>2, <2>4
      <3>2. QED  BY <1>3, <2>1, <2>2, <2>4, <3>1
    <2>5. CASE ~job.sent /\ q # p
      <3>1. new[i].pixels[q.id] = job.pixels[q.id]  BY <1>2, <1>4, <1>6, <2>5
      <3>2. QED  BY <1>3, <2>1, <2>2, <2>5, <3>1
    <2>6. QED  BY <2>3, <2>4, <2>5
  <1>7. QED  BY <1>5, <1>6

LEMMA StoredKeeps ==
  ASSUME NEW st, NEW im, NEW ct, Assembling(st, im, ct), NEW p \in Packets,
         NEW more, more = [ct EXCEPT ![p] = @ + 1]
  PROVE  Assembling(Stored(st, p), im, more)
  <1>0. ImageStore(st) /\ im \in Seq(AllImages) /\ ct \in [Packets -> Nat]
    BY DEF Assembling, CountTypes
  <1>1. PICK i : i = p.image /\ i \in DOMAIN LastPacket  BY PacketFacts
  <1>2. PICK new : new = Stored(st, p)  OBVIOUS
  <1>3. PICK job : job = JobBefore(st, p)  OBVIOUS
  <1>a. Adds(st, p, job, new, i)  BY <1>0, <1>1, <1>2, <1>3, StoredJob, Zenon
  <1>4. /\ DOMAIN new = DOMAIN st \cup {i} /\ \A k \in DOMAIN st : k # i => new[k] = st[k]
        /\ new[i] \in ImageJob(i) /\ Recorded(i, new[i])
        /\ new[i].sent = job.sent
        /\ (new[i].eoi # -1 <=> job.eoi # -1 \/ p = Ending(i))
    BY <1>a, Zenon DEF Adds
  <1>5. /\ more \in [Packets -> Nat] /\ more[p] = ct[p] + 1
        /\ \A q \in Packets : ct[q] \in Nat /\ (q # p => more[q] = ct[q]) /\ more[q] >= ct[q]
    BY <1>0
  <1>6. CountTypes(new, im, more)
    <2>1. IsFiniteSet(DOMAIN new)  BY <1>0, <1>4, FS_AddElement DEF ImageStore
    <2>2. \A k \in DOMAIN new : new[k] \in ImageJob(k) /\ Recorded(k, new[k])
      BY <1>0, <1>4 DEF ImageStore
    <2>3. DOMAIN new \subseteq DOMAIN LastPacket  BY <1>0, <1>1, <1>4 DEF ImageStore
    <2>4. QED  BY <1>0, <1>5, <2>1, <2>2, <2>3 DEF CountTypes, ImageStore
  <1>7. ~job.sent \/ (i \in DOMAIN st /\ st[i].sent)
    <2>1. CASE i \in DOMAIN st  BY <1>1, <1>3, <2>1 DEF JobBefore
    <2>2. CASE i \notin DOMAIN st  BY <1>1, <1>3, <2>2 DEF JobBefore, NewImage
    <2>3. QED  BY <2>1, <2>2
  <1>8. PixelsKept(new, im, more)
    <2>1. SUFFICES ASSUME NEW q \in Packets \ Blank
                   PROVE  /\ SentPixels(im, q) + JobPixels(new, q) <= more[q]
                          /\ more[q] > 0 => SentPixels(im, q) + JobPixels(new, q) > 0
      BY DEF PixelsKept
    <2>2. PICK a \in Nat : a = SentPixels(im, q)  BY <1>0, SentPixelsType
    <2>3. PICK b \in Nat : b = JobPixels(st, q)  BY <1>0, JobPixelsType
    <2>4. PICK c \in Nat : c = ct[q]  BY <1>0
    <2>5. a + b <= c /\ (c > 0 => a + b > 0)
      BY <2>2, <2>3, <2>4 DEF Assembling, PixelsKept
    <2>6. JobPixels(new, q) = b + (IF q = p /\ ~job.sent THEN 1 ELSE 0)
      BY <1>0, <1>2, <1>3, <2>3, StoredPixels
    <2>7. q = p /\ job.sent => a > 0
      <3>1. SUFFICES ASSUME q = p, job.sent PROVE a > 0  OBVIOUS
      <3>2. WasSent(im, i)  BY <1>7, <3>1 DEF Assembling, SentWhole
      <3>3. PICK n \in DOMAIN im : im[n].number = i  BY <3>2 DEF WasSent
      <3>4. im[n] \in AllImages /\ Whole(im[n])  BY <1>0, <3>3 DEF Assembling, SentWhole
      <3>5. q.id \in DOMAIN im[n].pixels /\ q = [image |-> im[n].number, id |-> q.id]
        BY <1>1, <3>1, <3>3, <3>4, ImageFacts, PacketFacts
      <3>6. im[n].pixels[q.id] > 0  BY <3>4, <3>5 DEF Whole
      <3>7. n \in FramesOf(im, q.image)  BY <1>1, <3>1, <3>3 DEF FramesOf
      <3>8. QED  BY <1>0, <2>2, <3>6, <3>7, SentPixelsType
    <2>8. CASE q = p
      <3>1. more[q] = c + 1  BY <1>5, <2>4, <2>8
      <3>2. CASE job.sent
        <4>1. JobPixels(new, q) = b  BY <2>3, <2>6, <3>2
        <4>2. a > 0  BY <2>7, <2>8, <3>2
        <4>3. QED  BY <2>2, <2>5, <3>1, <4>1, <4>2
      <3>3. CASE ~job.sent
        <4>1. JobPixels(new, q) = b + 1  BY <2>6, <2>8, <3>3
        <4>2. QED  BY <2>2, <2>5, <3>1, <4>1
      <3>4. QED  BY <3>2, <3>3
    <2>9. CASE q # p
      <3>1. more[q] = c /\ JobPixels(new, q) = b  BY <1>5, <2>3, <2>4, <2>6, <2>9
      <3>2. QED  BY <2>2, <2>5, <3>1
    <2>10. QED  BY <2>8, <2>9
  <1>9. SentWhole(new, im)
    <2>1. \A k \in DOMAIN new : new[k].sent => k \in DOMAIN st /\ st[k].sent
      BY <1>4, <1>7
    <2>2. QED  BY <2>1 DEF Assembling, SentWhole
  <1>10. \A k \in DOMAIN LastPacket :
           Ended(new, k) => Ended(st, k) \/ p = Ending(k)
    <2>1. SUFFICES ASSUME NEW k \in DOMAIN LastPacket, Ended(new, k), p # Ending(k)
                   PROVE  Ended(st, k)
      OBVIOUS
    <2>2. CASE k # i  BY <1>4, <2>1, <2>2 DEF Ended
    <2>3. CASE k = i
      <3>1. job.eoi # -1  BY <1>4, <2>1, <2>3 DEF Ended
      <3>2. i \in DOMAIN st /\ job = st[i]
        <4>1. CASE i \in DOMAIN st  BY <1>1, <1>3, <4>1 DEF JobBefore
        <4>2. CASE i \notin DOMAIN st  BY <1>1, <1>3, <3>1, <4>2 DEF JobBefore, NewImage
        <4>3. QED  BY <4>1, <4>2
      <3>3. QED  BY <2>3, <3>1, <3>2 DEF Ended
    <2>4. QED  BY <2>2, <2>3
  <1>11. \A k \in DOMAIN LastPacket :
           /\ Ending(k) \in Packets /\ ct[Ending(k)] \in Nat /\ more[Ending(k)] >= ct[Ending(k)]
           /\ p = Ending(k) => more[Ending(k)] = ct[Ending(k)] + 1
    BY <1>5, PacketFacts
  <1>12. EndsCounted(new, im, more)
    <2>1. ASSUME NEW k \in DOMAIN LastPacket, WasSent(im, k) \/ Ended(new, k)
          PROVE  more[Ending(k)] > 0
      <3>1. p = Ending(k) \/ ct[Ending(k)] > 0
        BY <1>10, <2>1 DEF Assembling, EndsCounted
      <3>2. PICK a \in Nat, b \in Nat : a = ct[Ending(k)] /\ b = more[Ending(k)]
        BY <1>5, <1>11
      <3>3. b >= a /\ (p = Ending(k) => b = a + 1)  BY <1>11, <3>2
      <3>4. QED  BY <3>1, <3>2, <3>3
    <2>2. ASSUME NEW k \in DOMAIN new, WasSent(im, k), Ended(new, k), ~new[k].sent
          PROVE  more[Ending(k)] > 1
      <3>0. k \in DOMAIN LastPacket  BY <1>6 DEF CountTypes, ImageStore
      <3>1. ct[Ending(k)] > 0  BY <2>2, <3>0 DEF Assembling, EndsCounted
      <3>2. PICK a \in Nat, b \in Nat : a = ct[Ending(k)] /\ b = more[Ending(k)]
        BY <1>5, <1>11, <3>0
      <3>3. b >= a /\ (p = Ending(k) => b = a + 1)  BY <1>11, <3>0, <3>2
      <3>4. CASE p = Ending(k)  BY <3>1, <3>2, <3>3, <3>4
      <3>5. CASE p # Ending(k)
        <4>1. Ended(st, k) /\ k \in DOMAIN st  BY <1>10, <2>2, <3>0, <3>5 DEF Ended
        <4>2. ~st[k].sent
          <5>1. CASE k = i
            <6>1. job = st[i]  BY <1>1, <1>3, <4>1, <5>1 DEF JobBefore
            <6>2. QED  BY <1>4, <2>2, <5>1, <6>1
          <5>2. CASE k # i  BY <1>4, <2>2, <4>1, <5>2
          <5>3. QED  BY <5>1, <5>2
        <4>3. ct[Ending(k)] > 1  BY <2>2, <4>1, <4>2 DEF Assembling, EndsCounted
        <4>4. QED  BY <3>2, <3>3, <4>3
      <3>6. QED  BY <3>4, <3>5
    <2>3. ASSUME NEW m \in DOMAIN im, NEW n \in DOMAIN im, m # n, im[m].number = im[n].number
          PROVE  more[Ending(im[m].number)] > 1
      <3>1. im[m].number \in DOMAIN LastPacket
        <4>1. im[m] \in AllImages  BY <1>0
        <4>2. QED  BY <4>1, ImageFacts
      <3>2. PICK k \in DOMAIN LastPacket : k = im[m].number  BY <3>1
      <3>3. ct[Ending(k)] > 1  BY <2>3, <3>2 DEF Assembling, EndsCounted
      <3>4. PICK a \in Nat, b \in Nat : a = ct[Ending(k)] /\ b = more[Ending(k)]
        BY <1>5, <1>11
      <3>5. b >= a  BY <1>11, <3>4
      <3>6. QED  BY <3>2, <3>3, <3>4, <3>5
    <2>4. QED  BY <2>1, <2>2, <2>3 DEF EndsCounted
  <1>13. QED  BY <1>2, <1>6, <1>8, <1>9, <1>12 DEF Assembling

(* The packets of a frame, all of them.                                      *)
UptoCount(q, k, p) == Cardinality({n \in 1..k : q[n] = p})

LEMMA UptoNext ==
  ASSUME NEW q, NEW p
  PROVE  /\ UptoCount(q, 0, p) = 0
         /\ \A k \in Nat : /\ UptoCount(q, k, p) \in Nat
                           /\ UptoCount(q, k + 1, p) = UptoCount(q, k, p) + (IF q[k + 1] = p THEN 1 ELSE 0)
  <1>1. UptoCount(q, 0, p) = 0
    <2>1. {n \in 1..0 : q[n] = p} = {}  OBVIOUS
    <2>2. Cardinality({}) = 0  BY FS_EmptySet
    <2>3. QED  BY <2>1, <2>2, Zenon DEF UptoCount
  <1>2. ASSUME NEW k \in Nat
        PROVE  /\ UptoCount(q, k, p) \in Nat
               /\ UptoCount(q, k + 1, p) = UptoCount(q, k, p) + (IF q[k + 1] = p THEN 1 ELSE 0)
    <2>1. PICK S : S = {n \in 1..k : q[n] = p}  OBVIOUS
    <2>2. PICK R : R = {n \in 1..k+1 : q[n] = p}  OBVIOUS
    <2>3. IsFiniteSet(S) /\ k + 1 \notin S
      <3>1. IsFiniteSet(1..k) /\ S \in SUBSET (1..k)  BY <2>1, FS_Interval
      <3>2. k + 1 \notin S  BY <2>1
      <3>3. QED  BY <3>1, <3>2, FS_Subset
    <2>4. Cardinality(S) \in Nat  BY <2>3, FS_CardinalityType
    <2>5. CASE q[k + 1] = p
      <3>1. R = S \cup {k + 1}  BY <2>1, <2>2, <2>5
      <3>2. Cardinality(R) = Cardinality(S) + 1  BY <2>3, <3>1, FS_AddElement
      <3>3. QED  BY <2>1, <2>2, <2>4, <2>5, <3>2 DEF UptoCount
    <2>6. CASE q[k + 1] # p
      <3>1. R = S  BY <2>1, <2>2, <2>6
      <3>2. UptoCount(q, k, p) = Cardinality(S) /\ UptoCount(q, k + 1, p) = Cardinality(S)
        BY <2>1, <2>2, <3>1, Zenon DEF UptoCount
      <3>3. QED  BY <2>4, <2>6, <3>2
    <2>7. QED  BY <2>5, <2>6
  <1>3. QED  BY <1>1, <1>2

LEMMA FoldKeeps ==
  ASSUME NEW st, NEW im, NEW ct, Assembling(st, im, ct), NEW q \in Seq(Packets)
  PROVE  Assembling(FoldLeft(Stored, st, q), im, [p \in Packets |-> ct[p] + Copies(q, p)])
  <1>1. PICK N \in Nat : N = Len(q) /\ DOMAIN q = 1..N  OBVIOUS
  <1>2. PICK h : Stores(h, st, q) /\ FoldLeft(Stored, st, q) = h[N]  BY <1>1, FoldStores
  <1> DEFINE Taken(k) == [p \in Packets |-> ct[p] + UptoCount(q, k, p)]
             Good == {k \in Nat : k <= N => Assembling(h[k], im, Taken(k))}
  <1>3. ct \in [Packets -> Nat]  BY DEF Assembling, CountTypes
  <1>4. 0 \in Good
    <2>1. \A p \in Packets : ct[p] + UptoCount(q, 0, p) = ct[p]
      <3>1. \A p \in Packets : UptoCount(q, 0, p) = 0 /\ ct[p] \in Nat  BY <1>3, UptoNext
      <3>2. QED  BY <3>1
    <2>2. Taken(0) = ct  BY <1>3, <2>1
    <2> HIDE DEF Taken
    <2>3. Assembling(h[0], im, Taken(0))  BY <1>2, <2>2, Zenon DEF Stores
    <2>4. QED  BY <2>3
  <1>5. ASSUME NEW k \in Nat, k \in Good PROVE k + 1 \in Good
    <2>1. SUFFICES ASSUME k + 1 <= N PROVE Assembling(h[k + 1], im, Taken(k + 1))
      BY <1>5
    <2>2. Assembling(h[k], im, Taken(k))  BY <1>5, <2>1
    <2>3. PICK e \in Packets : e = q[k + 1] /\ k + 1 \in DOMAIN q  BY <1>1, <2>1
    <2>4. h[k + 1] = Stored(h[k], e)  BY <1>2, <2>3, Zenon DEF Stores
    <2>5. Taken(k + 1) = [Taken(k) EXCEPT ![e] = @ + 1]
      <3>1. \A p \in Packets :
              ct[p] + UptoCount(q, k + 1, p) = (ct[p] + UptoCount(q, k, p)) + (IF p = e THEN 1 ELSE 0)
        <4>1. SUFFICES ASSUME NEW p \in Packets
                       PROVE  ct[p] + UptoCount(q, k + 1, p)
                                = (ct[p] + UptoCount(q, k, p)) + (IF p = e THEN 1 ELSE 0)
          OBVIOUS
        <4>2. PICK a \in Nat, b \in Nat : a = ct[p] /\ b = UptoCount(q, k, p)  BY <1>3, UptoNext
        <4>3. UptoCount(q, k + 1, p) = b + (IF p = e THEN 1 ELSE 0)
          <5>1. UptoCount(q, k + 1, p) = UptoCount(q, k, p) + (IF q[k + 1] = p THEN 1 ELSE 0)
            BY UptoNext, Zenon
          <5>2. q[k + 1] = p <=> p = e  BY <2>3
          <5>3. QED  BY <4>2, <5>1, <5>2
        <4>4. QED  BY <4>2, <4>3
      <3>2. PICK f : f = Taken(k)  OBVIOUS
      <3>3. DOMAIN f = Packets /\ \A p \in Packets : f[p] = ct[p] + UptoCount(q, k, p)  BY <3>2
      <3>4. PICK g : g = [f EXCEPT ![e] = @ + 1]  OBVIOUS
      <3>5. g = [p \in Packets |-> ct[p] + UptoCount(q, k + 1, p)]
        <4>1. g = [p \in Packets |-> IF p = e THEN f[p] + 1 ELSE f[p]]  BY <3>3, <3>4
        <4>2. \A p \in Packets : (IF p = e THEN f[p] + 1 ELSE f[p]) = ct[p] + UptoCount(q, k + 1, p)
          <5>1. SUFFICES ASSUME NEW p \in Packets
                         PROVE  (IF p = e THEN f[p] + 1 ELSE f[p]) = ct[p] + UptoCount(q, k + 1, p)
            OBVIOUS
          <5>2. PICK a \in Nat, b \in Nat : a = ct[p] /\ b = UptoCount(q, k, p)  BY <1>3, UptoNext
          <5>3. QED  BY <3>1, <3>3, <5>2
        <4>3. QED  BY <4>1, <4>2, Zenon
      <3>6. QED  BY <3>2, <3>4, <3>5
    <2> HIDE DEF Taken
    <2>6. PICK f, x : f = Taken(k) /\ x = h[k]  OBVIOUS
    <2>7. Assembling(Stored(x, e), im, [f EXCEPT ![e] = @ + 1])
      <3>1. Assembling(x, im, f)  BY <2>2, <2>6, Zenon
      <3>2. QED  BY <3>1, StoredKeeps, Zenon
    <2>8. QED  BY <2>4, <2>5, <2>6, <2>7, Zenon
  <1>6. Nat \subseteq Good
    <2> HIDE DEF Good
    <2>1. QED  BY <1>4, <1>5, AllNumbers
  <1>7. Assembling(h[N], im, Taken(N))  BY <1>6
  <1>8. Taken(N) = [p \in Packets |-> ct[p] + Copies(q, p)]
    BY <1>1, Zenon DEF UptoCount, Copies
  <1> HIDE DEF Taken, Good
  <1>9. QED  BY <1>2, <1>7, <1>8, Zenon

(* Images sent together: each once, after those sent before.                 *)
SendsEach(st, numbers, order, N) ==
  /\ N \in Nat /\ order \in [1..N -> numbers]
  /\ \A m, n \in 1..N : order[m] = order[n] => m = n
  /\ \A i \in numbers : \E n \in 1..N : order[n] = i

LEMMA OrderFacts ==
  ASSUME NEW st, ImageStore(st), NEW numbers \in SUBSET DOMAIN st, NEW order \in InTurn(numbers)
  PROVE  \E N : SendsEach(st, numbers, order, N)
  <1>1. IsFiniteSet(numbers)  BY FS_Subset DEF ImageStore
  <1>2. PICK N \in Nat : N = Cardinality(numbers)  BY <1>1, FS_CardinalityType
  <1>3. order \in [1..N -> numbers] /\ \A m, n \in 1..N : m < n => order[m] < order[n]
    BY <1>2 DEF InTurn
  <1>4. \A m \in 1..N : order[m] \in Nat  BY <1>3, PacketFacts DEF ImageStore
  <1>5. \A m, n \in 1..N : order[m] = order[n] => m = n
    <2>1. SUFFICES ASSUME NEW m \in 1..N, NEW n \in 1..N, order[m] = order[n], m # n PROVE FALSE
      OBVIOUS
    <2>2. m < n \/ n < m  BY <2>1
    <2>3. order[m] < order[m]  BY <1>3, <2>1, <2>2
    <2>4. QED  BY <1>4, <2>3
  <1>6. order \in Injection(1..N, numbers)  BY <1>3, <1>5 DEF Injection, IsInjective
  <1>7. Cardinality(1..N) = Cardinality(numbers)  BY <1>2, FS_Interval
  <1>8. order \in Surjection(1..N, numbers)  BY <1>1, <1>6, <1>7, FS_Injection
  <1>9. SendsEach(st, numbers, order, N)  BY <1>3, <1>5, <1>8 DEF SendsEach, Surjection
  <1>10. QED  BY <1>9

(* The elements of the images sent, old and new.                             *)
SentAfter(st, im, order, N, all, L) ==
  /\ all \in Seq(AllImages) /\ Len(all) = L + N /\ L \in Nat /\ DOMAIN im = 1..L
  /\ \A n \in 1..L : all[n] = im[n]
  /\ \A n \in 1..N : all[L + n] = ImageFrame(order[n], st[order[n]])

LEMMA SentAfterIs ==
  ASSUME NEW st, ImageStore(st), NEW im \in Seq(AllImages), NEW numbers \in SUBSET DOMAIN st,
         NEW order, NEW N, SendsEach(st, numbers, order, N)
  PROVE  \E L : SentAfter(st, im, order, N, im \o AsFrames(st, order), L)
  <1>1. N \in Nat /\ order \in [1..N -> numbers]  BY DEF SendsEach
  <1>2. PICK fr : fr = AsFrames(st, order)  OBVIOUS
  <1>3. fr = [n \in 1..N |-> ImageFrame(order[n], st[order[n]])]
    BY <1>1, <1>2 DEF AsFrames
  <1>4. \A n \in 1..N : ImageFrame(order[n], st[order[n]]) \in AllImages
    <2>1. SUFFICES ASSUME NEW i \in numbers PROVE ImageFrame(i, st[i]) \in AllImages
      BY <1>1
    <2>2. i \in DOMAIN LastPacket /\ st[i].pixels \in [Ids(i) -> Nat]  BY DEF ImageStore, ImageJob
    <2>3. ImageFrame(i, st[i]) \in ImageOf(i)  BY <2>2 DEF ImageFrame, ImageOf
    <2>4. QED  BY <2>2, <2>3 DEF AllImages
  <1>5. fr \in Seq(AllImages) /\ Len(fr) = N
    <2>1. \A n \in 1..N : fr[n] \in AllImages  BY <1>3, <1>4
    <2>2. QED  BY <1>1, <1>3, <2>1
  <1>6. PICK L \in Nat : L = Len(im) /\ DOMAIN im = 1..L  OBVIOUS
  <1>7. PICK all : all = im \o fr  OBVIOUS
  <1>8. /\ all \in Seq(AllImages) /\ Len(all) = L + N
        /\ \A n \in 1..L : all[n] = im[n]
        /\ \A n \in 1..N : all[L + n] = fr[n]
    <2>1. all \in Seq(AllImages) /\ Len(all) = L + N
      <3>1. im \o fr \in Seq(AllImages)  BY <1>5, ConcatFacts, Zenon
      <3>2. Len(im \o fr) = Len(im) + Len(fr)  BY <1>5
      <3>3. QED  BY <1>5, <1>6, <1>7, <3>1, <3>2, Zenon
    <2>2. \A n \in 1..L : all[n] = im[n]  BY <1>5, <1>6, <1>7
    <2>3. \A n \in 1..N : all[L + n] = fr[n]
      <3>1. SUFFICES ASSUME NEW n \in 1..N PROVE all[L + n] = fr[n]  OBVIOUS
      <3>2. PICK k \in Nat : k = L + n /\ k > L /\ k <= L + N /\ k - L = n  BY <1>1, <1>6
      <3>3. (im \o fr)[k] = fr[k - L]  BY <1>5, <1>6, <3>2
      <3>4. QED  BY <1>7, <3>2, <3>3
    <2>4. QED  BY <2>1, <2>2, <2>3
  <1>9. \A n \in 1..N : all[L + n] = ImageFrame(order[n], st[order[n]])  BY <1>3, <1>8
  <1>10. SentAfter(st, im, order, N, all, L)  BY <1>6, <1>8, <1>9, Zenon DEF SentAfter
  <1>11. QED  BY <1>2, <1>7, <1>10

(* What is sent of a packet.                                                 *)
SentOf(st, numbers, p) == IF p.image \in numbers THEN st[p.image].pixels[p.id] ELSE 0

LEMMA SentPixelsMore ==
  ASSUME NEW st, ImageStore(st), NEW im \in Seq(AllImages), NEW numbers \in SUBSET DOMAIN st,
         NEW order, NEW N, SendsEach(st, numbers, order, N),
         NEW all, NEW L, SentAfter(st, im, order, N, all, L), NEW p \in Packets
  PROVE  SentPixels(all, p) = SentPixels(im, p) + SentOf(st, numbers, p)
  <1>1. PICK i : i = p.image /\ p.id \in Ids(i)  BY PacketFacts
  <1>2. PICK v : v = [n \in DOMAIN im |-> im[n].pixels[p.id]]  OBVIOUS
  <1>3. PICK w : w = [n \in DOMAIN all |-> all[n].pixels[p.id]]  OBVIOUS
  <1>4. PICK S, R : S = FramesOf(im, i) /\ R = FramesOf(all, i)  OBVIOUS
  <1>5. SentPixels(im, p) = SumOf(v, S) /\ SentPixels(all, p) = SumOf(w, R)
    BY <1>1, <1>2, <1>3, <1>4, Zenon DEF SentPixels
  <1>6. /\ IsFiniteSet(S) /\ SumOf(v, S) \in Nat /\ IsFiniteSet(R)
        /\ \A n \in R : all[n].pixels[p.id] \in Nat
    BY <1>1, <1>4, <1>5, SentPixelsType DEF SentAfter
  <1>7. /\ L \in Nat /\ N \in Nat /\ DOMAIN im = 1..L /\ DOMAIN all = 1..L+N
        /\ \A n \in 1..L : all[n] = im[n]
        /\ \A n \in 1..N : all[L + n] = ImageFrame(order[n], st[order[n]])
    BY DEF SentAfter, SendsEach
  <1>8. \A n \in S : n \in 1..L /\ n \in DOMAIN all /\ v[n] = w[n]
    <2>1. SUFFICES ASSUME NEW n \in S PROVE n \in 1..L /\ n \in DOMAIN all /\ v[n] = w[n]
      OBVIOUS
    <2>2. n \in DOMAIN im /\ n \in 1..L /\ n \in 1..L+N  BY <1>4, <1>7 DEF FramesOf
    <2>3. n \in DOMAIN all /\ all[n] = im[n]  BY <1>7, <2>2
    <2>4. v[n] = w[n]  BY <1>2, <1>3, <2>2, <2>3, Zenon
    <2>5. QED  BY <2>2, <2>3, <2>4
  <1>9. SumOf(v, S) = SumOf(w, S)  BY <1>6, <1>8, SumOfSame
  <1>10. \A n \in R : w[n] \in Nat /\ w[n] = all[n].pixels[p.id]
    BY <1>3, <1>4, <1>6 DEF FramesOf
  <1>11. \A n \in 1..L+N : n \in 1..L \/ \E m \in 1..N : n = L + m
    <2>1. SUFFICES ASSUME NEW n \in 1..L+N, n \notin 1..L PROVE \E m \in 1..N : n = L + m
      OBVIOUS
    <2>2. n - L \in 1..N /\ n = L + (n - L)  BY <1>7, <2>1
    <2>3. QED  BY <2>2
  <1>12. \A m \in 1..N : all[L + m].number = order[m] /\ L + m \in DOMAIN all /\ L + m \notin 1..L
    <2>1. SUFFICES ASSUME NEW m \in 1..N
                   PROVE  all[L + m].number = order[m] /\ L + m \in DOMAIN all /\ L + m \notin 1..L
      OBVIOUS
    <2>2. all[L + m].number = order[m]
      <3>1. all[L + m] = ImageFrame(order[m], st[order[m]])  BY <1>7
      <3>2. QED  BY <3>1 DEF ImageFrame
    <2>3. L + m \in 1..L+N /\ L + m \notin 1..L
      <3>1. L \in Nat /\ N \in Nat  BY <1>7
      <3>2. QED  BY <3>1
    <2>4. QED  BY <1>7, <2>2, <2>3
  <1>a. \A n \in R : n \in S \/ \E m \in 1..N : n = L + m /\ order[m] = i
    <2>1. SUFFICES ASSUME NEW n \in R, n \notin S PROVE \E m \in 1..N : n = L + m /\ order[m] = i
      OBVIOUS
    <2>2. n \in DOMAIN all /\ all[n].number = i  BY <1>4 DEF FramesOf
    <2>3. n \notin 1..L  BY <1>4, <1>7, <2>1, <2>2 DEF FramesOf
    <2>4. PICK m \in 1..N : n = L + m  BY <1>7, <1>11, <2>2, <2>3
    <2>5. QED  BY <1>12, <2>2, <2>4
  <1>b. \A n \in S : n \in R
    <2>1. SUFFICES ASSUME NEW n \in S PROVE n \in R  OBVIOUS
    <2>2. n \in 1..L /\ n \in DOMAIN all /\ im[n].number = i  BY <1>4, <1>8 DEF FramesOf
    <2>3. QED  BY <1>4, <1>7, <2>2 DEF FramesOf
  <1>13. CASE i \notin numbers
    <2>1. \A m \in 1..N : order[m] # i  BY <1>13 DEF SendsEach
    <2>2. R = S  BY <1>a, <1>b, <2>1
    <2>3. QED  BY <1>1, <1>5, <1>6, <1>9, <1>13, <2>2 DEF SentOf
  <1>14. CASE i \in numbers
    <2>1. PICK m \in 1..N : order[m] = i /\ \A n \in 1..N : order[n] = i => n = m
      BY <1>14 DEF SendsEach
    <2>2. PICK x : x = L + m  OBVIOUS
    <2>3. x \notin S /\ x \in R  BY <1>4, <1>8, <1>12, <2>1, <2>2 DEF FramesOf
    <2>4. R = S \cup {x}
      <3>1. \A n \in R : n \in S \/ n = x  BY <1>a, <2>1, <2>2
      <3>2. QED  BY <1>b, <2>3, <3>1
    <2>5. SumOf(w, R) = w[x] + SumOf(w, S)  BY <1>6, <1>10, <2>3, <2>4, SumOfAdd
    <2>6. w[x] = st[i].pixels[p.id] /\ w[x] \in Nat
      <3>1. w[x] = all[x].pixels[p.id] /\ w[x] \in Nat  BY <1>10, <2>3
      <3>2. all[x] = ImageFrame(i, st[i])  BY <1>7, <2>1, <2>2
      <3>3. QED  BY <3>1, <3>2 DEF ImageFrame
    <2>7. QED  BY <1>1, <1>5, <1>6, <1>9, <1>14, <2>5, <2>6 DEF SentOf
  <1>15. QED  BY <1>13, <1>14

LEMMA VerifiedWhole ==
  ASSUME NEW i \in DOMAIN LastPacket, NEW job \in ImageJob(i), Recorded(i, job), Verified(job)
  PROVE  Whole(ImageFrame(i, job)) /\ job.eoi # -1
  <1>1. job.eoi = LastPacket[i] /\ LastPacket[i] \in Nat /\ job.eoi # -1
    BY PacketFacts DEF Verified, ImageJob
  <1>2. job.pixels \in [Ids(i) -> Nat]  BY DEF ImageJob
  <1>3. ASSUME NEW n \in Ids(i) PROVE [image |-> i, id |-> n] \in Blank \/ job.pixels[n] > 0
    <2>1. CASE n = LastPacket[i]  BY <1>1, <2>1 DEF Recorded, Ending
    <2>2. CASE n # LastPacket[i]
      <3>1. n \in 0..job.eoi-1  BY <1>1, <2>2 DEF Ids
      <3>2. n \in job.ids  BY <3>1 DEF Verified
      <3>3. QED  BY <3>2 DEF Recorded
    <2>3. QED  BY <2>1, <2>2
  <1>4. QED  BY <1>1, <1>2, <1>3 DEF Whole, ImageFrame

(* Sending complete images keeps everything that is known of them.           *)
LEMMA SendKeeps ==
  ASSUME NEW st, NEW im, NEW ct, Assembling(st, im, ct),
         NEW numbers, numbers = Complete(st) \cap Unsent(st), NEW order \in InTurn(numbers)
  PROVE  Assembling(Marked(st, numbers), im \o AsFrames(st, order), ct)
  <1>0. ImageStore(st) /\ im \in Seq(AllImages) /\ ct \in [Packets -> Nat]
    BY DEF Assembling, CountTypes
  <1>1. numbers \in SUBSET DOMAIN st /\ \A i \in numbers : Verified(st[i]) /\ ~st[i].sent
    BY DEF Complete, Unsent
  <1>2. PICK N : SendsEach(st, numbers, order, N)  BY <1>0, <1>1, OrderFacts
  <1>3. PICK all : all = im \o AsFrames(st, order)  OBVIOUS
  <1>4. PICK L : SentAfter(st, im, order, N, all, L)
    BY <1>0, <1>1, <1>2, <1>3, SentAfterIs, Zenon
  <1>5. /\ all \in Seq(AllImages) /\ DOMAIN all = 1..L+N /\ DOMAIN im = 1..L
        /\ L \in Nat /\ N \in Nat /\ order \in [1..N -> numbers]
        /\ \A m, n \in 1..N : order[m] = order[n] => m = n
        /\ \A i \in numbers : \E n \in 1..N : order[n] = i
    BY <1>2, <1>4 DEF SentAfter, SendsEach
  <1>6. \A n \in 1..L : all[n] = im[n]  BY <1>4 DEF SentAfter
  <1>7. \A m \in 1..N : /\ all[L + m] = ImageFrame(order[m], st[order[m]])
                        /\ all[L + m].number = order[m]
    <2>1. \A m \in 1..N : all[L + m] = ImageFrame(order[m], st[order[m]])  BY <1>4 DEF SentAfter
    <2>2. QED  BY <2>1 DEF ImageFrame
  <1>8. \A n \in DOMAIN all : n \in 1..L \/ \E m \in 1..N : n = L + m
    <2>1. L \in Nat /\ N \in Nat /\ DOMAIN all = 1..L+N  BY <1>5
    <2>2. SUFFICES ASSUME NEW n \in 1..L+N, n \notin 1..L PROVE \E m \in 1..N : n = L + m
      BY <2>1
    <2>3. n - L \in 1..N /\ n = L + (n - L)  BY <2>1, <2>2
    <2>4. QED  BY <2>3
  <1>9. \A m \in 1..N : L + m \in DOMAIN all
    <2>1. L \in Nat /\ N \in Nat /\ DOMAIN all = 1..L+N  BY <1>5
    <2>2. QED  BY <2>1
  <1>10. PICK new : new = Marked(st, numbers)  OBVIOUS
  <1>11. /\ DOMAIN new = DOMAIN st
         /\ \A i \in DOMAIN st : i \notin numbers => new[i] = st[i]
         /\ \A i \in numbers : new[i] = [st[i] EXCEPT !.sent = TRUE]
    BY <1>1, <1>10 DEF Marked
  <1>12. \A i \in numbers : /\ new[i] \in ImageJob(i) /\ new[i].sent
                            /\ new[i].eoi = st[i].eoi /\ new[i].ids = st[i].ids
                            /\ new[i].pixels = st[i].pixels
    <2>1. SUFFICES ASSUME NEW i \in numbers
                   PROVE  /\ new[i] \in ImageJob(i) /\ new[i].sent
                          /\ new[i].eoi = st[i].eoi /\ new[i].ids = st[i].ids
                          /\ new[i].pixels = st[i].pixels
      OBVIOUS
    <2>2. st[i] \in ImageJob(i)  BY <1>0, <1>1 DEF ImageStore
    <2>3. QED  BY <1>11, <2>2 DEF ImageJob
  <1>13. CountTypes(new, all, ct)
    <2>1. \A i \in DOMAIN st : new[i] \in ImageJob(i) /\ Recorded(i, new[i])
      <3>1. SUFFICES ASSUME NEW i \in DOMAIN st PROVE new[i] \in ImageJob(i) /\ Recorded(i, new[i])
        OBVIOUS
      <3>2. st[i] \in ImageJob(i) /\ Recorded(i, st[i])  BY <1>0 DEF ImageStore
      <3>3. CASE i \in numbers
        <4>1. Recorded(i, new[i])  BY <1>12, <3>2, <3>3, Zenon DEF Recorded
        <4>2. QED  BY <1>12, <3>3, <4>1
      <3>4. CASE i \notin numbers  BY <1>11, <3>2, <3>4
      <3>5. QED  BY <3>3, <3>4
    <2>2. QED  BY <1>0, <1>5, <1>11, <2>1 DEF CountTypes, ImageStore
  <1>14. PixelsKept(new, all, ct)
    <2>1. SUFFICES ASSUME NEW p \in Packets \ Blank
                   PROVE  /\ SentPixels(all, p) + JobPixels(new, p) <= ct[p]
                          /\ ct[p] > 0 => SentPixels(all, p) + JobPixels(new, p) > 0
      BY DEF PixelsKept
    <2>2. PICK a \in Nat : a = SentPixels(im, p)  BY <1>0, SentPixelsType
    <2>3. PICK b \in Nat : b = JobPixels(st, p)  BY <1>0, JobPixelsType
    <2>4. SentPixels(all, p) = a + (IF p.image \in numbers THEN st[p.image].pixels[p.id] ELSE 0)
      <3>1. p \in Packets  OBVIOUS
      <3>2. SentPixels(all, p) = SentPixels(im, p) + SentOf(st, numbers, p)
        BY <1>0, <1>1, <1>2, <1>4, <3>1, SentPixelsMore
      <3>3. QED  BY <2>2, <3>2, Zenon DEF SentOf
    <2>5. SentPixels(all, p) + JobPixels(new, p) = a + b
      <3>1. CASE p.image \in numbers
        <4>1. b = st[p.image].pixels[p.id]  BY <1>1, <2>3, <3>1 DEF JobPixels
        <4>2. JobPixels(new, p) = 0  BY <1>12, <3>1 DEF JobPixels
        <4>3. QED  BY <2>2, <2>3, <2>4, <3>1, <4>1, <4>2
      <3>2. CASE p.image \notin numbers
        <4>1. JobPixels(new, p) = b
          <5>1. p.image \in DOMAIN new <=> p.image \in DOMAIN st  BY <1>11
          <5>2. p.image \in DOMAIN st => new[p.image] = st[p.image]  BY <1>11, <3>2
          <5>3. QED  BY <2>3, <5>1, <5>2, Zenon DEF JobPixels
        <4>2. QED  BY <2>2, <2>3, <2>4, <3>2, <4>1
      <3>3. QED  BY <3>1, <3>2
    <2>6. a + b <= ct[p] /\ (ct[p] > 0 => a + b > 0)
      BY <2>2, <2>3 DEF Assembling, PixelsKept
    <2>7. QED  BY <2>5, <2>6
  <1>15. \A i : WasSent(im, i) => WasSent(all, i)
    <2>1. SUFFICES ASSUME NEW i, NEW n \in DOMAIN im, im[n].number = i PROVE WasSent(all, i)
      BY DEF WasSent
    <2>2. n \in 1..L /\ L \in Nat /\ N \in Nat  BY <1>5
    <2>3. n \in 1..L+N  BY <2>2
    <2>4. n \in DOMAIN all /\ all[n] = im[n]  BY <1>5, <1>6, <2>2, <2>3
    <2>5. QED  BY <2>1, <2>4 DEF WasSent
  <1>16. \A i : WasSent(all, i) => WasSent(im, i) \/ i \in numbers
    <2>1. SUFFICES ASSUME NEW i, NEW n \in DOMAIN all, all[n].number = i
                   PROVE  WasSent(im, i) \/ i \in numbers
      BY DEF WasSent
    <2>2. CASE n \in 1..L  BY <1>5, <1>6, <2>1, <2>2 DEF WasSent
    <2>3. CASE \E m \in 1..N : n = L + m
      <3>1. PICK m \in 1..N : n = L + m  BY <2>3
      <3>2. order[m] = i  BY <1>7, <2>1, <3>1
      <3>3. QED  BY <1>5, <3>1, <3>2
    <2>4. QED  BY <1>8, <2>2, <2>3
  <1>17. SentWhole(new, all)
    <2>1. ASSUME NEW n \in DOMAIN all PROVE Whole(all[n])
      <3>1. CASE n \in 1..L
        <4>1. n \in DOMAIN im /\ all[n] = im[n]  BY <1>5, <1>6, <3>1
        <4>2. QED  BY <4>1 DEF Assembling, SentWhole
      <3>2. CASE \E m \in 1..N : n = L + m
        <4>1. PICK m \in 1..N : n = L + m  BY <3>2
        <4>2. PICK i \in numbers : i = order[m]  BY <1>5, <4>1
        <4>3. all[n] = ImageFrame(i, st[i])  BY <1>7, <4>1, <4>2
        <4>4. i \in DOMAIN LastPacket /\ st[i] \in ImageJob(i) /\ Recorded(i, st[i]) /\ Verified(st[i])
          BY <1>0, <1>1, <4>2 DEF ImageStore
        <4>5. QED  BY <4>3, <4>4, VerifiedWhole
      <3>3. QED  BY <1>8, <3>1, <3>2
    <2>2. ASSUME NEW i \in DOMAIN new, new[i].sent PROVE WasSent(all, i)
      <3>1. CASE i \in numbers
        <4>1. PICK m \in 1..N : order[m] = i  BY <1>5, <3>1
        <4>2. QED  BY <1>7, <1>9, <4>1 DEF WasSent
      <3>2. CASE i \notin numbers
        <4>1. i \in DOMAIN st /\ st[i].sent  BY <1>11, <2>2, <3>2
        <4>2. WasSent(im, i)  BY <4>1 DEF Assembling, SentWhole
        <4>3. QED  BY <1>15, <4>2
      <3>3. QED  BY <3>1, <3>2
    <2>3. QED  BY <2>1, <2>2 DEF SentWhole
  <1>18. \A i \in numbers : i \in DOMAIN LastPacket /\ Ended(st, i)
    <2>1. SUFFICES ASSUME NEW i \in numbers PROVE i \in DOMAIN LastPacket /\ Ended(st, i)
      OBVIOUS
    <2>2. i \in DOMAIN LastPacket /\ st[i] \in ImageJob(i) /\ Recorded(i, st[i]) /\ Verified(st[i])
      BY <1>0, <1>1 DEF ImageStore
    <2>3. st[i].eoi # -1  BY <2>2, VerifiedWhole
    <2>4. QED  BY <1>1, <2>2, <2>3 DEF Ended
  <1>19. \A i : Ended(new, i) => Ended(st, i)
    <2>1. \A i \in DOMAIN st : new[i].eoi = st[i].eoi  BY <1>11, <1>12
    <2>2. QED  BY <1>11, <2>1 DEF Ended
  <1>20. EndsCounted(new, all, ct)
    <2>1. ASSUME NEW i \in DOMAIN LastPacket, WasSent(all, i) \/ Ended(new, i)
          PROVE  ct[Ending(i)] > 0
      <3>1. WasSent(im, i) \/ Ended(st, i)  BY <1>16, <1>18, <1>19, <2>1
      <3>2. QED  BY <3>1 DEF Assembling, EndsCounted
    <2>2. ASSUME NEW i \in DOMAIN new, WasSent(all, i), Ended(new, i), ~new[i].sent
          PROVE  ct[Ending(i)] > 1
      <3>1. i \notin numbers  BY <1>12, <2>2
      <3>2. i \in DOMAIN st /\ ~st[i].sent  BY <1>11, <2>2, <3>1
      <3>3. WasSent(im, i) /\ Ended(st, i)  BY <1>16, <1>19, <2>2, <3>1
      <3>4. QED  BY <3>2, <3>3 DEF Assembling, EndsCounted
    <2>3. ASSUME NEW m \in DOMAIN all, NEW n \in DOMAIN all, m # n, all[m].number = all[n].number
          PROVE  ct[Ending(all[m].number)] > 1
      <3>1. \A k \in 1..L, j \in 1..N : all[k].number = all[L + j].number => ct[Ending(all[k].number)] > 1
        <4>1. SUFFICES ASSUME NEW k \in 1..L, NEW j \in 1..N, all[k].number = all[L + j].number
                       PROVE  ct[Ending(all[k].number)] > 1
          OBVIOUS
        <4>2. PICK i \in numbers : i = order[j]  BY <1>5
        <4>3. k \in DOMAIN im /\ im[k].number = i /\ all[k].number = i  BY <1>5, <1>6, <1>7, <4>1, <4>2
        <4>4. WasSent(im, i) /\ Ended(st, i) /\ i \in DOMAIN st /\ ~st[i].sent
          BY <1>1, <1>18, <4>2, <4>3 DEF WasSent
        <4>5. QED  BY <4>3, <4>4 DEF Assembling, EndsCounted
      <3>2. CASE m \in 1..L /\ n \in 1..L
        <4>1. m \in DOMAIN im /\ n \in DOMAIN im /\ all[m] = im[m] /\ all[n] = im[n]
          BY <1>5, <1>6, <3>2
        <4>2. QED  BY <2>3, <4>1 DEF Assembling, EndsCounted
      <3>3. CASE m \in 1..L /\ \E j \in 1..N : n = L + j  BY <2>3, <3>1, <3>3
      <3>4. CASE n \in 1..L /\ \E j \in 1..N : m = L + j  BY <2>3, <3>1, <3>4
      <3>5. CASE (\E j \in 1..N : m = L + j) /\ (\E j \in 1..N : n = L + j)
        <4>1. PICK j \in 1..N : m = L + j  BY <3>5
        <4>2. PICK k \in 1..N : n = L + k  BY <3>5
        <4>3. order[j] = order[k]  BY <1>7, <2>3, <4>1, <4>2
        <4>4. j = k  BY <1>5, <4>3
        <4>5. QED  BY <2>3, <4>1, <4>2, <4>4
      <3>6. QED  BY <1>8, <3>2, <3>3, <3>4, <3>5
    <2>4. QED  BY <2>1, <2>2, <2>3 DEF EndsCounted
  <1>21. Assembling(new, all, ct)  BY <1>13, <1>14, <1>17, <1>20 DEF Assembling
  <1>22. QED  BY <1>3, <1>10, <1>21, Zenon

(* Images that were sent may be deleted.                                     *)
LEMMA DeletionKeeps ==
  ASSUME NEW st, NEW im, NEW ct, Assembling(st, im, ct), NEW gone \in SUBSET DOMAIN st,
         \A i \in gone : st[i].sent
  PROVE  Assembling([i \in DOMAIN st \ gone |-> st[i]], im, ct)
  <1>1. PICK new : new = [i \in DOMAIN st \ gone |-> st[i]]  OBVIOUS
  <1>2. DOMAIN new = DOMAIN st \ gone /\ \A i \in DOMAIN new : i \in DOMAIN st /\ new[i] = st[i]
    BY <1>1
  <1>3. CountTypes(new, im, ct)
    <2>1. IsFiniteSet(DOMAIN new)  BY <1>2, FS_Subset DEF Assembling, CountTypes, ImageStore
    <2>2. QED  BY <1>2, <2>1 DEF Assembling, CountTypes, ImageStore
  <1>4. \A p \in Packets : JobPixels(new, p) = JobPixels(st, p)
    <2>1. SUFFICES ASSUME NEW p \in Packets PROVE JobPixels(new, p) = JobPixels(st, p)
      OBVIOUS
    <2>2. CASE p.image \in gone
      <3>1. JobPixels(new, p) = 0  BY <1>2, <2>2 DEF JobPixels
      <3>2. JobPixels(st, p) = 0  BY <2>2 DEF JobPixels
      <3>3. QED  BY <3>1, <3>2
    <2>3. CASE p.image \notin gone
      <3>1. /\ p.image \in DOMAIN new <=> p.image \in DOMAIN st
            /\ p.image \in DOMAIN st => new[p.image] = st[p.image]
        BY <1>2, <2>3
      <3>2. QED  BY <3>1, Zenon DEF JobPixels
    <2>4. QED  BY <2>2, <2>3
  <1>5. PixelsKept(new, im, ct)  BY <1>4 DEF Assembling, PixelsKept
  <1>6. SentWhole(new, im)  BY <1>2 DEF Assembling, SentWhole
  <1>7. EndsCounted(new, im, ct)
    <2>1. \A i : Ended(new, i) => Ended(st, i)  BY <1>2 DEF Ended
    <2>2. QED  BY <1>2, <2>1 DEF Assembling, EndsCounted
  <1>8. QED  BY <1>1, <1>3, <1>5, <1>6, <1>7 DEF Assembling

(* A frame of data.                                                          *)
LEMMA FrameKeeps ==
  ASSUME NEW st, NEW im, NEW ct, Assembling(st, im, ct),
         NEW numbers, numbers = Complete(st) \cap Unsent(st), NEW order \in InTurn(numbers)
  PROVE  Assembling([i \in DOMAIN st \ Deleted(st) |-> Marked(st, numbers)[i]],
                    im \o AsFrames(st, order), ct)
  <1>1. PICK new : new = Marked(st, numbers)  OBVIOUS
  <1>2. PICK all : all = im \o AsFrames(st, order)  OBVIOUS
  <1>3. Assembling(new, all, ct)  BY <1>1, <1>2, SendKeeps, Zenon
  <1>4. DOMAIN new = DOMAIN st  BY <1>1 DEF Marked
  <1>5. Deleted(st) \in SUBSET DOMAIN new /\ \A i \in Deleted(st) : new[i].sent
    <2>1. \A i \in Deleted(st) : i \in DOMAIN st /\ i \in Complete(st)
      BY DEF Deleted, Complete
    <2>2. ASSUME NEW i \in Deleted(st) PROVE new[i].sent
      <3>1. CASE i \in numbers
        <4>1. new[i] = [st[i] EXCEPT !.sent = TRUE]  BY <1>1, <2>1, <3>1 DEF Marked
        <4>2. st[i] \in ImageJob(i)  BY <2>1 DEF Assembling, CountTypes, ImageStore
        <4>3. QED  BY <4>1, <4>2 DEF ImageJob
      <3>2. CASE i \notin numbers
        <4>1. new[i] = st[i]  BY <1>1, <2>1, <3>2 DEF Marked
        <4>2. i \in DOMAIN st /\ i \notin Unsent(st)  BY <2>1, <3>2
        <4>3. QED  BY <4>1, <4>2 DEF Unsent
      <3>3. QED  BY <3>1, <3>2
    <2>3. QED  BY <1>4, <2>1, <2>2
  <1>6. PICK gone \in SUBSET DOMAIN new : gone = Deleted(st) /\ \A i \in gone : new[i].sent
    BY <1>5
  <1>7. Assembling([i \in DOMAIN new \ gone |-> new[i]], all, ct)  BY <1>3, <1>6, DeletionKeeps, Zenon
  <1>8. QED  BY <1>1, <1>2, <1>4, <1>6, <1>7, Zenon

(* An idle frame sends the images that are left, complete or not.            *)
LEMMA FlushSends ==
  ASSUME NEW st, NEW im, NEW ct, Assembling(st, im, ct), NEW order \in InTurn(Unsent(st)),
         NEW all, all = im \o AsFrames(st, order), NEW p \in Packets \ Blank
  PROVE  /\ all \in Seq(AllImages)
         /\ SentPixels(all, p) <= ct[p] /\ (ct[p] > 0 => SentPixels(all, p) > 0)
  <1>0. ImageStore(st) /\ im \in Seq(AllImages) /\ ct \in [Packets -> Nat]
    BY DEF Assembling, CountTypes
  <1>1. PICK numbers \in SUBSET DOMAIN st : numbers = Unsent(st)  BY DEF Unsent
  <1>2. order \in InTurn(numbers)  BY <1>1
  <1>3. PICK N : SendsEach(st, numbers, order, N)  BY <1>0, <1>2, OrderFacts
  <1>4. PICK L : SentAfter(st, im, order, N, all, L)  BY <1>0, <1>3, SentAfterIs, Zenon
  <1>5. p \in Packets  OBVIOUS
  <1>6. SentPixels(all, p) = SentPixels(im, p) + SentOf(st, numbers, p)
    BY <1>0, <1>3, <1>4, <1>5, SentPixelsMore
  <1>7. SentOf(st, numbers, p) = JobPixels(st, p)
    BY <1>1 DEF SentOf, JobPixels, Unsent
  <1>8. QED  BY <1>4, <1>6, <1>7 DEF Assembling, PixelsKept, SentAfter

PixelSums(g, im, p, S) ==
  g = [s \in SUBSET S |-> IF s = {} THEN 0
                          ELSE im[CHOOSE x \in s : TRUE].pixels[p.id] + g[s \ {CHOOSE x \in s : TRUE}]]

LEMMA PixelsAre ==
  ASSUME NEW im \in Seq(AllImages), NEW p \in Packets
  PROVE  Pixels(im, p) = SentPixels(im, p)
  <1>1. PICK S : S = FramesOf(im, p.image) /\ IsFiniteSet(S)  BY SentPixelsType
  <1>2. PICK v : v = [n \in DOMAIN im |-> im[n].pixels[p.id]]  OBVIOUS
  <1>3. PICK g : g = CHOOSE f : PixelSums(f, im, p, S)  OBVIOUS
  <1>4. Pixels(im, p) = g[S]
    BY <1>1, <1>3, Zenon DEF Pixels, FramesOf, MapThenSumSet, MapThenFoldSet, PixelSums
  <1>5. \A s \in SUBSET S : s # {} =>
          v[CHOOSE x \in s : TRUE] = im[CHOOSE x \in s : TRUE].pixels[p.id]
    <2>1. \A s \in SUBSET S : s # {} => (CHOOSE x \in s : TRUE) \in S  OBVIOUS
    <2>2. S \subseteq DOMAIN im  BY <1>1 DEF FramesOf
    <2>3. QED  BY <1>2, <2>1, <2>2, Zenon
  <1>6. ASSUME NEW f PROVE PixelSums(f, im, p, S) <=> Sums(f, v, S)
    <2>1. ASSUME NEW s \in SUBSET S
          PROVE  (IF s = {} THEN 0
                  ELSE im[CHOOSE x \in s : TRUE].pixels[p.id] + f[s \ {CHOOSE x \in s : TRUE}])
                   = IF s = {} THEN 0
                     ELSE v[CHOOSE x \in s : TRUE] + f[s \ {CHOOSE x \in s : TRUE}]
      <3>1. PICK y : y = CHOOSE x \in s : TRUE  OBVIOUS
      <3>2. s # {} => im[y].pixels[p.id] = v[y]  BY <1>5, <3>1, Zenon
      <3>3. (IF s = {} THEN 0 ELSE im[y].pixels[p.id] + f[s \ {y}])
              = IF s = {} THEN 0 ELSE v[y] + f[s \ {y}]
        BY <3>2
      <3>4. QED  BY <3>1, <3>3, Zenon
    <2>2. QED  BY <2>1, Zenon DEF PixelSums, Sums
  <1>7. PICK f : Sums(f, v, S)  BY <1>1, SumsExists
  <1>8. Sums(g, v, S)  BY <1>3, <1>6, <1>7, Zenon
  <1>9. g[S] = SumOf(v, S)  BY <1>1, <1>8, SumOfIs
  <1>10. QED  BY <1>1, <1>2, <1>4, <1>9, Zenon DEF SentPixels

(* Between frames.                                                           *)
CountState ==
  /\ counting \in BOOLEAN
  /\ counting => Assembling(images, imagesSent, counted)
  /\ ~counting => DOMAIN images = {} /\ CountsKept

LEMMA NothingSent == \A p : SentPixels(<<>>, p) = 0
  <1> SUFFICES ASSUME NEW p PROVE SentPixels(<<>>, p) = 0  OBVIOUS
  <1>1. FramesOf(<<>>, p.image) = {}  BY DEF FramesOf
  <1>2. QED  BY <1>1, SumOfEmpty, Zenon DEF SentPixels

LEMMA BeforeFrame ==
  ASSUME CountState
  PROVE  Assembling(images, SentBefore, CountedBefore)
  <1>1. CASE counting  BY <1>1 DEF CountState, SentBefore, CountedBefore
  <1>2. CASE ~counting
    <2>1. PICK im, ct : im = SentBefore /\ ct = CountedBefore  OBVIOUS
    <2>2. DOMAIN images = {} /\ im = <<>> /\ ct = [p \in Packets |-> 0]
      BY <1>2, <2>1 DEF CountState, SentBefore, CountedBefore
    <2>3. CountTypes(images, im, ct)
      <3>1. IsFiniteSet({})  BY FS_EmptySet
      <3>2. im \in Seq(AllImages)  BY <2>2, EmptyIsSeq
      <3>3. QED  BY <2>2, <3>1, <3>2 DEF CountTypes, ImageStore
    <2>4. PixelsKept(images, im, ct)
      <3>1. SUFFICES ASSUME NEW p \in Packets \ Blank
                     PROVE  SentPixels(im, p) + JobPixels(images, p) = 0 /\ ct[p] = 0
        BY DEF PixelsKept
      <3>2. SentPixels(im, p) = 0  BY <2>2, NothingSent
      <3>3. JobPixels(images, p) = 0 /\ ct[p] = 0  BY <2>2 DEF JobPixels
      <3>4. QED  BY <3>2, <3>3
    <2>5. DOMAIN im = {}  BY <2>2
    <2>6. SentWhole(images, im)  BY <2>2, <2>5 DEF SentWhole
    <2>7. EndsCounted(images, im, ct)
      BY <2>2, <2>5 DEF EndsCounted, WasSent, Ended
    <2>8. QED  BY <2>1, <2>3, <2>4, <2>6, <2>7 DEF Assembling
  <1>3. QED  BY <1>1, <1>2

LEMMA CountStateInit == PluginInit => CountState
  <1> SUFFICES ASSUME PluginInit PROVE CountState  OBVIOUS
  <1>1. /\ DOMAIN images = {} /\ imagesSent = <<>> /\ counting = FALSE
        /\ counted = [p \in Packets |-> 0]
    BY DEF PluginInit, IntegralInit
  <1>2. CountsKept
    <2>1. SUFFICES ASSUME NEW p \in Packets \ Blank
                   PROVE  /\ Pixels(imagesSent, p) <= counted[p]
                          /\ counted[p] > 0 => Pixels(imagesSent, p) > 0
      BY DEF CountsKept
    <2>2. imagesSent \in Seq(AllImages)  BY <1>1, EmptyIsSeq
    <2>3. Pixels(imagesSent, p) = 0
      <3>1. Pixels(imagesSent, p) = SentPixels(imagesSent, p)  BY <2>2, PixelsAre
      <3>2. QED  BY <1>1, <3>1, NothingSent
    <2>4. counted[p] = 0  BY <1>1
    <2>5. QED  BY <2>3, <2>4
  <1>3. QED  BY <1>1, <1>2 DEF CountState

LEMMA CountDataStep ==
  ASSUME CountState, CountData
  PROVE  CountState'
  <1>0. PICK n \in 1..MaxPerFrame : \E arrived \in [1..n -> Packets] : TakeCounts(arrived)
    BY DEF CountData
  <1>1. PICK q \in [1..n -> Packets] : TakeCounts(q)  BY <1>0
  <1>2. q \in Seq(Packets)  BY <1>1, BoundsAssumption
  <1>3. PICK im, ct : im = SentBefore /\ ct = CountedBefore /\ Assembling(images, im, ct)
    BY BeforeFrame
  <1>4. PICK st : st = FoldLeft(Stored, images, q)  OBVIOUS
  <1>5. PICK more : more = [p \in Packets |-> ct[p] + Copies(q, p)]  OBVIOUS
  <1>6. Assembling(st, im, more)  BY <1>2, <1>3, <1>4, <1>5, FoldKeeps, Zenon
  <1>7. PICK numbers : numbers = Complete(st) \cap Unsent(st)  OBVIOUS
  <1>8. /\ counting' = TRUE /\ counted' = more
        /\ images' = [i \in DOMAIN st \ Deleted(st) |-> Marked(st, numbers)[i]]
        /\ SendImages(st, numbers)
    BY <1>1, <1>3, <1>4, <1>5, <1>7, Zenon DEF TakeCounts, CountFrame
  <1>9. PICK order \in InTurn(numbers) : imagesSent' = im \o AsFrames(st, order)
    BY <1>3, <1>8 DEF SendImages
  <1>10. Assembling(images', imagesSent', counted')
    BY <1>6, <1>7, <1>8, <1>9, FrameKeeps, Zenon
  <1>11. QED  BY <1>8, <1>10 DEF CountState

LEMMA CountEndStep ==
  ASSUME CountState, CountEnd
  PROVE  CountState'
  <1>1. PICK im, ct : im = SentBefore /\ ct = CountedBefore /\ Assembling(images, im, ct)
    BY BeforeFrame
  <1>2. /\ counting' = FALSE /\ counted' = ct /\ images' = [i \in {} |-> {}]
        /\ SendImages(images, Unsent(images))
    BY <1>1 DEF CountEnd, EndCounts, CountIdle, FlushedByIdle
  <1>3. PICK order \in InTurn(Unsent(images)) : imagesSent' = im \o AsFrames(images, order)
    BY <1>1, <1>2 DEF SendImages
  <1>4. CountsKept'
    <2>1. SUFFICES ASSUME NEW p \in Packets \ Blank
                   PROVE  /\ Pixels(imagesSent', p) <= counted'[p]
                          /\ counted'[p] > 0 => Pixels(imagesSent', p) > 0
      BY DEF CountsKept
    <2>2. PICK all : all = imagesSent'  OBVIOUS
    <2>3. /\ all \in Seq(AllImages)
          /\ SentPixels(all, p) <= ct[p] /\ (ct[p] > 0 => SentPixels(all, p) > 0)
      BY <1>1, <1>3, <2>2, FlushSends, Zenon
    <2>4. Pixels(all, p) = SentPixels(all, p)
      <3>1. p \in Packets  OBVIOUS
      <3>2. QED  BY <2>3, <3>1, PixelsAre
    <2>5. QED  BY <1>2, <2>2, <2>3, <2>4
  <1>5. DOMAIN images' = {}  BY <1>2
  <1>6. QED  BY <1>2, <1>4, <1>5 DEF CountState

LEMMA CountStateStep == CountState /\ [PluginNext]_plugin => CountState'
  <1> SUFFICES ASSUME CountState, [PluginNext]_plugin PROVE CountState'  OBVIOUS
  <1>1. CASE CountData  BY <1>1, CountDataStep
  <1>2. CASE CountEnd  BY <1>2, CountEndStep
  <1>3. CASE UNCHANGED integral
    BY <1>3 DEF integral, CountState, CountsKept
  <1>4. CASE EventFrame \/ EventIdle \/ Coordinate \/ EndAcquisition \/ RawData \/ RawEnd
    BY <1>3, <1>4 DEF EventFrame, EventIdle, Coordinate, EndAcquisition, RawData, RawEnd
  <1>5. CASE UNCHANGED plugin  BY <1>3, <1>5 DEF plugin
  <1>6. CASE Configure
    BY <1>3, <1>6 DEF Configure, SetMode, SetRawMode, ResetFrame
  <1>7. QED  BY <1>1, <1>2, <1>4, <1>5, <1>6 DEF PluginNext, ProcessFrame

LEMMA WholeImages == CountState => ImagesWhole
  <1> SUFFICES ASSUME CountState, counting, NEW n \in DOMAIN imagesSent
               PROVE  /\ Whole(imagesSent[n])
                      /\ \A m \in DOMAIN imagesSent \ {n} :
                           imagesSent[m].number = imagesSent[n].number =>
                             \E p \in Packets : p.image = imagesSent[n].number /\ counted[p] > 1
    BY DEF ImagesWhole
  <1>1. Assembling(images, imagesSent, counted)  BY DEF CountState
  <1>2. Whole(imagesSent[n])  BY <1>1 DEF Assembling, SentWhole
  <1>3. ASSUME NEW m \in DOMAIN imagesSent \ {n}, imagesSent[m].number = imagesSent[n].number
        PROVE  \E p \in Packets : p.image = imagesSent[n].number /\ counted[p] > 1
    <2>1. imagesSent[n] \in AllImages  BY <1>1 DEF Assembling, CountTypes
    <2>2. PICK i \in DOMAIN LastPacket : i = imagesSent[n].number  BY <2>1, ImageFacts
    <2>3. counted[Ending(i)] > 1  BY <1>1, <1>3, <2>2 DEF Assembling, EndsCounted
    <2>4. Ending(i) \in Packets /\ Ending(i).image = i  BY PacketFacts DEF Ending
    <2>5. QED  BY <2>2, <2>3, <2>4
  <1>4. QED  BY <1>2, <1>3

(* Every image sent while packets come is whole, and it is sent again only   *)
(* when a packet of it came again.                                           *)
THEOREM ImagesAreWhole == PluginSpec => []ImagesWhole
  BY CountStateInit, CountStateStep, WholeImages, PTL DEF PluginSpec

(* What was taken is pushed by the idle frame that ends it: the counts of a  *)
(* packet at least once and never more often than it came, raw words once    *)
(* and in order.                                                             *)
THEOREM PacketsAreKept ==
  ASSUME FrameQty >= 2
  PROVE  PluginSpec => []PacketsKept
  <1>1. CountState => CountsKept \/ counting  BY DEF CountState
  <1>2. CountState /\ WordsKept => PacketsKept  BY <1>1 DEF PacketsKept, CountsKept
  <1>3. QED  BY <1>2, CountStateInit, CountStateStep, WordsAreKept, PTL DEF PluginSpec
=============================================================================
