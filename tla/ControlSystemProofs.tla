------------------------- MODULE ControlSystemProofs -------------------------
(***************************************************************************)
(* Proofs about ControlSystem, for every value of its constants: who holds *)
(* the lock, that replies go to their requests, that an answered start has *)
(* run, that an acquisition is not reported complete too early, and types. *)
(*                                                                         *)
(* Messages and replies are untyped: what a reply carries is a tree of any *)
(* kind.  The channel's sequences are therefore sequences over some set.   *)
(***************************************************************************)
EXTENDS ControlSystem, FiniteSetTheorems, TLAPS

IsSeq(s) == \E S : s \in Seq(S)

(* The inductive invariant.  The channel is bounded.                         *)
Channels == IsSeq(toDetector) /\ IsSeq(toAdapter)
Bounded == Len(toDetector) <= Capacity /\ Len(toAdapter) <= Capacity

StatusItems ==
  status = [state |-> status.state, connected |-> status.connected, complete |-> status.complete]

(* The update thread's message is a request with an identifier.              *)
UpdateHolds ==
  /\ updPc \in {"sleep", "connect", "complete"} \cup Requests
  /\ updPc \in Requests => updMsg.id \in Ids

(* It is polled for only while it has such a message.                        *)
Polling == waiting => updPc \notin {"connect", "complete"}

(* Where the PUT thread is, and what it was asked.                           *)
PutJob ==
  /\ putPc = "ready" => job = "none"
  /\ putPc \notin {"ready", "send"} => job = "start"
  /\ job = "start" /\ putPc = "send" => putMsg.op \in {"arm", "run"}

(* OkMeansRan.  Once the arm command was sent, every status request that can *)
(* still be answered was made after the PUT request came; and the state last *)
(* seen was another one than "running" when the run command was made.        *)
Asked == job = "start" /\ (putPc = "send" => lock = "put" \/ putMsg.op = "run")
RunAsked == job = "start" /\ (putPc = "send" => putMsg.op = "run") /\ putPc \notin {"waitArmed", "checkArmed"}

StatusReplies == {r \in ToSet(toAdapter) : r.id = updMsg.id /\ r.of = <<"get", "status">>}
StartedRan == job = "start" /\ state = "running" => ran
ReplyRan == Asked /\ updPc = "status" => \A r \in StatusReplies : r.state = "running" => ran
SeenRan == RunAsked /\ status.state = "running" => ran
FinishRan == putPc = "finish" => ran

(* RepliesMatched.  An identifier held is in use by that message only.       *)
RequestedBy(m) ==
  /\ \A q \in ToSet(toDetector) : q.id = m.id => q.type = m.type /\ q.op = m.op
  /\ \A r \in ToSet(toAdapter) : r.id = m.id => r.of = <<m.type, m.op>>
Apart ==
  ~collided =>
    /\ putPc = "send" => RequestedBy(putMsg)
    /\ updPc \in Requests => RequestedBy(updMsg)
    /\ putPc = "send" /\ updPc \in Requests => putMsg.id # updMsg.id

(* NotCompleteEarly.  Nothing is sent behind a status request while it is    *)
(* waited for, so that no run starts between its answer and its use.         *)
Quiet == ~busy /\ \A q \in ToSet(toDetector) : q.type # "post"
BusyRuns == busy => toDetector # <<>> /\ Head(toDetector).type = "post"
IdleEnded == state = "idle" => ended
AskedLast ==
  updPc = "status" =>
    \A i, j \in DOMAIN toDetector :
      i < j /\ toDetector[i].id = updMsg.id /\ toDetector[i].type = "get" => toDetector[j].type # "post"
ReplyIdle ==
  updPc = "status" => \A r \in StatusReplies : Quiet /\ (r.state = "idle" => ended)
SeenIdle ==
  updPc \in {"time", "udp", "connect", "complete"} => Quiet /\ (status.state = "idle" => ended)

IInv ==
  /\ Channels /\ Bounded /\ LockOwned /\ Polling /\ StatusItems
  /\ UpdateHolds /\ PutJob /\ StartedRan /\ ReplyRan /\ SeenRan /\ FinishRan
  /\ Apart
  /\ BusyRuns /\ IdleEnded /\ AskedLast /\ ReplyIdle /\ SeenIdle

(* Sequences over any set.                                                   *)
LEMMA SeqOver ==
  ASSUME NEW s, IsSeq(s)
  PROVE  /\ Len(s) \in Nat /\ DOMAIN s = 1..Len(s)
         /\ s # <<>> <=> Len(s) > 0
         /\ \A i \in DOMAIN s : s[i] \in ToSet(s)
         /\ \A x \in ToSet(s) : \E i \in 1..Len(s) : x = s[i]
  <1>1. PICK S : s \in Seq(S)  BY DEF IsSeq
  <1>2. Len(s) \in Nat /\ DOMAIN s = 1..Len(s)  BY <1>1
  <1>3. s # <<>> <=> Len(s) > 0  BY <1>1
  <1>4. QED  BY <1>2, <1>3 DEF ToSet

LEMMA SeqOfNone ==
  ASSUME NEW s, s = <<>>
  PROVE  IsSeq(s) /\ Len(s) = 0 /\ ToSet(s) = {}
  <1>1. s \in Seq({}) /\ Len(s) = 0 /\ DOMAIN s = {}  OBVIOUS
  <1>2. IsSeq(s)  BY <1>1 DEF IsSeq
  <1>3. ToSet(s) = {}  BY <1>1 DEF ToSet
  <1>4. QED  BY <1>1, <1>2, <1>3

LEMMA AppendSeq ==
  ASSUME NEW s, NEW x, IsSeq(s)
  PROVE  /\ IsSeq(Append(s, x))
         /\ Len(Append(s, x)) = Len(s) + 1
         /\ \A i \in 1..Len(s) : Append(s, x)[i] = s[i]
         /\ Append(s, x)[Len(s) + 1] = x
         /\ ToSet(Append(s, x)) = ToSet(s) \cup {x}
  <1>1. PICK S : s \in Seq(S)  BY DEF IsSeq
  <1>2. s \in Seq(S \cup {x})  BY <1>1
  <1>3. Append(s, x) \in Seq(S \cup {x})  BY <1>2
  <1>4. IsSeq(Append(s, x))  BY <1>3 DEF IsSeq
  <1>5. Len(Append(s, x)) = Len(s) + 1 /\ DOMAIN Append(s, x) = 1..(Len(s) + 1) /\ DOMAIN s = 1..Len(s) /\ Len(s) \in Nat
    BY <1>2, <1>3
  <1>6. \A i \in 1..Len(s) : Append(s, x)[i] = s[i]  BY <1>2
  <1>7. Append(s, x)[Len(s) + 1] = x  BY <1>2
  <1>8. ToSet(Append(s, x)) = ToSet(s) \cup {x}  BY <1>5, <1>6, <1>7 DEF ToSet
  <1>9. QED  BY <1>4, <1>5, <1>6, <1>7, <1>8

LEMMA TailSeq ==
  ASSUME NEW s, IsSeq(s), s # <<>>
  PROVE  /\ IsSeq(Tail(s))
         /\ Len(Tail(s)) = Len(s) - 1
         /\ \A i \in 1..Len(Tail(s)) : Tail(s)[i] = s[i + 1]
         /\ ToSet(Tail(s)) \subseteq ToSet(s)
         /\ Head(s) = s[1] /\ Head(s) \in ToSet(s)
  <1>1. PICK S : s \in Seq(S)  BY DEF IsSeq
  <1>2. Tail(s) \in Seq(S) /\ Len(Tail(s)) = Len(s) - 1 /\ Len(s) \in Nat \ {0}  BY <1>1
  <1>3. \A i \in 1..Len(Tail(s)) : Tail(s)[i] = s[i + 1]  BY <1>1
  <1>4. DOMAIN Tail(s) = 1..(Len(s) - 1) /\ DOMAIN s = 1..Len(s)  BY <1>1, <1>2
  <1>5. ToSet(Tail(s)) \subseteq ToSet(s)  BY <1>2, <1>3, <1>4 DEF ToSet
  <1>6. Head(s) = s[1] /\ Head(s) \in ToSet(s)  BY <1>1, <1>2, <1>4 DEF ToSet
  <1>7. QED  BY <1>2, <1>3, <1>5, <1>6 DEF IsSeq

(* What is left of a sequence when its ends are cut off.                     *)
LEMMA CutSeq ==
  ASSUME NEW s, IsSeq(s), NEW k \in 0..Len(s), NEW n \in 0..Len(s)
  PROVE  LET t == SubSeq(s, k + 1, n) IN
         /\ IsSeq(t) /\ Len(t) <= Len(s)
         /\ \A i \in 1..Len(t) : i + k \in 1..Len(s) /\ t[i] = s[i + k]
         /\ ToSet(t) \subseteq ToSet(s)
  <1> DEFINE t == SubSeq(s, k + 1, n)
  <1>1. PICK S : s \in Seq(S)  BY DEF IsSeq
  <1>2. Len(s) \in Nat /\ DOMAIN s = 1..Len(s)  BY <1>1
  <1>3. \A i \in (k + 1)..n : s[i] \in S  BY <1>1, <1>2
  <1>4. t = [i \in 1..(n - k) |-> s[i + k]]  BY <1>1, <1>2
  <1>5. CASE k <= n
    <2>1. t \in Seq(S) /\ Len(t) = n - k  BY <1>2, <1>3, <1>4, <1>5
    <2>2. DOMAIN t = 1..(n - k)  BY <1>4
    <2>3. \A i \in 1..Len(t) : i + k \in 1..Len(s) /\ t[i] = s[i + k]  BY <1>2, <1>4, <1>5, <2>1
    <2>4. ToSet(t) \subseteq ToSet(s)  BY <1>2, <2>1, <2>2, <2>3 DEF ToSet
    <2>5. IsSeq(t)  BY <2>1 DEF IsSeq
    <2>6. Len(t) <= Len(s)  BY <1>2, <2>1
    <2>7. QED  BY <2>3, <2>4, <2>5, <2>6
  <1>6. CASE k > n
    <2>1. t = <<>>  BY <1>2, <1>4, <1>6
    <2>2. IsSeq(t) /\ Len(t) = 0 /\ ToSet(t) = {}  BY <2>1, SeqOfNone
    <2>3. QED  BY <1>2, <2>2
  <1>7. QED  BY <1>2, <1>5, <1>6

(* An identifier that nothing uses is always left: each direction holds at   *)
(* most Capacity messages and each thread at most one.                       *)
LEMMA IdsOf ==
  ASSUME NEW s, IsSeq(s)
  PROVE  LET ids == {s[i].id : i \in DOMAIN s} IN IsFiniteSet(ids) /\ Cardinality(ids) <= Len(s)
  <1> DEFINE ids == {s[i].id : i \in DOMAIN s}
             f == [i \in 1..Len(s) |-> s[i].id]
  <1>1. Len(s) \in Nat /\ DOMAIN s = 1..Len(s)  BY SeqOver
  <1>2. f \in Surjection(1..Len(s), ids)  BY <1>1 DEF Surjection
  <1>3. IsFiniteSet(1..Len(s)) /\ Cardinality(1..Len(s)) = Len(s)
    <2>1. 1 \in Int /\ Len(s) \in Int  BY <1>1
    <2>2. IsFiniteSet(1..Len(s)) /\ Cardinality(1..Len(s)) = IF 1 > Len(s) THEN 0 ELSE Len(s) - 1 + 1
      BY <2>1, FS_Interval
    <2>3. QED  BY <1>1, <2>2
  <1>4. QED  BY <1>2, <1>3, FS_Surjection

LEMMA FreshId ==
  ASSUME Channels, Bounded, NEW H, IsFiniteSet(H), Cardinality(H) <= 2,
         NEW id \in Fresh(H)
  PROVE  id \in Ids /\ id \notin InUse /\ id \notin H
  <1> DEFINE D == {toDetector[i].id : i \in DOMAIN toDetector}
             A == {toAdapter[i].id : i \in DOMAIN toAdapter}
  <1>1. /\ IsFiniteSet(D) /\ Cardinality(D) \in Nat /\ Cardinality(D) <= Capacity
        /\ IsFiniteSet(A) /\ Cardinality(A) \in Nat /\ Cardinality(A) <= Capacity
    <2>1. Len(toDetector) \in Nat /\ Len(toAdapter) \in Nat  BY SeqOver DEF Channels
    <2>2. IsFiniteSet(D) /\ Cardinality(D) <= Len(toDetector)  BY IdsOf DEF Channels
    <2>3. IsFiniteSet(A) /\ Cardinality(A) <= Len(toAdapter)  BY IdsOf DEF Channels
    <2>4. Cardinality(D) \in Nat /\ Cardinality(A) \in Nat  BY <2>2, <2>3, FS_CardinalityType
    <2>5. QED  BY <2>1, <2>2, <2>3, <2>4, ChannelAssumption DEF Bounded, ChannelAssumption
  <1>2. IsFiniteSet(InUse) /\ Cardinality(InUse) \in Nat /\ Cardinality(InUse) <= 2 * Capacity
    <2>1. InUse = D \cup A  BY DEF InUse
    <2>2. IsFiniteSet(D \cup A) /\ Cardinality(D \cup A) <= Cardinality(D) + Cardinality(A)
      <3>1. /\ IsFiniteSet(D \cup A) /\ IsFiniteSet(D \cap A)
            /\ Cardinality(D \cup A) = Cardinality(D) + Cardinality(A) - Cardinality(D \cap A)
        BY <1>1, FS_Union, FS_Intersection
      <3>2. Cardinality(D \cap A) \in Nat  BY <3>1, FS_CardinalityType
      <3>3. QED  BY <1>1, <3>1, <3>2
    <2>3. QED  BY <1>1, <2>1, <2>2, FS_CardinalityType, ChannelAssumption DEF ChannelAssumption
  <1>3. IsFiniteSet(InUse \cup H) /\ Cardinality(InUse \cup H) <= 2 * Capacity + 2
    <2>1. /\ IsFiniteSet(InUse \cup H) /\ IsFiniteSet(InUse \cap H)
          /\ Cardinality(InUse \cup H) = Cardinality(InUse) + Cardinality(H) - Cardinality(InUse \cap H)
      BY <1>2, FS_Union, FS_Intersection
    <2>2. Cardinality(InUse \cap H) \in Nat /\ Cardinality(H) \in Nat  BY <2>1, FS_CardinalityType
    <2>3. QED  BY <1>2, <2>1, <2>2, ChannelAssumption DEF ChannelAssumption
  <1>4. \E i \in Ids : i \notin InUse \cup H
    <2>1. SUFFICES ASSUME Ids \subseteq InUse \cup H PROVE FALSE  OBVIOUS
    <2>2. Cardinality(Ids) <= Cardinality(InUse \cup H)  BY <1>3, <2>1, FS_Subset
    <2>3. Cardinality(Ids) \in Nat /\ Cardinality(InUse \cup H) \in Nat
      BY <1>3, FS_CardinalityType, ChannelAssumption DEF ChannelAssumption
    <2>4. QED  BY <1>3, <2>2, <2>3, ChannelAssumption DEF ChannelAssumption
  <1>5. QED  BY <1>4 DEF Fresh

LEMMA HeldFinite == IsFiniteSet(Held) /\ Cardinality(Held) <= 2
  <1> DEFINE P == IF putPc = "send" THEN {putMsg.id} ELSE {}
             U == IF updPc \in Requests THEN {updMsg.id} ELSE {}
  <1>1. IsFiniteSet(P) /\ Cardinality(P) \in 0..1
    <2>1. CASE putPc = "send"
      <3>1. P = {putMsg.id}  BY <2>1
      <3>2. IsFiniteSet(P) /\ Cardinality(P) = 1  BY <3>1, FS_Singleton, Zenon
      <3>3. QED  BY <3>2
    <2>2. CASE ~(putPc = "send")  BY <2>2, FS_EmptySet
    <2>3. QED  BY <2>1, <2>2
  <1>2. IsFiniteSet(U) /\ Cardinality(U) \in 0..1
    <2>1. CASE updPc \in Requests
      <3>1. U = {updMsg.id}  BY <2>1
      <3>2. IsFiniteSet(U) /\ Cardinality(U) = 1  BY <3>1, FS_Singleton, Zenon
      <3>3. QED  BY <3>2
    <2>2. CASE ~(updPc \in Requests)  BY <2>2, FS_EmptySet
    <2>3. QED  BY <2>1, <2>2
  <1>3. /\ IsFiniteSet(P \cup U) /\ IsFiniteSet(P \cap U)
        /\ Cardinality(P \cup U) = Cardinality(P) + Cardinality(U) - Cardinality(P \cap U)
    BY <1>1, <1>2, FS_Union, FS_Intersection
  <1>4. Cardinality(P \cap U) \in Nat  BY <1>3, FS_CardinalityType
  <1>5. Held = P \cup U  BY DEF Held
  <1>6. QED  BY <1>1, <1>2, <1>3, <1>4, <1>5

(* Fresh identifiers are not those of any message in the channel.            *)
LEMMA FreshUnused ==
  ASSUME Channels, NEW id, id \notin InUse
  PROVE  /\ \A q \in ToSet(toDetector) : q.id # id
         /\ \A r \in ToSet(toAdapter) : r.id # id
  BY DEF InUse, ToSet

(* What the operations of the channel do.                                    *)
LEMMA RespondKeeps ==
  ASSUME Channels, Bounded, NEW r, Respond(r)
  PROVE  /\ IsSeq(toAdapter') /\ Len(toAdapter') <= Capacity
         /\ \A x \in ToSet(toAdapter') : x \in ToSet(toAdapter) \/ x = r
  <1>1. IsSeq(toAdapter) /\ Len(toAdapter) \in Nat  BY SeqOver DEF Channels
  <1>2. CASE Len(toAdapter) < Capacity
    <2>1. toAdapter' = Append(toAdapter, r)  BY <1>2 DEF Respond
    <2>2. QED  BY <1>1, <1>2, <2>1, AppendSeq, ChannelAssumption DEF ChannelAssumption
  <1>3. CASE ~(Len(toAdapter) < Capacity)
    <2>1. toAdapter' = toAdapter  BY <1>3 DEF Respond
    <2>2. QED  BY <1>1, <2>1 DEF Bounded
  <1>4. QED  BY <1>2, <1>3

LEMMA DoneKeeps ==
  ASSUME Channels, Bounded, toDetector # <<>>, Done
  PROVE  /\ IsSeq(toDetector') /\ Len(toDetector') <= Capacity
         /\ \A i \in 1..Len(toDetector') : i + 1 \in 1..Len(toDetector) /\ toDetector'[i] = toDetector[i + 1]
  <1>1. IsSeq(toDetector) /\ Len(toDetector) \in Nat  BY SeqOver DEF Channels
  <1>2. toDetector' = Tail(toDetector)  BY DEF Done
  <1>3. /\ IsSeq(toDetector') /\ Len(toDetector') = Len(toDetector) - 1
        /\ \A i \in 1..Len(toDetector') : toDetector'[i] = toDetector[i + 1]
    BY <1>1, <1>2, TailSeq
  <1>4. QED  BY <1>1, <1>3, ChannelAssumption DEF Bounded, ChannelAssumption

LEMMA SendsKeeps ==
  ASSUME Channels, Bounded, NEW m, Sends(m)
  PROVE  /\ IsSeq(toDetector') /\ Len(toDetector') <= Capacity
         /\ ToSet(toDetector') \subseteq ToSet(toDetector) \cup {m}
         /\ \A i \in DOMAIN toDetector' :
              \/ i \in DOMAIN toDetector /\ toDetector'[i] = toDetector[i]
              \/ toDetector'[i] = m /\ i = Len(toDetector')
         /\ waiting' \in BOOLEAN
         /\ toDetector # <<>> => toDetector' # <<>> /\ Head(toDetector') = Head(toDetector)
  <1>1. IsSeq(toDetector) /\ Len(toDetector) \in Nat /\ DOMAIN toDetector = 1..Len(toDetector)
    BY SeqOver DEF Channels
  <1>2. CASE CanSend
    <2>1. toDetector' = Append(toDetector, m)  BY <1>2 DEF Sends, Send
    <2>2. /\ IsSeq(toDetector') /\ Len(toDetector') = Len(toDetector) + 1
          /\ \A i \in 1..Len(toDetector) : toDetector'[i] = toDetector[i]
          /\ toDetector'[Len(toDetector) + 1] = m
          /\ ToSet(toDetector') = ToSet(toDetector) \cup {m}
      BY <1>1, <2>1, AppendSeq
    <2>3. DOMAIN toDetector' = 1..(Len(toDetector) + 1)  BY <2>2, SeqOver
    <2>4. Len(toDetector') <= Capacity  BY <1>1, <1>2, <2>2, ChannelAssumption DEF CanSend, ChannelAssumption
    <2>5. toDetector # <<>> => toDetector' # <<>> /\ Head(toDetector') = Head(toDetector)
      <3>1. ASSUME toDetector # <<>>
            PROVE  toDetector' # <<>> /\ Head(toDetector') = Head(toDetector)
        <4>1. Len(toDetector) > 0  BY <1>1, <3>1, SeqOver
        <4>2. toDetector' # <<>>  BY <1>1, <2>2, SeqOver
        <4>3. Head(toDetector') = toDetector'[1] /\ Head(toDetector) = toDetector[1]
          BY <1>1, <2>2, <3>1, <4>2, TailSeq
        <4>4. QED  BY <1>1, <2>2, <4>1, <4>2, <4>3
      <3>2. QED  BY <3>1
    <2>6. waiting' \in BOOLEAN  BY DEF Sends, CanSend
    <2>7. QED  BY <1>1, <2>2, <2>3, <2>4, <2>5, <2>6
  <1>3. CASE ~CanSend
    <2>1. toDetector' = toDetector /\ waiting' = FALSE  BY <1>3 DEF Sends
    <2>2. QED  BY <1>1, <2>1 DEF Bounded
  <1>4. QED  BY <1>2, <1>3

LEMMA ReceiveKeeps ==
  ASSUME Channels, Bounded, toAdapter # <<>>, Receive
  PROVE  /\ IsSeq(toAdapter') /\ Len(toAdapter') <= Capacity
         /\ ToSet(toAdapter') \subseteq ToSet(toAdapter)
         /\ Head(toAdapter) \in ToSet(toAdapter)
  <1>1. IsSeq(toAdapter) /\ Len(toAdapter) \in Nat  BY SeqOver DEF Channels
  <1>2. toAdapter' = Tail(toAdapter)  BY DEF Receive
  <1>3. IsSeq(toAdapter') /\ Len(toAdapter') = Len(toAdapter) - 1 /\ ToSet(toAdapter') \subseteq ToSet(toAdapter)
        /\ Head(toAdapter) \in ToSet(toAdapter)
    BY <1>1, <1>2, TailSeq
  <1>4. QED  BY <1>1, <1>3, ChannelAssumption DEF Bounded, ChannelAssumption

(* send_recv returns the reply with the identifier of its message, or none.  *)
LEMMA ReturnsKeeps ==
  ASSUME Channels, Bounded, NEW m, NEW r, Returns(m, r)
  PROVE  /\ IsSeq(toAdapter') /\ Len(toAdapter') <= Capacity
         /\ ToSet(toAdapter') \subseteq ToSet(toAdapter)
         /\ r = NoReply \/ (r \in ToSet(toAdapter) /\ r.id = m.id)
         /\ waiting /\ toAdapter # <<>> => Head(toAdapter).id = m.id /\ Head(toAdapter) \in ToSet(toAdapter)
  <1>1. IsSeq(toAdapter) /\ Len(toAdapter) <= Capacity  BY DEF Channels, Bounded
  <1>2. CASE toAdapter' = toAdapter /\ r = NoReply /\ (waiting => toAdapter = <<>>)
    <2>1. toAdapter' = toAdapter  BY <1>2
    <2>2. IsSeq(toAdapter') /\ Len(toAdapter') <= Capacity  BY <1>1, <2>1
    <2>3. ToSet(toAdapter') \subseteq ToSet(toAdapter)  BY <2>1
    <2>4. r = NoReply /\ ~(waiting /\ toAdapter # <<>>)  BY <1>2
    <2>5. QED  BY <2>2, <2>3, <2>4, Zenon
  <1>3. CASE waiting /\ Received(m) /\ r = Head(toAdapter) /\ Receive
    <2>1. toAdapter # <<>> /\ Head(toAdapter).id = m.id  BY <1>3 DEF Received
    <2>2. QED  BY <1>3, <2>1, ReceiveKeeps
  <1>4. QED  BY <1>2, <1>3 DEF Returns

(* A message of the update thread has a fresh identifier.                    *)
LEMMA RequestedIs ==
  ASSUME NEW request \in Requests, NEW id
  PROVE  LET m == Requested(request, id) IN
         /\ m.id = id /\ m.type # "post"
         /\ request = "status" => m.type = "get" /\ m.op = "status"
         /\ request = "config" => m.type = "get" /\ m.op = "config"
         /\ request \in {"time", "udp"} => m.type = "put"
  BY DEF Requests, Requested, GetMessage, PutMessage

LEMMA UpdateSendsKeeps ==
  ASSUME Channels, Bounded, NEW request \in Requests, UpdateSends(request)
  PROVE  /\ updPc' = request
         /\ updMsg'.type # "post"
         /\ \A q \in ToSet(toDetector) : q.id # updMsg'.id
         /\ \A r \in ToSet(toAdapter) : r.id # updMsg'.id
         /\ putPc = "send" => putMsg.id # updMsg'.id
         /\ updMsg'.id \in Ids
         /\ IsSeq(toDetector') /\ Len(toDetector') <= Capacity
         /\ ToSet(toDetector') \subseteq ToSet(toDetector) \cup {updMsg'}
         /\ \A i \in DOMAIN toDetector' :
              \/ i \in DOMAIN toDetector /\ toDetector'[i] = toDetector[i]
              \/ toDetector'[i] = updMsg' /\ i = Len(toDetector')
         /\ waiting' \in BOOLEAN
         /\ toDetector # <<>> => toDetector' # <<>> /\ Head(toDetector') = Head(toDetector)
  <1>1. PICK id \in new_id(Held, {}) : updMsg' = Requested(request, id)  BY DEF UpdateSends
  <1>2. id \in Fresh(Held)  BY <1>1 DEF new_id
  <1>3. id \in Ids /\ id \notin InUse /\ id \notin Held  BY <1>2, FreshId, HeldFinite
  <1>4. updMsg'.id = id /\ updMsg'.type # "post"  BY <1>1, RequestedIs
  <1>5. /\ \A q \in ToSet(toDetector) : q.id # id
        /\ \A r \in ToSet(toAdapter) : r.id # id
    BY <1>3, FreshUnused
  <1>6. putPc = "send" => putMsg.id # id  BY <1>3 DEF Held
  <1>7. updPc' = request /\ Sends(updMsg')  BY DEF UpdateSends
  <1>8. QED  BY <1>3, <1>4, <1>5, <1>6, <1>7, SendsKeeps

-----------------------------------------------------------------------------
(* The steps of the detector: requests are taken from the front, replies are *)
(* those of the request taken, and only the run command, of which the        *)
(* handler sleeps, makes the detector run.                                   *)
Answers(r) ==
  /\ ~busy' /\ toDetector # <<>>
  /\ r.id = Head(toDetector).id
  /\ r.of = <<Head(toDetector).type, Head(toDetector).op>>
  /\ r.state = state'

DetectorEffect ==
  /\ UNCHANGED adapter /\ History
  /\ Channels' /\ Bounded'
  /\ \E k \in Nat : \A i \in 1..Len(toDetector') :
       i + k \in 1..Len(toDetector) /\ toDetector'[i] = toDetector[i + k]
  /\ \A r \in ToSet(toAdapter') : r \in ToSet(toAdapter) \/ Answers(r)
  /\ state' = "running" => state = "running" \/ busy
  /\ busy' => busy \/ (toDetector # <<>> /\ Head(toDetector).type = "post")
  /\ BusyRuns'

(* A handler that takes the first request, and may reply.                    *)
LEMMA HandlerEffect ==
  ASSUME Channels, Bounded, toDetector # <<>>, Done, ~busy', UNCHANGED adapter, History,
         state' = "running" => state = "running" \/ busy,
         \/ UNCHANGED toAdapter
         \/ \E c : Respond(ResponseMessage(Head(toDetector), state', c))
  PROVE  DetectorEffect
  <1>1. /\ IsSeq(toDetector') /\ Len(toDetector') <= Capacity
        /\ \A i \in 1..Len(toDetector') : i + 1 \in 1..Len(toDetector) /\ toDetector'[i] = toDetector[i + 1]
    BY DoneKeeps
  <1>2. 1 \in Nat  OBVIOUS
  <1>3. \E k \in Nat : \A i \in 1..Len(toDetector') :
          i + k \in 1..Len(toDetector) /\ toDetector'[i] = toDetector[i + k]
    BY <1>1, <1>2, Zenon
  <1>4. /\ IsSeq(toAdapter') /\ Len(toAdapter') <= Capacity
        /\ \A r \in ToSet(toAdapter') : r \in ToSet(toAdapter) \/ Answers(r)
    <2>1. CASE UNCHANGED toAdapter  BY <2>1 DEF Channels, Bounded
    <2>2. CASE \E c : Respond(ResponseMessage(Head(toDetector), state', c))
      <3>1. PICK c : Respond(ResponseMessage(Head(toDetector), state', c))  BY <2>2
      <3> DEFINE r == ResponseMessage(Head(toDetector), state', c)
      <3>2. Answers(r)  BY DEF Answers, ResponseMessage
      <3>3. /\ IsSeq(toAdapter') /\ Len(toAdapter') <= Capacity
            /\ \A x \in ToSet(toAdapter') : x \in ToSet(toAdapter) \/ x = r
        BY <3>1, RespondKeeps
      <3>4. QED  BY <3>2, <3>3
    <2>3. QED  BY <2>1, <2>2
  <1>5. Channels' /\ Bounded'  BY <1>1, <1>4 DEF Channels, Bounded
  <1>6. BusyRuns'  BY DEF BusyRuns
  <1>7. QED  BY <1>3, <1>4, <1>5, <1>6 DEF DetectorEffect

(* A step that leaves the channel alone.                                     *)
LEMMA ThreadEffect ==
  ASSUME Channels, Bounded, BusyRuns, UNCHANGED channel, UNCHANGED adapter, History,
         state' = "running" => state = "running",
         busy' => busy \/ (toDetector # <<>> /\ Head(toDetector).type = "post")
  PROVE  DetectorEffect
  <1>1. toDetector' = toDetector /\ toAdapter' = toAdapter  BY DEF channel
  <1>2. Channels' /\ Bounded'  BY <1>1 DEF Channels, Bounded
  <1>3. IsSeq(toDetector) /\ Len(toDetector) \in Nat  BY SeqOver DEF Channels
  <1>4. \A i \in 1..Len(toDetector') : i + 0 \in 1..Len(toDetector) /\ toDetector'[i] = toDetector[i + 0]
    BY <1>1, <1>3
  <1>5. \E k \in Nat : \A i \in 1..Len(toDetector') :
          i + k \in 1..Len(toDetector) /\ toDetector'[i] = toDetector[i + k]
    <2>1. 0 \in Nat  OBVIOUS
    <2>2. QED  BY <1>4, <2>1, Zenon
  <1>6. \A r \in ToSet(toAdapter') : r \in ToSet(toAdapter)  BY <1>1
  <1>7. BusyRuns'  BY <1>1 DEF BusyRuns
  <1>8. QED  BY <1>2, <1>5, <1>6, <1>7 DEF DetectorEffect

LEMMA CrashEffect ==
  ASSUME Channels, Bounded, Crash, UNCHANGED adapter, History
  PROVE  DetectorEffect
  <1>1. IsSeq(toDetector) /\ Len(toDetector) \in Nat /\ IsSeq(toAdapter) /\ Len(toAdapter) \in Nat
    BY SeqOver DEF Channels
  <1>2. PICK lost \in 0..Len(toDetector) : toDetector' = SubSeq(toDetector, lost + 1, Len(toDetector))
    BY <1>1 DEF Crash
  <1>3. PICK kept \in 0..Len(toAdapter) : toAdapter' = SubSeq(toAdapter, 1, kept)
    BY DEF Crash
  <1>4. Len(toDetector) \in 0..Len(toDetector) /\ 0 \in 0..Len(toAdapter) /\ 0 + 1 = 1  BY <1>1
  <1>5. /\ IsSeq(toDetector') /\ Len(toDetector') <= Len(toDetector)
        /\ \A i \in 1..Len(toDetector') : i + lost \in 1..Len(toDetector) /\ toDetector'[i] = toDetector[i + lost]
    BY <1>1, <1>2, <1>4, CutSeq
  <1>6. IsSeq(toAdapter') /\ Len(toAdapter') <= Len(toAdapter) /\ ToSet(toAdapter') \subseteq ToSet(toAdapter)
    <2>1. LET t == SubSeq(toAdapter, 0 + 1, kept) IN
            IsSeq(t) /\ Len(t) <= Len(toAdapter) /\ ToSet(t) \subseteq ToSet(toAdapter)
      BY <1>1, <1>4, CutSeq
    <2>2. QED  BY <1>3, <1>4, <2>1
  <1>7. Len(toDetector') \in Nat /\ Len(toAdapter') \in Nat  BY <1>5, <1>6, SeqOver
  <1>8. Channels' /\ Bounded'
    BY <1>1, <1>5, <1>6, <1>7, ChannelAssumption DEF Channels, Bounded, ChannelAssumption
  <1>9. state' = "idle" /\ busy' = FALSE  BY DEF Crash
  <1>10. lost \in Nat  BY <1>1, <1>2
  <1>11. \E k \in Nat : \A i \in 1..Len(toDetector') :
          i + k \in 1..Len(toDetector) /\ toDetector'[i] = toDetector[i + k]
    BY <1>5, <1>10, Zenon
  <1>12. BusyRuns'  BY <1>9 DEF BusyRuns
  <1>13. QED  BY <1>6, <1>8, <1>9, <1>11, <1>12 DEF DetectorEffect

Detector ==
  Reactor \/ ArmThread \/ ScriptThread \/ SenderThread \/ DetectorDies \/ DetectorRestarts \/ SendFails

LEMMA DetectorSteps ==
  ASSUME IInv, Detector
  PROVE  DetectorEffect
  <1> USE DEF IInv
  <1>1. UNCHANGED adapter /\ History
    BY DEF Detector, Reactor, ArmThread, ScriptThread, SenderThread, DetectorDies, DetectorRestarts, SendFails,
           DetectorStep, DetectorFault
  <1>2. CASE parse_get_msg
    <2>1. toDetector # <<>> /\ ~busy /\ Done  BY <1>2 DEF parse_get_msg, Request
    <2>2. UNCHANGED <<state, busy>>  BY <1>2 DEF parse_get_msg, simulator
    <2>3. UNCHANGED toAdapter \/ \E c : Respond(ResponseMessage(Head(toDetector), state', c))
      BY <1>2, <2>2 DEF parse_get_msg
    <2>4. QED  BY <1>1, <2>1, <2>2, <2>3, HandlerEffect
  <1>3. CASE parse_put_msg
    <2>1. toDetector # <<>> /\ ~busy /\ Done  BY <1>3 DEF parse_put_msg, Request
    <2>2. UNCHANGED <<state, busy>>  BY <1>3 DEF parse_put_msg
    <2>3. UNCHANGED toAdapter \/ \E c : Respond(ResponseMessage(Head(toDetector), state', c))
      BY <1>3, <2>2 DEF parse_put_msg
    <2>4. QED  BY <1>1, <2>1, <2>2, <2>3, HandlerEffect
  <1>4. CASE parse_post_msg
    <2>1. toDetector # <<>> /\ ~busy /\ Done /\ UNCHANGED busy  BY <1>4 DEF parse_post_msg, Request
    <2>2. state' \in {"arming", "idle", state}  BY <1>4 DEF parse_post_msg
    <2>3. \E c : Respond(ResponseMessage(Head(toDetector), state', c))  BY <1>4 DEF parse_post_msg
    <2>4. QED  BY <1>1, <2>1, <2>2, <2>3, HandlerEffect
  <1>5. CASE StartRun
    <2>1. UNCHANGED <<channel, state>> /\ toDetector # <<>> /\ Head(toDetector).type = "post"
      BY <1>5 DEF StartRun, Request
    <2>2. QED  BY <1>1, <2>1, ThreadEffect
  <1>6. CASE FinishRun
    <2>1. busy /\ Done /\ ~busy'  BY <1>6 DEF FinishRun
    <2>2. toDetector # <<>>  BY <2>1 DEF BusyRuns
    <2>3. \E c : Respond(ResponseMessage(Head(toDetector), state', c))  BY <1>6 DEF FinishRun
    <2>4. QED  BY <1>1, <2>1, <2>2, <2>3, HandlerEffect
  <1>7. CASE ArmProducer
    <2>1. UNCHANGED <<channel, state, busy>>  BY <1>7 DEF ArmProducer
    <2>2. QED  BY <1>1, <2>1, ThreadEffect
  <1>8. CASE Armed
    <2>1. UNCHANGED <<channel, busy>> /\ state' = "armed"  BY <1>8 DEF Armed
    <2>2. QED  BY <1>1, <2>1, ThreadEffect
  <1>9. CASE ScriptEnds
    <2>1. UNCHANGED <<channel, busy>> /\ state' = "idle"  BY <1>9 DEF ScriptEnds
    <2>2. QED  BY <1>1, <2>1, ThreadEffect
  <1>10. CASE SendPacket \/ SendError
    <2>1. UNCHANGED <<channel, state, busy>>  BY <1>10 DEF SendPacket, SendError
    <2>2. QED  BY <1>1, <2>1, ThreadEffect
  <1>11. CASE Restart
    <2>1. UNCHANGED <<channel, state, busy>>  BY <1>11 DEF Restart
    <2>2. QED  BY <1>1, <2>1, ThreadEffect
  <1>12. CASE Crash  BY <1>1, <1>12, CrashEffect
  <1>13. QED
    BY <1>2, <1>3, <1>4, <1>5, <1>6, <1>7, <1>8, <1>9, <1>10, <1>11, <1>12
    DEF Detector, Reactor, ArmThread, ScriptThread, SenderThread, DetectorDies, DetectorRestarts, SendFails,
        DetectorStep, DetectorFault

(* Under ~busy and with no command waiting, no step makes the detector run.  *)
LEMMA QuietStays ==
  ASSUME IInv, DetectorEffect, Quiet
  PROVE  Quiet' /\ (ended => ended')
  <1>1. IsSeq(toDetector) /\ IsSeq(toDetector')  BY DEF DetectorEffect, Channels, IInv
  <1>2. ToSet(toDetector') \subseteq ToSet(toDetector)
    <2>1. PICK k \in Nat : \A i \in 1..Len(toDetector') :
            i + k \in 1..Len(toDetector) /\ toDetector'[i] = toDetector[i + k]
      BY DEF DetectorEffect
    <2>2. DOMAIN toDetector = 1..Len(toDetector)  BY <1>1, SeqOver
    <2>3. ASSUME NEW q \in ToSet(toDetector')  PROVE q \in ToSet(toDetector)
      <3>1. PICK i \in 1..Len(toDetector') : q = toDetector'[i]  BY <1>1, SeqOver
      <3>2. i + k \in DOMAIN toDetector /\ q = toDetector[i + k]  BY <2>1, <2>2, <3>1
      <3>3. QED  BY <1>1, <3>2, SeqOver
    <2>4. QED  BY <2>3
  <1>3. ~busy'
    <2>1. toDetector # <<>> => Head(toDetector).type # "post"
      BY <1>1, TailSeq DEF Quiet
    <2>2. QED  BY <2>1 DEF DetectorEffect, Quiet
  <1>4. state' = "running" => state = "running"  BY DEF DetectorEffect, Quiet
  <1>5. ended => ended'  BY <1>4 DEF DetectorEffect, History
  <1>6. QED  BY <1>2, <1>3, <1>5 DEF Quiet

LEMMA RanStays ==
  ASSUME DetectorEffect, job = "start"
  PROVE  job' = "start" /\ (ran => ran') /\ (state' = "running" => ran')
  BY DEF DetectorEffect, History, adapter, put

LEMMA DetectorKeeps ==
  ASSUME IInv, DetectorEffect
  PROVE  IInv'
  <1> USE DEF IInv
  <1>1. /\ lock' = lock /\ waiting' = waiting /\ putPc' = putPc /\ job' = job /\ putMsg' = putMsg
        /\ updPc' = updPc /\ updMsg' = updMsg /\ status' = status /\ collided' = collided
    BY DEF DetectorEffect, adapter, put, update, view
  <1>2. Channels' /\ Bounded' /\ BusyRuns'  BY DEF DetectorEffect
  <1>3. LockOwned' /\ Polling' /\ StatusItems' /\ UpdateHolds' /\ PutJob'
    BY <1>1 DEF LockOwned, Polling, StatusItems, UpdateHolds, PutJob
  <1>4. IsSeq(toDetector) /\ IsSeq(toDetector') /\ IsSeq(toAdapter)  BY <1>2 DEF Channels
  <1>5. PICK k \in Nat : \A i \in 1..Len(toDetector') :
          i + k \in 1..Len(toDetector) /\ toDetector'[i] = toDetector[i + k]
    BY DEF DetectorEffect
  <1>6. /\ DOMAIN toDetector = 1..Len(toDetector) /\ DOMAIN toDetector' = 1..Len(toDetector')
        /\ Len(toDetector) \in Nat /\ Len(toDetector') \in Nat
    BY <1>4, SeqOver
  <1>7. \A q \in ToSet(toDetector') : q \in ToSet(toDetector)
    <2>1. TAKE q \in ToSet(toDetector')
    <2>2. PICK i \in 1..Len(toDetector') : q = toDetector'[i]  BY <1>4, SeqOver
    <2>3. i + k \in DOMAIN toDetector /\ q = toDetector[i + k]  BY <1>5, <1>6, <2>2
    <2>4. QED  BY <1>4, <2>3, SeqOver
  <1>8. \A r \in ToSet(toAdapter') : r \in ToSet(toAdapter) \/ Answers(r)  BY DEF DetectorEffect
  <1>9. toDetector # <<>> => Head(toDetector) = toDetector[1] /\ Head(toDetector) \in ToSet(toDetector)
    BY <1>4, TailSeq
  <1>10. job = "start" => (ran => ran') /\ (state' = "running" => ran')  BY RanStays
  <1>11. StartedRan' /\ FinishRan'
    <2>1. StartedRan'  BY <1>1, <1>10 DEF StartedRan
    <2>2. FinishRan'  BY <1>1, <1>10 DEF FinishRan, PutJob
    <2>3. QED  BY <2>1, <2>2
  <1>12. ReplyRan'
    <2>1. SUFFICES ASSUME Asked', updPc' = "status", NEW r \in StatusReplies', r.state = "running"
                   PROVE  ran'
      BY DEF ReplyRan
    <2>2. Asked /\ job = "start"  BY <1>1, <2>1 DEF Asked
    <2>3. r \in ToSet(toAdapter') /\ r.id = updMsg.id /\ r.of = <<"get", "status">>
      BY <1>1, <2>1 DEF StatusReplies
    <2>4. CASE r \in ToSet(toAdapter)
      <3>1. ran  BY <1>1, <2>1, <2>2, <2>3, <2>4 DEF ReplyRan, StatusReplies
      <3>2. QED  BY <1>10, <2>2, <3>1
    <2>5. CASE Answers(r)  BY <1>10, <2>1, <2>2, <2>5 DEF Answers
    <2>6. QED  BY <1>8, <2>3, <2>4, <2>5
  <1>13. SeenRan'
    <2>1. RunAsked' => RunAsked /\ job = "start"  BY <1>1 DEF RunAsked
    <2>2. QED  BY <1>1, <1>10, <2>1 DEF SeenRan
  <1>14. ASSUME NEW m, RequestedBy(m)
         PROVE  /\ \A q \in ToSet(toDetector') : q.id = m.id => q.type = m.type /\ q.op = m.op
                /\ \A r \in ToSet(toAdapter') : r.id = m.id => r.of = <<m.type, m.op>>
    <2>1. \A q \in ToSet(toDetector') : q.id = m.id => q.type = m.type /\ q.op = m.op
      BY <1>7, <1>14 DEF RequestedBy
    <2>2. ASSUME NEW r \in ToSet(toAdapter'), r.id = m.id  PROVE r.of = <<m.type, m.op>>
      <3>1. CASE r \in ToSet(toAdapter)  BY <1>14, <2>2, <3>1 DEF RequestedBy
      <3>2. CASE Answers(r)
        <4>1. Head(toDetector).id = m.id /\ r.of = <<Head(toDetector).type, Head(toDetector).op>>
              /\ Head(toDetector) \in ToSet(toDetector)
          BY <1>9, <2>2, <3>2 DEF Answers
        <4>2. Head(toDetector).type = m.type /\ Head(toDetector).op = m.op  BY <1>14, <4>1 DEF RequestedBy
        <4>3. QED  BY <4>1, <4>2
      <3>3. QED  BY <1>8, <2>2, <3>1, <3>2
    <2>3. QED  BY <2>1, <2>2
  <1>15. Apart'
    <2>1. SUFFICES ASSUME ~collided
                   PROVE  /\ putPc = "send" => RequestedBy(putMsg)'
                          /\ updPc \in Requests => RequestedBy(updMsg)'
                          /\ putPc = "send" /\ updPc \in Requests => putMsg.id # updMsg.id
      BY <1>1 DEF Apart
    <2>2. putPc = "send" => RequestedBy(putMsg)'
      <3>1. RequestedBy(putMsg) => RequestedBy(putMsg)'  BY <1>1, <1>14 DEF RequestedBy
      <3>2. QED  BY <2>1, <3>1 DEF Apart
    <2>3. updPc \in Requests => RequestedBy(updMsg)'
      <3>1. RequestedBy(updMsg) => RequestedBy(updMsg)'  BY <1>1, <1>14 DEF RequestedBy
      <3>2. QED  BY <2>1, <3>1 DEF Apart
    <2>4. QED  BY <2>1, <2>2, <2>3 DEF Apart
  <1>16. IdleEnded'
    BY DEF DetectorEffect, History, IdleEnded
  <1>17. AskedLast'
    <2>1. SUFFICES ASSUME updPc = "status", NEW i \in 1..Len(toDetector'), NEW j \in 1..Len(toDetector'), i < j,
                          toDetector'[i].id = updMsg.id, toDetector'[i].type = "get"
                   PROVE  toDetector'[j].type # "post"
      BY <1>1, <1>6 DEF AskedLast
    <2>2. /\ i + k \in DOMAIN toDetector /\ toDetector'[i] = toDetector[i + k]
          /\ j + k \in DOMAIN toDetector /\ toDetector'[j] = toDetector[j + k] /\ i + k < j + k
      BY <1>5, <1>6, <2>1
    <2>3. QED  BY <2>1, <2>2 DEF AskedLast
  <1>18. ReplyIdle'
    <2>1. SUFFICES ASSUME updPc = "status", NEW r \in ToSet(toAdapter'), r.id = updMsg.id, r.of = <<"get", "status">>
                   PROVE  Quiet' /\ (r.state = "idle" => ended')
      BY <1>1 DEF ReplyIdle, StatusReplies
    <2>2. CASE r \in ToSet(toAdapter)
      <3>1. Quiet /\ (r.state = "idle" => ended)  BY <2>1, <2>2 DEF ReplyIdle, StatusReplies
      <3>2. QED  BY <3>1, QuietStays
    <2>3. CASE Answers(r)
      <3>1. ~busy' /\ toDetector # <<>> /\ r.state = state' /\ r.id = Head(toDetector).id
            /\ r.of = <<Head(toDetector).type, Head(toDetector).op>>
        BY <2>3 DEF Answers
      <3>2. toDetector[1].id = updMsg.id /\ toDetector[1].type = "get"  BY <1>9, <2>1, <3>1
      <3>3. \A j \in 2..Len(toDetector) : toDetector[j].type # "post"
        <4>1. TAKE j \in 2..Len(toDetector)
        <4>2. 1 \in DOMAIN toDetector /\ j \in DOMAIN toDetector /\ 1 < j  BY <1>6
        <4>3. QED  BY <2>1, <3>2, <4>2 DEF AskedLast
      <3>4. \A q \in ToSet(toDetector) : q.type # "post"
        <4>1. TAKE q \in ToSet(toDetector)
        <4>2. PICK j \in 1..Len(toDetector) : q = toDetector[j]  BY <1>4, SeqOver
        <4>3. CASE j = 1  BY <3>2, <4>2, <4>3
        <4>4. CASE j # 1
          <5>1. j \in 2..Len(toDetector)  BY <1>6, <4>4
          <5>2. QED  BY <3>3, <4>2, <5>1
        <4>5. QED  BY <4>3, <4>4
      <3>5. Quiet'  BY <1>7, <3>1, <3>4 DEF Quiet
      <3>6. state' = "idle" => ended'  BY <1>16 DEF IdleEnded
      <3>7. QED  BY <3>1, <3>5, <3>6
    <2>4. QED  BY <1>8, <2>1, <2>2, <2>3
  <1>19. SeenIdle'
    <2>1. updPc \in {"time", "udp", "connect", "complete"} => Quiet' /\ (status.state = "idle" => ended')
      BY QuietStays DEF SeenIdle
    <2>2. QED  BY <1>1, <2>1 DEF SeenIdle
  <1>20. QED
    BY <1>2, <1>3, <1>11, <1>12, <1>13, <1>15, <1>16, <1>17, <1>18, <1>19

LEMMA InvariantInit ==
  ASSUME Init
  PROVE  IInv
  <1> USE DEF Init, ChannelInit, AdapterInit, SimulatorInit
  <1>1. toDetector = <<>> /\ toAdapter = <<>>  OBVIOUS
  <1>2. /\ IsSeq(toDetector) /\ Len(toDetector) = 0 /\ ToSet(toDetector) = {}
        /\ IsSeq(toAdapter) /\ Len(toAdapter) = 0 /\ ToSet(toAdapter) = {}
    BY <1>1, SeqOfNone
  <1>3. Channels /\ Bounded  BY <1>2, ChannelAssumption DEF Channels, Bounded, ChannelAssumption
  <1>4. LockOwned /\ Polling /\ StatusItems /\ UpdateHolds /\ PutJob
    BY DEF LockOwned, Polling, StatusItems, UpdateHolds, Requests, PutJob
  <1>5. StartedRan /\ ReplyRan /\ SeenRan /\ FinishRan
    BY <1>2 DEF StartedRan, ReplyRan, Asked, SeenRan, RunAsked, FinishRan
  <1>6. Apart /\ BusyRuns /\ IdleEnded /\ AskedLast /\ ReplyIdle /\ SeenIdle
    BY <1>2 DEF Apart, Requests, BusyRuns, IdleEnded, AskedLast, ReplyIdle, SeenIdle
  <1>7. QED  BY <1>3, <1>4, <1>5, <1>6 DEF IInv

-----------------------------------------------------------------------------
(* The steps of the adapter.  What they leave alone, first.                  *)
Outside == UNCHANGED <<simulator, history>>

LEMMA IdleKept ==
  ASSUME IInv, UNCHANGED <<toDetector, updPc, updMsg>>, status'.state = status.state,
         ToSet(toAdapter') \subseteq ToSet(toAdapter),
         UNCHANGED <<busy, state, ended>>
  PROVE  UpdateHolds' /\ BusyRuns' /\ IdleEnded' /\ AskedLast' /\ ReplyIdle' /\ SeenIdle'
  <1> USE DEF IInv
  <1>1. UpdateHolds' /\ BusyRuns' /\ IdleEnded'  BY DEF UpdateHolds, BusyRuns, IdleEnded
  <1>2. AskedLast'  BY DEF AskedLast
  <1>3. Quiet' <=> Quiet  BY DEF Quiet
  <1>4. StatusReplies' \subseteq StatusReplies  BY DEF StatusReplies
  <1>5. ReplyIdle'  BY <1>3, <1>4 DEF ReplyIdle
  <1>6. SeenIdle'  BY <1>3 DEF SeenIdle
  <1>7. QED  BY <1>1, <1>2, <1>5, <1>6

LEMMA RanKept ==
  ASSUME IInv, UNCHANGED <<state, ran, updPc, updMsg>>, status'.state = status.state,
         ToSet(toAdapter') \subseteq ToSet(toAdapter),
         job' = "start" => job = "start",
         Asked' /\ updPc = "status" => Asked, RunAsked' => RunAsked, putPc' = "finish" => ran
  PROVE  StartedRan' /\ ReplyRan' /\ SeenRan' /\ FinishRan'
  <1> USE DEF IInv
  <1>1. StartedRan' /\ FinishRan'  BY DEF StartedRan, FinishRan
  <1>2. StatusReplies' \subseteq StatusReplies  BY DEF StatusReplies
  <1>3. ReplyRan'  BY <1>2 DEF ReplyRan
  <1>4. SeenRan'  BY DEF SeenRan
  <1>5. QED  BY <1>1, <1>3, <1>4

(* Of the messages only fewer are there.                                     *)
LEMMA ApartKept ==
  ASSUME IInv, UNCHANGED <<updPc, updMsg, collided>>,
         ToSet(toDetector') \subseteq ToSet(toDetector), ToSet(toAdapter') \subseteq ToSet(toAdapter),
         putPc' = "send" => putPc = "send" /\ putMsg' = putMsg
  PROVE  Apart'
  <1> USE DEF IInv
  <1>1. ASSUME putPc' = "send", ~collided  PROVE RequestedBy(putMsg)'
    BY <1>1 DEF Apart, RequestedBy
  <1>2. ASSUME updPc \in Requests, ~collided  PROVE RequestedBy(updMsg)'
    BY <1>2 DEF Apart, RequestedBy
  <1>3. QED  BY <1>1, <1>2 DEF Apart

(* The PUT thread makes a message.                                           *)
LEMMA MakePutKeeps ==
  ASSUME IInv, UNCHANGED <<channel, update>>, putPc # "send",
         NEW messages, MakePut(messages), \A id \in Ids : messages[id].id = id
  PROVE  /\ putPc' = "send"
         /\ \E id \in Ids : putMsg' = messages[id]
         /\ Apart'
  <1> USE DEF IInv
  <1>1. PICK id \in new_id(Held, Held) :
          putMsg' = messages[id] /\ (collided' <=> (collided \/ id \in Held)) /\ putPc' = "send"
    BY DEF MakePut
  <1>2. toDetector' = toDetector /\ toAdapter' = toAdapter /\ updPc' = updPc /\ updMsg' = updMsg
    BY DEF channel, update
  <1>3. id \in Fresh(Held) => id \in Ids /\ id \notin InUse /\ id \notin Held
    BY FreshId, HeldFinite
  <1>4. id \in Held => id = updMsg.id /\ updPc \in Requests
    BY DEF Held
  <1>5. id \in Ids  BY <1>1, <1>3, <1>4 DEF new_id, UpdateHolds
  <1>6. putMsg'.id = id  BY <1>1, <1>5
  <1>7. ASSUME ~collided'
        PROVE  /\ RequestedBy(putMsg)'
               /\ updPc \in Requests => RequestedBy(updMsg)' /\ putMsg'.id # updMsg.id
    <2>1. id \notin Held /\ ~collided /\ id \in Fresh(Held)  BY <1>1, <1>7 DEF new_id
    <2>2. /\ \A q \in ToSet(toDetector) : q.id # id
          /\ \A r \in ToSet(toAdapter) : r.id # id
      BY <1>3, <2>1, FreshUnused
    <2>3. RequestedBy(putMsg)'  BY <1>2, <1>6, <2>2 DEF RequestedBy
    <2>4. updPc \in Requests => RequestedBy(updMsg)'  BY <1>2, <2>1 DEF Apart, RequestedBy
    <2>5. updPc \in Requests => updMsg.id \in Held  BY DEF Held
    <2>6. QED  BY <1>6, <2>1, <2>3, <2>4, <2>5
  <1>8. Apart'  BY <1>2, <1>7 DEF Apart
  <1>9. QED  BY <1>1, <1>5, <1>8

LEMMA ClientPutKeeps ==
  ASSUME IInv, ClientPut
  PROVE  IInv'
  <1> USE DEF IInv
  <1>1. /\ UNCHANGED <<simulator, ended>> /\ ran' = (job' = "start" /\ state = "running")
        /\ UNCHANGED <<channel, lock, waiting, update, view>> /\ putPc = "ready"
    BY DEF ClientPut, Put, StartAcquisition, PutCommand, PutConfig
  <1>2. /\ toDetector' = toDetector /\ toAdapter' = toAdapter /\ updPc' = updPc /\ updMsg' = updMsg
        /\ status' = status /\ state' = state /\ busy' = busy
    BY <1>1 DEF channel, update, view, simulator
  <1>3. /\ putPc' = "send" /\ Apart'
        /\ job' = "other" \/ (job' = "start" /\ putMsg'.op = "arm")
    <2>1. CASE StartAcquisition
      <3> DEFINE msgs == [id \in Ids |-> PostMessage(id, "arm")]
      <3>1. \A id \in Ids : msgs[id].id = id /\ msgs[id].op = "arm"  BY DEF PostMessage
      <3>2. job' = "start" /\ MakePut(msgs)  BY <2>1 DEF StartAcquisition
      <3> HIDE DEF msgs
      <3>3. putPc' = "send" /\ Apart' /\ \E id \in Ids : putMsg' = msgs[id]
        BY <1>1, <3>1, <3>2, MakePutKeeps
      <3>4. QED  BY <3>1, <3>2, <3>3
    <2>2. CASE PutCommand
      <3>1. PICK c \in Commands : MakePut([id \in Ids |-> PostMessage(id, c)])  BY <2>2 DEF PutCommand
      <3> DEFINE msgs == [id \in Ids |-> PostMessage(id, c)]
      <3>2. \A id \in Ids : msgs[id].id = id  BY DEF PostMessage
      <3>3. job' = "other" /\ MakePut(msgs)  BY <2>2, <3>1 DEF PutCommand
      <3> HIDE DEF msgs
      <3>4. putPc' = "send" /\ Apart'  BY <1>1, <3>2, <3>3, MakePutKeeps
      <3>5. QED  BY <3>3, <3>4
    <2>3. CASE PutConfig
      <3>1. PICK path \in ConfigPaths, v \in Values :
              MakePut([id \in Ids |-> PutMessage(id, uri_params_to_dictionary(path, v))])
        BY <2>3 DEF PutConfig
      <3> DEFINE msgs == [id \in Ids |-> PutMessage(id, uri_params_to_dictionary(path, v))]
      <3>2. \A id \in Ids : msgs[id].id = id  BY DEF PutMessage
      <3>3. job' = "other" /\ MakePut(msgs)  BY <2>3, <3>1 DEF PutConfig
      <3> HIDE DEF msgs
      <3>4. putPc' = "send" /\ Apart'  BY <1>1, <3>2, <3>3, MakePutKeeps
      <3>5. QED  BY <3>3, <3>4
    <2>4. QED  BY <2>1, <2>2, <2>3 DEF ClientPut, Put
  <1>4. Channels' /\ Bounded' /\ StatusItems'  BY <1>2 DEF Channels, Bounded, StatusItems
  <1>5. LockOwned' /\ Polling'  BY <1>1, <1>2, <1>3 DEF LockOwned, Polling
  <1>6. PutJob'  BY <1>3 DEF PutJob
  <1>7. lock' # "put"  BY <1>1 DEF LockOwned
  <1>8. ~Asked' /\ ~RunAsked'  BY <1>3, <1>7 DEF Asked, RunAsked
  <1>9. StartedRan' /\ ReplyRan' /\ SeenRan' /\ FinishRan'
    BY <1>1, <1>2, <1>3, <1>8 DEF StartedRan, ReplyRan, SeenRan, FinishRan
  <1>10. UpdateHolds' /\ BusyRuns' /\ IdleEnded' /\ AskedLast' /\ ReplyIdle' /\ SeenIdle'
    BY <1>1, <1>2, IdleKept
  <1>11. QED  BY <1>3, <1>4, <1>5, <1>6, <1>9, <1>10

(* What Outside leaves alone, by name.                                       *)
LEMMA OutsideKept ==
  ASSUME Outside
  PROVE  UNCHANGED <<busy, state, ran, ended>>
  BY DEF Outside, simulator, history

LEMMA PutSendKeeps ==
  ASSUME IInv, PutSend, Outside
  PROVE  IInv'
  <1> USE DEF IInv
  <1>1. /\ putPc = "send" /\ lock = "free" /\ lock' = "put" /\ Sends(putMsg) /\ toAdapter' = toAdapter
        /\ UNCHANGED <<put, update, view>>
    BY DEF PutSend
  <1>2. /\ putPc' = putPc /\ job' = job /\ putMsg' = putMsg /\ collided' = collided
        /\ updPc' = updPc /\ updMsg' = updMsg /\ status' = status
        /\ busy' = busy /\ state' = state /\ ran' = ran /\ ended' = ended
    BY <1>1, OutsideKept DEF put, update, view
  <1>3. updPc = "sleep"  BY <1>1 DEF LockOwned
  <1>4. /\ IsSeq(toDetector') /\ Len(toDetector') <= Capacity
        /\ ToSet(toDetector') \subseteq ToSet(toDetector) \cup {putMsg}
        /\ toDetector # <<>> => toDetector' # <<>> /\ Head(toDetector') = Head(toDetector)
    BY <1>1, SendsKeeps
  <1>5. Channels' /\ Bounded'  BY <1>1, <1>4 DEF Channels, Bounded
  <1>6. LockOwned' /\ Polling' /\ StatusItems' /\ UpdateHolds' /\ PutJob'
    BY <1>1, <1>2, <1>3 DEF LockOwned, Polling, StatusItems, UpdateHolds, Requests, PutJob
  <1>7. StartedRan' /\ ReplyRan' /\ FinishRan'  BY <1>2, <1>3 DEF StartedRan, ReplyRan, FinishRan
  <1>8. SeenRan'
    <2>1. RunAsked' => RunAsked  BY <1>2 DEF RunAsked
    <2>2. QED  BY <1>2, <2>1 DEF SeenRan
  <1>9. Apart'
    <2>1. ASSUME ~collided  PROVE RequestedBy(putMsg)'
      BY <1>1, <1>2, <1>4, <2>1 DEF Apart, RequestedBy
    <2>2. updPc \notin Requests  BY <1>3 DEF Requests
    <2>3. QED  BY <1>1, <1>2, <2>1, <2>2 DEF Apart
  <1>10. BusyRuns' /\ IdleEnded' /\ AskedLast' /\ ReplyIdle' /\ SeenIdle'
    BY <1>2, <1>3, <1>4 DEF BusyRuns, IdleEnded, AskedLast, ReplyIdle, SeenIdle
  <1>11. QED  BY <1>5, <1>6, <1>7, <1>8, <1>9, <1>10

(* A reply of another request is dropped.                                    *)
LEMMA DiscardKeeps ==
  ASSUME IInv, Outside, UNCHANGED adapter, NEW m, Discard(m)
  PROVE  IInv'
  <1> USE DEF IInv
  <1>1. toAdapter # <<>> /\ Receive /\ toDetector' = toDetector  BY DEF Discard
  <1>2. /\ putPc' = putPc /\ job' = job /\ putMsg' = putMsg /\ collided' = collided
        /\ updPc' = updPc /\ updMsg' = updMsg /\ status' = status /\ lock' = lock /\ waiting' = waiting
        /\ busy' = busy /\ state' = state /\ ran' = ran /\ ended' = ended
    BY OutsideKept DEF adapter, put, update, view
  <1>3. IsSeq(toAdapter') /\ Len(toAdapter') <= Capacity /\ ToSet(toAdapter') \subseteq ToSet(toAdapter)
    BY <1>1, ReceiveKeeps
  <1>4. Channels' /\ Bounded'  BY <1>1, <1>3 DEF Channels, Bounded
  <1>5. LockOwned' /\ Polling' /\ StatusItems' /\ PutJob'  BY <1>2 DEF LockOwned, Polling, StatusItems, PutJob
  <1>6. (Asked' => Asked) /\ (RunAsked' => RunAsked) /\ (putPc' = "finish" => ran)
    BY <1>2 DEF Asked, RunAsked, FinishRan
  <1>7. StartedRan' /\ ReplyRan' /\ SeenRan' /\ FinishRan'  BY <1>2, <1>3, <1>6, RanKept
  <1>8. Apart'  BY <1>1, <1>2, <1>3, ApartKept
  <1>9. UpdateHolds' /\ BusyRuns' /\ IdleEnded' /\ AskedLast' /\ ReplyIdle' /\ SeenIdle'
    BY <1>1, <1>2, <1>3, IdleKept
  <1>10. QED  BY <1>4, <1>5, <1>7, <1>8, <1>9

LEMMA PutReplyKeeps ==
  ASSUME IInv, PutReply, Outside
  PROVE  IInv'
  <1> USE DEF IInv
  <1>1. /\ lock = "put" /\ lock' = "free" /\ waiting' = FALSE /\ AfterPut
        /\ toDetector' = toDetector /\ collided' = collided /\ UNCHANGED <<update, view>>
    BY DEF PutReply
  <1>2. PICK r \in Replies : Returns(putMsg, r)  BY DEF PutReply
  <1>3. IsSeq(toAdapter') /\ Len(toAdapter') <= Capacity /\ ToSet(toAdapter') \subseteq ToSet(toAdapter)
    BY <1>2, ReturnsKeeps
  <1>4. /\ updPc' = updPc /\ updMsg' = updMsg /\ status' = status
        /\ busy' = busy /\ state' = state /\ ran' = ran /\ ended' = ended
    BY <1>1, OutsideKept DEF update, view
  <1>5. putPc = "send" /\ updPc = "sleep"  BY <1>1 DEF LockOwned
  <1>6. \/ job' = "none" /\ putPc' = "ready"
        \/ job = "start" /\ job' = "start" /\ putPc' = "waitArmed"
        \/ job = "start" /\ job' = "start" /\ putPc' = "waitRunning" /\ putMsg.op = "run"
    BY <1>1, <1>5 DEF AfterPut, Answer, PutJob
  <1>7. Channels' /\ Bounded'  BY <1>1, <1>3 DEF Channels, Bounded
  <1>8. LockOwned' /\ Polling' /\ StatusItems' /\ PutJob'
    BY <1>1, <1>4, <1>5, <1>6 DEF LockOwned, Polling, StatusItems, PutJob
  <1>9. RunAsked' => RunAsked  BY <1>5, <1>6 DEF RunAsked
  <1>10. StartedRan' /\ ReplyRan' /\ SeenRan' /\ FinishRan'
    BY <1>3, <1>4, <1>5, <1>6, <1>9, RanKept
  <1>11. Apart'  BY <1>1, <1>3, <1>4, <1>6, ApartKept
  <1>12. UpdateHolds' /\ BusyRuns' /\ IdleEnded' /\ AskedLast' /\ ReplyIdle' /\ SeenIdle'
    BY <1>1, <1>3, <1>4, IdleKept
  <1>13. QED  BY <1>7, <1>8, <1>10, <1>11, <1>12

(* The steps of a start that look at the state in the status: a message is   *)
(* not made.                                                                 *)
LEMMA LooksKeep ==
  ASSUME IInv, Outside, UNCHANGED <<channel, lock, waiting, collided, update>>, status'.state = status.state,
         StatusItems', putPc \notin {"ready", "send"},
         \/ putPc' = "ready" /\ job' = "none"
         \/ /\ job' = job /\ putMsg' = putMsg
            /\ \/ putPc = "waitArmed" /\ putPc' \in {"waitArmed", "checkArmed"}
               \/ putPc = "waitRunning" /\ putPc' \in {"waitRunning", "checkRunning"}
               \/ putPc = "checkRunning" /\ putPc' = "finish" /\ status.state = "running"
  PROVE  IInv'
  <1> USE DEF IInv
  <1>1. /\ toDetector' = toDetector /\ toAdapter' = toAdapter /\ updPc' = updPc /\ updMsg' = updMsg
        /\ lock' = lock /\ waiting' = waiting /\ collided' = collided
        /\ busy' = busy /\ state' = state /\ ran' = ran /\ ended' = ended
    BY OutsideKept DEF channel, update
  <1>2. putPc' # "send" /\ (job' = "start" => job = "start")  OBVIOUS
  <1>3. Channels' /\ Bounded' /\ LockOwned' /\ Polling' /\ PutJob'
    BY <1>1 DEF Channels, Bounded, LockOwned, Polling, PutJob
  <1>4. (Asked' => Asked) /\ (RunAsked' => RunAsked)  BY DEF Asked, RunAsked
  <1>5. putPc' = "finish" => ran  BY DEF SeenRan, RunAsked, PutJob
  <1>6. StartedRan' /\ ReplyRan' /\ SeenRan' /\ FinishRan'
    BY <1>1, <1>2, <1>4, <1>5, RanKept
  <1>7. Apart'  BY <1>1, <1>2, ApartKept
  <1>8. UpdateHolds' /\ BusyRuns' /\ IdleEnded' /\ AskedLast' /\ ReplyIdle' /\ SeenIdle'
    BY <1>1, IdleKept
  <1>9. QED  BY <1>3, <1>6, <1>7, <1>8

LEMMA RunMadeKeeps ==
  ASSUME IInv, Outside, CheckArmed, status.state = "armed"
  PROVE  IInv'
  <1> USE DEF IInv
  <1>1. /\ putPc = "checkArmed" /\ job' = job /\ UNCHANGED <<channel, lock, waiting, update, view>>
    BY DEF CheckArmed
  <1>2. /\ toDetector' = toDetector /\ toAdapter' = toAdapter /\ updPc' = updPc /\ updMsg' = updMsg
        /\ lock' = lock /\ waiting' = waiting /\ status' = status
        /\ busy' = busy /\ state' = state /\ ran' = ran /\ ended' = ended
    BY <1>1, OutsideKept DEF channel, update, view
  <1> DEFINE msgs == [id \in Ids |-> PostMessage(id, "run")]
  <1>3. \A id \in Ids : msgs[id].id = id /\ msgs[id].op = "run"  BY DEF PostMessage
  <1>4. MakePut(msgs)  BY DEF CheckArmed
  <1> HIDE DEF msgs
  <1>5. putPc' = "send" /\ Apart' /\ \E id \in Ids : putMsg' = msgs[id]
    BY <1>1, <1>3, <1>4, MakePutKeeps
  <1>6. putMsg'.op = "run"  BY <1>3, <1>5
  <1>7. Channels' /\ Bounded' /\ StatusItems'  BY <1>2 DEF Channels, Bounded, StatusItems
  <1>8. LockOwned' /\ Polling' /\ PutJob'  BY <1>1, <1>2, <1>5, <1>6 DEF LockOwned, Polling, PutJob
  <1>9. job = "start" /\ Asked  BY <1>1 DEF PutJob, Asked
  <1>10. StatusReplies' = StatusReplies  BY <1>2 DEF StatusReplies
  <1>11. StartedRan' /\ ReplyRan' /\ SeenRan' /\ FinishRan'
    BY <1>1, <1>2, <1>5, <1>9, <1>10 DEF StartedRan, ReplyRan, SeenRan, FinishRan
  <1>12. UpdateHolds' /\ BusyRuns' /\ IdleEnded' /\ AskedLast' /\ ReplyIdle' /\ SeenIdle'
    BY <1>2, IdleKept
  <1>13. QED  BY <1>5, <1>7, <1>8, <1>11, <1>12

LEMMA PutThreadKeeps ==
  ASSUME IInv, PutThread
  PROVE  IInv'
  <1>1. Outside  BY DEF PutThread, AdapterStep, Outside
  <1>2. StatusItems  BY DEF IInv
  <1>3. CASE PutSend  BY <1>1, <1>3, PutSendKeeps
  <1>4. CASE PutDiscard  BY <1>1, <1>4, DiscardKeeps DEF PutDiscard
  <1>5. CASE PutReply  BY <1>1, <1>5, PutReplyKeeps
  <1>6. CASE WaitArmed
    <2>1. /\ UNCHANGED <<channel, lock, waiting, collided, update>> /\ status' = status /\ putPc = "waitArmed"
          /\ \/ putPc' = "ready" /\ job' = "none"
             \/ job' = job /\ putMsg' = putMsg /\ putPc' \in {"waitArmed", "checkArmed"}
      BY <1>6 DEF WaitArmed, Waits, Answer, view
    <2>2. StatusItems' /\ status'.state = status.state  BY <1>2, <2>1 DEF StatusItems
    <2>3. QED  BY <1>1, <2>1, <2>2, LooksKeep
  <1>7. CASE WaitRunning
    <2>1. /\ UNCHANGED <<channel, lock, waiting, collided, update>> /\ status' = status /\ putPc = "waitRunning"
          /\ \/ putPc' = "ready" /\ job' = "none"
             \/ job' = job /\ putMsg' = putMsg /\ putPc' \in {"waitRunning", "checkRunning"}
      BY <1>7 DEF WaitRunning, Waits, Answer, view
    <2>2. StatusItems' /\ status'.state = status.state  BY <1>2, <2>1 DEF StatusItems
    <2>3. QED  BY <1>1, <2>1, <2>2, LooksKeep
  <1>8. CASE CheckArmed
    <2>1. CASE status.state = "armed"  BY <1>1, <1>8, <2>1, RunMadeKeeps
    <2>2. CASE status.state # "armed"
      <3>1. /\ UNCHANGED <<channel, lock, waiting, collided, update>> /\ status' = status /\ putPc = "checkArmed"
            /\ putPc' = "ready" /\ job' = "none"
        BY <1>8, <2>2 DEF CheckArmed, Answer, view
      <3>2. StatusItems' /\ status'.state = status.state  BY <1>2, <3>1 DEF StatusItems
      <3>3. QED  BY <1>1, <3>1, <3>2, LooksKeep
    <2>3. QED  BY <2>1, <2>2
  <1>9. CASE CheckRunning
    <2>1. /\ UNCHANGED <<channel, lock, waiting, collided, update>> /\ status' = status /\ putPc = "checkRunning"
          /\ \/ putPc' = "ready" /\ job' = "none"
             \/ job' = job /\ putMsg' = putMsg /\ putPc' = "finish" /\ status.state = "running"
      BY <1>9 DEF CheckRunning, Answer, view
    <2>2. StatusItems' /\ status'.state = status.state  BY <1>2, <2>1 DEF StatusItems
    <2>3. QED  BY <1>1, <2>1, <2>2, LooksKeep
  <1>10. CASE FinishStart
    <2>1. /\ UNCHANGED <<channel, lock, waiting, collided, update>> /\ putPc = "finish"
          /\ putPc' = "ready" /\ job' = "none" /\ status' = [status EXCEPT !.complete = "no"]
      BY <1>10 DEF FinishStart, Answer
    <2>2. status' = [state |-> status.state, connected |-> status.connected, complete |-> "no"]
      BY <1>2, <2>1 DEF StatusItems
    <2>3. StatusItems' /\ status'.state = status.state  BY <2>2 DEF StatusItems
    <2>4. QED  BY <1>1, <2>1, <2>3, LooksKeep
  <1>11. QED
    BY <1>3, <1>4, <1>5, <1>6, <1>7, <1>8, <1>9, <1>10 DEF PutThread, AdapterStep

(* The update thread sends a request.  Its identifier is new, so that no     *)
(* reply in the channel is taken for its own.                                *)
LEMMA RequestKeeps ==
  ASSUME IInv, Outside, NEW request \in Requests, UpdateSends(request),
         lock' = "update", lock \in {"free", "update"}, UNCHANGED put, StatusItems',
         IsSeq(toAdapter'), Len(toAdapter') <= Capacity, ToSet(toAdapter') \subseteq ToSet(toAdapter),
         RunAsked /\ status'.state = "running" => ran,
         request \in {"time", "udp"} => Quiet /\ (status'.state = "idle" => ended)
  PROVE  IInv'
  <1> USE DEF IInv
  <1>1. /\ updPc' = request /\ updMsg'.type # "post"
        /\ \A q \in ToSet(toDetector) : q.id # updMsg'.id
        /\ \A r \in ToSet(toAdapter) : r.id # updMsg'.id
        /\ putPc = "send" => putMsg.id # updMsg'.id
        /\ updMsg'.id \in Ids
        /\ IsSeq(toDetector') /\ Len(toDetector') <= Capacity
        /\ ToSet(toDetector') \subseteq ToSet(toDetector) \cup {updMsg'}
        /\ \A i \in DOMAIN toDetector' :
             \/ i \in DOMAIN toDetector /\ toDetector'[i] = toDetector[i]
             \/ toDetector'[i] = updMsg' /\ i = Len(toDetector')
        /\ waiting' \in BOOLEAN
        /\ toDetector # <<>> => toDetector' # <<>> /\ Head(toDetector') = Head(toDetector)
    BY UpdateSendsKeeps
  <1>2. /\ putPc' = putPc /\ job' = job /\ putMsg' = putMsg /\ collided' = collided
        /\ busy' = busy /\ state' = state /\ ran' = ran /\ ended' = ended
    BY OutsideKept DEF put
  <1>3. request \notin {"sleep", "connect", "complete"}  BY DEF Requests
  <1>4. Channels' /\ Bounded'  BY <1>1 DEF Channels, Bounded
  <1>5. LockOwned' /\ Polling'
    <2>1. lock # "put"  OBVIOUS
    <2>2. putPc' = putPc /\ updPc' \notin {"sleep", "connect", "complete"} /\ lock' = "update"
      BY <1>1, <1>2, <1>3
    <2>3. QED  BY <2>2 DEF LockOwned, Polling
  <1>6. UpdateHolds' /\ PutJob'  BY <1>1, <1>2 DEF UpdateHolds, PutJob
  <1>7. StatusReplies' = {}  BY <1>1 DEF StatusReplies
  <1>8. StartedRan' /\ ReplyRan' /\ FinishRan'  BY <1>2, <1>7 DEF StartedRan, ReplyRan, FinishRan
  <1>9. SeenRan'
    <2>1. RunAsked' => RunAsked  BY <1>2 DEF RunAsked
    <2>2. QED  BY <1>2, <2>1 DEF SeenRan
  <1>10. Apart'
    <2>1. ASSUME ~collided, putPc = "send"  PROVE RequestedBy(putMsg)' /\ putMsg'.id # updMsg'.id
      <3>1. RequestedBy(putMsg)  BY <2>1 DEF Apart
      <3>2. QED  BY <1>1, <1>2, <2>1, <3>1 DEF RequestedBy
    <2>2. RequestedBy(updMsg)'  BY <1>1 DEF RequestedBy
    <2>3. QED  BY <1>2, <2>1, <2>2 DEF Apart
  <1>11. BusyRuns' /\ IdleEnded'  BY <1>1, <1>2 DEF BusyRuns, IdleEnded
  <1>12. AskedLast'
    <2>1. SUFFICES ASSUME NEW i \in DOMAIN toDetector', NEW j \in DOMAIN toDetector', i < j,
                          toDetector'[i].id = updMsg'.id
                   PROVE  FALSE
      BY DEF AskedLast
    <2>2. IsSeq(toDetector)  BY DEF Channels
    <2>3. i \notin DOMAIN toDetector \/ toDetector'[i] # toDetector[i]  BY <1>1, <2>1, <2>2, SeqOver
    <2>4. i = Len(toDetector')  BY <1>1, <2>3
    <2>5. j \in 1..Len(toDetector') /\ Len(toDetector') \in Nat  BY <1>1, SeqOver
    <2>6. QED  BY <2>1, <2>4, <2>5
  <1>13. ReplyIdle'  BY <1>7 DEF ReplyIdle
  <1>14. SeenIdle'
    <2>1. Quiet => Quiet'  BY <1>1, <1>2 DEF Quiet
    <2>2. QED  BY <1>1, <1>2, <1>3, <2>1 DEF SeenIdle
  <1>15. QED  BY <1>4, <1>5, <1>6, <1>8, <1>9, <1>10, <1>11, <1>12, <1>13, <1>14

(* The update thread goes on without a request, or ends its round.           *)
LEMMA NoRequestKeeps ==
  ASSUME IInv, Outside, lock = "update", UNCHANGED put, StatusItems',
         IsSeq(toAdapter'), Len(toAdapter') <= Capacity, ToSet(toAdapter') \subseteq ToSet(toAdapter),
         RunAsked /\ status'.state = "running" => ran,
         \/ EndRound
         \/ \E pc \in {"connect", "complete"} : GoesOn(pc) /\ Quiet /\ (status'.state = "idle" => ended)
  PROVE  IInv'
  <1> USE DEF IInv
  <1>1. /\ toDetector' = toDetector /\ waiting' = FALSE
        /\ \/ updPc' = "sleep" /\ lock' = "free"
           \/ /\ updPc' \in {"connect", "complete"} /\ lock' = "update"
              /\ Quiet /\ (status'.state = "idle" => ended)
    BY DEF EndRound, GoesOn
  <1>2. /\ putPc' = putPc /\ job' = job /\ putMsg' = putMsg /\ collided' = collided
        /\ busy' = busy /\ state' = state /\ ran' = ran /\ ended' = ended
    BY OutsideKept DEF put
  <1>3. updPc' \notin Requests /\ updPc' # "status"  BY <1>1 DEF Requests
  <1>4. Channels' /\ Bounded'  BY <1>1 DEF Channels, Bounded
  <1>5. LockOwned' /\ Polling' /\ UpdateHolds' /\ PutJob'
    BY <1>1, <1>2, <1>3 DEF LockOwned, Polling, UpdateHolds, PutJob
  <1>6. StartedRan' /\ ReplyRan' /\ FinishRan'  BY <1>2, <1>3 DEF StartedRan, ReplyRan, FinishRan
  <1>7. SeenRan'
    <2>1. RunAsked' => RunAsked  BY <1>2 DEF RunAsked
    <2>2. QED  BY <1>2, <2>1 DEF SeenRan
  <1>8. Apart'
    <2>1. ASSUME ~collided, putPc = "send"  PROVE RequestedBy(putMsg)'
      <3>1. RequestedBy(putMsg)  BY <2>1 DEF Apart
      <3>2. QED  BY <1>1, <1>2, <3>1 DEF RequestedBy
    <2>2. QED  BY <1>2, <1>3, <2>1 DEF Apart
  <1>9. BusyRuns' /\ IdleEnded' /\ AskedLast' /\ ReplyIdle'
    BY <1>1, <1>2, <1>3 DEF BusyRuns, IdleEnded, AskedLast, ReplyIdle
  <1>10. SeenIdle'
    <2>1. Quiet => Quiet'  BY <1>1, <1>2 DEF Quiet
    <2>2. QED  BY <1>1, <1>2, <2>1 DEF SeenIdle
  <1>11. QED  BY <1>4, <1>5, <1>6, <1>7, <1>8, <1>9, <1>10

(* A reply that is taken for the detector's status, and its consequences.    *)
LEMMA StatusRead ==
  ASSUME IInv, updPc = "status", NEW r \in ToSet(toAdapter), r.id = updMsg.id, r.of = <<"get", "status">>
  PROVE  /\ Asked /\ r.state = "running" => ran
         /\ Quiet /\ (r.state = "idle" => ended)
  BY DEF IInv, ReplyRan, ReplyIdle, StatusReplies

LEMMA StatusReplyKeeps ==
  ASSUME IInv, StatusReply, Outside
  PROVE  IInv'
  <1>1. updPc = "status" /\ UNCHANGED <<put, param, udpFile>>  BY DEF StatusReply
  <1>2. PICK r \in Replies :
          /\ Returns(updMsg, r)
          /\ \/ /\ r = NoReply
                /\ status' = [status EXCEPT !.connected = "no"]
                /\ UpdateSends("config") /\ UNCHANGED lock
             \/ /\ r # NoReply /\ r.of # <<"get", "status">>
                /\ EndRound /\ UNCHANGED status
             \/ /\ r.of = <<"get", "status">>
                /\ status' = [state |-> r.state, connected |-> "unset", complete |-> "unset"]
                /\ GoesOn("connect") \/ (UpdateSends("time") /\ UNCHANGED lock)
    BY DEF StatusReply
  <1>3. lock = "update" /\ Channels /\ Bounded /\ StatusItems  BY <1>1 DEF IInv, LockOwned
  <1>4. /\ IsSeq(toAdapter') /\ Len(toAdapter') <= Capacity /\ ToSet(toAdapter') \subseteq ToSet(toAdapter)
        /\ r = NoReply \/ (r \in ToSet(toAdapter) /\ r.id = updMsg.id)
    BY <1>2, <1>3, ReturnsKeeps
  <1>5. RunAsked => Asked  BY DEF RunAsked, Asked
  <1>6. RunAsked /\ status.state = "running" => ran  BY DEF IInv, SeenRan
  <1>7. "config" \in Requests /\ "time" \in Requests  BY DEF Requests
  <1>8. CASE r = NoReply /\ status' = [status EXCEPT !.connected = "no"] /\ UpdateSends("config") /\ UNCHANGED lock
    <2>1. status' = [state |-> status.state, connected |-> "no", complete |-> status.complete]
      BY <1>3, <1>8 DEF StatusItems
    <2>2. StatusItems' /\ status'.state = status.state  BY <2>1 DEF StatusItems
    <2>3. QED  BY <1>1, <1>3, <1>4, <1>6, <1>7, <1>8, <2>2, RequestKeeps
  <1>9. CASE EndRound /\ UNCHANGED status
    <2>1. StatusItems' /\ status'.state = status.state  BY <1>3, <1>9 DEF StatusItems
    <2>2. QED  BY <1>1, <1>3, <1>4, <1>6, <1>9, <2>1, NoRequestKeeps
  <1>10. CASE /\ r.of = <<"get", "status">>
              /\ status' = [state |-> r.state, connected |-> "unset", complete |-> "unset"]
              /\ GoesOn("connect") \/ (UpdateSends("time") /\ UNCHANGED lock)
    <2>1. r \in ToSet(toAdapter) /\ r.id = updMsg.id  BY <1>4, <1>10 DEF NoReply
    <2>2. (Asked /\ r.state = "running" => ran) /\ Quiet /\ (r.state = "idle" => ended)
      BY <1>1, <1>10, <2>1, StatusRead
    <2>3. StatusItems' /\ status'.state = r.state  BY <1>10 DEF StatusItems
    <2>4. CASE GoesOn("connect")
      BY <1>1, <1>3, <1>4, <1>5, <2>2, <2>3, <2>4, NoRequestKeeps
    <2>5. CASE UpdateSends("time") /\ UNCHANGED lock
      BY <1>1, <1>3, <1>4, <1>5, <1>7, <2>2, <2>3, <2>5, RequestKeeps
    <2>6. QED  BY <1>10, <2>4, <2>5
  <1>11. QED  BY <1>2, <1>8, <1>9, <1>10

LEMMA UpdateThreadKeeps ==
  ASSUME IInv, UpdateThread
  PROVE  IInv'
  <1>1. Outside  BY DEF UpdateThread, AdapterStep, Outside
  <1>2. Channels /\ Bounded /\ StatusItems /\ LockOwned  BY DEF IInv
  <1>3. Requests = {"status", "time", "udp", "config"}  BY DEF Requests
  <1>4. RunAsked /\ status.state = "running" => ran  BY DEF IInv, SeenRan
  <1>5. updPc \in {"time", "udp", "connect", "complete"} => Quiet /\ (status.state = "idle" => ended)
    BY DEF IInv, SeenIdle
  <1>6. status' = status => StatusItems' /\ status'.state = status.state
    BY <1>2 DEF StatusItems
  <1>7. UNCHANGED toAdapter =>
          IsSeq(toAdapter') /\ Len(toAdapter') <= Capacity /\ ToSet(toAdapter') \subseteq ToSet(toAdapter)
    BY <1>2 DEF Channels, Bounded
  <1>8. updPc # "sleep" => lock = "update"  BY <1>2 DEF LockOwned
  <1>9. (\E r \in Replies : Returns(updMsg, r)) =>
          IsSeq(toAdapter') /\ Len(toAdapter') <= Capacity /\ ToSet(toAdapter') \subseteq ToSet(toAdapter)
    BY <1>2, ReturnsKeeps
  <1>10. CASE UpdateStarts
    <2>1. /\ lock = "free" /\ lock' = "update" /\ UpdateSends("status") /\ toAdapter' = toAdapter
          /\ UNCHANGED put /\ status' = status
      BY <1>10 DEF UpdateStarts, view
    <2>2. QED  BY <1>1, <1>3, <1>4, <1>6, <1>7, <2>1, RequestKeeps
  <1>11. CASE UpdateDiscard  BY <1>1, <1>11, DiscardKeeps DEF UpdateDiscard
  <1>12. CASE StatusReply  BY <1>1, <1>12, StatusReplyKeeps
  <1>13. CASE TimeReply \/ UdpReply
    <2>1. /\ updPc \in {"time", "udp"} /\ UNCHANGED put /\ status' = status
          /\ \E r \in Replies : Returns(updMsg, r)
          /\ (UpdateSends("udp") /\ UNCHANGED lock) \/ GoesOn("connect")
      BY <1>13 DEF TimeReply, UdpReply, view
    <2>2. CASE UpdateSends("udp") /\ UNCHANGED lock
      BY <1>1, <1>3, <1>4, <1>5, <1>6, <1>8, <1>9, <2>1, <2>2, RequestKeeps
    <2>3. CASE GoesOn("connect")
      BY <1>1, <1>4, <1>5, <1>6, <1>8, <1>9, <2>1, <2>3, NoRequestKeeps
    <2>4. QED  BY <2>1, <2>2, <2>3
  <1>14. CASE SetConnected
    <2>1. /\ updPc = "connect" /\ UNCHANGED <<toAdapter, put>> /\ GoesOn("complete")
          /\ status' = [state |-> status.state, connected |-> "yes", complete |-> status.complete]
      BY <1>2, <1>14 DEF SetConnected, StatusItems
    <2>2. StatusItems' /\ status'.state = status.state  BY <2>1 DEF StatusItems
    <2>3. QED  BY <1>1, <1>4, <1>5, <1>7, <1>8, <2>1, <2>2, NoRequestKeeps
  <1>15. CASE SetComplete
    <2>1. /\ updPc = "complete" /\ UNCHANGED <<toAdapter, lock, put>> /\ UpdateSends("config")
          /\ \E c : status' = [state |-> status.state, connected |-> status.connected, complete |-> c]
      BY <1>2, <1>15 DEF SetComplete, StatusItems
    <2>2. StatusItems' /\ status'.state = status.state  BY <2>1 DEF StatusItems
    <2>3. QED  BY <1>1, <1>3, <1>4, <1>7, <1>8, <2>1, <2>2, RequestKeeps
  <1>16. CASE ConfigReply
    <2>1. /\ updPc = "config" /\ EndRound /\ UNCHANGED put /\ status' = status
          /\ \E r \in Replies : Returns(updMsg, r)
      BY <1>16 DEF ConfigReply
    <2>2. QED  BY <1>1, <1>4, <1>6, <1>8, <1>9, <2>1, NoRequestKeeps
  <1>17. QED
    BY <1>10, <1>11, <1>12, <1>13, <1>14, <1>15, <1>16 DEF UpdateThread, UpdateReply, AdapterStep

LEMMA NextKeeps ==
  ASSUME IInv, [Next]_vars
  PROVE  IInv'
  <1>1. CASE Next
    <2>1. CASE Detector  BY <2>1, DetectorSteps, DetectorKeeps
    <2>2. CASE ClientPut  BY <2>2, ClientPutKeeps
    <2>3. CASE PutThread  BY <2>3, PutThreadKeeps
    <2>4. CASE UpdateThread  BY <2>4, UpdateThreadKeeps
    <2>5. QED  BY <1>1, <2>1, <2>2, <2>3, <2>4 DEF Next, Detector
  <1>2. CASE UNCHANGED vars
    BY <1>2
    DEF vars, channel, adapter, put, update, view, simulator, threads, history,
        IInv, Channels, Bounded, LockOwned, Polling, StatusItems, UpdateHolds, PutJob, StartedRan, ReplyRan, SeenRan, FinishRan,
        Asked, RunAsked, StatusReplies, Apart, RequestedBy, BusyRuns, IdleEnded, AskedLast, ReplyIdle, SeenIdle, Quiet
  <1>3. QED  BY <1>1, <1>2

(* The parts of the inductive invariant hold in every reachable state.       *)
THEOREM Invariant == Spec => []IInv
  <1>1. Init => IInv  BY InvariantInit
  <1>2. IInv /\ [Next]_vars => IInv'  BY NextKeeps
  <1>3. QED  BY <1>1, <1>2, PTL DEF Spec

(* _comms_lock: the two threads are never both between a request and its     *)
(* reply, the update thread holds the lock for its whole round, and the lock *)
(* is held by nobody else.                                                   *)
THEOREM LockExclusive == Spec => []LockOwned
  <1>1. IInv => LockOwned  BY DEF IInv
  <1>2. QED  BY <1>1, Invariant, PTL

(* A start that is answered without an error did run: a state that was left  *)
(* behind from before the request is never taken for the answer to it.       *)
THEOREM OkRan == Spec => []OkMeansRan
  <1>1. IInv => OkMeansRan  BY DEF IInv, FinishRan, OkMeansRan
  <1>2. QED  BY <1>1, Invariant, PTL
-----------------------------------------------------------------------------
(* A request returns only by the step of its own thread.                     *)
LEMMA ReturnOfPut ==
  ASSUME IInv, [Next]_vars, lock = "put", lock' # lock
  PROVE  PutReply
  <1>1. updPc = "sleep" /\ putPc = "send"  BY DEF IInv, LockOwned
  <1>2. ~UNCHANGED vars  BY DEF vars, adapter
  <1>3. ~Detector
    BY DEF Detector, Reactor, ArmThread, ScriptThread, SenderThread, DetectorDies, DetectorRestarts, SendFails,
           DetectorStep, DetectorFault, adapter
  <1>4. ~ClientPut  BY DEF ClientPut, Put, StartAcquisition, PutCommand, PutConfig
  <1>5. ~UpdateThread
    <2>1. ~(UpdateDiscard \/ UpdateStarts)  BY DEF UpdateDiscard, UpdateStarts
    <2>2. ~UpdateReply
      BY <1>1 DEF UpdateReply, StatusReply, TimeReply, UdpReply, SetConnected, SetComplete, ConfigReply
    <2>3. QED  BY <2>1, <2>2 DEF UpdateThread, AdapterStep
  <1>6. PutThread  BY <1>2, <1>3, <1>4, <1>5 DEF Next, Detector
  <1>7. ~(PutSend \/ PutDiscard \/ WaitArmed \/ WaitRunning \/ CheckArmed \/ CheckRunning \/ FinishStart)
    BY <1>1 DEF PutSend, PutDiscard, WaitArmed, WaitRunning, Waits, CheckArmed, CheckRunning, FinishStart, adapter
  <1>8. QED  BY <1>6, <1>7 DEF PutThread, AdapterStep

LEMMA ReturnOfUpdate ==
  ASSUME IInv, [Next]_vars, lock = "update", updPc' # updPc
  PROVE  UpdateReply
  <1>1. ~UNCHANGED vars  BY DEF vars, adapter, update
  <1>2. ~Detector
    BY DEF Detector, Reactor, ArmThread, ScriptThread, SenderThread, DetectorDies, DetectorRestarts, SendFails,
           DetectorStep, DetectorFault, adapter, update
  <1>3. ~ClientPut  BY DEF ClientPut, Put, StartAcquisition, PutCommand, PutConfig, update
  <1>4. ~PutThread
    <2>1. ~(PutSend \/ PutDiscard \/ PutReply)  BY DEF PutSend, PutDiscard, PutReply, adapter, update
    <2>2. ~(WaitArmed \/ WaitRunning)  BY DEF WaitArmed, WaitRunning, Waits, update
    <2>3. ~(CheckArmed \/ CheckRunning \/ FinishStart)  BY DEF CheckArmed, CheckRunning, FinishStart, update
    <2>4. QED  BY <2>1, <2>2, <2>3 DEF PutThread, AdapterStep
  <1>5. UpdateThread  BY <1>1, <1>2, <1>3, <1>4 DEF Next, Detector
  <1>6. ~(UpdateStarts \/ UpdateDiscard)  BY DEF UpdateStarts, UpdateDiscard, adapter, update
  <1>7. QED  BY <1>5, <1>6 DEF UpdateThread, AdapterStep

(* While no two messages got one identifier, send_recv returns the reply to  *)
(* the request it sent, whatever replies came late.                          *)
THEOREM RepliesOwn == Spec => RepliesMatched
  <1> DEFINE Own == Returned /\ toAdapter # <<>> /\ ~collided =>
                      LET m == IF lock = "put" THEN putMsg ELSE updMsg IN Head(toAdapter).of = <<m.type, m.op>>
  <1>1. IInv /\ [Next]_vars => Own
    <2>1. SUFFICES ASSUME IInv, [Next]_vars, Returned, toAdapter # <<>>, ~collided
                   PROVE  LET m == IF lock = "put" THEN putMsg ELSE updMsg IN Head(toAdapter).of = <<m.type, m.op>>
      OBVIOUS
    <2>2. Channels /\ Bounded /\ LockOwned /\ Apart  BY <2>1 DEF IInv
    <2>3. waiting  BY <2>1 DEF Returned
    <2>4. CASE lock = "put" /\ lock' = "free"
      <3>1. \E r \in Replies : Returns(putMsg, r)  BY <2>1, <2>4, ReturnOfPut DEF PutReply
      <3>2. Head(toAdapter).id = putMsg.id /\ Head(toAdapter) \in ToSet(toAdapter)
        BY <2>1, <2>2, <2>3, <3>1, ReturnsKeeps
      <3>3. putPc = "send"  BY <2>2, <2>4 DEF LockOwned
      <3>4. QED  BY <2>1, <2>2, <2>4, <3>2, <3>3 DEF Apart, RequestedBy
    <2>5. CASE lock = "update" /\ updPc' # updPc
      <3>1. updPc \in Requests /\ \E r \in Replies : Returns(updMsg, r)
        <4>1. UpdateReply /\ updPc \notin {"connect", "complete"}
          BY <2>1, <2>3, <2>5, ReturnOfUpdate DEF IInv, Polling
        <4>2. QED
          BY <4>1 DEF UpdateReply, StatusReply, TimeReply, UdpReply, SetConnected, SetComplete, ConfigReply, Requests
      <3>2. Head(toAdapter).id = updMsg.id /\ Head(toAdapter) \in ToSet(toAdapter)
        BY <2>1, <2>2, <2>3, <3>1, ReturnsKeeps
      <3>3. QED  BY <2>1, <2>2, <2>5, <3>1, <3>2 DEF Apart, RequestedBy
    <2>6. QED  BY <2>1, <2>4, <2>5 DEF Returned
  <1>2. QED  BY <1>1, Invariant, PTL DEF Spec, RepliesMatched

(* The status says that an acquisition is complete only when the detector    *)
(* has been idle since it was last set running.                              *)
LEMMA CompleteStep ==
  ASSUME IInv, [Next]_vars, status'.complete = "yes", status.complete # "yes"
  PROVE  ended
  <1>1. status' # status  OBVIOUS
  <1>2. StatusItems  BY DEF IInv
  <1>3. ~UNCHANGED vars /\ ~ClientPut
    BY <1>1 DEF vars, adapter, view, ClientPut, Put, StartAcquisition, PutCommand, PutConfig
  <1>4. ~Detector
    BY <1>1 DEF Detector, Reactor, ArmThread, ScriptThread, SenderThread, DetectorDies, DetectorRestarts, SendFails,
                DetectorStep, DetectorFault, adapter, view
  <1>5. ~PutThread
    <2>1. ~(PutSend \/ PutDiscard \/ PutReply)  BY <1>1 DEF PutSend, PutDiscard, PutReply, adapter, view
    <2>2. ~(WaitArmed \/ WaitRunning)  BY <1>1 DEF WaitArmed, WaitRunning, Waits, view
    <2>3. ~(CheckArmed \/ CheckRunning)  BY <1>1 DEF CheckArmed, CheckRunning, view
    <2>4. ~FinishStart
      <3>1. FinishStart => status' = [state |-> status.state, connected |-> status.connected, complete |-> "no"]
        BY <1>2 DEF FinishStart, StatusItems
      <3>2. QED  BY <3>1
    <2>5. QED  BY <2>1, <2>2, <2>3, <2>4 DEF PutThread, AdapterStep
  <1>6. UpdateThread  BY <1>3, <1>4, <1>5 DEF Next, Detector
  <1>7. CASE UpdateStarts \/ UpdateDiscard \/ TimeReply \/ UdpReply \/ ConfigReply
    BY <1>1, <1>7 DEF UpdateStarts, UpdateDiscard, TimeReply, UdpReply, ConfigReply, adapter, view
  <1>8. CASE SetComplete
    <2>1. updPc = "complete" /\ status' = [status EXCEPT !.complete = IF status.state = "idle" THEN "yes" ELSE @]
      BY <1>8 DEF SetComplete
    <2>2. status.state = "idle"
      <3>1. ASSUME status.state # "idle"  PROVE status'.complete = status.complete
        BY <1>2, <2>1, <3>1 DEF StatusItems
      <3>2. QED  BY <3>1
    <2>3. QED  BY <2>1, <2>2 DEF IInv, SeenIdle
  <1>9. CASE SetConnected
    <2>1. status' = [state |-> status.state, connected |-> "yes", complete |-> status.complete]
      BY <1>2, <1>9 DEF SetConnected, StatusItems
    <2>2. QED  BY <2>1
  <1>10. CASE StatusReply
    <2>1. PICK r \in Replies :
            \/ status' = [status EXCEPT !.connected = "no"]
            \/ UNCHANGED status
            \/ status' = [state |-> r.state, connected |-> "unset", complete |-> "unset"]
      BY <1>10 DEF StatusReply
    <2>2. CASE status' = [status EXCEPT !.connected = "no"]
      <3>1. status' = [state |-> status.state, connected |-> "no", complete |-> status.complete]
        BY <1>2, <2>2 DEF StatusItems
      <3>2. QED  BY <3>1
    <2>3. status' # [state |-> r.state, connected |-> "unset", complete |-> "unset"]  OBVIOUS
    <2>4. QED  BY <1>1, <2>1, <2>2, <2>3
  <1>11. QED  BY <1>6, <1>7, <1>8, <1>9, <1>10 DEF UpdateThread, UpdateReply, AdapterStep

(* The adapter never reports the run of an accepted start complete before    *)
(* the simulator has ended it: every state it sees since was sent after the  *)
(* start was handled.                                                        *)
THEOREM CompleteAfterEnd == Spec => NotCompleteEarly
  <1>1. IInv /\ [Next]_vars => (status'.complete = "yes" /\ status.complete # "yes" => ended)
    BY CompleteStep
  <1>2. QED  BY <1>1, Invariant, PTL DEF Spec, NotCompleteEarly
-----------------------------------------------------------------------------
(* Types.  The values in trees and messages are those the clients, the       *)
(* initial trees and the update thread put there.                            *)
Message(m) ==
  /\ m.id \in Ids /\ m.type \in {"get", "put", "post"}
  /\ m.type = "put" => Range(m.tree) \subseteq TreeValues
Reply(r) == r.id \in Ids /\ r.state \in States /\ Range(r.config) \subseteq TreeValues

ChannelTyped ==
  /\ \A q \in ToSet(toDetector) : Message(q)
  /\ \A r \in ToSet(toAdapter) : Reply(r)
MessagesTyped ==
  /\ putPc = "send" => Message(putMsg)
  /\ updPc \in Requests => Message(updMsg)
  /\ putPc \in {"ready", "send", "waitArmed", "checkArmed", "waitRunning", "checkRunning", "finish"}
Marks == {"yes", "no", "unset"}
StatusTyped ==
  /\ status \in [state : States \cup {"none"}, connected : Marks, complete : Marks]
  /\ status.connected = "unset" => updPc \in {"time", "udp", "connect"}
ParamTyped == DOMAIN param = DOMAIN InitialParam /\ Range(param) \subseteq TreeValues
DetectorTyped ==
  /\ state \in States /\ Range(store) \subseteq TreeValues
  /\ arming \in [Stages -> Nat] /\ scripts \in Nat
  /\ unsent \in Nat /\ sent \in Nat
Typed == ChannelTyped /\ MessagesTyped /\ StatusTyped /\ ParamTyped /\ DetectorTyped

(* What the operations on trees do to the values in them.                    *)
LEMMA TreesOfValues ==
  ASSUME NEW t, NEW u, NEW request
  PROVE  /\ Range(apply_parameters(t, u)) \subseteq Range(t) \cup Range(u)
         /\ Range(read_parameters(t, request)) \subseteq Range(t)
         /\ DOMAIN update_config(t, u) = DOMAIN t
         /\ Range(update_config(t, u)) \subseteq Range(t) \cup Range(u)
  <1>1. Range(apply_parameters(t, u)) \subseteq Range(t) \cup Range(u)
    BY DEF apply_parameters, Range
  <1>2. Range(read_parameters(t, request)) \subseteq Range(t)
    BY DEF read_parameters, Restrict, Range
  <1>3. DOMAIN update_config(t, u) = DOMAIN t
    BY DEF update_config
  <1>4. Range(update_config(t, u)) \subseteq Range(t) \cup Range(u)
    <2>1. \A p \in DOMAIN t : update_config(t, u)[p] = t[p] \/ (p \in DOMAIN u /\ update_config(t, u)[p] = u[p])
      BY DEF update_config, set_value
    <2>2. QED  BY <1>3, <2>1 DEF Range
  <1>5. QED  BY <1>1, <1>2, <1>3, <1>4

LEMMA EmptyTree == Range(<<>>) = {}
  BY DEF Range

(* A reply to a message with well-typed parts.                               *)
LEMMA ReplyTyped ==
  ASSUME NEW m, Message(m), NEW st \in States, NEW c, Range(c) \subseteq TreeValues
  PROVE  Reply(ResponseMessage(m, st, c))
  BY DEF Message, Reply, ResponseMessage

(* A handler takes the first request, and may reply.                         *)
LEMMA HandlerTyped ==
  ASSUME Channels, Bounded, ChannelTyped, toDetector # <<>>, Done, state' \in States,
         \/ UNCHANGED toAdapter
         \/ \E c : Range(c) \subseteq TreeValues /\ Respond(ResponseMessage(Head(toDetector), state', c))
  PROVE  ChannelTyped'
  <1>1. IsSeq(toDetector)  BY DEF Channels
  <1>2. Head(toDetector) \in ToSet(toDetector) /\ ToSet(toDetector') \subseteq ToSet(toDetector)
    BY <1>1, TailSeq DEF Done
  <1>3. Message(Head(toDetector))  BY <1>2 DEF ChannelTyped
  <1>4. \A r \in ToSet(toAdapter') : Reply(r)
    <2>1. CASE UNCHANGED toAdapter  BY <2>1 DEF ChannelTyped
    <2>2. CASE \E c : Range(c) \subseteq TreeValues /\ Respond(ResponseMessage(Head(toDetector), state', c))
      <3>1. PICK c : Range(c) \subseteq TreeValues /\ Respond(ResponseMessage(Head(toDetector), state', c))
        BY <2>2
      <3> DEFINE answer == ResponseMessage(Head(toDetector), state', c)
      <3>2. Reply(answer)  BY <1>3, <3>1, ReplyTyped
      <3>3. Respond(answer)  BY <3>1
      <3> HIDE DEF answer
      <3>4. \A x \in ToSet(toAdapter') : x \in ToSet(toAdapter) \/ x = answer
        BY <3>3, RespondKeeps
      <3>5. QED  BY <3>2, <3>4 DEF ChannelTyped
    <2>3. QED  BY <2>1, <2>2
  <1>5. QED  BY <1>2, <1>4 DEF ChannelTyped

(* The detector's steps.                                                     *)
LEMMA CrashTyped ==
  ASSUME Channels, Bounded, ChannelTyped, Crash
  PROVE  ChannelTyped' /\ DetectorTyped'
  <1>1. IsSeq(toDetector) /\ Len(toDetector) \in Nat /\ IsSeq(toAdapter) /\ Len(toAdapter) \in Nat
    BY SeqOver DEF Channels
  <1>2. PICK lost \in 0..Len(toDetector) : toDetector' = SubSeq(toDetector, lost + 1, Len(toDetector))
    BY <1>1 DEF Crash
  <1>3. PICK kept \in 0..Len(toAdapter) : toAdapter' = SubSeq(toAdapter, 1, kept)
    BY DEF Crash
  <1>4. Len(toDetector) \in 0..Len(toDetector) /\ 0 \in 0..Len(toAdapter) /\ 0 + 1 = 1  BY <1>1
  <1>5. ToSet(toDetector') \subseteq ToSet(toDetector)
    BY <1>1, <1>2, <1>4, CutSeq
  <1>6. ToSet(toAdapter') \subseteq ToSet(toAdapter)
    <2>1. ToSet(SubSeq(toAdapter, 0 + 1, kept)) \subseteq ToSet(toAdapter)
      BY <1>1, <1>4, CutSeq
    <2>2. QED  BY <1>3, <1>4, <2>1
  <1>7. ChannelTyped'  BY <1>5, <1>6 DEF ChannelTyped
  <1>8. Range(InitialStore) \subseteq TreeValues  BY DEF TreeValues
  <1>9. DetectorTyped'
    BY <1>8 DEF Crash, DetectorTyped, States, None, Stages
  <1>10. QED  BY <1>7, <1>9

LEMMA DetectorTypes ==
  ASSUME IInv, Typed, Detector
  PROVE  Typed'
  <1> USE DEF IInv, Typed
  <1>1. UNCHANGED adapter
    BY DEF Detector, Reactor, ArmThread, ScriptThread, SenderThread, DetectorDies, DetectorRestarts, SendFails,
           DetectorStep, DetectorFault
  <1>2. MessagesTyped' /\ StatusTyped' /\ ParamTyped'
    BY <1>1 DEF MessagesTyped, StatusTyped, ParamTyped, adapter, put, update, view
  <1>3. \A m : toDetector # <<>> /\ m = Head(toDetector) => Message(m)
    BY TailSeq DEF Channels, ChannelTyped
  <1>4. CASE parse_get_msg
    <2>1. toDetector # <<>> /\ Done /\ UNCHANGED simulator  BY <1>4 DEF parse_get_msg, Request
    <2>2. DetectorTyped' /\ state' = state /\ state \in States
      BY <2>1 DEF DetectorTyped, simulator, threads
    <2>3. \/ UNCHANGED toAdapter
          \/ \E c : Range(c) \subseteq TreeValues /\ Respond(ResponseMessage(Head(toDetector), state', c))
      <3>1. \/ UNCHANGED toAdapter
            \/ Respond(ResponseMessage(Head(toDetector), state, <<>>))
            \/ Respond(ResponseMessage(Head(toDetector), state, read_parameters(store, Head(toDetector).tree)))
        BY <1>4 DEF parse_get_msg
      <3>2. Range(<<>>) \subseteq TreeValues  BY EmptyTree
      <3>3. Range(read_parameters(store, Head(toDetector).tree)) \subseteq TreeValues
        BY TreesOfValues DEF DetectorTyped
      <3>4. QED  BY <2>2, <3>1, <3>2, <3>3
    <2>4. ChannelTyped'  BY <2>1, <2>2, <2>3, HandlerTyped
    <2>5. QED  BY <1>2, <2>2, <2>4
  <1>5. CASE parse_put_msg
    <2>1. /\ toDetector # <<>> /\ Done /\ UNCHANGED <<up, state, busy, threads>>
          /\ Head(toDetector).type = "put"
      BY <1>5 DEF parse_put_msg, Request
    <2>2. PICK m : m = Head(toDetector)  OBVIOUS
    <2>3. Message(m) /\ Range(m.tree) \subseteq TreeValues  BY <1>3, <2>1, <2>2 DEF Message
    <2>4. Range(store') \subseteq TreeValues
      <3>1. CASE store' = apply_parameters(store, m.tree)
        BY <2>3, <3>1, TreesOfValues DEF DetectorTyped
      <3>2. CASE \E S \in SUBSET {p \in DOMAIN m.tree : ~Clashes(store, p)} :
                   store' = apply_parameters(store, Restrict(m.tree, S))
        <4>1. PICK S \in SUBSET DOMAIN m.tree : store' = apply_parameters(store, Restrict(m.tree, S))
          BY <3>2
        <4>2. Range(Restrict(m.tree, S)) \subseteq Range(m.tree)  BY DEF Restrict, Range
        <4>3. PICK u : u = Restrict(m.tree, S)  OBVIOUS
        <4>4. store' = apply_parameters(store, u) /\ Range(u) \subseteq TreeValues  BY <2>3, <4>1, <4>2, <4>3
        <4>5. Range(store) \subseteq TreeValues  BY DEF DetectorTyped
        <4>6. QED  BY <4>4, <4>5, TreesOfValues
      <3>3. QED  BY <1>5, <2>2, <3>1, <3>2 DEF parse_put_msg
    <2>5. DetectorTyped' /\ state' = state /\ state \in States
      BY <2>1, <2>4 DEF DetectorTyped, threads
    <2>6. \/ UNCHANGED toAdapter
          \/ \E c : Range(c) \subseteq TreeValues /\ Respond(ResponseMessage(Head(toDetector), state', c))
      <3>1. UNCHANGED toAdapter \/ Respond(ResponseMessage(Head(toDetector), state, <<>>))
        BY <1>5 DEF parse_put_msg
      <3>2. Range(<<>>) \subseteq TreeValues  BY EmptyTree
      <3>3. QED  BY <2>5, <3>1, <3>2
    <2>7. ChannelTyped'  BY <2>1, <2>5, <2>6, HandlerTyped
    <2>8. QED  BY <1>2, <2>5, <2>7
  <1>6. CASE parse_post_msg
    <2>1. /\ toDetector # <<>> /\ Done /\ state' \in {"arming", "idle", state}
          /\ arming' = arming \/ arming' = [arming EXCEPT !["before"] = @ + 1]
          /\ UNCHANGED <<up, store, busy, scripts, unsent, sent>>
      BY <1>6 DEF parse_post_msg, Request
    <2>2. DetectorTyped'  BY <2>1 DEF DetectorTyped, States, Stages
    <2>3. \E c : Range(c) \subseteq TreeValues /\ Respond(ResponseMessage(Head(toDetector), state', c))
      BY <1>6, EmptyTree DEF parse_post_msg
    <2>4. ChannelTyped'  BY <2>1, <2>2, <2>3, HandlerTyped DEF DetectorTyped
    <2>5. QED  BY <1>2, <2>2, <2>4
  <1>7. CASE FinishRun
    <2>1. busy /\ Done /\ state' = "running" /\ scripts' = scripts + 1
          /\ unsent' = unsent + PacketsToSend /\ UNCHANGED <<up, store, arming, sent>>
      BY <1>7 DEF FinishRun
    <2>2. DetectorTyped'  BY <2>1, PacketAssumption DEF DetectorTyped, States
    <2>3. \E c : Range(c) \subseteq TreeValues /\ Respond(ResponseMessage(Head(toDetector), state', c))
      BY <1>7, EmptyTree DEF FinishRun
    <2>4. ChannelTyped'  BY <2>1, <2>2, <2>3, HandlerTyped DEF DetectorTyped, BusyRuns
    <2>5. QED  BY <1>2, <2>2, <2>4
  <1>8. CASE Crash  BY <1>2, <1>8, CrashTyped
  <1>9. CASE StartRun \/ ArmProducer \/ Armed \/ ScriptEnds \/ SendPacket \/ SendError \/ Restart
    <2>1. ChannelTyped'
      BY <1>9 DEF ChannelTyped, channel, StartRun, ArmProducer, Armed, ScriptEnds, SendPacket, SendError, Restart
    <2>2. DetectorTyped'
      <3>1. CASE StartRun \/ Restart  BY <3>1 DEF StartRun, Restart, DetectorTyped, threads
      <3>2. CASE ArmProducer
        <4>1. arming["before"] - 1 \in Nat /\ arming["after"] + 1 \in Nat
          BY <3>2 DEF ArmProducer, DetectorTyped, Stages
        <4>2. QED  BY <3>2, <4>1 DEF ArmProducer, DetectorTyped, Stages
      <3>3. CASE Armed
        <4>1. arming["after"] - 1 \in Nat  BY <3>3 DEF Armed, DetectorTyped, Stages
        <4>2. QED  BY <3>3, <4>1 DEF Armed, DetectorTyped, Stages, States
      <3>4. CASE ScriptEnds  BY <3>4 DEF ScriptEnds, DetectorTyped, States
      <3>5. CASE SendPacket \/ SendError  BY <3>5 DEF SendPacket, SendError, Counted, DetectorTyped
      <3>6. QED  BY <1>9, <3>1, <3>2, <3>3, <3>4, <3>5
    <2>3. QED  BY <1>2, <2>1, <2>2
  <1>10. QED
    BY <1>4, <1>5, <1>6, <1>7, <1>8, <1>9
    DEF Detector, Reactor, ArmThread, ScriptThread, SenderThread, DetectorDies, DetectorRestarts, SendFails,
        DetectorStep, DetectorFault
-----------------------------------------------------------------------------
(* The adapter's steps: what its threads send has its type.                  *)
LEMMA PutTyped ==
  ASSUME IInv, Typed, NEW messages, MakePut(messages), \A id \in Ids : Message(messages[id])
  PROVE  putPc' = "send" /\ Message(putMsg')
  <1>1. PICK id \in new_id(Held, Held) : putMsg' = messages[id] /\ putPc' = "send"
    BY DEF MakePut
  <1>2. \A i \in Held : i \in Ids
    BY DEF Held, Requests, Typed, MessagesTyped, Message
  <1>3. id \in Ids
    BY <1>1, <1>2, FreshId, HeldFinite DEF new_id, IInv
  <1>4. QED  BY <1>1, <1>3

LEMMA UpdateTyped ==
  ASSUME IInv, Typed, NEW request \in Requests, UpdateSends(request)
  PROVE  /\ updPc' = request /\ request # "sleep" /\ Message(updMsg')
         /\ \A q \in ToSet(toDetector') : Message(q)
  <1>1. PICK id \in new_id(Held, {}) : updMsg' = Requested(request, id)  BY DEF UpdateSends
  <1>2. updMsg'.id \in Ids /\ ToSet(toDetector') \subseteq ToSet(toDetector) \cup {updMsg'} /\ updPc' = request
    BY UpdateSendsKeeps DEF IInv
  <1>3. Range([p \in {<<"time">>} |-> "now"]) \subseteq TreeValues
        /\ Range([p \in {<<"udp">>} |-> "file"]) \subseteq TreeValues
    <2>1. "now" \in TreeValues /\ "file" \in TreeValues  BY DEF TreeValues
    <2>2. QED  BY <2>1 DEF Range
  <1>4. Message(updMsg')
    <2>1. CASE request \in {"status", "config"}
      BY <1>1, <1>2, <2>1 DEF Requested, GetMessage, Message
    <2>2. CASE request = "time"  BY <1>1, <1>2, <1>3, <2>2 DEF Requested, PutMessage, Message
    <2>3. CASE request = "udp"  BY <1>1, <1>2, <1>3, <2>3 DEF Requested, PutMessage, Message
    <2>4. QED  BY <2>1, <2>2, <2>3 DEF Requests
  <1>5. QED  BY <1>2, <1>4 DEF Typed, ChannelTyped, Requests

LEMMA ClientTypes ==
  ASSUME IInv, Typed, ClientPut
  PROVE  Typed'
  <1> USE DEF Typed
  <1>1. UNCHANGED <<simulator, channel, update, view>>
    BY DEF ClientPut, Put, StartAcquisition, PutCommand, PutConfig
  <1>2. ChannelTyped' /\ StatusTyped' /\ ParamTyped' /\ DetectorTyped'
    BY <1>1 DEF ChannelTyped, StatusTyped, ParamTyped, DetectorTyped, simulator, threads, channel, update, view
  <1>3. putPc' = "send" /\ Message(putMsg')
    <2>1. CASE StartAcquisition
      <3> DEFINE msgs == [id \in Ids |-> PostMessage(id, "arm")]
      <3>1. \A id \in Ids : Message(msgs[id])  BY DEF Message, PostMessage
      <3>2. MakePut(msgs)  BY <2>1 DEF StartAcquisition
      <3> HIDE DEF msgs
      <3>3. QED  BY <3>1, <3>2, PutTyped
    <2>2. CASE PutCommand
      <3>1. PICK c \in Commands : MakePut([id \in Ids |-> PostMessage(id, c)])  BY <2>2 DEF PutCommand
      <3> DEFINE msgs == [id \in Ids |-> PostMessage(id, c)]
      <3>2. \A id \in Ids : Message(msgs[id])  BY DEF Message, PostMessage
      <3>3. MakePut(msgs)  BY <3>1
      <3> HIDE DEF msgs
      <3>4. QED  BY <3>2, <3>3, PutTyped
    <2>3. CASE PutConfig
      <3>1. PICK path \in ConfigPaths, v \in Values :
              MakePut([id \in Ids |-> PutMessage(id, uri_params_to_dictionary(path, v))])
        BY <2>3 DEF PutConfig
      <3> DEFINE msgs == [id \in Ids |-> PutMessage(id, uri_params_to_dictionary(path, v))]
      <3>2. Range(uri_params_to_dictionary(path, v)) \subseteq TreeValues
        <4>1. v \in TreeValues  BY DEF TreeValues
        <4>2. QED  BY <4>1 DEF uri_params_to_dictionary, Range
      <3>3. \A id \in Ids : Message(msgs[id])  BY <3>2 DEF Message, PutMessage
      <3>4. MakePut(msgs)  BY <3>1
      <3> HIDE DEF msgs
      <3>5. QED  BY <3>3, <3>4, PutTyped
    <2>4. QED  BY <2>1, <2>2, <2>3 DEF ClientPut, Put
  <1>4. MessagesTyped'  BY <1>1, <1>3 DEF MessagesTyped, update
  <1>5. QED  BY <1>2, <1>4

LEMMA PutThreadTypes ==
  ASSUME IInv, Typed, PutThread
  PROVE  Typed'
  <1> USE DEF Typed
  <1>1. UNCHANGED simulator  BY DEF PutThread, AdapterStep
  <1>2. DetectorTyped'  BY <1>1 DEF DetectorTyped, simulator, threads
  <1>3. Channels /\ Bounded /\ (lock = "put" => putPc = "send")  BY DEF IInv, LockOwned
  <1>4. CASE PutSend
    <2>1. /\ putPc = "send" /\ Sends(putMsg) /\ toAdapter' = toAdapter /\ UNCHANGED <<put, update, view>>
      BY <1>4 DEF PutSend
    <2>2. ToSet(toDetector') \subseteq ToSet(toDetector) \cup {putMsg}  BY <1>3, <2>1, SendsKeeps
    <2>3. ChannelTyped'  BY <2>1, <2>2 DEF ChannelTyped, MessagesTyped
    <2>4. MessagesTyped' /\ StatusTyped' /\ ParamTyped'
      BY <2>1 DEF MessagesTyped, StatusTyped, ParamTyped, put, update, view
    <2>5. QED  BY <1>2, <2>3, <2>4
  <1>5. CASE PutDiscard
    <2>1. toAdapter # <<>> /\ Receive /\ toDetector' = toDetector /\ UNCHANGED adapter
      BY <1>5 DEF PutDiscard, Discard
    <2>2. ToSet(toAdapter') \subseteq ToSet(toAdapter)  BY <1>3, <2>1, ReceiveKeeps
    <2>3. ChannelTyped'  BY <2>1, <2>2 DEF ChannelTyped
    <2>4. MessagesTyped' /\ StatusTyped' /\ ParamTyped'
      BY <2>1 DEF MessagesTyped, StatusTyped, ParamTyped, adapter, put, update, view
    <2>5. QED  BY <1>2, <2>3, <2>4
  <1>6. CASE PutReply
    <2>1. /\ toDetector' = toDetector /\ UNCHANGED <<update, view>> /\ AfterPut
      BY <1>6 DEF PutReply
    <2>2. ToSet(toAdapter') \subseteq ToSet(toAdapter)
      <3>1. PICK r \in Replies : Returns(putMsg, r)  BY <1>6 DEF PutReply
      <3>2. QED  BY <1>3, <3>1, ReturnsKeeps
    <2>3. ChannelTyped'  BY <2>1, <2>2 DEF ChannelTyped
    <2>4. putPc' \in {"ready", "waitArmed", "waitRunning"}  BY <2>1 DEF AfterPut, Answer
    <2>5. MessagesTyped' /\ StatusTyped' /\ ParamTyped'
      BY <2>1, <2>4 DEF MessagesTyped, StatusTyped, ParamTyped, update, view
    <2>6. QED  BY <1>2, <2>3, <2>5
  <1>7. CASE CheckArmed /\ status.state = "armed"
    <2> DEFINE msgs == [id \in Ids |-> PostMessage(id, "run")]
    <2>1. \A id \in Ids : Message(msgs[id])  BY DEF Message, PostMessage
    <2>2. MakePut(msgs) /\ UNCHANGED <<channel, update, view>>  BY <1>7 DEF CheckArmed
    <2> HIDE DEF msgs
    <2>3. putPc' = "send" /\ Message(putMsg')  BY <2>1, <2>2, PutTyped
    <2>4. QED
      BY <1>2, <2>2, <2>3 DEF ChannelTyped, MessagesTyped, StatusTyped, ParamTyped, channel, update, view
  <1>8. CASE FinishStart
    <2>1. /\ UNCHANGED <<channel, update, param, udpFile>> /\ putPc' = "ready"
          /\ status' = [status EXCEPT !.complete = "no"]
      BY <1>8 DEF FinishStart, Answer
    <2>2. StatusTyped'  BY <2>1 DEF StatusTyped, Marks, update
    <2>3. QED  BY <1>2, <2>1, <2>2 DEF ChannelTyped, MessagesTyped, ParamTyped, channel, update
  <1>9. CASE WaitArmed \/ WaitRunning \/ CheckRunning \/ (CheckArmed /\ status.state # "armed")
    <2>1. /\ UNCHANGED <<channel, update, view>>
          /\ putPc' \in {"ready", "waitArmed", "checkArmed", "waitRunning", "checkRunning", "finish"}
      BY <1>9 DEF WaitArmed, WaitRunning, Waits, CheckArmed, CheckRunning, Answer
    <2>2. QED
      BY <1>2, <2>1 DEF ChannelTyped, MessagesTyped, StatusTyped, ParamTyped, channel, update, view
  <1>10. QED
    BY <1>4, <1>5, <1>6, <1>7, <1>8, <1>9 DEF PutThread, AdapterStep

(* A round goes on with another request, or ends.                            *)
LEMMA RoundTyped ==
  ASSUME IInv, Typed, UNCHANGED <<put, simulator>>, ToSet(toAdapter') \subseteq ToSet(toAdapter),
         ParamTyped', status' \in [state : States \cup {"none"}, connected : Marks, complete : Marks],
         \/ EndRound /\ status'.connected # "unset"
         \/ \E pc \in {"connect", "complete"} : GoesOn(pc) /\ (status'.connected = "unset" => pc = "connect")
         \/ \E request \in Requests :
              UpdateSends(request) /\ (status'.connected = "unset" => request \in {"time", "udp"})
  PROVE  Typed'
  <1> USE DEF Typed
  <1>1. DetectorTyped'  BY DEF DetectorTyped, simulator, threads
  <1>2. CASE \/ EndRound /\ status'.connected # "unset"
             \/ \E pc \in {"connect", "complete"} : GoesOn(pc) /\ (status'.connected = "unset" => pc = "connect")
    <2>1. /\ updPc' \in {"sleep", "connect", "complete"} /\ toDetector' = toDetector
          /\ status'.connected = "unset" => updPc' = "connect"
      BY <1>2 DEF EndRound, GoesOn
    <2>2. updPc' \notin Requests  BY <2>1 DEF Requests
    <2>3. ChannelTyped' /\ MessagesTyped' /\ StatusTyped'
      BY <2>1, <2>2 DEF ChannelTyped, MessagesTyped, StatusTyped, put
    <2>4. QED  BY <1>1, <2>3
  <1>3. CASE \E request \in Requests :
               UpdateSends(request) /\ (status'.connected = "unset" => request \in {"time", "udp"})
    <2>1. PICK request \in Requests :
            UpdateSends(request) /\ (status'.connected = "unset" => request \in {"time", "udp"})
      BY <1>3
    <2>2. /\ updPc' = request /\ Message(updMsg')
          /\ \A q \in ToSet(toDetector') : Message(q)
      BY <2>1, UpdateTyped
    <2>3. ChannelTyped' /\ MessagesTyped' /\ StatusTyped'
      BY <2>1, <2>2 DEF ChannelTyped, MessagesTyped, StatusTyped, put
    <2>4. QED  BY <1>1, <2>3
  <1>4. QED  BY <1>2, <1>3

LEMMA UpdateThreadTypes ==
  ASSUME IInv, Typed, UpdateThread
  PROVE  Typed'
  <1> USE DEF Typed
  <1>1. UNCHANGED simulator  BY DEF UpdateThread, AdapterStep
  <1>2. Channels /\ Bounded /\ (lock = "update" => updPc # "sleep")  BY DEF IInv, LockOwned
  <1>3. Requests = {"status", "time", "udp", "config"}  BY DEF Requests
  <1>4. UNCHANGED param => ParamTyped'  BY DEF ParamTyped
  <1> DEFINE StatusType == [state : States \cup {"none"}, connected : Marks, complete : Marks]
  <1>5. SetConnected \/ SetComplete => status' \in StatusType
    BY DEF SetConnected, SetComplete, StatusTyped, Marks
  <1>6. status \in StatusType /\ (status.connected = "unset" => updPc \in {"time", "udp", "connect"})
    BY DEF StatusTyped
  <1>7. ASSUME NEW m, NEW r, Returns(m, r)
        PROVE  /\ ToSet(toAdapter') \subseteq ToSet(toAdapter)
               /\ r = NoReply \/ (r \in ToSet(toAdapter) /\ Reply(r))
    BY <1>2, <1>7, ReturnsKeeps DEF ChannelTyped
  <1> HIDE DEF StatusType
  <1>8. CASE UpdateStarts
    <2>1. UpdateSends("status") /\ toAdapter' = toAdapter /\ updPc = "sleep" /\ UNCHANGED <<put, view>>
      BY <1>8 DEF UpdateStarts
    <2>2. status' = status /\ status.connected # "unset" /\ ParamTyped'  BY <1>4, <1>6, <2>1 DEF view
    <2>3. QED  BY <1>1, <1>3, <1>6, <2>1, <2>2, RoundTyped DEF StatusType
  <1>9. CASE UpdateDiscard
    <2>1. toAdapter # <<>> /\ Receive /\ toDetector' = toDetector /\ UNCHANGED adapter
      BY <1>9 DEF UpdateDiscard, Discard
    <2>2. ToSet(toAdapter') \subseteq ToSet(toAdapter)  BY <1>2, <2>1, ReceiveKeeps
    <2>3. QED
      BY <1>1, <2>1, <2>2 DEF ChannelTyped, MessagesTyped, StatusTyped, ParamTyped, DetectorTyped,
                              adapter, put, update, view, simulator, threads
  <1>10. CASE StatusReply
    <2>1. updPc = "status" /\ UNCHANGED <<put, param, udpFile>>  BY <1>10 DEF StatusReply
    <2>2. ParamTyped' /\ status.connected # "unset"  BY <1>4, <1>6, <2>1
    <2>3. PICK r \in Replies :
            /\ Returns(updMsg, r)
            /\ \/ /\ status' = [status EXCEPT !.connected = "no"]
                  /\ UpdateSends("config")
               \/ /\ EndRound /\ UNCHANGED status
               \/ /\ r.of = <<"get", "status">>
                  /\ status' = [state |-> r.state, connected |-> "unset", complete |-> "unset"]
                  /\ GoesOn("connect") \/ UpdateSends("time")
      BY <1>10 DEF StatusReply
    <2>4. ToSet(toAdapter') \subseteq ToSet(toAdapter)  BY <1>7, <2>3
    <2>5. CASE status' = [status EXCEPT !.connected = "no"] /\ UpdateSends("config")
      <3>1. status' \in StatusType /\ status'.connected # "unset"  BY <1>6, <2>5 DEF StatusType, Marks
      <3>2. QED  BY <1>1, <1>3, <2>1, <2>2, <2>4, <2>5, <3>1, RoundTyped DEF StatusType
    <2>6. CASE EndRound /\ UNCHANGED status
      BY <1>1, <1>6, <2>1, <2>2, <2>4, <2>6, RoundTyped DEF StatusType
    <2>7. CASE /\ r.of = <<"get", "status">>
               /\ status' = [state |-> r.state, connected |-> "unset", complete |-> "unset"]
               /\ GoesOn("connect") \/ UpdateSends("time")
      <3>1. Reply(r)  BY <1>7, <2>3, <2>7 DEF NoReply
      <3>2. status' \in StatusType  BY <2>7, <3>1 DEF Reply, StatusType, Marks
      <3>3. CASE GoesOn("connect")
        BY <1>1, <2>1, <2>2, <2>4, <3>2, <3>3, RoundTyped DEF StatusType
      <3>4. CASE UpdateSends("time")
        BY <1>1, <1>3, <2>1, <2>2, <2>4, <3>2, <3>4, RoundTyped DEF StatusType
      <3>5. QED  BY <2>7, <3>3, <3>4
    <2>8. QED  BY <2>3, <2>5, <2>6, <2>7
  <1>11. CASE TimeReply \/ UdpReply
    <2>1. PICK r : Returns(updMsg, r)  BY <1>11 DEF TimeReply, UdpReply
    <2>2. UNCHANGED <<put, param, status>> /\ (UpdateSends("udp") \/ GoesOn("connect"))
      BY <1>11 DEF TimeReply, UdpReply, view
    <2>3. ToSet(toAdapter') \subseteq ToSet(toAdapter) /\ ParamTyped'  BY <1>4, <1>7, <2>1, <2>2
    <2>4. CASE UpdateSends("udp")
      BY <1>1, <1>3, <1>6, <2>2, <2>3, <2>4, RoundTyped DEF StatusType
    <2>5. CASE GoesOn("connect")
      BY <1>1, <1>6, <2>2, <2>3, <2>5, RoundTyped DEF StatusType
    <2>6. QED  BY <2>2, <2>4, <2>5
  <1>12. CASE SetConnected
    <2>1. /\ UNCHANGED <<toAdapter, put, param>> /\ GoesOn("complete")
          /\ status' = [status EXCEPT !.connected = "yes"]
      BY <1>12 DEF SetConnected
    <2>2. status'.connected = "yes"  BY <1>6, <2>1 DEF StatusType
    <2>3. ParamTyped' /\ status' \in StatusType  BY <1>4, <1>5, <1>12, <2>1
    <2>4. QED  BY <1>1, <2>1, <2>2, <2>3, RoundTyped DEF StatusType
  <1>13. CASE SetComplete
    <2>1. /\ updPc = "complete" /\ UNCHANGED <<toAdapter, put, param>> /\ UpdateSends("config")
          /\ status' = [status EXCEPT !.complete = IF status.state = "idle" THEN "yes" ELSE @]
      BY <1>13 DEF SetComplete
    <2>2. status'.connected # "unset"  BY <1>6, <2>1 DEF StatusType
    <2>3. ParamTyped' /\ status' \in StatusType  BY <1>4, <1>5, <1>13, <2>1
    <2>4. QED  BY <1>1, <1>3, <2>1, <2>2, <2>3, RoundTyped DEF StatusType
  <1>14. CASE ConfigReply
    <2>1. /\ updPc = "config" /\ EndRound /\ UNCHANGED <<put, status>>
          /\ \E r \in Replies :
               /\ Returns(updMsg, r)
               /\ param' = IF r.of = <<"get", "config">> THEN update_config(param, r.config) ELSE param
      BY <1>14 DEF ConfigReply
    <2>2. PICK r \in Replies :
            /\ Returns(updMsg, r)
            /\ param' = IF r.of = <<"get", "config">> THEN update_config(param, r.config) ELSE param
      BY <2>1
    <2>3. ParamTyped'
      <3>1. CASE param' = param  BY <1>4, <3>1
      <3>2. CASE r.of = <<"get", "config">> /\ param' = update_config(param, r.config)
        <4>1. Reply(r)  BY <1>7, <2>2, <3>2 DEF NoReply
        <4>2. QED  BY <3>2, <4>1, TreesOfValues DEF ParamTyped, Reply
      <3>3. QED  BY <2>2, <3>1, <3>2
    <2>4. QED  BY <1>1, <1>6, <1>7, <2>1, <2>2, <2>3, RoundTyped DEF StatusType
  <1>15. QED
    BY <1>8, <1>9, <1>10, <1>11, <1>12, <1>13, <1>14 DEF UpdateThread, UpdateReply, AdapterStep

LEMMA InitTyped ==
  ASSUME Init
  PROVE  Typed
  <1> USE DEF Init, ChannelInit, AdapterInit, SimulatorInit
  <1>1. ToSet(toDetector) = {} /\ ToSet(toAdapter) = {}  BY SeqOfNone
  <1>2. ChannelTyped  BY <1>1 DEF ChannelTyped
  <1>3. MessagesTyped /\ StatusTyped  BY DEF MessagesTyped, StatusTyped, Marks, Requests
  <1>4. ParamTyped  BY DEF ParamTyped, TreeValues
  <1>5. DetectorTyped  BY DEF DetectorTyped, States, None, Stages, TreeValues
  <1>6. QED  BY <1>2, <1>3, <1>4, <1>5 DEF Typed

LEMMA NextTyped ==
  ASSUME IInv, Typed, [Next]_vars
  PROVE  Typed'
  <1>1. CASE Detector  BY <1>1, DetectorTypes
  <1>2. CASE ClientPut  BY <1>2, ClientTypes
  <1>3. CASE PutThread  BY <1>3, PutThreadTypes
  <1>4. CASE UpdateThread  BY <1>4, UpdateThreadTypes
  <1>5. CASE UNCHANGED vars
    BY <1>5 DEF vars, channel, adapter, put, update, view, simulator, threads, history,
                Typed, ChannelTyped, MessagesTyped, StatusTyped, ParamTyped, DetectorTyped
  <1>6. QED  BY <1>1, <1>2, <1>3, <1>4, <1>5 DEF Next, Detector

(* Every variable keeps its type, however requests, late replies, crashes    *)
(* and rounds interleave: the channel stays within its bound, the lock has   *)
(* one holder, a status without its connection mark is never left behind by  *)
(* a round, and the adapter's tree keeps its items and the known values.     *)
THEOREM TypeCorrect == Spec => []TypeOK
  <1>1. Init => Typed  BY InitTyped
  <1>2. IInv /\ Typed /\ [Next]_vars => Typed'  BY NextTyped
  <1>3. IInv /\ Typed => TypeOK
    <2>1. ASSUME IInv, Typed  PROVE TypeOK
      <3>1. IsSeq(toDetector) /\ IsSeq(toAdapter) /\ Bounded /\ LockOwned /\ UpdateHolds
        BY <2>1 DEF IInv, Channels
      <3>2. /\ \A i \in DOMAIN toDetector : toDetector[i].id \in Ids /\ toDetector[i].type \in {"get", "put", "post"}
            /\ \A i \in DOMAIN toAdapter : toAdapter[i].id \in Ids /\ toAdapter[i].state \in States
        BY <2>1, <3>1, SeqOver DEF Typed, ChannelTyped, Message, Reply
      <3>3. updPc = "sleep" => status.connected # "unset"  BY <2>1 DEF Typed, StatusTyped
      <3>4. QED
        BY <2>1, <3>1, <3>2, <3>3
        DEF TypeOK, Typed, MessagesTyped, StatusTyped, ParamTyped, DetectorTyped, Marks, Bounded, UpdateHolds
    <2>2. QED  BY <2>1
  <1>4. QED  BY <1>1, <1>2, <1>3, Invariant, PTL DEF Spec
=============================================================================
