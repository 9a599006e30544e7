---------------------------- MODULE ControlSystem ----------------------------
(***************************************************************************)
(* The control adapter and the simulated detector, joined by the control   *)
(* channel, with HTTP clients that send PUT requests, a detector process   *)
(* that may be killed and started again, replies that come after their     *)
(* timeout, and UDP sends that fail.                                       *)
(***************************************************************************)
EXTENDS ControlAdapter, ControlSimulator

CONSTANTS
  MaxEvents,         (* bound of the model: PUT requests and faults, together *)
  Faults             (* whether there are faults                              *)

ASSUME FaultsAssumption == Faults \in BOOLEAN

VARIABLES
  events,            (* counted against MaxEvents                             *)
  ran,               (* history: the detector was running since the last PUT  *)
                     (* request came                                          *)
  ended              (* history: it was idle since it was last set running    *)

history == <<ran, ended>>
vars == <<channel, adapter, simulator, events, history>>

Init ==
  /\ ChannelInit /\ AdapterInit /\ SimulatorInit
  /\ events = 0
  /\ ran = FALSE /\ ended = TRUE

History ==
  /\ ran' = (job = "start" /\ (ran \/ state' = "running"))
  /\ ended' = CASE state' = "idle" -> TRUE
                [] state' = "running" /\ state # "running" -> FALSE
                [] OTHER -> ended

Event == events < MaxEvents /\ events' = events + 1
Fault == Faults /\ Event

(* send_recv returns.                                                        *)
Returned ==
  /\ waiting
  /\ \/ lock = "put" /\ lock' = "free"
     \/ lock = "update" /\ updPc' # updPc

(* A timeout is a fault when the detector is there to answer, and it is not  *)
(* the run command, which takes as long as the timeout.                      *)
Late ==
  /\ Returned /\ toAdapter = <<>>
  /\ up /\ toDetector # <<>> /\ ~(busy /\ lock = "put" /\ putMsg.op = "run")

ClientPut ==
  /\ Event
  /\ Put
  /\ ran' = (job' = "start" /\ state = "running")
  /\ UNCHANGED <<simulator, ended>>

AdapterStep(A) ==
  /\ A
  /\ IF Late THEN Fault ELSE UNCHANGED events
  /\ UNCHANGED <<simulator, history>>
DetectorStep(A) == A /\ History /\ UNCHANGED <<adapter, events>>
DetectorFault(A) == A /\ History /\ Fault /\ UNCHANGED adapter

PutThread ==
  AdapterStep(\/ PutSend \/ PutDiscard \/ PutReply \/ WaitArmed \/ CheckArmed
              \/ WaitRunning \/ CheckRunning \/ FinishStart)
UpdateThread == AdapterStep(UpdateStarts \/ UpdateDiscard \/ UpdateReply)

Reactor == DetectorStep(parse_get_msg \/ parse_put_msg \/ parse_post_msg \/ StartRun \/ FinishRun)
ArmThread == DetectorStep(ArmProducer \/ Armed)
ScriptThread == DetectorStep(ScriptEnds)
SenderThread == DetectorStep(SendPacket)
DetectorRestarts == DetectorStep(Restart)

DetectorDies == DetectorFault(Crash)
SendFails == DetectorFault(SendError)

Next ==
  \/ ClientPut \/ PutThread \/ UpdateThread
  \/ Reactor \/ ArmThread \/ ScriptThread \/ SenderThread
  \/ DetectorDies \/ DetectorRestarts \/ SendFails

Spec == Init /\ [][Next]_vars

(* Threads that can go on do; _comms_lock is not fair, but the update thread *)
(* sleeps between two rounds and a PUT thread gets it in the end.  A killed  *)
(* detector is started again.  Clients need not do anything.                 *)
FairSpec ==
  /\ Spec
  /\ SF_vars(PutThread) /\ SF_vars(UpdateThread)
  /\ WF_vars(Reactor) /\ WF_vars(ArmThread) /\ WF_vars(ScriptThread) /\ WF_vars(SenderThread)
  /\ WF_vars(DetectorRestarts)

TreeValues == Values \cup Range(InitialStore) \cup Range(InitialParam) \cup {"now", "file"}

(* _comms_lock is held where a request is made, and nowhere else.            *)
LockOwned ==
  /\ lock \in {"free", "put", "update"}
  /\ waiting => lock # "free"
  /\ lock = "put" => putPc = "send"
  /\ lock = "update" <=> updPc # "sleep"

TypeOK ==
  /\ Len(toDetector) <= Capacity /\ Len(toAdapter) <= Capacity
  /\ \A i \in DOMAIN toDetector : toDetector[i].id \in Ids /\ toDetector[i].type \in {"get", "put", "post"}
  /\ \A i \in DOMAIN toAdapter : toAdapter[i].id \in Ids /\ toAdapter[i].state \in States
  /\ LockOwned
  /\ putPc \in {"ready", "send", "waitArmed", "checkArmed", "waitRunning", "checkRunning", "finish"}
  /\ updPc \in {"sleep", "connect", "complete"} \cup Requests
  /\ status \in [state : States \cup {"none"}, connected : {"yes", "no", "unset"}, complete : {"yes", "no", "unset"}]
  /\ updPc = "sleep" => status.connected # "unset"
  /\ DOMAIN param = DOMAIN InitialParam
  /\ state \in States /\ Range(store) \subseteq TreeValues /\ Range(param) \subseteq TreeValues
  /\ arming \in [Stages -> Nat] /\ scripts \in Nat
  /\ unsent \in Nat /\ sent \in Nat

(* A request is answered with its own reply, however late earlier replies    *)
(* are, as long as the two threads took different message identifiers: the   *)
(* loop of send_recv that skips replies by identifier (L723).                *)
RepliesMatched ==
  [][Returned /\ toAdapter # <<>> /\ ~collided =>
       LET m == IF lock = "put" THEN putMsg ELSE updMsg IN Head(toAdapter).of = <<m.type, m.op>>]_vars

(* A start that is answered without an error did start something: the        *)
(* detector was running at some time since the request came, though the      *)
(* sequence looks only at states the update thread has left behind (L560).   *)
OkMeansRan == putPc = "finish" => ran

(* acquisition_complete, cleared at the end of the start sequence, is set    *)
(* again only when the detector has been idle since it was set running, and  *)
(* never from a status taken before the run (L569, L822).                    *)
NotCompleteEarly ==
  [][status'.complete = "yes" /\ status.complete # "yes" => ended]_vars

(* Every PUT request is answered: polls end, replies come or time out, and   *)
(* the lock is never held forever.                                           *)
PutAnswered == putPc # "ready" ~> putPc = "ready"

(* Once clients and failures are over, what a GET returns is for good what   *)
(* the detector has, under every name of it: late replies, restarts and the  *)
(* wholesale replacement of the status leave nothing stale behind.  A GET is not *)
(* locked: from the replacement until the items are set again (L758, L783,   *)
(* L823) it finds null for them, in this part of a round and at no other     *)
(* time, and again and again there is none of it.                            *)
(* The parameters only while the detector still has all of them: a value PUT *)
(* to a branch of the tree replaces the branch, and the detector then fails  *)
(* every request for the configuration.                                      *)
Replaced == updPc \in {"time", "udp", "connect"}
Reads(item, value, replaced) ==
  get(<<"status", item>>) = value \/ (replaced /\ get(<<"status", item>>) = "null")
Mirrors ==
  /\ Reads("state", state, FALSE)
  /\ Reads("connected", "yes", Replaced)
  /\ state = "idle" => Reads("complete", "yes", Replaced \/ updPc = "complete")
  /\ Readable(store, DOMAIN param) =>
       /\ \A p \in DOMAIN param : get(<<"config">> \o p) = store[p]
       /\ \A name \in DOMAIN ADODIN_MAPPING : get(name) = store[Tail(ADODIN_MAPPING[name])]
ViewConverges == <>[]Mirrors /\ []<>(updPc = "sleep")

(* A run comes to an end unless acquisitions were mixed or a packet was not  *)
(* sent: the counter of packets sent meets exactly the number to send.       *)
RunEnds == state = "running" ~> (state # "running" \/ disturbed)

(* The comment before the run command: "Detector armed OK, now tell it to    *)
(* run" (tristan_control_adapter.py:546).                                    *)
RunWhenArmed == [][busy' /\ ~busy => state = "armed"]_vars
=============================================================================
