--------------------------- MODULE ControlAdapter ---------------------------
(***************************************************************************)
(* TristanControlAdapter (tristan_control_adapter.py): the thread that     *)
(* handles HTTP PUT requests and the thread of update_loop.                *)
(*                                                                         *)
(* Each request to the detector is made, sent and answered (or given up)   *)
(* inside send_recv, which holds _comms_lock.  The update thread holds the *)
(* lock from its status request to the end of its round; the PUT thread    *)
(* holds it for one request.  Both read and write the status and the       *)
(* parameters without a copy.                                              *)
(***************************************************************************)
EXTENDS ControlChannel, ParameterTree

CONSTANTS
  Commands,          (* command/... items clients PUT                         *)
  ConfigPaths,       (* config/... items clients PUT                          *)
  Values,            (* the values of config items                            *)
  InitialParam,      (* the tree of Parameter objects at the start            *)
  MaxPolls           (* times the start sequence looks at the state: 50       *)

VARIABLES
  lock,              (* holder of _comms_lock                                 *)
  waiting,           (* the holder has sent its request and polls             *)
  putPc, job,        (* the PUT thread's place, and what it was asked         *)
  putMsg, polls,
  updPc, updMsg,     (* the update thread's place and message                 *)
  status,            (* _parameters['status']                                 *)
  param,             (* _param, and what is in the UDP file                   *)
  udpFile,           (* the UDP configuration file can be read                *)
  collided           (* history: two messages got one identifier              *)

put == <<putPc, job, putMsg, polls, collided>>
update == <<updPc, updMsg>>
view == <<status, param, udpFile>>
adapter == <<lock, waiting, put, update, view>>

NoMessage == PostMessage(0, "none")
NoReply == [id |-> 0, of |-> <<"none", "none">>]
Requests == {"status", "time", "udp", "config"}

AdapterInit ==
  /\ lock = "free" /\ waiting = FALSE
  /\ putPc = "ready" /\ job = "none" /\ putMsg = NoMessage /\ polls = 0
  /\ updPc = "sleep" /\ updMsg = NoMessage
  /\ status = [state |-> "none", connected |-> "no", complete |-> "yes"]
  /\ param = InitialParam
  /\ udpFile \in BOOLEAN
  /\ collided = FALSE

(* send_recv: the request is sent, or it does not fit and there is no reply; *)
(* replies of other requests are read and dropped; at last the reply comes,  *)
(* or there is none for DETECTOR_TIMEOUT.                                    *)
Sends(m) ==
  /\ waiting' = CanSend
  /\ IF CanSend THEN Send(m) ELSE UNCHANGED toDetector

Discard(m) ==
  /\ waiting /\ toAdapter # <<>> /\ ~Received(m)
  /\ Receive
  /\ UNCHANGED toDetector

Returns(m, r) ==
  \/ ~waiting /\ r = NoReply /\ UNCHANGED toAdapter
  \/ waiting /\ Received(m) /\ r = Head(toAdapter) /\ Receive
  \/ waiting /\ toAdapter = <<>> /\ r = NoReply /\ UNCHANGED toAdapter

Replies == {NoReply} \cup ToSet(toAdapter)

(* The identifiers held by a message made and not sent yet.                  *)
Held == (IF putPc = "send" THEN {putMsg.id} ELSE {}) \cup (IF updPc \in Requests THEN {updMsg.id} ELSE {})

(* The PUT thread *)

(* The request is answered, and its locals are gone.                         *)
Answer == putPc' = "ready" /\ job' = "none" /\ putMsg' = NoMessage /\ polls' = 0

(* A message is made, with an identifier another thread may be taking too.   *)
MakePut(messages) ==
  \E id \in new_id(Held, Held) :
    /\ putMsg' = messages[id]
    /\ collided' = (collided \/ id \in Held)
    /\ putPc' = "send"

StartAcquisition ==
  /\ putPc = "ready"
  /\ job' = "start"
  /\ MakePut([id \in Ids |-> PostMessage(id, "arm")])
  /\ UNCHANGED <<channel, lock, waiting, polls, update, view>>

(* command/stop_acquisition and any other command.                           *)
PutCommand ==
  /\ putPc = "ready"
  /\ job' = "other"
  /\ \E c \in Commands : MakePut([id \in Ids |-> PostMessage(id, c)])
  /\ UNCHANGED <<channel, lock, waiting, polls, update, view>>

PutConfig ==
  /\ putPc = "ready"
  /\ job' = "other"
  /\ \E path \in ConfigPaths, v \in Values :
       MakePut([id \in Ids |-> PutMessage(id, uri_params_to_dictionary(path, v))])
  /\ UNCHANGED <<channel, lock, waiting, polls, update, view>>

PutSend ==
  /\ putPc = "send" /\ lock = "free"
  /\ lock' = "put"
  /\ Sends(putMsg)
  /\ UNCHANGED <<toAdapter, put, update, view>>

PutDiscard ==
  /\ lock = "put"
  /\ Discard(putMsg)
  /\ UNCHANGED adapter

(* The reply of a command is quoted, whatever it is, and never looked at.    *)
AfterPut ==
  \/ job = "other" /\ Answer
  \/ /\ job = "start"
     /\ putPc' = (IF putMsg.op = "arm" THEN "waitArmed" ELSE "waitRunning")
     /\ putMsg' = NoMessage
     /\ UNCHANGED <<job, polls>>

PutReply ==
  /\ lock = "put"
  /\ \E r \in Replies : Returns(putMsg, r)
  /\ lock' = "free" /\ waiting' = FALSE
  /\ AfterPut
  /\ UNCHANGED <<toDetector, collided, update, view>>

WaitsForever(pc, next, awaited) ==                  \* mutant: no limit to the polls
  /\ putPc = pc
  /\ status.state = awaited
  /\ putPc' = next
  /\ UNCHANGED <<channel, lock, waiting, job, putMsg, polls, collided, update, view>>

(* while ... != 'armed' and counter < 50: no state in the status raises.     *)
Waits(pc, next, awaited) ==
  /\ putPc = pc
  /\ \/ status.state = "none" /\ Answer
     \/ /\ status.state \notin {"none", awaited} /\ polls < MaxPolls
        /\ polls' = polls + 1 /\ UNCHANGED <<putPc, putMsg, job>>
     \/ /\ status.state = awaited \/ (status.state # "none" /\ polls = MaxPolls)
        /\ putPc' = next /\ polls' = 0 /\ UNCHANGED <<putMsg, job>>
  /\ UNCHANGED <<channel, lock, waiting, collided, update, view>>

WaitArmed == Waits("waitArmed", "checkArmed", "armed")
WaitRunning == Waits("waitRunning", "checkRunning", "running")

CheckNothing ==                                     \* mutant: the state is not read again
  /\ putPc = "checkRunning"
  /\ putPc' = "finish"
  /\ UNCHANGED <<channel, lock, waiting, job, putMsg, polls, collided, update, view>>

(* The state is read again after the loop; another one is answered with 408. *)
CheckArmed ==
  /\ putPc = "checkArmed"
  /\ \/ status.state # "armed" /\ Answer /\ UNCHANGED collided
     \/ /\ status.state = "armed"
        /\ MakePut([id \in Ids |-> PostMessage(id, "run")])
        /\ UNCHANGED <<job, polls>>
  /\ UNCHANGED <<channel, lock, waiting, update, view>>

CheckRunning ==
  /\ putPc = "checkRunning"
  /\ \/ status.state # "running" /\ Answer
     \/ status.state = "running" /\ putPc' = "finish" /\ UNCHANGED <<job, putMsg, polls>>
  /\ UNCHANGED <<channel, lock, waiting, collided, update, view>>

FinishStart ==
  /\ putPc = "finish" /\ lock = "free"
  /\ status' = [status EXCEPT !.complete = "no"]
  /\ Answer
  /\ UNCHANGED <<channel, lock, waiting, collided, update, param, udpFile>>

(* The update thread *)

(* A request is made and sent: the lock is held, so nobody can tell the two. *)
Requested(request, id) ==
  CASE request = "status" -> GetMessage(id, "status", {})
    [] request = "time" -> PutMessage(id, [p \in {<<"time">>} |-> "now"])
    [] request = "udp" -> PutMessage(id, [p \in {<<"udp">>} |-> "file"])
    [] request = "config" -> GetMessage(id, "config", create_config_request(param))

UpdateSends(request) ==
  /\ updPc' = request
  /\ \E id \in new_id(Held, {}) : updMsg' = Requested(request, id)
  /\ Sends(updMsg')

UpdateStarts ==
  /\ updPc = "sleep" /\ lock = "free"
  /\ lock' = "update"
  /\ UpdateSends("status")
  /\ UNCHANGED <<toAdapter, put, view>>

UpdateDiscard ==
  /\ lock = "update"
  /\ Discard(updMsg)
  /\ UNCHANGED adapter

(* The round is left by an exception, or ends.                               *)
EndRoundLocked ==                                   \* mutant: the lock is kept
  updPc' = "sleep" /\ updMsg' = NoMessage /\ waiting' = FALSE /\ UNCHANGED <<lock, toDetector>>
EndRound ==
  /\ updPc' = "sleep" /\ updMsg' = NoMessage
  /\ lock' = "free" /\ waiting' = FALSE
  /\ UNCHANGED toDetector

(* No request for a while, with the lock still held.                         *)
GoesOn(pc) ==
  /\ updPc' = pc /\ updMsg' = NoMessage
  /\ waiting' = FALSE
  /\ UNCHANGED <<lock, toDetector>>

(* The reply to the status request.  The new status replaces the old one     *)
(* with the items the adapter had added to it: they are unset until they are *)
(* set again, and a client that reads them meanwhile gets null.              *)
StatusReply ==
  /\ updPc = "status"
  /\ \E r \in Replies :
       /\ Returns(updMsg, r)
       /\ \/ /\ r = NoReply
             /\ status' = [status EXCEPT !.connected = "no"]
             /\ UpdateSends("config") /\ UNCHANGED lock
          \/ /\ r # NoReply /\ r.of # <<"get", "status">>
             /\ EndRound /\ UNCHANGED status
          \/ /\ r.of = <<"get", "status">>
             /\ status' = [state |-> r.state, connected |-> "unset", complete |-> "unset"]
             /\ \/ status.connected = "yes" /\ GoesOn("connect")
                \/ status.connected # "yes" /\ UpdateSends("time") /\ UNCHANGED lock
  /\ UNCHANGED <<put, param, udpFile>>

(* The detector was just connected: the time, then the UDP configuration.    *)
TimeReply ==
  /\ updPc = "time"
  /\ \E r \in Replies : Returns(updMsg, r)
  /\ \/ udpFile /\ UpdateSends("udp") /\ UNCHANGED lock
     \/ ~udpFile /\ GoesOn("connect")
  /\ UNCHANGED <<put, view>>

UdpReply ==
  /\ updPc = "udp"
  /\ \E r \in Replies : Returns(updMsg, r)
  /\ GoesOn("connect")
  /\ UNCHANGED <<put, view>>

(* "Now set the connection status to True", and, some lines later, the end   *)
(* of the acquisition.                                                       *)
SetNothing ==                                       \* mutant: 'connected' is not set again
  /\ updPc = "connect"
  /\ GoesOn("complete")
  /\ UNCHANGED <<toAdapter, put, view>>
SetConnected ==
  /\ updPc = "connect"
  /\ status' = [status EXCEPT !.connected = "yes"]
  /\ GoesOn("complete")
  /\ UNCHANGED <<toAdapter, put, param, udpFile>>

SetComplete ==
  /\ updPc = "complete"
  /\ status' = [status EXCEPT !.complete = IF status.state = "idle" THEN "yes" ELSE @]
  /\ UpdateSends("config")
  /\ UNCHANGED <<toAdapter, lock, put, param, udpFile>>

ConfigReply ==
  /\ updPc = "config"
  /\ \E r \in Replies :
       /\ Returns(updMsg, r)
       /\ param' = IF r.of = <<"get", "config">> THEN update_config(param, r.config) ELSE param
  /\ EndRound
  /\ UNCHANGED <<put, status, udpFile>>

UpdateReply ==
  StatusReply \/ TimeReply \/ UdpReply \/ SetConnected \/ SetComplete \/ ConfigReply

(* get: what a client reads, under the adapter's names or ADOdin's; no other *)
(* thread is kept from writing it.  An item that is not there is an error    *)
(* (503) of the parameters and null of the status.                           *)
ADODIN_MAPPING == <<"config", "exposure_time">> :> <<"config", "exposure">>
Mapped(path) == IF path \in DOMAIN ADODIN_MAPPING THEN ADODIN_MAPPING[path] ELSE path
get(path) ==
  LET root == Head(Mapped(path))  items == Tail(Mapped(path)) IN
  CASE root = "config" /\ items \in DOMAIN param -> param[items]
    [] root = "config" /\ items \notin DOMAIN param -> "error"
    [] root = "status" /\ Len(items) = 1 /\ items[1] \in DOMAIN status /\ status[items[1]] # "unset"
                                                     -> status[items[1]]
    [] OTHER -> "null"

Put == StartAcquisition \/ PutCommand \/ PutConfig
=============================================================================
