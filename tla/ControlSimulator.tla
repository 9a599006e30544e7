-------------------------- MODULE ControlSimulator --------------------------
(***************************************************************************)
(* The simulated detector: LATRDControlSimulator (control_simulator.py) in *)
(* the loop of LATRDReactor (latrd_reactor.py), with the packet counter of *)
(* TristanEventProducer (event_simulator.py).                              *)
(*                                                                         *)
(* The reactor thread answers one request at a time.  Each arm command     *)
(* starts a thread that sleeps, resets the producer and reports "armed";   *)
(* each run command starts one that runs the producer and reports "idle"   *)
(* when all is sent.  Nothing stops a thread, or keeps two from running.   *)
(***************************************************************************)
EXTENDS ControlChannel, ParameterTree

CONSTANTS
  PacketsToSend,     (* _packets_to_send of the producer                      *)
  InitialStore       (* _store['config'] at start                             *)

ASSUME PacketAssumption == PacketsToSend \in Nat \ {0}

VARIABLES
  up,                (* the detector's process runs                           *)
  state,             (* _store['status']['state']                             *)
  store,             (* _store['config']                                      *)
  busy,              (* a run command's handler sleeps before it takes effect *)
  arming,            (* execute_arm threads in their first, and second, sleep *)
  scripts,           (* execute_script threads that wait for the end          *)
  unsent,            (* packets the sender threads still have to send         *)
  sent,              (* _sent_packets                                         *)
  disturbed          (* history: since the last arm command, acquisitions     *)
                     (* overlapped, one was not armed, or a send failed       *)

threads == <<arming, scripts, unsent, sent, disturbed>>
simulator == <<up, state, store, busy, threads>>

States == {"idle", "arming", "armed", "running"}
Stages == {"before", "after"}
None == [s \in Stages |-> 0]
Active == arming["before"] + arming["after"] + scripts > 0

SimulatorInit ==
  /\ up = TRUE
  /\ state = "idle"
  /\ store = InitialStore
  /\ busy = FALSE
  /\ arming = None
  /\ scripts = 0
  /\ unsent = 0
  /\ sent = 0
  /\ disturbed = FALSE

Request(type) == up /\ ~busy /\ toDetector # <<>> /\ Head(toDetector).type = type
Done == toDetector' = Tail(toDetector)

(* parse_get_msg.  A missing parameter raises, and the reactor drops the     *)
(* exception: nothing is answered.                                           *)
parse_get_msg ==
  LET m == Head(toDetector) IN
  /\ Request("get")
  /\ Done
  /\ IF m.op = "status" THEN Respond(ResponseMessage(m, state, <<>>))
     ELSE IF Readable(store, m.tree)
     THEN Respond(ResponseMessage(m, state, read_parameters(store, m.tree)))
     ELSE UNCHANGED toAdapter
  /\ UNCHANGED simulator

(* parse_put_msg.  A clash raises after any of the other parameters have     *)
(* been applied.                                                             *)
parse_put_msg ==
  LET m == Head(toDetector)
      clean == {p \in DOMAIN m.tree : ~Clashes(store, p)}
  IN
  /\ Request("put")
  /\ Done
  /\ \/ /\ clean = DOMAIN m.tree
        /\ store' = apply_parameters(store, m.tree)
        /\ Respond(ResponseMessage(m, state, <<>>))
     \/ /\ clean # DOMAIN m.tree
        /\ \E S \in SUBSET clean : store' = apply_parameters(store, Restrict(m.tree, S))
        /\ UNCHANGED toAdapter
  /\ UNCHANGED <<up, state, busy, threads>>

(* parse_post_msg for every command but run.                                 *)
parse_post_msg ==
  LET m == Head(toDetector) IN
  /\ Request("post") /\ m.op # "run"
  /\ Done
  /\ state' = CASE m.op = "arm" -> "arming" [] m.op = "stop" -> "idle" [] OTHER -> state
  /\ arming' = IF m.op = "arm" THEN [arming EXCEPT !["before"] = @ + 1] ELSE arming
  /\ disturbed' = IF m.op = "arm" THEN Active \/ unsent > 0 ELSE disturbed
  /\ Respond(ResponseMessage(m, state', <<>>))
  /\ UNCHANGED <<up, store, busy, scripts, unsent, sent>>

(* The run command: a second's sleep, then the state and the reply.  The     *)
(* thread of execute_script calls run, which starts the sender threads of    *)
(* the producer, before it sleeps.                                           *)
StartRun ==
  /\ Request("post") /\ Head(toDetector).op = "run"
  /\ busy' = TRUE
  /\ UNCHANGED <<channel, up, state, store, threads>>

FinishRun ==
  /\ up /\ busy
  /\ busy' = FALSE
  /\ state' = "running"
  /\ scripts' = scripts + 1
  /\ unsent' = unsent + PacketsToSend
  /\ disturbed' = (disturbed \/ Active \/ unsent > 0 \/ sent > 0)
  /\ Respond(ResponseMessage(Head(toDetector), state', <<>>))
  /\ Done
  /\ UNCHANGED <<up, store, arming, sent>>

(* execute_arm: arm resets the counter of the producer, a second later the   *)
(* detector is armed.                                                        *)
ArmProducer ==
  /\ arming["before"] > 0
  /\ arming' = [arming EXCEPT !["before"] = @ - 1, !["after"] = @ + 1]
  /\ sent' = 0
  /\ UNCHANGED <<channel, up, state, store, busy, scripts, unsent, disturbed>>

Armed ==
  /\ arming["after"] > 0
  /\ arming' = [arming EXCEPT !["after"] = @ - 1]
  /\ state' = "armed"
  /\ UNCHANGED <<channel, up, store, busy, scripts, unsent, sent, disturbed>>

(* execute_script: the loop ends when running() is false.                    *)
running == sent # PacketsToSend

ScriptEnds ==
  /\ scripts > 0 /\ ~running
  /\ scripts' = scripts - 1
  /\ state' = "idle"
  /\ UNCHANGED <<channel, up, store, busy, arming, unsent, sent, disturbed>>

(* _send_packets and increment_packets_sent; after a socket error the        *)
(* packets of the slice are neither sent nor counted.                        *)
CountedLost == sent                                 \* mutant: an increment is lost
Counted == sent + 1
SendPacket ==
  /\ unsent > 0
  /\ unsent' = unsent - 1
  /\ sent' = Counted
  /\ UNCHANGED <<channel, up, state, store, busy, arming, scripts, disturbed>>

SendError ==
  /\ unsent > 0
  /\ unsent' = unsent - 1
  /\ disturbed' = TRUE
  /\ UNCHANGED <<channel, up, state, store, busy, arming, scripts, sent>>

(* The process dies, with the requests it had received and the responses it  *)
(* had not yet transmitted, and starts again.                                *)
Crash ==
  /\ up
  /\ up' = FALSE
  /\ state' = "idle" /\ store' = InitialStore /\ busy' = FALSE
  /\ arming' = None /\ scripts' = 0 /\ unsent' = 0 /\ sent' = 0 /\ disturbed' = FALSE
  /\ \E lost \in (IF busy THEN 1 ELSE 0)..Len(toDetector) :
       toDetector' = SubSeq(toDetector, lost + 1, Len(toDetector))
  /\ \E kept \in 0..Len(toAdapter) : toAdapter' = SubSeq(toAdapter, 1, kept)

Restart ==
  /\ ~up
  /\ up' = TRUE
  /\ UNCHANGED <<channel, state, store, busy, threads>>
=============================================================================
