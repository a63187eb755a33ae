--------------------------- MODULE BotClientProps ---------------------------
(***************************************************************************)
(* What requests, tasks and connections of a BotClient owe one another.    *)
(***************************************************************************)
EXTENDS BotClientSupervisor

TypeOK == ClientTypeOK

(* A request only ever returns the response to itself, however late other  *)
(* requests are answered that timed out before it (client.py, request).    *)
OwnResponseOnly ==
  \A t \in Requester : future[t] = "response" => answers[t] = number[t]

(* The table of pending requests names tasks that still wait, and whoever  *)
(* waits undecided is in the table: no entry is left behind by a timeout,  *)
(* a cancellation or a lost connection, and no waiter is forgotten.        *)
PendingIsAwaited ==
  /\ \A t \in pending : at[t] = "wait" /\ future[t] = "waiting"
  /\ \A t \in Requester : future[t] = "waiting" => t \in pending

(* Once the disconnected event is set, nobody waits for a response any     *)
(* more (client.py, _mark_disconnected and close).                         *)
NobodyWaitsDisconnected == disconnected => pending = {}

(* After stop() there is no connection and no login left, wherever stop()  *)
(* met the run task, and no task but a heartbeat loop that waits for the   *)
(* end of the transport it closed itself (supervisor.py, stop).            *)
StoppedIsQuiet ==
  at["stop"] = "done" =>
    /\ ~writer /\ ~identity /\ pending = {}
    /\ ~Alive("receive") /\ at["heartbeat"] \in {"off", "mark_closed"}

(* Two tasks never wait for one another to end: stop() always returns.     *)
StopTerminates == stopEvent ~> at["stop"] = "done"

(* A server that has gone silent costs the bot the connection some day, be *)
(* it by the login's timeout or by a heartbeat's (_heartbeat_loop).        *)
SilentServerIsNoticed == (writer /\ line = "silent") ~> ~writer

(* Once the failures are over, the supervisor is logged in again, unless   *)
(* it is stopped (supervisor.py, _run).                                    *)
LoggedInAgain == []<>((identity /\ writer /\ line = "up") \/ stopEvent)

-----------------------------------------------------------------------------
(* The inductive invariant of the safety properties, in named parts.       *)

(* Where each task can stand. *)
PlaceInv ==
  /\ at["receive"] \in {"off", "read", "mark_heartbeat", "mark_closed"}
  /\ at["heartbeat"] \in {"off", "sleep", "wait", "mark_closed"}
  /\ at["run"] \in {"off", "connect", "wait", "watch", "sleep", "done"} \cup CloseStep
  /\ at["stop"] \in {"idle", "join", "done"} \cup CloseStep
  /\ \A u \in User : at[u] \in {"idle", "wait"}

(* A new client is only made when the tasks of the old one are through,    *)
(* and not after stop().                                                   *)
ConnectInv ==
  /\ at["run"] \in {"off", "sleep"} => disconnected
  /\ at["run"] = "connect" => ~Alive("receive") /\ ~writer /\ pending = {}
  /\ at["run"] \in {"connect", "wait"} => ~Alive("heartbeat")
  /\ at["stop"] # "idle" => stopEvent
  /\ (at["run"] = "connect" /\ "run" \notin cancelled) => ~stopEvent /\ ~disconnected

(* Whoever sets the event has seen to the connection and the waiters.      *)
EventInv ==
  /\ disconnected => ~writer /\ pending = {}
  /\ \A t \in {"receive", "heartbeat"} :
       at[t] = "mark_closed" => ~writer /\ pending = {}
  /\ \A t \in {"run", "stop"} :
       at[t] \in {"close_closed", "close_receive"} => ~writer

(* The sequence id of a request, of what is on the wire for it and of its  *)
(* response is its number on this connection.                              *)
SequenceInv ==
  /\ seqId = requests + 1
  /\ \A t \in pending : seqOf[t] = number[t] /\ number[t] < seqId
  /\ \A r \in wire : r.seq = r.number
  /\ \A i \in DOMAIN inbox : inbox[i].seq = inbox[i].number

(* Who sees to it that a task whose end nobody has asked for ends, and     *)
(* what there is no more of once stop() has closed the client.             *)
QuietInv ==
  /\ "stop" \notin cancelled
  /\ heartbeatTask => at["run"] = "watch"
  /\ Alive("receive") /\ ~receiveTask => "close_receive" \in {at["run"], at["stop"]}
  /\ at["heartbeat"] \in {"sleep", "wait"} /\ ~heartbeatTask =>
       \/ "close_heartbeat" \in {at["run"], at["stop"]}
       \/ at["receive"] = "mark_heartbeat"
  /\ at["run"] = "off" => ~identity /\ ~Alive("receive")
  /\ at["stop"] \in {"join", "done"} =>
       /\ ~writer /\ ~identity /\ pending = {}
       /\ Alive("receive") => at["run"] = "close_receive"
       /\ at["run"] \in {"off", "connect", "wait", "watch"} => "run" \in cancelled
  /\ at["stop"] = "done" => at["run"] = "done"

IInv == /\ TypeOK /\ PlaceInv /\ ConnectInv /\ EventInv /\ SequenceInv
        /\ PendingIsAwaited /\ OwnResponseOnly /\ QuietInv
=============================================================================
