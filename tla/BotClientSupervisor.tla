------------------------- MODULE BotClientSupervisor -------------------------
(***************************************************************************)
(* BotClientSupervisor (bot_client/connection/supervisor.py): its run task *)
(* makes a BotClient, connects, logs in, waits until it is disconnected,   *)
(* closes it and tries again; stop() ends that from another task.  Without *)
(* the retry this is also how the bot runtimes use their one client.       *)
(***************************************************************************)
EXTENDS BotClient

Init ==
  /\ writer = FALSE /\ state = "disconnected" /\ identity = FALSE
  /\ closing = FALSE /\ disconnected = TRUE
  /\ seqId = 1 /\ pending = {}
  /\ heartbeatTask = FALSE /\ receiveTask = FALSE
  /\ stopEvent = FALSE
  /\ at = [t \in Task |-> IF t \in User \cup {"stop"} THEN "idle" ELSE "off"]
  /\ cancelled = {}
  /\ seqOf = [t \in Task |-> 0]
  /\ future = [t \in Task |-> "none"]
  /\ line = "none" /\ wire = {} /\ inbox = <<>>
  /\ requests = 0
  /\ number = [t \in Task |-> 0]
  /\ answers = [t \in Task |-> 0]
  /\ faults = 0

-----------------------------------------------------------------------------
(* _run *)

(* A new BotClient starts to connect.  The old one's tasks are through: a  *)
(* lost connection wakes whoever waits for its end before the event, which *)
(* they set, wakes the run task.                                           *)
Connect ==
  /\ at["run"] \in {"off", "sleep"} /\ "run" \notin cancelled /\ ~stopEvent
  /\ ~Alive("receive") /\ ~Alive("heartbeat")
  /\ writer' = FALSE /\ state' = "connecting" /\ identity' = FALSE
  /\ closing' = FALSE /\ disconnected' = FALSE
  /\ seqId' = 1 /\ pending' = {}
  /\ heartbeatTask' = FALSE /\ receiveTask' = FALSE
  /\ requests' = 0
  /\ line' = "none" /\ wire' = {} /\ inbox' = <<>>
  /\ Goto("run", "connect")
  /\ UNCHANGED <<cancelled, seqOf, number, future, answers, faults, stopEvent>>

(* Connected; login sends its request before anything else runs. *)
Connected ==
  /\ at["run"] = "connect" /\ "run" \notin cancelled
  /\ writer' = TRUE /\ line' = "up"
  /\ receiveTask' = TRUE
  /\ state' = "connected"
  /\ Send("run")
  /\ wire' = {Sent("run")}
  /\ at' = [at EXCEPT !["run"] = "wait", !["receive"] = "read"]
  /\ UNCHANGED <<identity, closing, disconnected, heartbeatTask, cancelled, inbox,
                 faults, stopEvent>>

ConnectFails ==
  /\ at["run"] = "connect" /\ "run" \notin cancelled
  /\ faults < MaxFaults /\ faults' = faults + 1
  /\ Close("run")
  /\ UNCHANGED stopEvent

Login ==
  /\ LoginReturns
  /\ UNCHANGED stopEvent

LoginFails ==
  /\ Raises("run")
  /\ Close("run")
  /\ UNCHANGED stopEvent

WatchEnds ==
  /\ at["run"] = "watch" /\ "run" \notin cancelled /\ disconnected
  /\ Close("run")
  /\ UNCHANGED <<faults, stopEvent>>

(* Out of the retry delay, or of a cancellation while there is no client.  *)
RunEnds ==
  /\ \/ at["run"] = "sleep" /\ (stopEvent \/ "run" \in cancelled)
     \/ at["run"] = "off" /\ "run" \in cancelled
  /\ Goto("run", "done") /\ Cancel("run", {})
  /\ UNCHANGED <<attributes, callVars, future, answers, lineVars, faults, stopEvent>>

RunCancelled ==
  /\ at["run"] \in {"connect", "wait", "watch"} /\ "run" \in cancelled
  /\ Close("run")
  /\ UNCHANGED <<faults, stopEvent>>

-----------------------------------------------------------------------------
(* Mutant: stop() only sets its event.                                     *)
StopUnclosed ==
  /\ at["stop"] = "idle"
  /\ stopEvent' = TRUE
  /\ Cancel("stop", {}) /\ Goto("stop", "join")
  /\ UNCHANGED <<attributes, callVars, future, answers, lineVars, faults>>

(* stop, up to the wait for close or for the run task. *)
Stop ==
  /\ at["stop"] = "idle"
  /\ stopEvent' = TRUE
  /\ \/ /\ at["run"] = "off"
        /\ Cancel("stop", {"run"}) /\ Goto("stop", "join")
        /\ UNCHANGED <<attributes, callVars, future, answers, lineVars>>
     \/ at["run"] # "off" /\ Close("stop")
  /\ UNCHANGED faults

StopReturns ==
  /\ at["stop"] = "join" /\ at["run"] = "done"
  /\ Goto("stop", "done")
  /\ UNCHANGED <<attributes, stopEvent, cancelled, callVars, future, answers, lineVars,
                 faults>>

-----------------------------------------------------------------------------
CloseGoesOn(t) == CloseHeartbeatEnded(t) \/ CloseClosed(t) \/ CloseReceiveEnded(t)

RunStep ==
  \/ Connect \/ Connected \/ ConnectFails \/ Login \/ LoginFails \/ WatchEnds
  \/ RunEnds \/ RunCancelled \/ CloseGoesOn("run")

StopStep == StopReturns \/ CloseGoesOn("stop")

ReceiveStep ==
  /\ ReceivePacket \/ ReceiveEnds \/ ReceiveFails \/ ReceiveCancelled
       \/ MarkHeartbeatEnded \/ MarkClosed("receive")
  /\ UNCHANGED stopEvent

HeartbeatStep ==
  /\ HeartbeatSends \/ HeartbeatReturns \/ HeartbeatRaises \/ HeartbeatCancelled
       \/ MarkClosed("heartbeat")
  /\ UNCHANGED stopEvent

Environment ==
  /\ LineFault \/ (\E r \in wire : \E ok \in BOOLEAN : Answer(r, ok))
       \/ (\E u \in User : UserRequest(u))
  /\ UNCHANGED stopEvent

Next ==
  \/ RunStep \/ Stop \/ StopStep \/ ReceiveStep \/ HeartbeatStep \/ Environment
  \/ \E u \in User : UserReturns(u) /\ UNCHANGED stopEvent

Spec == Init /\ [][Next]_clientVars

(* The event loop runs each task that can go on, and timers expire.        *)
Fairness ==
  /\ WF_clientVars(RunStep) /\ WF_clientVars(StopStep)
  /\ WF_clientVars(ReceiveStep) /\ WF_clientVars(HeartbeatStep)
  /\ \A u \in User : WF_clientVars(UserReturns(u) /\ UNCHANGED stopEvent)

(* The server answers each request it gets, in the end, if the line holds. *)
ServerFairness == WF_clientVars((\E r \in wire : Answer(r, TRUE)) /\ UNCHANGED stopEvent)

FairSpec == Spec /\ Fairness /\ ServerFairness
=============================================================================
