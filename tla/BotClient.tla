------------------------------ MODULE BotClient ------------------------------
(***************************************************************************)
(* One BotClient (bot_client/connection/client.py) and the tasks that use  *)
(* it: the receive loop, the heartbeat loop, the task that connects, logs  *)
(* in and closes, and others that make requests.                           *)
(*                                                                         *)
(* asyncio switches tasks at an await only, so an action runs a task from  *)
(* one await that really waits to the next.  A cancelled task gets the     *)
(* CancelledError when it runs next.  Pushes carry the sequence id 0 and   *)
(* go to push_queue, which BotRuntime models; bodies are left out.         *)
(***************************************************************************)
EXTENDS Naturals, Sequences, FiniteSets

CONSTANTS
  User,         \* tasks that make requests other than login and heartbeat
  MaxRequests,  \* bound: requests on one connection while the server answers
  MaxFaults     \* bound: failures of the line, the server, or in time

ASSUME ClientAssumption ==
  /\ User \cap {"run", "heartbeat", "receive", "stop"} = {}
  /\ MaxRequests \in Nat /\ MaxFaults \in Nat

Requester == User \cup {"run", "heartbeat"}
Task      == Requester \cup {"receive", "stop"}

VARIABLES
  \* attributes of the BotClient
  writer,         \* _writer is there
  state,          \* BotClientState
  identity,       \* _identity is there
  closing,        \* _closing
  disconnected,   \* _disconnected_event is set
  seqId,          \* _seq_id
  pending,        \* tasks whose request is in _pending
  heartbeatTask,  \* _heartbeat_task is there
  receiveTask,    \* _receive_task is there
  stopEvent,      \* _stop_event of the supervisor is set
  \* the tasks
  at,             \* the await at which a task stands
  cancelled,      \* tasks cancelled and not run since
  seqOf,          \* sequence id of a task's request
  future,         \* what became of it
  \* the connection
  line,           \* "up", "silent" (no answers), "eof", "reset", or "none"
  wire,           \* requests under way to the server
  inbox,          \* responses not read yet
  \* history and bounds
  requests,       \* requests made with this client
  number,         \* which of them a task's request is
  answers,        \* which of them the response a task got belongs to
  faults

attributes == <<writer, state, identity, closing, disconnected, seqId, pending,
                heartbeatTask, receiveTask>>
callVars == <<seqOf, requests, number>>
lineVars == <<line, wire, inbox>>
clientVars == <<attributes, stopEvent, at, cancelled, callVars, future, answers, lineVars, faults>>

State == {"disconnected", "connecting", "connected", "logged_in", "closing"}
Step  == {"off", "idle", "connect", "wait", "watch", "sleep", "read",
          "mark_heartbeat", "mark_closed",
          "close_heartbeat", "close_closed", "close_receive", "join", "done"}
Type(t) == IF t \in User THEN "request" ELSE t

AttributesTypeOK ==
  /\ writer \in BOOLEAN /\ identity \in BOOLEAN
  /\ closing \in BOOLEAN /\ disconnected \in BOOLEAN
  /\ heartbeatTask \in BOOLEAN /\ receiveTask \in BOOLEAN
  /\ stopEvent \in BOOLEAN
  /\ state \in State
  /\ seqId \in Nat
  /\ requests \in Nat
  /\ faults \in Nat

TasksTypeOK ==
  /\ at \in [Task -> Step]
  /\ cancelled \subseteq Task
  /\ pending \subseteq Requester
  /\ future \in [Task -> {"none", "waiting", "failed", "error", "response"}]
  /\ seqOf \in [Task -> Nat] /\ number \in [Task -> Nat] /\ answers \in [Task -> Nat]

Response == [by : Requester, seq : Nat, number : Nat, ok : BOOLEAN]

LineTypeOK ==
  /\ line \in {"none", "up", "silent", "eof", "reset"}
  /\ wire \subseteq [by : Requester, seq : Nat, number : Nat]
  /\ inbox \in Seq(Response)

ClientTypeOK == AttributesTypeOK /\ TasksTypeOK /\ LineTypeOK

-----------------------------------------------------------------------------
Alive(t) == at[t] # "off"

Goto(t, step) == at' = [at EXCEPT ![t] = step]

(* t takes its own cancellation notice, if it had one, and cancels ts. *)
Cancel(t, ts) == cancelled' = (cancelled \ {t}) \cup ts

CanSend == writer /\ line # "reset"

(* Mutant: every request has the same id.                                  *)
NextSeqIdStuck == seqId' = seqId
(* _next_seq_id *)
NextSeqId == seqId' = seqId + 1

(* request, up to the wait for its future. *)
Send(t) ==
  /\ NextSeqId
  /\ requests' = requests + 1
  /\ seqOf' = [seqOf EXCEPT ![t] = seqId]
  /\ number' = [number EXCEPT ![t] = requests + 1]
  /\ pending' = {u \in pending : seqOf[u] # seqId} \cup {t}
  /\ future' = [future EXCEPT ![t] = "waiting"]
  /\ answers' = [answers EXCEPT ![t] = 0]

Sent(t) == [by |-> t, seq |-> seqId, number |-> requests + 1]

(* Mutant: the entry stays in the table.                                   *)
DropPendingNot(t) ==
  /\ pending' = pending
  /\ future' = [future EXCEPT ![t] = "none"]
(* The task is through with its request, if it had one: _drop_pending.     *)
DropPending(t) ==
  /\ pending' = pending \ {t}
  /\ future' = [future EXCEPT ![t] = "none"]

(* _fail_pending, run by t. *)
FailPending(t) ==
  /\ pending' = {}
  /\ future' = [u \in Task |-> IF u = t THEN "none"
                               ELSE IF u \in pending THEN "failed" ELSE future[u]]

(* _close_transport, up to wait_closed; what was received can still be read. *)
CloseTransport ==
  /\ writer /\ writer' = FALSE
  /\ line' = IF line = "reset" THEN "reset" ELSE "eof"
  /\ wire' = {}
  /\ UNCHANGED inbox

-----------------------------------------------------------------------------
(* _mark_disconnected, run by the receive loop or the heartbeat loop *)

MarkEnd(t) ==
  /\ disconnected' = TRUE
  /\ Goto(t, "off")

MarkTransport(t) ==
  \/ CloseTransport /\ Goto(t, "mark_closed") /\ UNCHANGED disconnected
  \/ ~writer /\ MarkEnd(t) /\ UNCHANGED <<writer, lineVars>>

(* Mutant: whoever waits goes on waiting.                                  *)
MarkFailNobody(t) ==
  /\ DropPending(t)
  /\ MarkTransport(t)
  /\ Cancel(t, {})
MarkFail(t) ==
  /\ FailPending(t)
  /\ MarkTransport(t)
  /\ Cancel(t, {})

MarkDisconnected(t, failed) ==
  /\ identity' = FALSE
  /\ state' = "disconnected"
  /\ heartbeatTask' = FALSE
  /\ \/ /\ heartbeatTask /\ Alive("heartbeat") /\ t # "heartbeat"
        /\ IF failed THEN FailPending(t) ELSE DropPending(t)
        /\ Cancel(t, {"heartbeat"})
        /\ Goto(t, "mark_heartbeat")
        /\ UNCHANGED <<writer, disconnected, lineVars>>
     \/ /\ ~(heartbeatTask /\ Alive("heartbeat") /\ t # "heartbeat")
        /\ MarkFail(t)
  /\ UNCHANGED <<closing, seqId, receiveTask>>

MarkHeartbeatEnded ==
  /\ at["receive"] = "mark_heartbeat" /\ ~Alive("heartbeat")
  /\ MarkFail("receive")
  /\ UNCHANGED <<state, identity, closing, seqId, heartbeatTask, receiveTask, callVars,
                 answers, faults>>

(* Mutant: the event is not set.                                           *)
MarkClosedSilently(t) ==
  /\ at[t] = "mark_closed"
  /\ Goto(t, "off")
  /\ UNCHANGED disconnected
  /\ Cancel(t, {})
  /\ UNCHANGED <<writer, state, identity, closing, seqId, pending, heartbeatTask,
                 receiveTask, callVars, future, answers, lineVars, faults>>
MarkClosed(t) ==
  /\ at[t] = "mark_closed"
  /\ \/ t \notin cancelled /\ MarkEnd(t)
     \/ t \in cancelled /\ Goto(t, "off") /\ UNCHANGED disconnected
  /\ Cancel(t, {})
  /\ UNCHANGED <<writer, state, identity, closing, seqId, pending, heartbeatTask,
                 receiveTask, callVars, future, answers, lineVars, faults>>

-----------------------------------------------------------------------------
(* _receive_loop and _dispatch_packet *)

(* A response whose request is gone is dropped. *)
Dispatch(p) ==
  LET waiting == {t \in pending : seqOf[t] = p.seq}
  IN /\ pending' = pending \ waiting
     /\ future' = [t \in Task |->
                     IF t \notin waiting THEN future[t]
                     ELSE IF p.ok /\ Type(p.by) = Type(t) THEN "response" ELSE "error"]
     /\ answers' = [t \in Task |-> IF t \in waiting THEN p.number ELSE answers[t]]

Receiving == at["receive"] = "read" /\ "receive" \notin cancelled

ReceivePacket ==
  /\ Receiving /\ inbox # <<>> /\ line # "reset"
  /\ Dispatch(Head(inbox))
  /\ inbox' = Tail(inbox)
  /\ Goto("receive", IF closing THEN "off" ELSE "read")
  /\ UNCHANGED <<writer, state, identity, closing, disconnected, seqId, heartbeatTask,
                 receiveTask, cancelled, callVars, line, wire, faults>>

ReceiveEnds ==
  /\ Receiving /\ inbox = <<>> /\ line = "eof"
  /\ \/ ~closing /\ MarkDisconnected("receive", FALSE)
     \/ /\ closing /\ Goto("receive", "off")
        /\ UNCHANGED <<attributes, cancelled, future, lineVars>>
  /\ UNCHANGED <<callVars, answers, faults>>

(* read raises, or the bytes are no packets: earlier ones are lost as well. *)
ReceiveFails ==
  /\ Receiving
  /\ \/ line = "reset" /\ UNCHANGED faults
     \/ line = "up" /\ faults < MaxFaults /\ faults' = faults + 1
  /\ \/ ~closing /\ MarkDisconnected("receive", TRUE)
     \/ /\ closing /\ Goto("receive", "off")
        /\ FailPending("receive")
        /\ UNCHANGED <<writer, state, identity, closing, disconnected, seqId,
                       heartbeatTask, receiveTask, cancelled, lineVars>>
  /\ UNCHANGED <<callVars, answers>>

(* Only close cancels the receive loop, so that it marks nothing. *)
ReceiveCancelled ==
  /\ at["receive"] = "read" /\ "receive" \in cancelled
  /\ Cancel("receive", {}) /\ Goto("receive", "off")
  /\ UNCHANGED <<attributes, callVars, future, answers, lineVars, faults>>

-----------------------------------------------------------------------------
(* What a waiting request comes to *)

Waits(t) == at[t] = "wait" /\ t \notin cancelled

(* The time is over while the server is slow, silent, or gone. *)
TimedOut(t) ==
  \/ line # "up" /\ UNCHANGED faults
  \/ line = "up" /\ faults < MaxFaults /\ faults' = faults + 1

Answered(t) == Waits(t) /\ future[t] = "response" /\ UNCHANGED faults

Raises(t) ==
  /\ Waits(t)
  /\ \/ future[t] \in {"failed", "error"} /\ UNCHANGED faults
     \/ TimedOut(t)

(* Mutant: no BotClientState.                                              *)
LoginReturnsOnline ==
  /\ Answered("run")
  /\ identity' = TRUE /\ state' = "online"
  /\ at' = [at EXCEPT !["run"] = "watch"]
  /\ DropPending("run")
  /\ UNCHANGED <<writer, closing, disconnected, seqId, receiveTask, cancelled,
                 heartbeatTask, callVars, answers, lineVars>>
(* login, once its response is there; _start_heartbeat. *)
LoginReturns ==
  /\ Answered("run")
  /\ identity' = TRUE /\ state' = "logged_in"
  /\ heartbeatTask' = TRUE
  /\ at' = [at EXCEPT !["run"] = "watch", !["heartbeat"] = "sleep"]
  /\ DropPending("run")
  /\ UNCHANGED <<writer, closing, disconnected, seqId, receiveTask, cancelled,
                 callVars, answers, lineVars>>

-----------------------------------------------------------------------------
(* close, run by t: on its way it waits for the heartbeat, for the         *)
(* transport and for the receive loop, where there are any.                *)

CloseStep == {"close_heartbeat", "close_closed", "close_receive"}

StillClosing(t) ==
  /\ state' = IF at[t] \in CloseStep THEN state ELSE "closing"
  /\ DropPending(t)
  /\ UNCHANGED <<identity, disconnected>>

(* After it, supervisor.stop cancels the run task, and that goes on.       *)
CloseReturns(t) ==
  /\ FailPending(t)
  /\ identity' = FALSE
  /\ state' = "disconnected"
  /\ disconnected' = TRUE
  /\ \/ t = "stop" /\ Cancel(t, {"run"} \ {u \in Task : at[u] = "done"}) /\ Goto(t, "join")
     \/ t = "run" /\ Cancel(t, {}) /\ Goto(t, IF stopEvent THEN "done" ELSE "sleep")

(* Mutant: the receive loop is left to itself.                             *)
CloseReceiveUncancelled(t) ==
  /\ receiveTask' = FALSE
  /\ CloseReturns(t)
CloseReceive(t) ==
  /\ receiveTask' = FALSE
  /\ \/ /\ receiveTask /\ Alive("receive")
        /\ Cancel(t, {"receive"}) /\ Goto(t, "close_receive")
        /\ StillClosing(t)
     \/ ~(receiveTask /\ Alive("receive")) /\ CloseReturns(t)

CloseConnection(t) ==
  \/ /\ CloseTransport
     /\ Cancel(t, {}) /\ Goto(t, "close_closed")
     /\ StillClosing(t)
     /\ UNCHANGED receiveTask
  \/ /\ ~writer /\ CloseReceive(t)
     /\ UNCHANGED <<writer, lineVars>>

Close(t) ==
  /\ closing' = TRUE
  /\ heartbeatTask' = FALSE
  /\ \/ /\ heartbeatTask /\ Alive("heartbeat")
        /\ Cancel(t, {"heartbeat"}) /\ Goto(t, "close_heartbeat")
        /\ StillClosing(t)
        /\ UNCHANGED <<writer, receiveTask, lineVars>>
     \/ ~(heartbeatTask /\ Alive("heartbeat")) /\ CloseConnection(t)
  /\ UNCHANGED <<seqId, callVars, answers>>

(* A cancellation that arrives while close waits for one of the tasks is   *)
(* suppressed with theirs; one that arrives at wait_closed ends close.     *)
CloseHeartbeatEnded(t) ==
  /\ at[t] = "close_heartbeat" /\ ~Alive("heartbeat")
  /\ CloseConnection(t)
  /\ UNCHANGED <<closing, heartbeatTask, seqId, callVars, answers, faults, stopEvent>>

CloseClosed(t) ==
  /\ at[t] = "close_closed"
  /\ \/ t \notin cancelled /\ CloseReceive(t)
     \/ /\ t \in cancelled
        /\ Goto(t, "done") /\ Cancel(t, {})
        /\ UNCHANGED <<receiveTask, pending, future, identity, state, disconnected>>
  /\ UNCHANGED <<writer, lineVars, closing, heartbeatTask, seqId, callVars, answers,
                 faults, stopEvent>>

CloseReceiveEnded(t) ==
  /\ at[t] = "close_receive" /\ ~Alive("receive")
  /\ CloseReturns(t)
  /\ UNCHANGED <<receiveTask, writer, lineVars, closing, heartbeatTask, seqId, callVars,
                 answers, faults, stopEvent>>

-----------------------------------------------------------------------------
(* _heartbeat_loop *)

HeartbeatOff ==
  /\ Goto("heartbeat", "off") /\ Cancel("heartbeat", {})
  /\ DropPending("heartbeat")
  /\ UNCHANGED <<writer, state, identity, closing, disconnected, seqId, heartbeatTask,
                 receiveTask, lineVars>>

(* Without identity or connection the loop sleeps again.  One that starts  *)
(* while the client closes ends at once.                                   *)
HeartbeatSends ==
  /\ at["heartbeat"] = "sleep" /\ "heartbeat" \notin cancelled
  /\ \/ /\ ~closing /\ identity /\ CanSend
        /\ requests < MaxRequests \/ line # "up"
        /\ Send("heartbeat")
        /\ wire' = IF line = "up" THEN wire \cup {Sent("heartbeat")} ELSE wire
        /\ Goto("heartbeat", "wait")
        /\ UNCHANGED <<writer, state, identity, closing, disconnected, heartbeatTask,
                       receiveTask, cancelled, line, inbox>>
     \/ closing /\ HeartbeatOff /\ UNCHANGED <<callVars, answers>>
  /\ UNCHANGED faults

HeartbeatReturns ==
  /\ Answered("heartbeat")
  /\ IF closing THEN Goto("heartbeat", "off") ELSE Goto("heartbeat", "sleep")
  /\ DropPending("heartbeat")
  /\ UNCHANGED <<writer, state, identity, closing, disconnected, seqId, heartbeatTask,
                 receiveTask, cancelled, callVars, answers, lineVars>>

(* Mutant: a heartbeat that fails ends the loop, and the client is kept.   *)
HeartbeatRaisesIgnored ==
  /\ Raises("heartbeat")
  /\ Goto("heartbeat", "off")
  /\ DropPending("heartbeat")
  /\ UNCHANGED <<writer, state, identity, closing, disconnected, seqId, heartbeatTask,
                 receiveTask, cancelled, callVars, answers, lineVars>>
HeartbeatRaises ==
  /\ Raises("heartbeat")
  /\ \/ ~closing /\ MarkDisconnected("heartbeat", FALSE)
     \/ closing /\ HeartbeatOff
  /\ UNCHANGED <<callVars, answers>>

HeartbeatCancelled ==
  /\ at["heartbeat"] \in {"sleep", "wait"} /\ "heartbeat" \in cancelled
  /\ HeartbeatOff
  /\ UNCHANGED <<callVars, answers, faults>>

-----------------------------------------------------------------------------
(* Requests of other tasks *)

UserRequest(u) ==
  /\ at[u] = "idle" /\ CanSend /\ requests < MaxRequests
  /\ Send(u)
  /\ wire' = IF line = "up" THEN wire \cup {Sent(u)} ELSE wire
  /\ Goto(u, "wait")
  /\ UNCHANGED <<writer, state, identity, closing, disconnected, heartbeatTask,
                 receiveTask, cancelled, line, inbox, faults>>

UserReturns(u) ==
  /\ Answered(u) \/ Raises(u)
  /\ DropPending(u)
  /\ Goto(u, "idle")
  /\ UNCHANGED <<writer, state, identity, closing, disconnected, seqId, heartbeatTask,
                 receiveTask, cancelled, callVars, answers, lineVars>>

-----------------------------------------------------------------------------
(* The server and the line *)

Answer(r, ok) ==
  /\ r \in wire /\ line = "up"
  /\ ok \/ faults < MaxFaults
  /\ faults' = IF ok THEN faults ELSE faults + 1
  /\ wire' = wire \ {r}
  /\ inbox' = Append(inbox, [by |-> r.by, seq |-> r.seq, number |-> r.number, ok |-> ok])
  /\ UNCHANGED <<attributes, at, cancelled, callVars, future, answers, line>>

LineFault ==
  /\ line = "up" /\ writer /\ faults < MaxFaults
  /\ faults' = faults + 1
  /\ line' \in {"silent", "eof", "reset"}
  /\ wire' = {}
  /\ UNCHANGED <<attributes, at, cancelled, callVars, future, answers, inbox>>
=============================================================================
