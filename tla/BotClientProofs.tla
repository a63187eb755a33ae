--------------------------- MODULE BotClientProofs ---------------------------
(* Proofs about the BotClient under its supervisor, for any users. *)
EXTENDS BotClientProps, TLAPS

USE ClientAssumption

LEMMA HeadTail ==
  ASSUME NEW S, NEW s \in Seq(S), s # <<>>
  PROVE  /\ Head(s) \in S /\ Head(s) = s[1] /\ 1 \in DOMAIN s
         /\ Tail(s) \in Seq(S)
         /\ \A i \in DOMAIN Tail(s) : i + 1 \in DOMAIN s /\ Tail(s)[i] = s[i + 1]
OBVIOUS

LEMMA InitIInv == Init => IInv
<1> SUFFICES ASSUME Init PROVE IInv OBVIOUS
<1> USE DEF Init, Requester, Task
<1>1. AttributesTypeOK BY DEF AttributesTypeOK, State
<1>2. TasksTypeOK BY DEF TasksTypeOK, Step
<1>3. LineTypeOK BY DEF LineTypeOK
<1>4. PlaceInv BY DEF PlaceInv
<1>5. ConnectInv /\ EventInv BY DEF ConnectInv, EventInv, Alive
<1>6. SequenceInv BY DEF SequenceInv
<1>7. PendingIsAwaited /\ OwnResponseOnly BY DEF PendingIsAwaited, OwnResponseOnly
<1>8. QuietInv BY DEF QuietInv, Alive
<1>9. QED
  BY <1>1, <1>2, <1>3, <1>4, <1>5, <1>6, <1>7, <1>8 DEF IInv, TypeOK, ClientTypeOK

LEMMA PlaceStep == (TypeOK /\ PlaceInv) /\ [Next]_clientVars => PlaceInv'
<1> SUFFICES ASSUME (TypeOK /\ PlaceInv), [Next]_clientVars PROVE PlaceInv'
  OBVIOUS
<1> USE DEF Requester, Task, Goto, Cancel, Alive, attributes, callVars, lineVars,
    PlaceInv, CloseStep, TypeOK, ClientTypeOK, AttributesTypeOK, TasksTypeOK
<1>1. CASE Connect
  BY <1>1 DEF Connect
<1>2. CASE Connected
  BY <1>2 DEF Connected, Send, NextSeqId, Sent
<1>3. CASE ConnectFails
  BY <1>3 DEF ConnectFails, Close, CloseConnection, CloseTransport, CloseReceive,
      CloseReturns, StillClosing, FailPending, DropPending
<1>4. CASE Login
  BY <1>4 DEF Login, LoginReturns, Answered, Waits, DropPending
<1>5. CASE LoginFails
  BY <1>5 DEF LoginFails, Raises, TimedOut, Waits, Close, CloseConnection,
      CloseTransport, CloseReceive, CloseReturns, StillClosing, FailPending, DropPending
<1>6. CASE WatchEnds
  <2>1. at["run"] = "watch" /\ Close("run") /\ UNCHANGED <<faults, stopEvent>>
    BY <1>6 DEF WatchEnds
  <2>2. QED BY <2>1 DEF Close, CloseConnection, CloseTransport, CloseReceive,
      CloseReturns, StillClosing, FailPending, DropPending
<1>7. CASE RunEnds
  BY <1>7 DEF RunEnds
<1>8. CASE RunCancelled
  BY <1>8 DEF RunCancelled, Close, CloseConnection, CloseTransport, CloseReceive,
      CloseReturns, StillClosing, FailPending, DropPending
<1>9. ASSUME NEW t \in {"run", "stop"}, CloseHeartbeatEnded(t) PROVE PlaceInv'
  BY <1>9 DEF CloseHeartbeatEnded, CloseConnection, CloseTransport, CloseReceive,
      CloseReturns, StillClosing, FailPending, DropPending
<1>10. ASSUME NEW t \in {"run", "stop"}, CloseClosed(t) PROVE PlaceInv'
  BY <1>10 DEF CloseClosed, CloseReceive, CloseReturns, StillClosing, FailPending,
      DropPending
<1>11. ASSUME NEW t \in {"run", "stop"}, CloseReceiveEnded(t) PROVE PlaceInv'
  BY <1>11 DEF CloseReceiveEnded, CloseReturns, FailPending
<1>12. CASE Stop
  BY <1>12 DEF Stop, Close, CloseConnection, CloseTransport, CloseReceive, CloseReturns,
      StillClosing, FailPending, DropPending
<1>13. CASE StopReturns
  BY <1>13 DEF StopReturns
<1>14. ASSUME ReceivePacket, UNCHANGED stopEvent PROVE PlaceInv'
  BY <1>14 DEF ReceivePacket, Receiving, Dispatch, Type
<1>15. ASSUME ReceiveEnds, UNCHANGED stopEvent PROVE PlaceInv'
  BY <1>15 DEF ReceiveEnds, Receiving, MarkDisconnected, MarkFail, MarkTransport,
      MarkEnd, CloseTransport, FailPending, DropPending
<1>16. ASSUME ReceiveFails, UNCHANGED stopEvent PROVE PlaceInv'
  BY <1>16 DEF ReceiveFails, Receiving, MarkDisconnected, MarkFail, MarkTransport,
      MarkEnd, CloseTransport, FailPending, DropPending
<1>17. ASSUME ReceiveCancelled, UNCHANGED stopEvent PROVE PlaceInv'
  BY <1>17 DEF ReceiveCancelled
<1>18. ASSUME MarkHeartbeatEnded, UNCHANGED stopEvent PROVE PlaceInv'
  BY <1>18 DEF MarkHeartbeatEnded, MarkFail, MarkTransport, MarkEnd, CloseTransport,
      FailPending
<1>19. ASSUME NEW t \in {"receive", "heartbeat"}, MarkClosed(t), UNCHANGED stopEvent
    PROVE PlaceInv'
  BY <1>19 DEF MarkClosed, MarkEnd
<1>20. ASSUME HeartbeatSends, UNCHANGED stopEvent PROVE PlaceInv'
  BY <1>20 DEF HeartbeatSends, CanSend, Send, NextSeqId, Sent, HeartbeatOff, DropPending
<1>21. ASSUME HeartbeatReturns, UNCHANGED stopEvent PROVE PlaceInv'
  BY <1>21 DEF HeartbeatReturns, Answered, Waits, DropPending
<1>22. ASSUME HeartbeatRaises, UNCHANGED stopEvent PROVE PlaceInv'
  BY <1>22 DEF HeartbeatRaises, Raises, TimedOut, Waits, HeartbeatOff, MarkDisconnected,
      MarkFail, MarkTransport, MarkEnd, CloseTransport, FailPending, DropPending
<1>23. ASSUME HeartbeatCancelled, UNCHANGED stopEvent PROVE PlaceInv'
  BY <1>23 DEF HeartbeatCancelled, HeartbeatOff, DropPending
<1>24. ASSUME LineFault, UNCHANGED stopEvent PROVE PlaceInv'
  BY <1>24 DEF LineFault
<1>25. ASSUME NEW r \in wire, NEW ok \in BOOLEAN, Answer(r, ok), UNCHANGED stopEvent
    PROVE PlaceInv'
  BY <1>25 DEF Answer
<1>26. ASSUME NEW u \in User, UserRequest(u), UNCHANGED stopEvent PROVE PlaceInv'
  BY <1>26 DEF UserRequest, CanSend, Send, NextSeqId, Sent
<1>27. ASSUME NEW u \in User, UserReturns(u), UNCHANGED stopEvent PROVE PlaceInv'
  BY <1>27 DEF UserReturns, Answered, Raises, TimedOut, Waits, DropPending
<1>28. CASE UNCHANGED clientVars BY <1>28 DEF clientVars
<1>29. QED
  BY <1>1, <1>2, <1>3, <1>4, <1>5, <1>6, <1>7, <1>8, <1>9, <1>10, <1>11, <1>12, <1>13,
      <1>14, <1>15, <1>16, <1>17, <1>18, <1>19, <1>20, <1>21, <1>22, <1>23, <1>24,
      <1>25, <1>26, <1>27, <1>28
  DEF Next, RunStep, StopStep, CloseGoesOn, ReceiveStep, HeartbeatStep, Environment

LEMMA ConnectStep == (TypeOK /\ PlaceInv /\ ConnectInv) /\ [Next]_clientVars => ConnectInv'
<1> SUFFICES ASSUME (TypeOK /\ PlaceInv /\ ConnectInv), [Next]_clientVars PROVE ConnectInv'
  OBVIOUS
<1> USE DEF Requester, Task, Goto, Cancel, Alive, attributes, callVars, lineVars,
    PlaceInv, CloseStep, TypeOK, ClientTypeOK, AttributesTypeOK, TasksTypeOK, ConnectInv
<1>1. CASE Connect
  BY <1>1 DEF Connect
<1>2. CASE Connected
  BY <1>2 DEF Connected, Send, NextSeqId, Sent
<1>3. CASE ConnectFails
  BY <1>3 DEF ConnectFails, Close, CloseConnection, CloseTransport, CloseReceive,
      CloseReturns, StillClosing, FailPending, DropPending
<1>4. CASE Login
  BY <1>4 DEF Login, LoginReturns, Answered, Waits, DropPending
<1>5. CASE LoginFails
  BY <1>5 DEF LoginFails, Raises, TimedOut, Waits, Close, CloseConnection,
      CloseTransport, CloseReceive, CloseReturns, StillClosing, FailPending, DropPending
<1>6. CASE WatchEnds
  <2>1. at["run"] = "watch" /\ Close("run") /\ UNCHANGED <<faults, stopEvent>>
    BY <1>6 DEF WatchEnds
  <2>2. QED BY <2>1 DEF Close, CloseConnection, CloseTransport, CloseReceive,
      CloseReturns, StillClosing, FailPending, DropPending
<1>7. CASE RunEnds
  BY <1>7 DEF RunEnds
<1>8. CASE RunCancelled
  BY <1>8 DEF RunCancelled, Close, CloseConnection, CloseTransport, CloseReceive,
      CloseReturns, StillClosing, FailPending, DropPending
<1>9. ASSUME NEW t \in {"run", "stop"}, CloseHeartbeatEnded(t) PROVE ConnectInv'
  BY <1>9 DEF CloseHeartbeatEnded, CloseConnection, CloseTransport, CloseReceive,
      CloseReturns, StillClosing, FailPending, DropPending
<1>10. ASSUME NEW t \in {"run", "stop"}, CloseClosed(t) PROVE ConnectInv'
  BY <1>10 DEF CloseClosed, CloseReceive, CloseReturns, StillClosing, FailPending,
      DropPending
<1>11. ASSUME NEW t \in {"run", "stop"}, CloseReceiveEnded(t) PROVE ConnectInv'
  BY <1>11 DEF CloseReceiveEnded, CloseReturns, FailPending
<1>12. CASE Stop
  BY <1>12 DEF Stop, Close, CloseConnection, CloseTransport, CloseReceive, CloseReturns,
      StillClosing, FailPending, DropPending
<1>13. CASE StopReturns
  BY <1>13 DEF StopReturns
<1>14. ASSUME ReceivePacket, UNCHANGED stopEvent PROVE ConnectInv'
  BY <1>14 DEF ReceivePacket, Receiving, Dispatch, Type
<1>15. ASSUME ReceiveEnds, UNCHANGED stopEvent PROVE ConnectInv'
  BY <1>15 DEF ReceiveEnds, Receiving, MarkDisconnected, MarkFail, MarkTransport,
      MarkEnd, CloseTransport, FailPending, DropPending
<1>16. ASSUME ReceiveFails, UNCHANGED stopEvent PROVE ConnectInv'
  BY <1>16 DEF ReceiveFails, Receiving, MarkDisconnected, MarkFail, MarkTransport,
      MarkEnd, CloseTransport, FailPending, DropPending
<1>17. ASSUME ReceiveCancelled, UNCHANGED stopEvent PROVE ConnectInv'
  BY <1>17 DEF ReceiveCancelled
<1>18. ASSUME MarkHeartbeatEnded, UNCHANGED stopEvent PROVE ConnectInv'
  BY <1>18 DEF MarkHeartbeatEnded, MarkFail, MarkTransport, MarkEnd, CloseTransport,
      FailPending
<1>19. ASSUME NEW t \in {"receive", "heartbeat"}, MarkClosed(t), UNCHANGED stopEvent
    PROVE ConnectInv'
  BY <1>19 DEF MarkClosed, MarkEnd
<1>20. ASSUME HeartbeatSends, UNCHANGED stopEvent PROVE ConnectInv'
  BY <1>20 DEF HeartbeatSends, CanSend, Send, NextSeqId, Sent, HeartbeatOff, DropPending
<1>21. ASSUME HeartbeatReturns, UNCHANGED stopEvent PROVE ConnectInv'
  BY <1>21 DEF HeartbeatReturns, Answered, Waits, DropPending
<1>22. ASSUME HeartbeatRaises, UNCHANGED stopEvent PROVE ConnectInv'
  BY <1>22 DEF HeartbeatRaises, Raises, TimedOut, Waits, HeartbeatOff, MarkDisconnected,
      MarkFail, MarkTransport, MarkEnd, CloseTransport, FailPending, DropPending
<1>23. ASSUME HeartbeatCancelled, UNCHANGED stopEvent PROVE ConnectInv'
  BY <1>23 DEF HeartbeatCancelled, HeartbeatOff, DropPending
<1>24. ASSUME LineFault, UNCHANGED stopEvent PROVE ConnectInv'
  BY <1>24 DEF LineFault
<1>25. ASSUME NEW r \in wire, NEW ok \in BOOLEAN, Answer(r, ok), UNCHANGED stopEvent
    PROVE ConnectInv'
  BY <1>25 DEF Answer
<1>26. ASSUME NEW u \in User, UserRequest(u), UNCHANGED stopEvent PROVE ConnectInv'
  BY <1>26 DEF UserRequest, CanSend, Send, NextSeqId, Sent
<1>27. ASSUME NEW u \in User, UserReturns(u), UNCHANGED stopEvent PROVE ConnectInv'
  BY <1>27 DEF UserReturns, Answered, Raises, TimedOut, Waits, DropPending
<1>28. CASE UNCHANGED clientVars BY <1>28 DEF clientVars
<1>29. QED
  BY <1>1, <1>2, <1>3, <1>4, <1>5, <1>6, <1>7, <1>8, <1>9, <1>10, <1>11, <1>12, <1>13,
      <1>14, <1>15, <1>16, <1>17, <1>18, <1>19, <1>20, <1>21, <1>22, <1>23, <1>24,
      <1>25, <1>26, <1>27, <1>28
  DEF Next, RunStep, StopStep, CloseGoesOn, ReceiveStep, HeartbeatStep, Environment

LEMMA EventStep == (TypeOK /\ PlaceInv /\ ConnectInv /\ EventInv) /\ [Next]_clientVars => EventInv'
<1> SUFFICES ASSUME (TypeOK /\ PlaceInv /\ ConnectInv /\ EventInv), [Next]_clientVars
    PROVE EventInv'
  OBVIOUS
<1> USE DEF Requester, Task, Goto, Cancel, Alive, attributes, callVars, lineVars,
    PlaceInv, CloseStep, TypeOK, ClientTypeOK, AttributesTypeOK, TasksTypeOK,
    ConnectInv, EventInv
<1>1. CASE Connect
  BY <1>1 DEF Connect
<1>2. CASE Connected
  <2>1. at["run"] = "connect" /\ "run" \notin cancelled BY <1>2 DEF Connected
  <2>2. ~Alive("receive") /\ ~Alive("heartbeat") BY <2>1
  <2>3. at["stop"] = "idle" BY <2>1
  <2>4. at' = [at EXCEPT !["run"] = "wait", !["receive"] = "read"]
        /\ disconnected' = disconnected /\ disconnected = FALSE
    BY <2>1, <1>2 DEF Connected
  <2>5. at'["heartbeat"] = "off" /\ at'["receive"] = "read" /\ at'["run"] = "wait"
        /\ at'["stop"] = "idle"
    BY <2>2, <2>3, <2>4
  <2>6. QED BY <2>4, <2>5
<1>3. CASE ConnectFails
  BY <1>3 DEF ConnectFails, Close, CloseConnection, CloseTransport, CloseReceive,
      CloseReturns, StillClosing, FailPending, DropPending
<1>4. CASE Login
  BY <1>4 DEF Login, LoginReturns, Answered, Waits, DropPending
<1>5. CASE LoginFails
  BY <1>5 DEF LoginFails, Raises, TimedOut, Waits, Close, CloseConnection,
      CloseTransport, CloseReceive, CloseReturns, StillClosing, FailPending, DropPending
<1>6. CASE WatchEnds
  <2>1. at["run"] = "watch" /\ Close("run") /\ UNCHANGED <<faults, stopEvent>>
    BY <1>6 DEF WatchEnds
  <2>2. QED BY <2>1 DEF Close, CloseConnection, CloseTransport, CloseReceive,
      CloseReturns, StillClosing, FailPending, DropPending
<1>7. CASE RunEnds
  BY <1>7 DEF RunEnds
<1>8. CASE RunCancelled
  BY <1>8 DEF RunCancelled, Close, CloseConnection, CloseTransport, CloseReceive,
      CloseReturns, StillClosing, FailPending, DropPending
<1>9. ASSUME NEW t \in {"run", "stop"}, CloseHeartbeatEnded(t) PROVE EventInv'
  BY <1>9 DEF CloseHeartbeatEnded, CloseConnection, CloseTransport, CloseReceive,
      CloseReturns, StillClosing, FailPending, DropPending
<1>10. ASSUME NEW t \in {"run", "stop"}, CloseClosed(t) PROVE EventInv'
  BY <1>10 DEF CloseClosed, CloseReceive, CloseReturns, StillClosing, FailPending,
      DropPending
<1>11. ASSUME NEW t \in {"run", "stop"}, CloseReceiveEnded(t) PROVE EventInv'
  BY <1>11 DEF CloseReceiveEnded, CloseReturns, FailPending
<1>12. CASE Stop
  BY <1>12 DEF Stop, Close, CloseConnection, CloseTransport, CloseReceive, CloseReturns,
      StillClosing, FailPending, DropPending
<1>13. CASE StopReturns
  BY <1>13 DEF StopReturns
<1>14. ASSUME ReceivePacket, UNCHANGED stopEvent PROVE EventInv'
  BY <1>14 DEF ReceivePacket, Receiving, Dispatch, Type
<1>15. ASSUME ReceiveEnds, UNCHANGED stopEvent PROVE EventInv'
  BY <1>15 DEF ReceiveEnds, Receiving, MarkDisconnected, MarkFail, MarkTransport,
      MarkEnd, CloseTransport, FailPending, DropPending
<1>16. ASSUME ReceiveFails, UNCHANGED stopEvent PROVE EventInv'
  BY <1>16 DEF ReceiveFails, Receiving, MarkDisconnected, MarkFail, MarkTransport,
      MarkEnd, CloseTransport, FailPending, DropPending
<1>17. ASSUME ReceiveCancelled, UNCHANGED stopEvent PROVE EventInv'
  BY <1>17 DEF ReceiveCancelled
<1>18. ASSUME MarkHeartbeatEnded, UNCHANGED stopEvent PROVE EventInv'
  BY <1>18 DEF MarkHeartbeatEnded, MarkFail, MarkTransport, MarkEnd, CloseTransport,
      FailPending
<1>19. ASSUME NEW t \in {"receive", "heartbeat"}, MarkClosed(t), UNCHANGED stopEvent
    PROVE EventInv'
  BY <1>19 DEF MarkClosed, MarkEnd
<1>20. ASSUME HeartbeatSends, UNCHANGED stopEvent PROVE EventInv'
  BY <1>20 DEF HeartbeatSends, CanSend, Send, NextSeqId, Sent, HeartbeatOff, DropPending
<1>21. ASSUME HeartbeatReturns, UNCHANGED stopEvent PROVE EventInv'
  BY <1>21 DEF HeartbeatReturns, Answered, Waits, DropPending
<1>22. ASSUME HeartbeatRaises, UNCHANGED stopEvent PROVE EventInv'
  BY <1>22 DEF HeartbeatRaises, Raises, TimedOut, Waits, HeartbeatOff, MarkDisconnected,
      MarkFail, MarkTransport, MarkEnd, CloseTransport, FailPending, DropPending
<1>23. ASSUME HeartbeatCancelled, UNCHANGED stopEvent PROVE EventInv'
  BY <1>23 DEF HeartbeatCancelled, HeartbeatOff, DropPending
<1>24. ASSUME LineFault, UNCHANGED stopEvent PROVE EventInv'
  BY <1>24 DEF LineFault
<1>25. ASSUME NEW r \in wire, NEW ok \in BOOLEAN, Answer(r, ok), UNCHANGED stopEvent
    PROVE EventInv'
  BY <1>25 DEF Answer
<1>26. ASSUME NEW u \in User, UserRequest(u), UNCHANGED stopEvent PROVE EventInv'
  BY <1>26 DEF UserRequest, CanSend, Send, NextSeqId, Sent
<1>27. ASSUME NEW u \in User, UserReturns(u), UNCHANGED stopEvent PROVE EventInv'
  BY <1>27 DEF UserReturns, Answered, Raises, TimedOut, Waits, DropPending
<1>28. CASE UNCHANGED clientVars BY <1>28 DEF clientVars
<1>29. QED
  BY <1>1, <1>2, <1>3, <1>4, <1>5, <1>6, <1>7, <1>8, <1>9, <1>10, <1>11, <1>12, <1>13,
      <1>14, <1>15, <1>16, <1>17, <1>18, <1>19, <1>20, <1>21, <1>22, <1>23, <1>24,
      <1>25, <1>26, <1>27, <1>28
  DEF Next, RunStep, StopStep, CloseGoesOn, ReceiveStep, HeartbeatStep, Environment

LEMMA SequenceStep == (LineTypeOK /\ TypeOK /\ PlaceInv /\ SequenceInv) /\ [Next]_clientVars => SequenceInv'
<1> SUFFICES ASSUME (LineTypeOK /\ TypeOK /\ PlaceInv /\ SequenceInv), [Next]_clientVars
    PROVE SequenceInv'
  OBVIOUS
<1> USE DEF Requester, Task, Goto, Cancel, Alive, attributes, callVars, lineVars,
    TypeOK, ClientTypeOK, AttributesTypeOK, TasksTypeOK, SequenceInv
<1>1. CASE Connect
  BY <1>1 DEF Connect
<1>2. CASE Connected
  BY <1>2 DEF Connected, Send, NextSeqId, Sent
<1>3. CASE ConnectFails
  BY <1>3 DEF ConnectFails, Close, CloseConnection, CloseTransport, CloseReceive,
      CloseReturns, StillClosing, FailPending, DropPending
<1>4. CASE Login
  BY <1>4 DEF Login, LoginReturns, Answered, Waits, DropPending
<1>5. CASE LoginFails
  BY <1>5 DEF LoginFails, Raises, TimedOut, Waits, Close, CloseConnection,
      CloseTransport, CloseReceive, CloseReturns, StillClosing, FailPending, DropPending
<1>6. CASE WatchEnds
  <2>1. at["run"] = "watch" /\ Close("run") /\ UNCHANGED <<faults, stopEvent>>
    BY <1>6 DEF WatchEnds
  <2>2. QED BY <2>1 DEF Close, CloseConnection, CloseTransport, CloseReceive,
      CloseReturns, StillClosing, FailPending, DropPending
<1>7. CASE RunEnds
  BY <1>7 DEF RunEnds
<1>8. CASE RunCancelled
  BY <1>8 DEF RunCancelled, Close, CloseConnection, CloseTransport, CloseReceive,
      CloseReturns, StillClosing, FailPending, DropPending
<1>9. ASSUME NEW t \in {"run", "stop"}, CloseHeartbeatEnded(t) PROVE SequenceInv'
  BY <1>9 DEF CloseHeartbeatEnded, CloseConnection, CloseTransport, CloseReceive,
      CloseReturns, StillClosing, FailPending, DropPending
<1>10. ASSUME NEW t \in {"run", "stop"}, CloseClosed(t) PROVE SequenceInv'
  BY <1>10 DEF CloseClosed, CloseReceive, CloseReturns, StillClosing, FailPending,
      DropPending
<1>11. ASSUME NEW t \in {"run", "stop"}, CloseReceiveEnded(t) PROVE SequenceInv'
  BY <1>11 DEF CloseReceiveEnded, CloseReturns, FailPending
<1>12. CASE Stop
  BY <1>12 DEF Stop, Close, CloseConnection, CloseTransport, CloseReceive, CloseReturns,
      StillClosing, FailPending, DropPending
<1>13. CASE StopReturns
  BY <1>13 DEF StopReturns
<1>14. ASSUME ReceivePacket, UNCHANGED stopEvent PROVE SequenceInv'
  <2>1. /\ pending' \subseteq pending
        /\ UNCHANGED <<seqId, requests, seqOf, number, wire>>
        /\ inbox # <<>> /\ inbox' = Tail(inbox)
    BY <1>14 DEF ReceivePacket, Dispatch
  <2>2. \A i \in DOMAIN inbox' : i + 1 \in DOMAIN inbox /\ inbox'[i] = inbox[i + 1]
    BY <2>1, HeadTail DEF LineTypeOK
  <2>3. QED BY <2>1, <2>2
<1>15. ASSUME ReceiveEnds, UNCHANGED stopEvent PROVE SequenceInv'
  BY <1>15 DEF ReceiveEnds, Receiving, MarkDisconnected, MarkFail, MarkTransport,
      MarkEnd, CloseTransport, FailPending, DropPending
<1>16. ASSUME ReceiveFails, UNCHANGED stopEvent PROVE SequenceInv'
  BY <1>16 DEF ReceiveFails, Receiving, MarkDisconnected, MarkFail, MarkTransport,
      MarkEnd, CloseTransport, FailPending, DropPending
<1>17. ASSUME ReceiveCancelled, UNCHANGED stopEvent PROVE SequenceInv'
  BY <1>17 DEF ReceiveCancelled
<1>18. ASSUME MarkHeartbeatEnded, UNCHANGED stopEvent PROVE SequenceInv'
  BY <1>18 DEF MarkHeartbeatEnded, MarkFail, MarkTransport, MarkEnd, CloseTransport,
      FailPending
<1>19. ASSUME NEW t \in {"receive", "heartbeat"}, MarkClosed(t), UNCHANGED stopEvent
    PROVE SequenceInv'
  BY <1>19 DEF MarkClosed, MarkEnd
<1>20. ASSUME HeartbeatSends, UNCHANGED stopEvent PROVE SequenceInv'
  BY <1>20 DEF HeartbeatSends, CanSend, Send, NextSeqId, Sent, HeartbeatOff, DropPending
<1>21. ASSUME HeartbeatReturns, UNCHANGED stopEvent PROVE SequenceInv'
  BY <1>21 DEF HeartbeatReturns, Answered, Waits, DropPending
<1>22. ASSUME HeartbeatRaises, UNCHANGED stopEvent PROVE SequenceInv'
  BY <1>22 DEF HeartbeatRaises, Raises, TimedOut, Waits, HeartbeatOff, MarkDisconnected,
      MarkFail, MarkTransport, MarkEnd, CloseTransport, FailPending, DropPending
<1>23. ASSUME HeartbeatCancelled, UNCHANGED stopEvent PROVE SequenceInv'
  BY <1>23 DEF HeartbeatCancelled, HeartbeatOff, DropPending
<1>24. ASSUME LineFault, UNCHANGED stopEvent PROVE SequenceInv'
  BY <1>24 DEF LineFault
<1>25. ASSUME NEW r \in wire, NEW ok \in BOOLEAN, Answer(r, ok), UNCHANGED stopEvent
    PROVE SequenceInv'
  BY <1>25 DEF Answer
<1>26. ASSUME NEW u \in User, UserRequest(u), UNCHANGED stopEvent PROVE SequenceInv'
  BY <1>26 DEF UserRequest, CanSend, Send, NextSeqId, Sent
<1>27. ASSUME NEW u \in User, UserReturns(u), UNCHANGED stopEvent PROVE SequenceInv'
  BY <1>27 DEF UserReturns, Answered, Raises, TimedOut, Waits, DropPending
<1>28. CASE UNCHANGED clientVars BY <1>28 DEF clientVars
<1>29. QED
  BY <1>1, <1>2, <1>3, <1>4, <1>5, <1>6, <1>7, <1>8, <1>9, <1>10, <1>11, <1>12, <1>13,
      <1>14, <1>15, <1>16, <1>17, <1>18, <1>19, <1>20, <1>21, <1>22, <1>23, <1>24,
      <1>25, <1>26, <1>27, <1>28
  DEF Next, RunStep, StopStep, CloseGoesOn, ReceiveStep, HeartbeatStep, Environment

LEMMA PendingStep == (TypeOK /\ PlaceInv /\ ConnectInv /\ EventInv /\ SequenceInv /\ PendingIsAwaited) /\ [Next]_clientVars => PendingIsAwaited'
<1> SUFFICES ASSUME (TypeOK /\ PlaceInv /\ ConnectInv /\ EventInv /\ SequenceInv /\
    PendingIsAwaited), [Next]_clientVars PROVE PendingIsAwaited'
  OBVIOUS
<1> USE DEF Requester, Task, Goto, Cancel, Alive, attributes, callVars, lineVars,
    PlaceInv, CloseStep, TypeOK, ClientTypeOK, AttributesTypeOK, TasksTypeOK,
    ConnectInv, EventInv, SequenceInv, PendingIsAwaited
<1>1. CASE Connect
  BY <1>1 DEF Connect
<1>2. CASE Connected
  BY <1>2 DEF Connected, Send, NextSeqId, Sent
<1>3. CASE ConnectFails
  BY <1>3 DEF ConnectFails, Close, CloseConnection, CloseTransport, CloseReceive,
      CloseReturns, StillClosing, FailPending, DropPending
<1>4. CASE Login
  BY <1>4 DEF Login, LoginReturns, Answered, Waits, DropPending
<1>5. CASE LoginFails
  BY <1>5 DEF LoginFails, Raises, TimedOut, Waits, Close, CloseConnection,
      CloseTransport, CloseReceive, CloseReturns, StillClosing, FailPending, DropPending
<1>6. CASE WatchEnds
  <2>1. at["run"] = "watch" /\ Close("run") /\ UNCHANGED <<faults, stopEvent>>
    BY <1>6 DEF WatchEnds
  <2>2. QED BY <2>1 DEF Close, CloseConnection, CloseTransport, CloseReceive,
      CloseReturns, StillClosing, FailPending, DropPending
<1>7. CASE RunEnds
  BY <1>7 DEF RunEnds
<1>8. CASE RunCancelled
  BY <1>8 DEF RunCancelled, Close, CloseConnection, CloseTransport, CloseReceive,
      CloseReturns, StillClosing, FailPending, DropPending
<1>9. ASSUME NEW t \in {"run", "stop"}, CloseHeartbeatEnded(t) PROVE PendingIsAwaited'
  BY <1>9 DEF CloseHeartbeatEnded, CloseConnection, CloseTransport, CloseReceive,
      CloseReturns, StillClosing, FailPending, DropPending
<1>10. ASSUME NEW t \in {"run", "stop"}, CloseClosed(t) PROVE PendingIsAwaited'
  BY <1>10 DEF CloseClosed, CloseReceive, CloseReturns, StillClosing, FailPending,
      DropPending
<1>11. ASSUME NEW t \in {"run", "stop"}, CloseReceiveEnded(t) PROVE PendingIsAwaited'
  BY <1>11 DEF CloseReceiveEnded, CloseReturns, FailPending
<1>12. CASE Stop
  BY <1>12 DEF Stop, Close, CloseConnection, CloseTransport, CloseReceive, CloseReturns,
      StillClosing, FailPending, DropPending
<1>13. CASE StopReturns
  BY <1>13 DEF StopReturns
<1>14. ASSUME ReceivePacket, UNCHANGED stopEvent PROVE PendingIsAwaited'
  BY <1>14 DEF ReceivePacket, Receiving, Dispatch, Type
<1>15. ASSUME ReceiveEnds, UNCHANGED stopEvent PROVE PendingIsAwaited'
  BY <1>15 DEF ReceiveEnds, Receiving, MarkDisconnected, MarkFail, MarkTransport,
      MarkEnd, CloseTransport, FailPending, DropPending
<1>16. ASSUME ReceiveFails, UNCHANGED stopEvent PROVE PendingIsAwaited'
  BY <1>16 DEF ReceiveFails, Receiving, MarkDisconnected, MarkFail, MarkTransport,
      MarkEnd, CloseTransport, FailPending, DropPending
<1>17. ASSUME ReceiveCancelled, UNCHANGED stopEvent PROVE PendingIsAwaited'
  BY <1>17 DEF ReceiveCancelled
<1>18. ASSUME MarkHeartbeatEnded, UNCHANGED stopEvent PROVE PendingIsAwaited'
  BY <1>18 DEF MarkHeartbeatEnded, MarkFail, MarkTransport, MarkEnd, CloseTransport,
      FailPending
<1>19. ASSUME NEW t \in {"receive", "heartbeat"}, MarkClosed(t), UNCHANGED stopEvent
    PROVE PendingIsAwaited'
  BY <1>19 DEF MarkClosed, MarkEnd
<1>20. ASSUME HeartbeatSends, UNCHANGED stopEvent PROVE PendingIsAwaited'
  BY <1>20 DEF HeartbeatSends, CanSend, Send, NextSeqId, Sent, HeartbeatOff, DropPending
<1>21. ASSUME HeartbeatReturns, UNCHANGED stopEvent PROVE PendingIsAwaited'
  BY <1>21 DEF HeartbeatReturns, Answered, Waits, DropPending
<1>22. ASSUME HeartbeatRaises, UNCHANGED stopEvent PROVE PendingIsAwaited'
  BY <1>22 DEF HeartbeatRaises, Raises, TimedOut, Waits, HeartbeatOff, MarkDisconnected,
      MarkFail, MarkTransport, MarkEnd, CloseTransport, FailPending, DropPending
<1>23. ASSUME HeartbeatCancelled, UNCHANGED stopEvent PROVE PendingIsAwaited'
  BY <1>23 DEF HeartbeatCancelled, HeartbeatOff, DropPending
<1>24. ASSUME LineFault, UNCHANGED stopEvent PROVE PendingIsAwaited'
  BY <1>24 DEF LineFault
<1>25. ASSUME NEW r \in wire, NEW ok \in BOOLEAN, Answer(r, ok), UNCHANGED stopEvent
    PROVE PendingIsAwaited'
  BY <1>25 DEF Answer
<1>26. ASSUME NEW u \in User, UserRequest(u), UNCHANGED stopEvent PROVE PendingIsAwaited'
  BY <1>26 DEF UserRequest, CanSend, Send, NextSeqId, Sent
<1>27. ASSUME NEW u \in User, UserReturns(u), UNCHANGED stopEvent PROVE PendingIsAwaited'
  BY <1>27 DEF UserReturns, Answered, Raises, TimedOut, Waits, DropPending
<1>28. CASE UNCHANGED clientVars BY <1>28 DEF clientVars
<1>29. QED
  BY <1>1, <1>2, <1>3, <1>4, <1>5, <1>6, <1>7, <1>8, <1>9, <1>10, <1>11, <1>12, <1>13,
      <1>14, <1>15, <1>16, <1>17, <1>18, <1>19, <1>20, <1>21, <1>22, <1>23, <1>24,
      <1>25, <1>26, <1>27, <1>28
  DEF Next, RunStep, StopStep, CloseGoesOn, ReceiveStep, HeartbeatStep, Environment

LEMMA OwnStep == (LineTypeOK /\ TypeOK /\ PlaceInv /\ SequenceInv /\ PendingIsAwaited /\ OwnResponseOnly) /\ [Next]_clientVars => OwnResponseOnly'
<1> SUFFICES ASSUME (LineTypeOK /\ TypeOK /\ PlaceInv /\ SequenceInv /\ PendingIsAwaited
    /\ OwnResponseOnly), [Next]_clientVars PROVE OwnResponseOnly'
  OBVIOUS
<1> USE DEF Requester, Task, Goto, Cancel, Alive, attributes, callVars, lineVars,
    TypeOK, ClientTypeOK, AttributesTypeOK, TasksTypeOK, SequenceInv, PendingIsAwaited,
    OwnResponseOnly
<1>1. CASE Connect
  BY <1>1 DEF Connect
<1>2. CASE Connected
  BY <1>2 DEF Connected, Send, NextSeqId, Sent
<1>3. CASE ConnectFails
  BY <1>3 DEF ConnectFails, Close, CloseConnection, CloseTransport, CloseReceive,
      CloseReturns, StillClosing, FailPending, DropPending
<1>4. CASE Login
  BY <1>4 DEF Login, LoginReturns, Answered, Waits, DropPending
<1>5. CASE LoginFails
  BY <1>5 DEF LoginFails, Raises, TimedOut, Waits, Close, CloseConnection,
      CloseTransport, CloseReceive, CloseReturns, StillClosing, FailPending, DropPending
<1>6. CASE WatchEnds
  <2>1. at["run"] = "watch" /\ Close("run") /\ UNCHANGED <<faults, stopEvent>>
    BY <1>6 DEF WatchEnds
  <2>2. QED BY <2>1 DEF Close, CloseConnection, CloseTransport, CloseReceive,
      CloseReturns, StillClosing, FailPending, DropPending
<1>7. CASE RunEnds
  BY <1>7 DEF RunEnds
<1>8. CASE RunCancelled
  BY <1>8 DEF RunCancelled, Close, CloseConnection, CloseTransport, CloseReceive,
      CloseReturns, StillClosing, FailPending, DropPending
<1>9. ASSUME NEW t \in {"run", "stop"}, CloseHeartbeatEnded(t) PROVE OwnResponseOnly'
  BY <1>9 DEF CloseHeartbeatEnded, CloseConnection, CloseTransport, CloseReceive,
      CloseReturns, StillClosing, FailPending, DropPending
<1>10. ASSUME NEW t \in {"run", "stop"}, CloseClosed(t) PROVE OwnResponseOnly'
  BY <1>10 DEF CloseClosed, CloseReceive, CloseReturns, StillClosing, FailPending,
      DropPending
<1>11. ASSUME NEW t \in {"run", "stop"}, CloseReceiveEnded(t) PROVE OwnResponseOnly'
  BY <1>11 DEF CloseReceiveEnded, CloseReturns, FailPending
<1>12. CASE Stop
  BY <1>12 DEF Stop, Close, CloseConnection, CloseTransport, CloseReceive, CloseReturns,
      StillClosing, FailPending, DropPending
<1>13. CASE StopReturns
  BY <1>13 DEF StopReturns
<1>14. ASSUME ReceivePacket, UNCHANGED stopEvent PROVE OwnResponseOnly'
  <2> DEFINE p == Head(inbox)
             waiting == {t \in pending : seqOf[t] = p.seq}
  <2>0. p = inbox[1] /\ 1 \in DOMAIN inbox
    BY <1>14, HeadTail DEF ReceivePacket, LineTypeOK
  <2>1. p.seq = p.number BY <2>0
  <2>2. \A t \in waiting : number[t] = p.number BY <2>1
  <2>3. /\ UNCHANGED number
        /\ answers' = [t \in Task |-> IF t \in waiting THEN p.number ELSE answers[t]]
        /\ \A t \in Task \ waiting : future'[t] = future[t]
    BY <1>14 DEF ReceivePacket, Dispatch
  <2>4. QED BY <2>2, <2>3
<1>15. ASSUME ReceiveEnds, UNCHANGED stopEvent PROVE OwnResponseOnly'
  BY <1>15 DEF ReceiveEnds, Receiving, MarkDisconnected, MarkFail, MarkTransport,
      MarkEnd, CloseTransport, FailPending, DropPending
<1>16. ASSUME ReceiveFails, UNCHANGED stopEvent PROVE OwnResponseOnly'
  BY <1>16 DEF ReceiveFails, Receiving, MarkDisconnected, MarkFail, MarkTransport,
      MarkEnd, CloseTransport, FailPending, DropPending
<1>17. ASSUME ReceiveCancelled, UNCHANGED stopEvent PROVE OwnResponseOnly'
  BY <1>17 DEF ReceiveCancelled
<1>18. ASSUME MarkHeartbeatEnded, UNCHANGED stopEvent PROVE OwnResponseOnly'
  BY <1>18 DEF MarkHeartbeatEnded, MarkFail, MarkTransport, MarkEnd, CloseTransport,
      FailPending
<1>19. ASSUME NEW t \in {"receive", "heartbeat"}, MarkClosed(t), UNCHANGED stopEvent
    PROVE OwnResponseOnly'
  BY <1>19 DEF MarkClosed, MarkEnd
<1>20. ASSUME HeartbeatSends, UNCHANGED stopEvent PROVE OwnResponseOnly'
  BY <1>20 DEF HeartbeatSends, CanSend, Send, NextSeqId, Sent, HeartbeatOff, DropPending
<1>21. ASSUME HeartbeatReturns, UNCHANGED stopEvent PROVE OwnResponseOnly'
  BY <1>21 DEF HeartbeatReturns, Answered, Waits, DropPending
<1>22. ASSUME HeartbeatRaises, UNCHANGED stopEvent PROVE OwnResponseOnly'
  BY <1>22 DEF HeartbeatRaises, Raises, TimedOut, Waits, HeartbeatOff, MarkDisconnected,
      MarkFail, MarkTransport, MarkEnd, CloseTransport, FailPending, DropPending
<1>23. ASSUME HeartbeatCancelled, UNCHANGED stopEvent PROVE OwnResponseOnly'
  BY <1>23 DEF HeartbeatCancelled, HeartbeatOff, DropPending
<1>24. ASSUME LineFault, UNCHANGED stopEvent PROVE OwnResponseOnly'
  BY <1>24 DEF LineFault
<1>25. ASSUME NEW r \in wire, NEW ok \in BOOLEAN, Answer(r, ok), UNCHANGED stopEvent
    PROVE OwnResponseOnly'
  BY <1>25 DEF Answer
<1>26. ASSUME NEW u \in User, UserRequest(u), UNCHANGED stopEvent PROVE OwnResponseOnly'
  BY <1>26 DEF UserRequest, CanSend, Send, NextSeqId, Sent
<1>27. ASSUME NEW u \in User, UserReturns(u), UNCHANGED stopEvent PROVE OwnResponseOnly'
  BY <1>27 DEF UserReturns, Answered, Raises, TimedOut, Waits, DropPending
<1>28. CASE UNCHANGED clientVars BY <1>28 DEF clientVars
<1>29. QED
  BY <1>1, <1>2, <1>3, <1>4, <1>5, <1>6, <1>7, <1>8, <1>9, <1>10, <1>11, <1>12, <1>13,
      <1>14, <1>15, <1>16, <1>17, <1>18, <1>19, <1>20, <1>21, <1>22, <1>23, <1>24,
      <1>25, <1>26, <1>27, <1>28
  DEF Next, RunStep, StopStep, CloseGoesOn, ReceiveStep, HeartbeatStep, Environment

LEMMA AttributesStep == AttributesTypeOK /\ [Next]_clientVars => AttributesTypeOK'
<1> SUFFICES ASSUME AttributesTypeOK, [Next]_clientVars PROVE AttributesTypeOK'
  OBVIOUS
<1> USE DEF Goto, Cancel, Alive, attributes, callVars, lineVars, AttributesTypeOK, State
<1>1. CASE Connect
  BY <1>1 DEF Connect
<1>2. CASE Connected
  BY <1>2 DEF Connected, Send, NextSeqId, Sent
<1>3. CASE ConnectFails
  <2>1. faults' \in Nat BY <1>3 DEF ConnectFails, Close, CloseConnection,
      CloseTransport, CloseReceive, CloseReturns, StillClosing, FailPending, DropPending
  <2>2. /\ UNCHANGED <<seqId, requests>>
        /\ state' \in State
    BY <1>3 DEF ConnectFails, Close, CloseConnection, CloseTransport, CloseReceive,
        CloseReturns, StillClosing, FailPending, DropPending
  <2>3. /\ writer' \in BOOLEAN /\ identity' \in BOOLEAN /\ closing' \in BOOLEAN
        /\ disconnected' \in BOOLEAN
    BY <1>3 DEF ConnectFails, Close, CloseConnection, CloseTransport, CloseReceive,
        CloseReturns, StillClosing, FailPending, DropPending
  <2>4. /\ heartbeatTask' \in BOOLEAN /\ receiveTask' \in BOOLEAN /\ stopEvent' \in BOOLEAN
    BY <1>3 DEF ConnectFails, Close, CloseConnection, CloseTransport, CloseReceive,
        CloseReturns, StillClosing, FailPending, DropPending
  <2>5. QED BY <2>1, <2>2, <2>3, <2>4
<1>4. CASE Login
  BY <1>4 DEF Login, LoginReturns, Answered, Waits, DropPending
<1>5. CASE LoginFails
  <2>1. faults' \in Nat BY <1>5 DEF LoginFails, Raises, TimedOut, Waits, Close,
      CloseConnection, CloseTransport, CloseReceive, CloseReturns, StillClosing,
      FailPending, DropPending
  <2>2. /\ UNCHANGED <<seqId, requests>>
        /\ state' \in State
    BY <1>5 DEF LoginFails, Raises, TimedOut, Waits, Close, CloseConnection,
        CloseTransport, CloseReceive, CloseReturns, StillClosing, FailPending,
        DropPending
  <2>3. /\ writer' \in BOOLEAN /\ identity' \in BOOLEAN /\ closing' \in BOOLEAN
        /\ disconnected' \in BOOLEAN
    BY <1>5 DEF LoginFails, Raises, TimedOut, Waits, Close, CloseConnection,
        CloseTransport, CloseReceive, CloseReturns, StillClosing, FailPending,
        DropPending
  <2>4. /\ heartbeatTask' \in BOOLEAN /\ receiveTask' \in BOOLEAN /\ stopEvent' \in BOOLEAN
    BY <1>5 DEF LoginFails, Raises, TimedOut, Waits, Close, CloseConnection,
        CloseTransport, CloseReceive, CloseReturns, StillClosing, FailPending,
        DropPending
  <2>5. QED BY <2>1, <2>2, <2>3, <2>4
<1>6. CASE WatchEnds
  <2>1. at["run"] = "watch" /\ Close("run") /\ UNCHANGED <<faults, stopEvent>>
    BY <1>6 DEF WatchEnds
  <2>2. QED BY <2>1 DEF Close, CloseConnection, CloseTransport, CloseReceive,
      CloseReturns, StillClosing, FailPending, DropPending
<1>7. CASE RunEnds
  BY <1>7 DEF RunEnds
<1>8. CASE RunCancelled
  BY <1>8 DEF RunCancelled, Close, CloseConnection, CloseTransport, CloseReceive,
      CloseReturns, StillClosing, FailPending, DropPending
<1>9. ASSUME NEW t \in {"run", "stop"}, CloseHeartbeatEnded(t) PROVE AttributesTypeOK'
  BY <1>9 DEF CloseHeartbeatEnded, CloseConnection, CloseTransport, CloseReceive,
      CloseReturns, StillClosing, FailPending, DropPending
<1>10. ASSUME NEW t \in {"run", "stop"}, CloseClosed(t) PROVE AttributesTypeOK'
  BY <1>10 DEF CloseClosed, CloseReceive, CloseReturns, StillClosing, FailPending,
      DropPending
<1>11. ASSUME NEW t \in {"run", "stop"}, CloseReceiveEnded(t) PROVE AttributesTypeOK'
  BY <1>11 DEF CloseReceiveEnded, CloseReturns, FailPending
<1>12. CASE Stop
  BY <1>12 DEF Stop, Close, CloseConnection, CloseTransport, CloseReceive, CloseReturns,
      StillClosing, FailPending, DropPending
<1>13. CASE StopReturns
  BY <1>13 DEF StopReturns
<1>14. ASSUME ReceivePacket, UNCHANGED stopEvent PROVE AttributesTypeOK'
  BY <1>14 DEF ReceivePacket, Receiving, Dispatch, Type
<1>15. ASSUME ReceiveEnds, UNCHANGED stopEvent PROVE AttributesTypeOK'
  BY <1>15 DEF ReceiveEnds, Receiving, MarkDisconnected, MarkFail, MarkTransport,
      MarkEnd, CloseTransport, FailPending, DropPending
<1>16. ASSUME ReceiveFails, UNCHANGED stopEvent PROVE AttributesTypeOK'
  <2>1. faults' \in Nat BY <1>16 DEF ReceiveFails, Receiving, MarkDisconnected,
      MarkFail, MarkTransport, MarkEnd, CloseTransport, FailPending, DropPending
  <2>2. /\ UNCHANGED <<seqId, requests>>
        /\ state' \in State
    BY <1>16 DEF ReceiveFails, Receiving, MarkDisconnected, MarkFail, MarkTransport,
        MarkEnd, CloseTransport, FailPending, DropPending
  <2>3. /\ writer' \in BOOLEAN /\ identity' \in BOOLEAN /\ closing' \in BOOLEAN
        /\ disconnected' \in BOOLEAN
    BY <1>16 DEF ReceiveFails, Receiving, MarkDisconnected, MarkFail, MarkTransport,
        MarkEnd, CloseTransport, FailPending, DropPending
  <2>4. /\ heartbeatTask' \in BOOLEAN /\ receiveTask' \in BOOLEAN /\ stopEvent' \in BOOLEAN
    BY <1>16 DEF ReceiveFails, Receiving, MarkDisconnected, MarkFail, MarkTransport,
        MarkEnd, CloseTransport, FailPending, DropPending
  <2>5. QED BY <2>1, <2>2, <2>3, <2>4
<1>17. ASSUME ReceiveCancelled, UNCHANGED stopEvent PROVE AttributesTypeOK'
  BY <1>17 DEF ReceiveCancelled
<1>18. ASSUME MarkHeartbeatEnded, UNCHANGED stopEvent PROVE AttributesTypeOK'
  BY <1>18 DEF MarkHeartbeatEnded, MarkFail, MarkTransport, MarkEnd, CloseTransport,
      FailPending
<1>19. ASSUME NEW t \in {"receive", "heartbeat"}, MarkClosed(t), UNCHANGED stopEvent
    PROVE AttributesTypeOK'
  BY <1>19 DEF MarkClosed, MarkEnd
<1>20. ASSUME HeartbeatSends, UNCHANGED stopEvent PROVE AttributesTypeOK'
  BY <1>20 DEF HeartbeatSends, CanSend, Send, NextSeqId, Sent, HeartbeatOff, DropPending
<1>21. ASSUME HeartbeatReturns, UNCHANGED stopEvent PROVE AttributesTypeOK'
  BY <1>21 DEF HeartbeatReturns, Answered, Waits, DropPending
<1>22. ASSUME HeartbeatRaises, UNCHANGED stopEvent PROVE AttributesTypeOK'
  <2>1. faults' \in Nat BY <1>22 DEF HeartbeatRaises, Raises, TimedOut, Waits,
      HeartbeatOff, MarkDisconnected, MarkFail, MarkTransport, MarkEnd, CloseTransport,
      FailPending, DropPending
  <2>2. /\ UNCHANGED <<seqId, requests>>
        /\ state' \in State
    BY <1>22 DEF HeartbeatRaises, Raises, TimedOut, Waits, HeartbeatOff,
        MarkDisconnected, MarkFail, MarkTransport, MarkEnd, CloseTransport, FailPending,
        DropPending
  <2>3. /\ writer' \in BOOLEAN /\ identity' \in BOOLEAN /\ closing' \in BOOLEAN
        /\ disconnected' \in BOOLEAN
    BY <1>22 DEF HeartbeatRaises, Raises, TimedOut, Waits, HeartbeatOff,
        MarkDisconnected, MarkFail, MarkTransport, MarkEnd, CloseTransport, FailPending,
        DropPending
  <2>4. /\ heartbeatTask' \in BOOLEAN /\ receiveTask' \in BOOLEAN /\ stopEvent' \in BOOLEAN
    BY <1>22 DEF HeartbeatRaises, Raises, TimedOut, Waits, HeartbeatOff,
        MarkDisconnected, MarkFail, MarkTransport, MarkEnd, CloseTransport, FailPending,
        DropPending
  <2>5. QED BY <2>1, <2>2, <2>3, <2>4
<1>23. ASSUME HeartbeatCancelled, UNCHANGED stopEvent PROVE AttributesTypeOK'
  BY <1>23 DEF HeartbeatCancelled, HeartbeatOff, DropPending
<1>24. ASSUME LineFault, UNCHANGED stopEvent PROVE AttributesTypeOK'
  BY <1>24 DEF LineFault
<1>25. ASSUME NEW r \in wire, NEW ok \in BOOLEAN, Answer(r, ok), UNCHANGED stopEvent
    PROVE AttributesTypeOK'
  BY <1>25 DEF Answer
<1>26. ASSUME NEW u \in User, UserRequest(u), UNCHANGED stopEvent PROVE AttributesTypeOK'
  BY <1>26 DEF UserRequest, CanSend, Send, NextSeqId, Sent
<1>27. ASSUME NEW u \in User, UserReturns(u), UNCHANGED stopEvent PROVE AttributesTypeOK'
  BY <1>27 DEF UserReturns, Answered, Raises, TimedOut, Waits, DropPending
<1>28. CASE UNCHANGED clientVars BY <1>28 DEF clientVars
<1>29. QED
  BY <1>1, <1>2, <1>3, <1>4, <1>5, <1>6, <1>7, <1>8, <1>9, <1>10, <1>11, <1>12, <1>13,
      <1>14, <1>15, <1>16, <1>17, <1>18, <1>19, <1>20, <1>21, <1>22, <1>23, <1>24,
      <1>25, <1>26, <1>27, <1>28
  DEF Next, RunStep, StopStep, CloseGoesOn, ReceiveStep, HeartbeatStep, Environment

LEMMA TasksStep == (LineTypeOK /\ AttributesTypeOK /\ TasksTypeOK /\ PlaceInv) /\ [Next]_clientVars => TasksTypeOK'
<1> SUFFICES ASSUME (LineTypeOK /\ AttributesTypeOK /\ TasksTypeOK /\ PlaceInv),
    [Next]_clientVars PROVE TasksTypeOK'
  OBVIOUS
<1> USE DEF Requester, Task, Goto, Cancel, Alive, attributes, callVars, lineVars,
    PlaceInv, CloseStep, AttributesTypeOK, TasksTypeOK, Step
<1>1. CASE Connect
  BY <1>1 DEF Connect
<1>2. CASE Connected
  BY <1>2 DEF Connected, Send, NextSeqId, Sent
<1>3. CASE ConnectFails
  <2>1. at' \in [Task -> Step] BY <1>3 DEF ConnectFails, Close, CloseConnection,
      CloseTransport, CloseReceive, CloseReturns, StillClosing, FailPending, DropPending
  <2>2. future' \in [Task -> {"none", "waiting", "failed", "error", "response"}]
    BY <1>3 DEF ConnectFails, Close, CloseConnection, CloseTransport, CloseReceive,
        CloseReturns, StillClosing, FailPending, DropPending
  <2>3. pending' \subseteq Requester /\ cancelled' \subseteq Task BY <1>3 DEF
      ConnectFails, Close, CloseConnection, CloseTransport, CloseReceive, CloseReturns,
      StillClosing, FailPending, DropPending
  <2>4. UNCHANGED <<seqOf, number, answers>> BY <1>3 DEF ConnectFails, Close,
      CloseConnection, CloseTransport, CloseReceive, CloseReturns, StillClosing,
      FailPending, DropPending
  <2>5. QED BY <2>1, <2>2, <2>3, <2>4
<1>4. CASE Login
  BY <1>4 DEF Login, LoginReturns, Answered, Waits, DropPending
<1>5. CASE LoginFails
  <2>1. at' \in [Task -> Step] BY <1>5 DEF LoginFails, Raises, TimedOut, Waits, Close,
      CloseConnection, CloseTransport, CloseReceive, CloseReturns, StillClosing,
      FailPending, DropPending
  <2>2. future' \in [Task -> {"none", "waiting", "failed", "error", "response"}]
    BY <1>5 DEF LoginFails, Raises, TimedOut, Waits, Close, CloseConnection,
        CloseTransport, CloseReceive, CloseReturns, StillClosing, FailPending,
        DropPending
  <2>3. pending' \subseteq Requester /\ cancelled' \subseteq Task BY <1>5 DEF
      LoginFails, Raises, TimedOut, Waits, Close, CloseConnection, CloseTransport,
      CloseReceive, CloseReturns, StillClosing, FailPending, DropPending
  <2>4. UNCHANGED <<seqOf, number, answers>> BY <1>5 DEF LoginFails, Raises, TimedOut,
      Waits, Close, CloseConnection, CloseTransport, CloseReceive, CloseReturns,
      StillClosing, FailPending, DropPending
  <2>5. QED BY <2>1, <2>2, <2>3, <2>4
<1>6. CASE WatchEnds
  <2>1. at["run"] = "watch" /\ Close("run") /\ UNCHANGED <<faults, stopEvent>>
    BY <1>6 DEF WatchEnds
  <2>2. QED BY <2>1 DEF Close, CloseConnection, CloseTransport, CloseReceive,
      CloseReturns, StillClosing, FailPending, DropPending
<1>7. CASE RunEnds
  BY <1>7 DEF RunEnds
<1>8. CASE RunCancelled
  BY <1>8 DEF RunCancelled, Close, CloseConnection, CloseTransport, CloseReceive,
      CloseReturns, StillClosing, FailPending, DropPending
<1>9. ASSUME NEW t \in {"run", "stop"}, CloseHeartbeatEnded(t) PROVE TasksTypeOK'
  BY <1>9 DEF CloseHeartbeatEnded, CloseConnection, CloseTransport, CloseReceive,
      CloseReturns, StillClosing, FailPending, DropPending
<1>10. ASSUME NEW t \in {"run", "stop"}, CloseClosed(t) PROVE TasksTypeOK'
  BY <1>10 DEF CloseClosed, CloseReceive, CloseReturns, StillClosing, FailPending,
      DropPending
<1>11. ASSUME NEW t \in {"run", "stop"}, CloseReceiveEnded(t) PROVE TasksTypeOK'
  BY <1>11 DEF CloseReceiveEnded, CloseReturns, FailPending
<1>12. CASE Stop
  BY <1>12 DEF Stop, Close, CloseConnection, CloseTransport, CloseReceive, CloseReturns,
      StillClosing, FailPending, DropPending
<1>13. CASE StopReturns
  BY <1>13 DEF StopReturns
<1>14. ASSUME ReceivePacket, UNCHANGED stopEvent PROVE TasksTypeOK'
  <2>0. Head(inbox) \in Response BY <1>14, HeadTail DEF ReceivePacket, LineTypeOK
  <2>1. Head(inbox).number \in Nat BY <2>0 DEF Response
  <2>2. QED BY <2>1, <1>14 DEF ReceivePacket, Receiving, Dispatch, Type
<1>15. ASSUME ReceiveEnds, UNCHANGED stopEvent PROVE TasksTypeOK'
  BY <1>15 DEF ReceiveEnds, Receiving, MarkDisconnected, MarkFail, MarkTransport,
      MarkEnd, CloseTransport, FailPending, DropPending
<1>16. ASSUME ReceiveFails, UNCHANGED stopEvent PROVE TasksTypeOK'
  <2>1. at' \in [Task -> Step] BY <1>16 DEF ReceiveFails, Receiving, MarkDisconnected,
      MarkFail, MarkTransport, MarkEnd, CloseTransport, FailPending, DropPending
  <2>2. future' \in [Task -> {"none", "waiting", "failed", "error", "response"}]
    BY <1>16 DEF ReceiveFails, Receiving, MarkDisconnected, MarkFail, MarkTransport,
        MarkEnd, CloseTransport, FailPending, DropPending
  <2>3. pending' \subseteq Requester /\ cancelled' \subseteq Task BY <1>16 DEF
      ReceiveFails, Receiving, MarkDisconnected, MarkFail, MarkTransport, MarkEnd,
      CloseTransport, FailPending, DropPending
  <2>4. UNCHANGED <<seqOf, number, answers>> BY <1>16 DEF ReceiveFails, Receiving,
      MarkDisconnected, MarkFail, MarkTransport, MarkEnd, CloseTransport, FailPending,
      DropPending
  <2>5. QED BY <2>1, <2>2, <2>3, <2>4
<1>17. ASSUME ReceiveCancelled, UNCHANGED stopEvent PROVE TasksTypeOK'
  BY <1>17 DEF ReceiveCancelled
<1>18. ASSUME MarkHeartbeatEnded, UNCHANGED stopEvent PROVE TasksTypeOK'
  BY <1>18 DEF MarkHeartbeatEnded, MarkFail, MarkTransport, MarkEnd, CloseTransport,
      FailPending
<1>19. ASSUME NEW t \in {"receive", "heartbeat"}, MarkClosed(t), UNCHANGED stopEvent
    PROVE TasksTypeOK'
  BY <1>19 DEF MarkClosed, MarkEnd
<1>20. ASSUME HeartbeatSends, UNCHANGED stopEvent PROVE TasksTypeOK'
  BY <1>20 DEF HeartbeatSends, CanSend, Send, NextSeqId, Sent, HeartbeatOff, DropPending
<1>21. ASSUME HeartbeatReturns, UNCHANGED stopEvent PROVE TasksTypeOK'
  BY <1>21 DEF HeartbeatReturns, Answered, Waits, DropPending
<1>22. ASSUME HeartbeatRaises, UNCHANGED stopEvent PROVE TasksTypeOK'
  <2>1. at' \in [Task -> Step] BY <1>22 DEF HeartbeatRaises, Raises, TimedOut, Waits,
      HeartbeatOff, MarkDisconnected, MarkFail, MarkTransport, MarkEnd, CloseTransport,
      FailPending, DropPending
  <2>2. future' \in [Task -> {"none", "waiting", "failed", "error", "response"}]
    BY <1>22 DEF HeartbeatRaises, Raises, TimedOut, Waits, HeartbeatOff,
        MarkDisconnected, MarkFail, MarkTransport, MarkEnd, CloseTransport, FailPending,
        DropPending
  <2>3. pending' \subseteq Requester /\ cancelled' \subseteq Task BY <1>22 DEF
      HeartbeatRaises, Raises, TimedOut, Waits, HeartbeatOff, MarkDisconnected,
      MarkFail, MarkTransport, MarkEnd, CloseTransport, FailPending, DropPending
  <2>4. UNCHANGED <<seqOf, number, answers>> BY <1>22 DEF HeartbeatRaises, Raises,
      TimedOut, Waits, HeartbeatOff, MarkDisconnected, MarkFail, MarkTransport, MarkEnd,
      CloseTransport, FailPending, DropPending
  <2>5. QED BY <2>1, <2>2, <2>3, <2>4
<1>23. ASSUME HeartbeatCancelled, UNCHANGED stopEvent PROVE TasksTypeOK'
  BY <1>23 DEF HeartbeatCancelled, HeartbeatOff, DropPending
<1>24. ASSUME LineFault, UNCHANGED stopEvent PROVE TasksTypeOK'
  BY <1>24 DEF LineFault
<1>25. ASSUME NEW r \in wire, NEW ok \in BOOLEAN, Answer(r, ok), UNCHANGED stopEvent
    PROVE TasksTypeOK'
  BY <1>25 DEF Answer
<1>26. ASSUME NEW u \in User, UserRequest(u), UNCHANGED stopEvent PROVE TasksTypeOK'
  BY <1>26 DEF UserRequest, CanSend, Send, NextSeqId, Sent
<1>27. ASSUME NEW u \in User, UserReturns(u), UNCHANGED stopEvent PROVE TasksTypeOK'
  BY <1>27 DEF UserReturns, Answered, Raises, TimedOut, Waits, DropPending
<1>28. CASE UNCHANGED clientVars BY <1>28 DEF clientVars
<1>29. QED
  BY <1>1, <1>2, <1>3, <1>4, <1>5, <1>6, <1>7, <1>8, <1>9, <1>10, <1>11, <1>12, <1>13,
      <1>14, <1>15, <1>16, <1>17, <1>18, <1>19, <1>20, <1>21, <1>22, <1>23, <1>24,
      <1>25, <1>26, <1>27, <1>28
  DEF Next, RunStep, StopStep, CloseGoesOn, ReceiveStep, HeartbeatStep, Environment

LEMMA LineStep == (AttributesTypeOK /\ LineTypeOK) /\ [Next]_clientVars => LineTypeOK'
<1> SUFFICES ASSUME (AttributesTypeOK /\ LineTypeOK), [Next]_clientVars PROVE LineTypeOK'
  OBVIOUS
<1> USE DEF Requester, Alive, attributes, callVars, lineVars, AttributesTypeOK,
    LineTypeOK, Response
<1>1. CASE Connect
  BY <1>1 DEF Connect
<1>2. CASE Connected
  BY <1>2 DEF Connected, Send, NextSeqId, Sent
<1>3. CASE ConnectFails
  BY <1>3 DEF ConnectFails, Close, CloseConnection, CloseTransport, CloseReceive,
      CloseReturns, StillClosing, FailPending, DropPending
<1>4. CASE Login
  BY <1>4 DEF Login, LoginReturns, Answered, Waits, DropPending
<1>5. CASE LoginFails
  BY <1>5 DEF LoginFails, Raises, TimedOut, Waits, Close, CloseConnection,
      CloseTransport, CloseReceive, CloseReturns, StillClosing, FailPending, DropPending
<1>6. CASE WatchEnds
  <2>1. at["run"] = "watch" /\ Close("run") /\ UNCHANGED <<faults, stopEvent>>
    BY <1>6 DEF WatchEnds
  <2>2. QED BY <2>1 DEF Close, CloseConnection, CloseTransport, CloseReceive,
      CloseReturns, StillClosing, FailPending, DropPending
<1>7. CASE RunEnds
  BY <1>7 DEF RunEnds
<1>8. CASE RunCancelled
  BY <1>8 DEF RunCancelled, Close, CloseConnection, CloseTransport, CloseReceive,
      CloseReturns, StillClosing, FailPending, DropPending
<1>9. ASSUME NEW t \in {"run", "stop"}, CloseHeartbeatEnded(t) PROVE LineTypeOK'
  BY <1>9 DEF CloseHeartbeatEnded, CloseConnection, CloseTransport, CloseReceive,
      CloseReturns, StillClosing, FailPending, DropPending
<1>10. ASSUME NEW t \in {"run", "stop"}, CloseClosed(t) PROVE LineTypeOK'
  BY <1>10 DEF CloseClosed, CloseReceive, CloseReturns, StillClosing, FailPending,
      DropPending
<1>11. ASSUME NEW t \in {"run", "stop"}, CloseReceiveEnded(t) PROVE LineTypeOK'
  BY <1>11 DEF CloseReceiveEnded, CloseReturns, FailPending
<1>12. CASE Stop
  BY <1>12 DEF Stop, Close, CloseConnection, CloseTransport, CloseReceive, CloseReturns,
      StillClosing, FailPending, DropPending
<1>13. CASE StopReturns
  BY <1>13 DEF StopReturns
<1>14. ASSUME ReceivePacket, UNCHANGED stopEvent PROVE LineTypeOK'
  <2>1. inbox' \in Seq(Response) BY <1>14, HeadTail DEF ReceivePacket
  <2>2. QED BY <2>1, <1>14 DEF ReceivePacket
<1>15. ASSUME ReceiveEnds, UNCHANGED stopEvent PROVE LineTypeOK'
  BY <1>15 DEF ReceiveEnds, Receiving, MarkDisconnected, MarkFail, MarkTransport,
      MarkEnd, CloseTransport, FailPending, DropPending
<1>16. ASSUME ReceiveFails, UNCHANGED stopEvent PROVE LineTypeOK'
  BY <1>16 DEF ReceiveFails, Receiving, MarkDisconnected, MarkFail, MarkTransport,
      MarkEnd, CloseTransport, FailPending, DropPending
<1>17. ASSUME ReceiveCancelled, UNCHANGED stopEvent PROVE LineTypeOK'
  BY <1>17 DEF ReceiveCancelled
<1>18. ASSUME MarkHeartbeatEnded, UNCHANGED stopEvent PROVE LineTypeOK'
  BY <1>18 DEF MarkHeartbeatEnded, MarkFail, MarkTransport, MarkEnd, CloseTransport,
      FailPending
<1>19. ASSUME NEW t \in {"receive", "heartbeat"}, MarkClosed(t), UNCHANGED stopEvent
    PROVE LineTypeOK'
  BY <1>19 DEF MarkClosed, MarkEnd
<1>20. ASSUME HeartbeatSends, UNCHANGED stopEvent PROVE LineTypeOK'
  BY <1>20 DEF HeartbeatSends, CanSend, Send, NextSeqId, Sent, HeartbeatOff, DropPending
<1>21. ASSUME HeartbeatReturns, UNCHANGED stopEvent PROVE LineTypeOK'
  BY <1>21 DEF HeartbeatReturns, Answered, Waits, DropPending
<1>22. ASSUME HeartbeatRaises, UNCHANGED stopEvent PROVE LineTypeOK'
  BY <1>22 DEF HeartbeatRaises, Raises, TimedOut, Waits, HeartbeatOff, MarkDisconnected,
      MarkFail, MarkTransport, MarkEnd, CloseTransport, FailPending, DropPending
<1>23. ASSUME HeartbeatCancelled, UNCHANGED stopEvent PROVE LineTypeOK'
  BY <1>23 DEF HeartbeatCancelled, HeartbeatOff, DropPending
<1>24. ASSUME LineFault, UNCHANGED stopEvent PROVE LineTypeOK'
  BY <1>24 DEF LineFault
<1>25. ASSUME NEW r \in wire, NEW ok \in BOOLEAN, Answer(r, ok), UNCHANGED stopEvent
    PROVE LineTypeOK'
  BY <1>25 DEF Answer
<1>26. ASSUME NEW u \in User, UserRequest(u), UNCHANGED stopEvent PROVE LineTypeOK'
  BY <1>26 DEF UserRequest, CanSend, Send, NextSeqId, Sent
<1>27. ASSUME NEW u \in User, UserReturns(u), UNCHANGED stopEvent PROVE LineTypeOK'
  BY <1>27 DEF UserReturns, Answered, Raises, TimedOut, Waits, DropPending
<1>28. CASE UNCHANGED clientVars BY <1>28 DEF clientVars
<1>29. QED
  BY <1>1, <1>2, <1>3, <1>4, <1>5, <1>6, <1>7, <1>8, <1>9, <1>10, <1>11, <1>12, <1>13,
      <1>14, <1>15, <1>16, <1>17, <1>18, <1>19, <1>20, <1>21, <1>22, <1>23, <1>24,
      <1>25, <1>26, <1>27, <1>28
  DEF Next, RunStep, StopStep, CloseGoesOn, ReceiveStep, HeartbeatStep, Environment

LEMMA QuietStep ==
  (TypeOK /\ PlaceInv /\ ConnectInv /\ EventInv /\ QuietInv) /\ [Next]_clientVars => QuietInv'
<1> SUFFICES ASSUME TypeOK, PlaceInv, ConnectInv, EventInv, QuietInv, [Next]_clientVars
             PROVE  QuietInv'
  OBVIOUS
<1> USE DEF Requester, Task, Goto, Cancel, Alive, attributes, callVars, lineVars,
    PlaceInv, CloseStep, TypeOK, ClientTypeOK, AttributesTypeOK, TasksTypeOK,
    ConnectInv, EventInv, QuietInv
<1>1. CASE Connect
  BY <1>1 DEF Connect
<1>2. CASE Connected
  BY <1>2 DEF Connected, Send, NextSeqId, Sent
<1>3. CASE ConnectFails
  BY <1>3 DEF ConnectFails, Close, CloseConnection, CloseTransport, CloseReceive,
      CloseReturns, StillClosing, FailPending, DropPending
<1>4. CASE Login
  BY <1>4 DEF Login, LoginReturns, Answered, Waits, DropPending
<1>5. CASE LoginFails
  BY <1>5 DEF LoginFails, Raises, TimedOut, Waits, Close, CloseConnection,
      CloseTransport, CloseReceive, CloseReturns, StillClosing, FailPending, DropPending
<1>6. CASE WatchEnds
  <2>1. at["run"] = "watch" /\ Close("run") /\ UNCHANGED <<faults, stopEvent>>
    BY <1>6 DEF WatchEnds
  <2>2. QED BY <2>1 DEF Close, CloseConnection, CloseTransport, CloseReceive,
      CloseReturns, StillClosing, FailPending, DropPending
<1>7. CASE RunEnds
  BY <1>7 DEF RunEnds
<1>8. CASE RunCancelled
  BY <1>8 DEF RunCancelled, Close, CloseConnection, CloseTransport, CloseReceive,
      CloseReturns, StillClosing, FailPending, DropPending
<1>9. ASSUME NEW t \in {"run", "stop"}, CloseHeartbeatEnded(t) PROVE QuietInv'
  BY <1>9 DEF CloseHeartbeatEnded, CloseConnection, CloseTransport, CloseReceive,
      CloseReturns, StillClosing, FailPending, DropPending
<1>10. ASSUME NEW t \in {"run", "stop"}, CloseClosed(t) PROVE QuietInv'
  BY <1>10 DEF CloseClosed, CloseReceive, CloseReturns, StillClosing, FailPending,
      DropPending
<1>11. ASSUME NEW t \in {"run", "stop"}, CloseReceiveEnded(t) PROVE QuietInv'
  BY <1>11 DEF CloseReceiveEnded, CloseReturns, FailPending
<1>12. CASE Stop
  BY <1>12 DEF Stop, Close, CloseConnection, CloseTransport, CloseReceive, CloseReturns,
      StillClosing, FailPending, DropPending
<1>13. CASE StopReturns
  BY <1>13 DEF StopReturns
<1>14. ASSUME ReceivePacket, UNCHANGED stopEvent PROVE QuietInv'
  BY <1>14 DEF ReceivePacket, Receiving, Dispatch, Type
<1>15. ASSUME ReceiveEnds, UNCHANGED stopEvent PROVE QuietInv'
  BY <1>15 DEF ReceiveEnds, Receiving, MarkDisconnected, MarkFail, MarkTransport,
      MarkEnd, CloseTransport, FailPending, DropPending
<1>16. ASSUME ReceiveFails, UNCHANGED stopEvent PROVE QuietInv'
  BY <1>16 DEF ReceiveFails, Receiving, MarkDisconnected, MarkFail, MarkTransport,
      MarkEnd, CloseTransport, FailPending, DropPending
<1>17. ASSUME ReceiveCancelled, UNCHANGED stopEvent PROVE QuietInv'
  BY <1>17 DEF ReceiveCancelled
<1>18. ASSUME MarkHeartbeatEnded, UNCHANGED stopEvent PROVE QuietInv'
  BY <1>18 DEF MarkHeartbeatEnded, MarkFail, MarkTransport, MarkEnd, CloseTransport,
      FailPending
<1>19. ASSUME NEW t \in {"receive", "heartbeat"}, MarkClosed(t), UNCHANGED stopEvent
    PROVE QuietInv'
  BY <1>19 DEF MarkClosed, MarkEnd
<1>20. ASSUME HeartbeatSends, UNCHANGED stopEvent PROVE QuietInv'
  BY <1>20 DEF HeartbeatSends, CanSend, Send, NextSeqId, Sent, HeartbeatOff, DropPending
<1>21. ASSUME HeartbeatReturns, UNCHANGED stopEvent PROVE QuietInv'
  BY <1>21 DEF HeartbeatReturns, Answered, Waits, DropPending
<1>22. ASSUME HeartbeatRaises, UNCHANGED stopEvent PROVE QuietInv'
  BY <1>22 DEF HeartbeatRaises, Raises, TimedOut, Waits, HeartbeatOff, MarkDisconnected,
      MarkFail, MarkTransport, MarkEnd, CloseTransport, FailPending, DropPending
<1>23. ASSUME HeartbeatCancelled, UNCHANGED stopEvent PROVE QuietInv'
  BY <1>23 DEF HeartbeatCancelled, HeartbeatOff, DropPending
<1>24. ASSUME LineFault, UNCHANGED stopEvent PROVE QuietInv'
  BY <1>24 DEF LineFault
<1>25. ASSUME NEW r \in wire, NEW ok \in BOOLEAN, Answer(r, ok), UNCHANGED stopEvent
    PROVE QuietInv'
  BY <1>25 DEF Answer
<1>26. ASSUME NEW u \in User, UserRequest(u), UNCHANGED stopEvent PROVE QuietInv'
  BY <1>26 DEF UserRequest, CanSend, Send, NextSeqId, Sent
<1>27. ASSUME NEW u \in User, UserReturns(u), UNCHANGED stopEvent PROVE QuietInv'
  BY <1>27 DEF UserReturns, Answered, Raises, TimedOut, Waits, DropPending
<1>28. CASE UNCHANGED clientVars BY <1>28 DEF clientVars
<1>29. QED
  BY <1>1, <1>2, <1>3, <1>4, <1>5, <1>6, <1>7, <1>8, <1>9, <1>10, <1>11, <1>12, <1>13,
      <1>14, <1>15, <1>16, <1>17, <1>18, <1>19, <1>20, <1>21, <1>22, <1>23, <1>24,
      <1>25, <1>26, <1>27, <1>28
  DEF Next, RunStep, StopStep, CloseGoesOn, ReceiveStep, HeartbeatStep, Environment

LEMMA Inductive == IInv /\ [Next]_clientVars => IInv'
BY PlaceStep, ConnectStep, EventStep, SequenceStep, PendingStep, OwnStep, AttributesStep,
   TasksStep, LineStep, QuietStep DEF IInv, TypeOK, ClientTypeOK

LEMMA IInvInvariant == Spec => []IInv
BY InitIInv, Inductive, PTL DEF Spec

(* Every reachable state is well typed (client.py). *)
THEOREM TypeCorrect == Spec => []TypeOK
<1>1. IInv => TypeOK BY DEF IInv
<1>2. QED BY <1>1, IInvInvariant, PTL

(* A request returns the response to itself and to no other (request). *)
THEOREM OwnResponseOnlySafe == Spec => []OwnResponseOnly
<1>1. IInv => OwnResponseOnly BY DEF IInv
<1>2. QED BY <1>1, IInvInvariant, PTL

(* The pending table names the waiting requests and all of them (request,  *)
(* _drop_pending, _fail_pending).                                          *)
THEOREM PendingIsAwaitedSafe == Spec => []PendingIsAwaited
<1>1. IInv => PendingIsAwaited BY DEF IInv
<1>2. QED BY <1>1, IInvInvariant, PTL

(* Nobody waits for a response once the event is set (_mark_disconnected). *)
THEOREM NobodyWaitsDisconnectedSafe == Spec => []NobodyWaitsDisconnected
<1>1. IInv => NobodyWaitsDisconnected BY DEF IInv, EventInv, NobodyWaitsDisconnected
<1>2. QED BY <1>1, IInvInvariant, PTL

(* After stop() nothing of the client is left but a heartbeat that waits   *)
(* for the end of the transport it closed, wherever stop() met the run     *)
(* task, and although both may close the client at once (stop, close).     *)
THEOREM StoppedIsQuietSafe == Spec => []StoppedIsQuiet
<1>1. IInv => StoppedIsQuiet
  BY DEF IInv, PlaceInv, QuietInv, StoppedIsQuiet, Alive
<1>2. QED BY <1>1, IInvInvariant, PTL
=============================================================================
