---------------------------- MODULE LiteIMServer ----------------------------
(***************************************************************************)
(* The LiteIM server and the TCP connection to it, as the bot client uses  *)
(* them.  The server is not part of the repository: what it does with a    *)
(* request is modelled from the requests bot_client sends and the answers  *)
(* and pushes it expects.                                                  *)
(*                                                                         *)
(* A request is put on the wire by the client and taken by the server at   *)
(* any later time, also after the client has given up waiting for it; the  *)
(* requests still on the wire of a connection that is gone may be lost.    *)
(* Requests are a set: several are on the wire only when earlier ones have *)
(* timed out, and LiteIM answers by sequence id, promising no order.       *)
(***************************************************************************)
EXTENDS Sequences, JsonMessageState

CONSTANTS
  SenderOf,     \* SenderOf[m]: the account that wrote m
  GroupMessage, \* the messages of group conversations, the others are private
  Bot           \* the bot's own account

ASSUME ServerAssumption ==
  /\ SenderOf \in [Message -> User]
  /\ GroupMessage \subseteq Message
  /\ Bot \in User
  /\ Nobody \notin User

VARIABLES
  connected,       \* the writer of the TCP connection is set and open
  identity,        \* the client's identity is set, its receive loop at work
  run,             \* number of times the bot process was started
  pushQueue,       \* BotClient.push_queue
  inflight,        \* requests on the wire, not yet taken by the server
  answer,          \* the server's answer to the request the handler awaits
  stored,          \* messages the server keeps for the bot until it acks them
  arrived,         \* messages that have reached the server
  pushes,          \* pushes[m]: how often m was pushed
  accepted,        \* replies the server took from the bot
  offlineAcked,    \* messages whose offline ack the server took
  serverFriends,   \* the bot's friends, as the server knows them
  friendRequests   \* accounts whose friend request to the bot is pending

sessionVars == <<connected, identity, run>>
serverVars  == <<sessionVars, pushQueue, inflight, answer, stored, arrived, pushes,
                 accepted, offlineAcked, serverFriends, friendRequests>>

(* An ack names the messages it is about; a send carries the reply: the    *)
(* message it answers, its client message id, and the run that sent it.    *)
Sending == "send"
AckOp   == {"delivery_ack", "read_ack", "offline_ack"}
Sent    == [msg : Message, cid : ClientId, run : Nat]
Request == [op : AckOp, msgs : SUBSET Message, run : Nat]
             \cup [op : {Sending}, msgs : SUBSET Message, run : Nat, reply : Sent]

Packet == [type : {"message", "receipt"}, msg : Message]
            \cup [type : {"friend_accepted"}, user : User]

(* Responses and pushes reach the client.                                  *)
LoggedIn == connected /\ identity

Private(m) == m \notin GroupMessage
FromBot(m) == SenderOf[m] = Bot

ServerTypeOK ==
  /\ connected \in BOOLEAN
  /\ identity \in BOOLEAN
  /\ run \in Nat
  /\ pushQueue \in Seq(Packet)
  /\ inflight \subseteq Request
  /\ answer \in {"none", "ok", "error"}
  /\ stored \subseteq Message
  /\ arrived \subseteq Message
  /\ pushes \in [Message -> Nat]
  /\ accepted \subseteq Sent
  /\ offlineAcked \subseteq Message
  /\ serverFriends \subseteq User
  /\ friendRequests \subseteq User

ServerInit ==
  /\ connected = FALSE
  /\ identity = FALSE
  /\ run = 0
  /\ pushQueue = <<>>
  /\ inflight = {}
  /\ answer = "none"
  /\ stored = {}
  /\ arrived = {}
  /\ pushes = [m \in Message |-> 0]
  /\ accepted = {}
  /\ offlineAcked = {}
  /\ serverFriends \in SUBSET (User \ {Bot})
  /\ friendRequests \in SUBSET (User \ (serverFriends \cup {Bot}))
=============================================================================
