---------------------------- MODULE MCBotRuntime ----------------------------
(* Small instances of the bot runtime for TLC. *)
EXTENDS BotRuntimeProps

(* A private message and a group message of an account, and a message of   *)
(* the bot's own to a group.                                               *)
MCSenderOf ==
  [m \in Message |-> IF m \in {"p1", "g1"} THEN "ann" ELSE "bot"]
=============================================================================
