---------------------------- MODULE FrameChannel ----------------------------
(***************************************************************************)
(* What the receiving side of the connection promises about packets,       *)
(* without bytes: on each connection the packets arrive whole, once and in *)
(* the order in which they were sent, some at a time, until it breaks.     *)
(***************************************************************************)
EXTENDS Naturals, Sequences

VARIABLES
  sent,  \* packets the peer sent on this connection
  got,   \* packets handed to the client on it
  up     \* the connection is there

channelVars == <<sent, got, up>>

Init ==
  /\ sent = <<>>
  /\ got = <<>>
  /\ up = TRUE

Send ==
  /\ up
  /\ Len(sent') = Len(sent) + 1
  /\ SubSeq(sent', 1, Len(sent)) = sent
  /\ UNCHANGED <<got, up>>

Arrive ==
  /\ up
  /\ \E n \in Len(got) + 1 .. Len(sent) : got' = SubSeq(sent, 1, n)
  /\ UNCHANGED <<sent, up>>

Break ==
  /\ up
  /\ up' = FALSE
  /\ UNCHANGED <<sent, got>>

Open ==
  /\ ~up
  /\ up' = TRUE
  /\ sent' = <<>>
  /\ got' = <<>>

Next == Send \/ Arrive \/ Break \/ Open

Spec == Init /\ [][Next]_channelVars
=============================================================================
