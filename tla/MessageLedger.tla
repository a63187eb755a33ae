--------------------------- MODULE MessageLedger ---------------------------
(***************************************************************************)
(* What the bot promises about replies, without saying how: a message is   *)
(* settled at most once and for good; a reply is sent only for a message   *)
(* that is not settled, at most one per message and run of the process;    *)
(* and the server takes only replies that were sent.                       *)
(***************************************************************************)
EXTENDS Naturals

CONSTANTS Message

VARIABLES
  run,      \* runs of the process so far
  settled,  \* messages that need no further attention
  wire,     \* replies sent, neither taken nor lost
  taken     \* replies taken by the server

ledgerVars == <<run, settled, wire, taken>>

Init ==
  /\ run = 0
  /\ settled = {}
  /\ wire = {}
  /\ taken = {}

NewRun ==
  /\ run' = run + 1
  /\ UNCHANGED <<settled, wire, taken>>

(* A reply is a record that names its message and the run that sent it.    *)
Send(m) ==
  /\ m \notin settled
  /\ ~\E r \in wire \cup taken : r.msg = m /\ r.run = run
  /\ \E r \in wire' \ wire :
       r.msg = m /\ r.run = run /\ wire' = wire \cup {r}
  /\ UNCHANGED <<run, settled, taken>>

Take ==
  /\ \E r \in wire : wire' = wire \ {r} /\ taken' = taken \cup {r}
  /\ UNCHANGED <<run, settled>>

Lose ==
  /\ \E r \in wire : wire' = wire \ {r}
  /\ UNCHANGED <<run, settled, taken>>

Settle(m) ==
  /\ m \notin settled
  /\ settled' = settled \cup {m}
  /\ UNCHANGED <<run, wire, taken>>

Next ==
  \/ NewRun \/ Take \/ Lose
  \/ \E m \in Message : Send(m) \/ Settle(m)

Spec == Init /\ [][Next]_ledgerVars
=============================================================================
