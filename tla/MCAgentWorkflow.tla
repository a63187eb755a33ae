--------------------------- MODULE MCAgentWorkflow ---------------------------
EXTENDS AgentWorkflowProps, Naturals, Sequences

CONSTANTS talk, claim, blank, group, note, forget, save, drop

Noted == {<<"mem", note>>}

(* The safety check objects to one of the talks and to what is to be noted. *)
MCWordsOf(m) ==
  IF m \in {claim, note} THEN "objected" ELSE IF m = blank THEN "blank" ELSE "plain"

(* What the messages ask for; the same memory is concerned by several.     *)
MCAskOf(m) ==
  LET noted   == <<"mem", note>>
      tool(n) == [kind |-> "tool",
                  payload |-> [name |-> n, memory |-> noted, key |-> "k"]]
  IN CASE m \in {talk, claim, blank} -> [kind |-> "talk"]
       [] m = group  -> [kind |-> "group"]
       [] m = note   -> [kind |-> "remember"]
       [] m = forget -> [kind |-> "forget", memory |-> noted]
       [] m = save   -> tool("save_memory")
       [] m = drop   -> tool("deactivate_memory")

(* The two requests have the same part in everything: of two behaviours    *)
(* that differ in who is who, one is enough.                               *)
Order == <<talk, claim, blank, group, note, forget, save, drop>>

InOrder ==
  \A i, j \in 1..Len(Order) :
    (message["c1"] = Order[i] /\ message["c2"] = Order[j]) => i <= j
=============================================================================
