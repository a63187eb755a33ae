--------------------------- MODULE ReviewLifecycle ---------------------------
(***************************************************************************)
(* What a human review promises, without requests and transactions: it is  *)
(* opened once, decided by a reviewer, possibly more than once, and        *)
(* completed only after a decision and for good.  A text leaves it only    *)
(* once it is completed, and only one that stood in it while approved.     *)
(***************************************************************************)
CONSTANTS Text, NoText

VARIABLES
  status,
  text,      \* the text in the review
  approved,  \* texts that stood in it while it was approved
  sent       \* texts that left it

lifecycleVars == <<status, text, approved, sent>>

Init ==
  /\ status = "none"
  /\ text = NoText
  /\ approved = {}
  /\ sent = {}

Open ==
  /\ status = "none"
  /\ status' = "pending"
  /\ UNCHANGED <<text, approved, sent>>

Standing == IF status = "approved" /\ text # NoText THEN {text} ELSE {}

(* A reviewer changes the text, the decision, or both. *)
Review ==
  /\ status \in {"pending", "approved", "rejected"}
  /\ status' \in {status, "approved", "rejected"}
  /\ text' \in Text \cup {text}
  /\ approved' = approved \cup Standing'
  /\ UNCHANGED sent

Complete ==
  /\ status \in {"approved", "rejected"}
  /\ status' = "completed"
  /\ UNCHANGED <<text, approved, sent>>

Send ==
  /\ status = "completed"
  /\ \E t \in approved : sent' = sent \cup {t}
  /\ UNCHANGED <<status, text, approved>>

Next == Open \/ Review \/ Complete \/ Send

Spec == Init /\ [][Next]_lifecycleVars
=============================================================================
