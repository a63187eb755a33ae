--------------------------- MODULE HumanReviewProps ---------------------------
(***************************************************************************)
(* What holds of a review however the requests of its reviewers and of the *)
(* workflow interleave and wherever they are cut off.                      *)
(***************************************************************************)
EXTENDS HumanReview

(* A completed review does not change any more, although the check for it  *)
(* and the update are different transactions (store.py, edit/approve/      *)
(* reject).                                                                *)
CompletedIsFinal ==
  [][status = "completed" => UNCHANGED <<status, edited>>]_vars

(* A completed review has a final command in its checkpoint: mark_completed*)
(* saves it first, and a chat request that saves its state meanwhile does  *)
(* not erase it (store.py, save_checkpoint).                               *)
CompletedHasCommand ==
  status = "completed" => finalCommand \in Command

(* Several chat requests for one message open one review: create_pending   *)
(* is audited at most once (store.py, create_pending).                     *)
CreatedOnce ==
  \A e, f \in audit : (e.action = "create" /\ f.action = "create") => e = f

(* Whoever gets a send command from a resume finds the review completed    *)
(* and the text in the audit log (store.py, mark_completed).               *)
SendsAreAudited ==
  \A r \in Sends :
    /\ status = "completed"
    /\ \E e \in audit : /\ e.action = "resume" /\ e.command = "send"
                        /\ e.text = text[r] /\ e.after = "completed"

(* A resume that begins after another was answered with a send command     *)
(* sends nothing, whatever else goes on (service.py, resume_human_review). *)
LaterResumeSendsNothing == Sends \cap late = {}

SentTexts == {text[r] : r \in Sends}

(* The review implements its life cycle: see ReviewLifecycle.              *)
Lifecycle == INSTANCE ReviewLifecycle WITH
  text     <- edited,
  approved <- approvedTexts,
  sent     <- SentTexts

LifecycleSpec == Lifecycle!Spec

-----------------------------------------------------------------------------
(* tests/test_human_review_checkpoint.py, test_repeated_resume_does_not_   *)
(* generate_duplicate_send_command: only one resume gets a send command.   *)
RepeatedResumeDoesNotSendAgain ==
  \A r, s \in Sends : r = s

-----------------------------------------------------------------------------
(* The inductive invariant, in named parts.                                *)

Completing == {"complete_read", "complete_save", "complete_update"}
Auditing   == {"require_after", "audit"}

(* The transactions a request runs are those of its kind, and it is        *)
(* answered when it is through with them.                                  *)
ControlInv ==
  \A r \in Request :
    /\ at[r] \in {"save_state", "find_existing", "insert"} => op[r] = "chat"
    /\ at[r] = "save_final" => op[r] \in {"chat", "direct"}
    /\ at[r] = "update" => op[r] \in Mutation
    /\ at[r] \in Completing => op[r] = "resume"
    /\ at[r] \in Auditing => op[r] # "direct"
    /\ answer[r] = "none" \/ at[r] = "done"

(* A review that exists, is decided, or is completed remains so.           *)
DecisionInv ==
  /\ status = "completed" => finalCommand \in Command
  /\ \A r \in Request :
       /\ at[r] = "update" \/ (at[r] \in Auditing /\ op[r] = "chat")
            => status # "none"
       /\ at[r] \in Completing => status \in {"approved", "rejected", "completed"}
       /\ at[r] = "complete_update" => finalCommand \in Command
       /\ (at[r] \in Auditing /\ op[r] = "resume") => status = "completed"
       /\ (at[r] = "audit" /\ op[r] = "resume") => after[r] = "completed"

(* What a resume is going to send once stood in the approved review.       *)
ApprovedInv ==
  /\ status = "none" => edited = NoText
  /\ status = "approved" /\ edited # NoText => edited \in approvedTexts
  /\ \A r \in Request :
       (op[r] = "resume" /\ command[r] = "send") => text[r] \in approvedTexts

(* Creating a review and auditing its creation are done by one request.    *)
CreateInv ==
  /\ \A r, s \in Request :
       (at[r] \in Auditing /\ op[r] = "chat" /\ at[s] \in Auditing /\ op[s] = "chat")
         => r = s
  /\ \A e \in audit :
       e.action = "create" =>
         /\ status # "none"
         /\ op[e.by] = "chat" /\ at[e.by] \in {"save_final", "done"}
         /\ \A r \in Request : at[r] \in Auditing => op[r] # "chat"
  /\ CreatedOnce

(* A send command is answered only after the review is completed and the   *)
(* command audited, and by no request that began after one was.            *)
SendInv ==
  /\ SendsAreAudited
  /\ \A r \in Sends : command[r] = "send"
  /\ \A r \in late : at[r] # "idle" /\ (op[r] = "resume" => command[r] = "silent")

IInv == /\ TypeOK /\ ControlInv /\ DecisionInv /\ ApprovedInv /\ CreateInv /\ SendInv
=============================================================================
