----------------------------- MODULE HumanReview -----------------------------
(***************************************************************************)
(* The review of one message's reply by a human: agent_service/review/     *)
(* (store and service), the routes of api/routes/review.py, and the end of *)
(* run_agent_chat, which opens the review.                                 *)
(*                                                                         *)
(* FastAPI serves each request in a thread of its own, and each call of    *)
(* the store's connection is a SQLite transaction of its own: one action   *)
(* here is one transaction, and requests interleave between them.  Reviews *)
(* of different threads share no row, so one review thread is modelled.    *)
(*                                                                         *)
(* expires_at is NULL in every row the program writes: no review expires.  *)
(***************************************************************************)
EXTENDS FiniteSets

CONSTANTS
  ChatRequest,    \* POST /chat for the message, each made once
  ReviewRequest,  \* edit, approve, reject or resume, each made once
  Text            \* texts a reviewer may write

NoText  == "no text"
Request == ChatRequest \cup ReviewRequest

ASSUME ReviewAssumption ==
  /\ ChatRequest \cap ReviewRequest = {}
  /\ NoText \notin Text

VARIABLES
  \* human_reviews, checkpoints and human_review_audit, for the one thread
  status,        \* status of the review, "none" while there is no row
  edited,        \* edited_text
  finalCommand,  \* final_command_json: "missing" without a row, "null"
  audit,         \* entries of the audit log
  \* the requests
  at,            \* the transaction a request runs next
  op,            \* which request it is
  text,          \* its text: the reviewer's, or the one a resume sends
  command,       \* the command chat or resume is going to return
  before,        \* status of the review when the request read it first
  after,         \* status of the review when it read it again
  answer,        \* what it was answered
  \* history
  approvedTexts, \* texts that stood in the review while it was approved
  late           \* the requests that began after a resume was answered "send"

rowVars == <<status, edited>>
vars == <<status, edited, finalCommand, audit, at, op, text, command, before,
          after, answer, approvedTexts, late>>

Mutation == {"edit", "approve", "reject"}
Op       == {"chat", "direct", "resume"} \cup Mutation
Status   == {"none", "pending", "approved", "rejected", "completed"}
Command  == {"silent", "send"}
Step     == {"idle", "save_state", "find_existing", "insert", "save_final",
             "update", "complete_read", "complete_save", "complete_update",
             "require_after", "audit", "done"}
Answer   == {"none", "ok", "not_found", "conflict", "error"} \cup Command
Action   == {"create", "resume"} \cup Mutation
Entry    == [by : Request, action : Action, before : Status, after : Status,
             text : Text \cup {NoText}, command : Command]

TypeOK ==
  /\ status \in Status
  /\ edited \in Text \cup {NoText}
  /\ finalCommand \in {"missing", "null"} \cup Command
  /\ audit \subseteq Entry
  /\ at \in [Request -> Step]
  /\ op \in [Request -> Op]
  /\ text \in [Request -> Text \cup {NoText}]
  /\ command \in [Request -> Command]
  /\ before \in [Request -> Status]
  /\ after \in [Request -> Status]
  /\ answer \in [Request -> Answer]
  /\ approvedTexts \subseteq Text
  /\ late \subseteq Request

Init ==
  /\ status = "none" /\ edited = NoText
  /\ finalCommand = "missing"
  /\ audit = {}
  /\ at = [r \in Request |-> "idle"]
  /\ op = [r \in Request |-> "chat"]
  /\ text = [r \in Request |-> NoText]
  /\ command = [r \in Request |-> "silent"]
  /\ before = [r \in Request |-> "none"]
  /\ after = [r \in Request |-> "none"]
  /\ answer = [r \in Request |-> "none"]
  /\ approvedTexts = {}
  /\ late = {}

-----------------------------------------------------------------------------
Goto(r, step) ==
  /\ at' = [at EXCEPT ![r] = step]
  /\ UNCHANGED answer

Return(r, a) ==
  /\ at' = [at EXCEPT ![r] = "done"]
  /\ answer' = [answer EXCEPT ![r] = a]

Sends == {r \in Request : op[r] = "resume" /\ answer[r] = "send"}

(* A request comes in and reads the review. *)
Begin(r, o, t, c) ==
  /\ at[r] = "idle"
  /\ op' = [op EXCEPT ![r] = o]
  /\ text' = [text EXCEPT ![r] = t]
  /\ command' = [command EXCEPT ![r] = c]
  /\ before' = IF o \in Mutation THEN [before EXCEPT ![r] = status] ELSE before
  /\ late' = IF Sends = {} THEN late ELSE late \cup {r}
  /\ UNCHANGED <<rowVars, finalCommand, audit, after, approvedTexts>>

requestVars == <<op, text, command, before, late>>

(* save_checkpoint: a NULL command leaves the one that is there.           *)
SaveCheckpoint(c) ==
  finalCommand' = IF c = "null" /\ finalCommand # "missing"
                  THEN finalCommand ELSE c

-----------------------------------------------------------------------------
(* run_agent_chat, after the workflow                                      *)

(* The reply needs a human: get_review, then create_pending.               *)
Chat(r) ==
  /\ Begin(r, "chat", NoText, "silent")
  /\ \/ status = "completed" /\ Goto(r, "save_final")
     \/ status # "completed" /\ Goto(r, "save_state")

(* The reply needs none: it is sent, or there is nothing to say.           *)
ChatDirect(r, c) ==
  /\ Begin(r, "direct", NoText, c)
  /\ Goto(r, "save_final")

SaveState(r) ==
  /\ at[r] = "save_state"
  /\ SaveCheckpoint("null")
  /\ Goto(r, "find_existing")
  /\ UNCHANGED <<requestVars, rowVars, audit, after, approvedTexts>>

FindExisting(r) ==
  /\ at[r] = "find_existing"
  /\ \/ status # "none" /\ Goto(r, "save_final")
     \/ status = "none" /\ Goto(r, "insert")
  /\ UNCHANGED <<requestVars, rowVars, finalCommand, audit, after, approvedTexts>>

(* Mutant: INSERT OR REPLACE.                                              *)
InsertOrReplace(r) ==
  /\ at[r] = "insert"
  /\ status' = "pending" /\ edited' = NoText
  /\ Goto(r, "require_after")
  /\ UNCHANGED <<requestVars, finalCommand, audit, after, approvedTexts>>

(* The primary key refuses a second row: IntegrityError.                   *)
Insert(r) ==
  /\ at[r] = "insert"
  /\ \/ /\ status = "none"
        /\ status' = "pending" /\ edited' = NoText
        /\ Goto(r, "require_after")
     \/ /\ status # "none"
        /\ Return(r, "error")
        /\ UNCHANGED rowVars
  /\ UNCHANGED <<requestVars, finalCommand, audit, after, approvedTexts>>

SaveFinal(r) ==
  /\ at[r] = "save_final"
  /\ SaveCheckpoint(command[r])
  /\ Return(r, command[r])
  /\ UNCHANGED <<requestVars, rowVars, audit, after, approvedTexts>>

-----------------------------------------------------------------------------
(* edit, approve and reject                                                *)

TextOf(o) == CASE o = "edit"    -> Text
               [] o = "approve" -> Text \cup {NoText}
               [] o = "reject"  -> {NoText}

(* _require_review and _ensure_mutable_review *)
Mutate(r, o, t) ==
  /\ o \in Mutation /\ t \in TextOf(o)
  /\ Begin(r, o, t, "silent")
  /\ \/ status = "none" /\ Return(r, "not_found")
     \/ status = "completed" /\ Return(r, "conflict")
     \/ status \notin {"none", "completed"} /\ Goto(r, "update")

NewStatus(o) == CASE o = "edit"    -> status
                  [] o = "approve" -> "approved"
                  [] o = "reject"  -> "rejected"

Write(r) ==
  /\ status' = NewStatus(op[r])
  /\ edited' = IF text[r] = NoText THEN edited ELSE text[r]
  /\ approvedTexts' = IF status' = "approved" /\ edited' # NoText
                      THEN approvedTexts \cup {edited'} ELSE approvedTexts

(* Mutants: the UPDATE relies on the check; the status is misspelt.        *)
UpdateUnguarded(r) ==
  /\ at[r] = "update"
  /\ Write(r)
  /\ Goto(r, "require_after")
  /\ UNCHANGED <<requestVars, finalCommand, audit, after>>
UpdateMisspelt(r) ==
  /\ at[r] = "update" /\ status # "completed"
  /\ status' = op[r]
  /\ Goto(r, "require_after")
  /\ UNCHANGED <<requestVars, edited, finalCommand, audit, after, approvedTexts>>

(* UPDATE ... WHERE status != 'completed'.  Nobody looks at the row count. *)
Update(r) ==
  /\ at[r] = "update"
  /\ \/ status # "completed" /\ Write(r)
     \/ status = "completed" /\ UNCHANGED <<rowVars, approvedTexts>>
  /\ Goto(r, "require_after")
  /\ UNCHANGED <<requestVars, finalCommand, audit, after>>

RequireAfter(r) ==
  /\ at[r] = "require_after"
  /\ after' = [after EXCEPT ![r] = status]
  /\ Goto(r, "audit")
  /\ UNCHANGED <<requestVars, rowVars, finalCommand, audit, approvedTexts>>

ActionOf(o) == IF o = "chat" THEN "create" ELSE o

AppendAudit(r) ==
  /\ at[r] = "audit"
  /\ audit' = audit \cup {[by |-> r, action |-> ActionOf(op[r]), before |-> before[r],
                           after |-> after[r], text |-> text[r],
                           command |-> command[r]]}
  /\ \/ op[r] = "chat" /\ Goto(r, "save_final")
     \/ op[r] \in Mutation /\ Return(r, "ok")
     \/ op[r] = "resume" /\ Return(r, command[r])
  /\ UNCHANGED <<requestVars, rowVars, finalCommand, after, approvedTexts>>

-----------------------------------------------------------------------------
(* resume_human_review and mark_completed                                  *)

(* Mutants: a completed, or a pending, review is not told apart.           *)
ResumeCompleted(r) ==
  \/ /\ status \in {"none", "pending"}
     /\ Begin(r, "resume", NoText, "silent")
     /\ Return(r, IF status = "none" THEN "not_found" ELSE "silent")
  \/ /\ status \in {"approved", "rejected", "completed"}
     /\ IF status = "rejected" \/ edited = NoText
        THEN Begin(r, "resume", NoText, "silent")
        ELSE Begin(r, "resume", edited, "send")
     /\ Goto(r, "complete_read")
ResumePending(r) ==
  \/ /\ status \in {"none", "completed"}
     /\ Begin(r, "resume", NoText, "silent")
     /\ Return(r, IF status = "none" THEN "not_found" ELSE "silent")
  \/ /\ status \in {"approved", "rejected", "pending"}
     /\ IF status = "rejected" \/ edited = NoText
        THEN Begin(r, "resume", NoText, "silent")
        ELSE Begin(r, "resume", edited, "send")
     /\ Goto(r, "complete_read")

Resume(r) ==
  \/ /\ status \in {"none", "pending", "completed"}
     /\ Begin(r, "resume", NoText, "silent")
     /\ Return(r, IF status = "none" THEN "not_found" ELSE "silent")
  \/ /\ \/ status = "rejected"
        \/ status = "approved" /\ edited = NoText
     /\ Begin(r, "resume", NoText, "silent")
     /\ Goto(r, "complete_read")
  \/ /\ status = "approved" /\ edited # NoText
     /\ Begin(r, "resume", edited, "send")
     /\ Goto(r, "complete_read")

CompleteRead(r) ==
  /\ at[r] = "complete_read"
  /\ before' = [before EXCEPT ![r] = status]
  /\ Goto(r, "complete_save")
  /\ UNCHANGED <<op, text, command, late, rowVars, finalCommand, audit, after,
                 approvedTexts>>

CompleteSave(r) ==
  /\ at[r] = "complete_save"
  /\ SaveCheckpoint(command[r])
  /\ Goto(r, "complete_update")
  /\ UNCHANGED <<requestVars, rowVars, audit, after, approvedTexts>>

(* Mutant: the command is returned, the audit entry left for later.        *)
CompleteUpdateUnaudited(r) ==
  /\ at[r] = "complete_update"
  /\ status' = "completed"
  /\ Return(r, command[r])
  /\ UNCHANGED <<requestVars, edited, finalCommand, audit, after, approvedTexts>>

(* This UPDATE has no condition on the status. *)
CompleteUpdate(r) ==
  /\ at[r] = "complete_update"
  /\ status' = "completed"
  /\ Goto(r, "require_after")
  /\ UNCHANGED <<requestVars, edited, finalCommand, audit, after, approvedTexts>>

(* The service ends, or SQLite reports that the database stays locked.     *)
Abort(r) ==
  /\ at[r] \notin {"idle", "done"}
  /\ Return(r, "error")
  /\ UNCHANGED <<requestVars, rowVars, finalCommand, audit, after, approvedTexts>>

-----------------------------------------------------------------------------
Next ==
  \/ \E r \in ChatRequest :
       \/ Chat(r) \/ SaveState(r) \/ FindExisting(r) \/ Insert(r) \/ SaveFinal(r)
       \/ \E c \in Command : ChatDirect(r, c)
  \/ \E r \in ReviewRequest :
       \/ \E o \in Mutation : \E t \in TextOf(o) : Mutate(r, o, t)
       \/ Update(r)
       \/ Resume(r) \/ CompleteRead(r) \/ CompleteSave(r) \/ CompleteUpdate(r)
  \/ \E r \in Request : RequireAfter(r) \/ AppendAudit(r) \/ Abort(r)

Spec == Init /\ [][Next]_vars
=============================================================================
