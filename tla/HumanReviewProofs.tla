-------------------------- MODULE HumanReviewProofs --------------------------
(* Proofs about the human review, for any requests and texts. *)
EXTENDS HumanReviewProps, TLAPS

USE ReviewAssumption

LEMMA InitIInv == Init => IInv
BY DEF Init, IInv, TypeOK, Status, Command, Step, Answer, Op, ControlInv, DecisionInv,
       ApprovedInv, CreateInv, CreatedOnce, SendInv, SendsAreAudited, Sends, Completing,
       Auditing, Mutation

LEMMA TypeStep == (TypeOK /\ ControlInv) /\ [Next]_vars => TypeOK'
<1> SUFFICES ASSUME TypeOK /\ ControlInv, [Next]_vars PROVE TypeOK'
  OBVIOUS
<1> USE DEF TypeOK, Status, Command, Step, Answer, Mutation, Op, Request, requestVars, rowVars, Entry, Action
<1>1. ASSUME NEW r \in ChatRequest, Chat(r) PROVE TypeOK'
  BY <1>1 DEF Chat, Begin, Goto
<1>2. ASSUME NEW r \in ChatRequest, SaveState(r) PROVE TypeOK'
  BY <1>2 DEF SaveState, SaveCheckpoint, Goto
<1>3. ASSUME NEW r \in ChatRequest, FindExisting(r) PROVE TypeOK'
  BY <1>3 DEF FindExisting, Goto
<1>4. ASSUME NEW r \in ChatRequest, Insert(r) PROVE TypeOK'
  BY <1>4 DEF Insert, Goto, Return
<1>5. ASSUME NEW r \in ChatRequest, SaveFinal(r) PROVE TypeOK'
  BY <1>5 DEF SaveFinal, SaveCheckpoint, Return
<1>6. ASSUME NEW r \in ChatRequest, \E c \in Command : ChatDirect(r, c) PROVE TypeOK'
  BY <1>6 DEF ChatDirect, Begin, Goto
<1>7. ASSUME NEW r \in ReviewRequest, \E o \in Mutation : \E t \in TextOf(o) : Mutate(r, o, t) PROVE TypeOK'
  BY <1>7 DEF Mutate, Begin, Goto, Return, TextOf
<1>8. ASSUME NEW r \in ReviewRequest, Update(r) PROVE TypeOK'
  <2>1. CASE status # "completed" /\ Write(r)
    <3>0. op[r] \in Mutation BY <1>8 DEF Update, ControlInv
    <3>1. status' \in Status BY <2>1, <3>0 DEF Write, NewStatus
    <3>2. edited' \in Text \cup {NoText} BY <2>1 DEF Write
    <3>3. approvedTexts' \subseteq Text
      BY <2>1, <3>2 DEF Write
    <3>4. QED BY <1>8, <3>1, <3>2, <3>3 DEF Update, Goto
  <2>2. CASE UNCHANGED <<rowVars, approvedTexts>>
    BY <1>8, <2>2 DEF Update, Goto
  <2>3. QED BY <1>8, <2>1, <2>2 DEF Update
<1>9. ASSUME NEW r \in ReviewRequest, Resume(r) PROVE TypeOK'
  BY <1>9 DEF Resume, Begin, Goto, Return
<1>10. ASSUME NEW r \in ReviewRequest, CompleteRead(r) PROVE TypeOK'
  BY <1>10 DEF CompleteRead, Goto
<1>11. ASSUME NEW r \in ReviewRequest, CompleteSave(r) PROVE TypeOK'
  BY <1>11 DEF CompleteSave, SaveCheckpoint, Goto
<1>12. ASSUME NEW r \in ReviewRequest, CompleteUpdate(r) PROVE TypeOK'
  BY <1>12 DEF CompleteUpdate, Goto
<1>13. ASSUME NEW r \in Request, RequireAfter(r) PROVE TypeOK'
  BY <1>13 DEF RequireAfter, Goto
<1>14. ASSUME NEW r \in Request, AppendAudit(r) PROVE TypeOK'
  BY <1>14 DEF AppendAudit, ActionOf, Goto, Return
<1>15. ASSUME NEW r \in Request, Abort(r) PROVE TypeOK'
  BY <1>15 DEF Abort, Return
<1>16. CASE UNCHANGED vars BY <1>16 DEF vars
<1>17. QED
  BY <1>1, <1>2, <1>3, <1>4, <1>5, <1>6, <1>7, <1>8, <1>9, <1>10, <1>11, <1>12, <1>13, <1>14, <1>15, <1>16 DEF Next

LEMMA ControlStep == (TypeOK /\ ControlInv) /\ [Next]_vars => ControlInv'
<1> SUFFICES ASSUME (TypeOK /\ ControlInv), [Next]_vars PROVE ControlInv'
  OBVIOUS
<1> USE DEF TypeOK, Status, Command, Step, Answer, Mutation, Op, Request, requestVars, rowVars, ControlInv, Completing, Auditing
<1>1. ASSUME NEW r \in ChatRequest, Chat(r) PROVE ControlInv'
  BY <1>1 DEF Chat, Begin, Goto
<1>2. ASSUME NEW r \in ChatRequest, SaveState(r) PROVE ControlInv'
  BY <1>2 DEF SaveState, SaveCheckpoint, Goto
<1>3. ASSUME NEW r \in ChatRequest, FindExisting(r) PROVE ControlInv'
  BY <1>3 DEF FindExisting, Goto
<1>4. ASSUME NEW r \in ChatRequest, Insert(r) PROVE ControlInv'
  BY <1>4 DEF Insert, Goto, Return
<1>5. ASSUME NEW r \in ChatRequest, SaveFinal(r) PROVE ControlInv'
  BY <1>5 DEF SaveFinal, SaveCheckpoint, Return
<1>6. ASSUME NEW r \in ChatRequest, \E c \in Command : ChatDirect(r, c) PROVE ControlInv'
  BY <1>6 DEF ChatDirect, Begin, Goto
<1>7. ASSUME NEW r \in ReviewRequest, \E o \in Mutation : \E t \in TextOf(o) : Mutate(r, o, t) PROVE ControlInv'
  BY <1>7 DEF Mutate, Begin, Goto, Return, TextOf
<1>8. ASSUME NEW r \in ReviewRequest, Update(r) PROVE ControlInv'
  BY <1>8 DEF Update, Write, NewStatus, Goto
<1>9. ASSUME NEW r \in ReviewRequest, Resume(r) PROVE ControlInv'
  BY <1>9 DEF Resume, Begin, Goto, Return
<1>10. ASSUME NEW r \in ReviewRequest, CompleteRead(r) PROVE ControlInv'
  BY <1>10 DEF CompleteRead, Goto
<1>11. ASSUME NEW r \in ReviewRequest, CompleteSave(r) PROVE ControlInv'
  BY <1>11 DEF CompleteSave, SaveCheckpoint, Goto
<1>12. ASSUME NEW r \in ReviewRequest, CompleteUpdate(r) PROVE ControlInv'
  BY <1>12 DEF CompleteUpdate, Goto
<1>13. ASSUME NEW r \in Request, RequireAfter(r) PROVE ControlInv'
  BY <1>13 DEF RequireAfter, Goto
<1>14. ASSUME NEW r \in Request, AppendAudit(r) PROVE ControlInv'
  BY <1>14 DEF AppendAudit, ActionOf, Goto, Return
<1>15. ASSUME NEW r \in Request, Abort(r) PROVE ControlInv'
  BY <1>15 DEF Abort, Return
<1>16. CASE UNCHANGED vars BY <1>16 DEF vars
<1>17. QED
  BY <1>1, <1>2, <1>3, <1>4, <1>5, <1>6, <1>7, <1>8, <1>9, <1>10, <1>11, <1>12, <1>13, <1>14, <1>15, <1>16 DEF Next

LEMMA DecisionStep == (TypeOK /\ ControlInv /\ DecisionInv) /\ [Next]_vars => DecisionInv'
<1> SUFFICES ASSUME (TypeOK /\ ControlInv /\ DecisionInv), [Next]_vars PROVE DecisionInv'
  OBVIOUS
<1> USE DEF TypeOK, Status, Command, Step, Answer, Mutation, Op, Request, requestVars, rowVars, ControlInv, DecisionInv, Completing, Auditing
<1>1. ASSUME NEW r \in ChatRequest, Chat(r) PROVE DecisionInv'
  BY <1>1 DEF Chat, Begin, Goto
<1>2. ASSUME NEW r \in ChatRequest, SaveState(r) PROVE DecisionInv'
  BY <1>2 DEF SaveState, SaveCheckpoint, Goto
<1>3. ASSUME NEW r \in ChatRequest, FindExisting(r) PROVE DecisionInv'
  BY <1>3 DEF FindExisting, Goto
<1>4. ASSUME NEW r \in ChatRequest, Insert(r) PROVE DecisionInv'
  BY <1>4 DEF Insert, Goto, Return
<1>5. ASSUME NEW r \in ChatRequest, SaveFinal(r) PROVE DecisionInv'
  BY <1>5 DEF SaveFinal, SaveCheckpoint, Return
<1>6. ASSUME NEW r \in ChatRequest, \E c \in Command : ChatDirect(r, c) PROVE DecisionInv'
  BY <1>6 DEF ChatDirect, Begin, Goto
<1>7. ASSUME NEW r \in ReviewRequest, \E o \in Mutation : \E t \in TextOf(o) : Mutate(r, o, t) PROVE DecisionInv'
  BY <1>7 DEF Mutate, Begin, Goto, Return, TextOf
<1>8. ASSUME NEW r \in ReviewRequest, Update(r) PROVE DecisionInv'
  BY <1>8 DEF Update, Write, NewStatus, Goto
<1>9. ASSUME NEW r \in ReviewRequest, Resume(r) PROVE DecisionInv'
  BY <1>9 DEF Resume, Begin, Goto, Return
<1>10. ASSUME NEW r \in ReviewRequest, CompleteRead(r) PROVE DecisionInv'
  BY <1>10 DEF CompleteRead, Goto
<1>11. ASSUME NEW r \in ReviewRequest, CompleteSave(r) PROVE DecisionInv'
  BY <1>11 DEF CompleteSave, SaveCheckpoint, Goto
<1>12. ASSUME NEW r \in ReviewRequest, CompleteUpdate(r) PROVE DecisionInv'
  BY <1>12 DEF CompleteUpdate, Goto
<1>13. ASSUME NEW r \in Request, RequireAfter(r) PROVE DecisionInv'
  BY <1>13 DEF RequireAfter, Goto
<1>14. ASSUME NEW r \in Request, AppendAudit(r) PROVE DecisionInv'
  BY <1>14 DEF AppendAudit, ActionOf, Goto, Return
<1>15. ASSUME NEW r \in Request, Abort(r) PROVE DecisionInv'
  BY <1>15 DEF Abort, Return
<1>16. CASE UNCHANGED vars BY <1>16 DEF vars
<1>17. QED
  BY <1>1, <1>2, <1>3, <1>4, <1>5, <1>6, <1>7, <1>8, <1>9, <1>10, <1>11, <1>12, <1>13, <1>14, <1>15, <1>16 DEF Next

LEMMA ApprovedStep == (TypeOK /\ ControlInv /\ DecisionInv /\ ApprovedInv) /\ [Next]_vars => ApprovedInv'
<1> SUFFICES ASSUME (TypeOK /\ ControlInv /\ DecisionInv /\ ApprovedInv), [Next]_vars PROVE ApprovedInv'
  OBVIOUS
<1> USE DEF TypeOK, Status, Command, Step, Answer, Mutation, Op, Request, requestVars, rowVars, ControlInv, DecisionInv, ApprovedInv, Completing, Auditing
<1>1. ASSUME NEW r \in ChatRequest, Chat(r) PROVE ApprovedInv'
  BY <1>1 DEF Chat, Begin, Goto
<1>2. ASSUME NEW r \in ChatRequest, SaveState(r) PROVE ApprovedInv'
  BY <1>2 DEF SaveState, SaveCheckpoint, Goto
<1>3. ASSUME NEW r \in ChatRequest, FindExisting(r) PROVE ApprovedInv'
  BY <1>3 DEF FindExisting, Goto
<1>4. ASSUME NEW r \in ChatRequest, Insert(r) PROVE ApprovedInv'
  BY <1>4 DEF Insert, Goto, Return
<1>5. ASSUME NEW r \in ChatRequest, SaveFinal(r) PROVE ApprovedInv'
  BY <1>5 DEF SaveFinal, SaveCheckpoint, Return
<1>6. ASSUME NEW r \in ChatRequest, \E c \in Command : ChatDirect(r, c) PROVE ApprovedInv'
  BY <1>6 DEF ChatDirect, Begin, Goto
<1>7. ASSUME NEW r \in ReviewRequest, \E o \in Mutation : \E t \in TextOf(o) : Mutate(r, o, t) PROVE ApprovedInv'
  BY <1>7 DEF Mutate, Begin, Goto, Return, TextOf
<1>8. ASSUME NEW r \in ReviewRequest, Update(r) PROVE ApprovedInv'
  BY <1>8 DEF Update, Write, NewStatus, Goto
<1>9. ASSUME NEW r \in ReviewRequest, Resume(r) PROVE ApprovedInv'
  BY <1>9 DEF Resume, Begin, Goto, Return
<1>10. ASSUME NEW r \in ReviewRequest, CompleteRead(r) PROVE ApprovedInv'
  BY <1>10 DEF CompleteRead, Goto
<1>11. ASSUME NEW r \in ReviewRequest, CompleteSave(r) PROVE ApprovedInv'
  BY <1>11 DEF CompleteSave, SaveCheckpoint, Goto
<1>12. ASSUME NEW r \in ReviewRequest, CompleteUpdate(r) PROVE ApprovedInv'
  BY <1>12 DEF CompleteUpdate, Goto
<1>13. ASSUME NEW r \in Request, RequireAfter(r) PROVE ApprovedInv'
  BY <1>13 DEF RequireAfter, Goto
<1>14. ASSUME NEW r \in Request, AppendAudit(r) PROVE ApprovedInv'
  BY <1>14 DEF AppendAudit, ActionOf, Goto, Return
<1>15. ASSUME NEW r \in Request, Abort(r) PROVE ApprovedInv'
  BY <1>15 DEF Abort, Return
<1>16. CASE UNCHANGED vars BY <1>16 DEF vars
<1>17. QED
  BY <1>1, <1>2, <1>3, <1>4, <1>5, <1>6, <1>7, <1>8, <1>9, <1>10, <1>11, <1>12, <1>13, <1>14, <1>15, <1>16 DEF Next

LEMMA CreateStep == (TypeOK /\ ControlInv /\ DecisionInv /\ CreateInv) /\ [Next]_vars => CreateInv'
<1> SUFFICES ASSUME (TypeOK /\ ControlInv /\ DecisionInv /\ CreateInv), [Next]_vars PROVE CreateInv'
  OBVIOUS
<1> USE DEF TypeOK, Status, Command, Step, Answer, Mutation, Op, Request, requestVars, rowVars, Entry, ControlInv, DecisionInv, CreateInv, CreatedOnce, Completing, Auditing
<1>1. ASSUME NEW r \in ChatRequest, Chat(r) PROVE CreateInv'
  BY <1>1 DEF Chat, Begin, Goto
<1>2. ASSUME NEW r \in ChatRequest, SaveState(r) PROVE CreateInv'
  BY <1>2 DEF SaveState, SaveCheckpoint, Goto
<1>3. ASSUME NEW r \in ChatRequest, FindExisting(r) PROVE CreateInv'
  BY <1>3 DEF FindExisting, Goto
<1>4. ASSUME NEW r \in ChatRequest, Insert(r) PROVE CreateInv'
  BY <1>4 DEF Insert, Goto, Return
<1>5. ASSUME NEW r \in ChatRequest, SaveFinal(r) PROVE CreateInv'
  BY <1>5 DEF SaveFinal, SaveCheckpoint, Return
<1>6. ASSUME NEW r \in ChatRequest, \E c \in Command : ChatDirect(r, c) PROVE CreateInv'
  BY <1>6 DEF ChatDirect, Begin, Goto
<1>7. ASSUME NEW r \in ReviewRequest, \E o \in Mutation : \E t \in TextOf(o) : Mutate(r, o, t) PROVE CreateInv'
  BY <1>7 DEF Mutate, Begin, Goto, Return, TextOf
<1>8. ASSUME NEW r \in ReviewRequest, Update(r) PROVE CreateInv'
  BY <1>8 DEF Update, Write, NewStatus, Goto
<1>9. ASSUME NEW r \in ReviewRequest, Resume(r) PROVE CreateInv'
  BY <1>9 DEF Resume, Begin, Goto, Return
<1>10. ASSUME NEW r \in ReviewRequest, CompleteRead(r) PROVE CreateInv'
  BY <1>10 DEF CompleteRead, Goto
<1>11. ASSUME NEW r \in ReviewRequest, CompleteSave(r) PROVE CreateInv'
  BY <1>11 DEF CompleteSave, SaveCheckpoint, Goto
<1>12. ASSUME NEW r \in ReviewRequest, CompleteUpdate(r) PROVE CreateInv'
  BY <1>12 DEF CompleteUpdate, Goto
<1>13. ASSUME NEW r \in Request, RequireAfter(r) PROVE CreateInv'
  BY <1>13 DEF RequireAfter, Goto
<1>14. ASSUME NEW r \in Request, AppendAudit(r) PROVE CreateInv'
  BY <1>14 DEF AppendAudit, ActionOf, Goto, Return
<1>15. ASSUME NEW r \in Request, Abort(r) PROVE CreateInv'
  BY <1>15 DEF Abort, Return
<1>16. CASE UNCHANGED vars BY <1>16 DEF vars
<1>17. QED
  BY <1>1, <1>2, <1>3, <1>4, <1>5, <1>6, <1>7, <1>8, <1>9, <1>10, <1>11, <1>12, <1>13, <1>14, <1>15, <1>16 DEF Next

LEMMA SendStep == (TypeOK /\ ControlInv /\ DecisionInv /\ SendInv) /\ [Next]_vars => SendInv'
<1> SUFFICES ASSUME (TypeOK /\ ControlInv /\ DecisionInv /\ SendInv), [Next]_vars PROVE SendInv'
  OBVIOUS
<1> USE DEF TypeOK, Status, Command, Step, Answer, Mutation, Op, Request, requestVars, rowVars, Entry, ControlInv, DecisionInv, SendInv, SendsAreAudited, Sends, Completing, Auditing
<1>1. ASSUME NEW r \in ChatRequest, Chat(r) PROVE SendInv'
  BY <1>1 DEF Chat, Begin, Goto
<1>2. ASSUME NEW r \in ChatRequest, SaveState(r) PROVE SendInv'
  BY <1>2 DEF SaveState, SaveCheckpoint, Goto
<1>3. ASSUME NEW r \in ChatRequest, FindExisting(r) PROVE SendInv'
  BY <1>3 DEF FindExisting, Goto
<1>4. ASSUME NEW r \in ChatRequest, Insert(r) PROVE SendInv'
  BY <1>4 DEF Insert, Goto, Return
<1>5. ASSUME NEW r \in ChatRequest, SaveFinal(r) PROVE SendInv'
  BY <1>5 DEF SaveFinal, SaveCheckpoint, Return
<1>6. ASSUME NEW r \in ChatRequest, \E c \in Command : ChatDirect(r, c) PROVE SendInv'
  BY <1>6 DEF ChatDirect, Begin, Goto
<1>7. ASSUME NEW r \in ReviewRequest, \E o \in Mutation : \E t \in TextOf(o) : Mutate(r, o, t) PROVE SendInv'
  BY <1>7 DEF Mutate, Begin, Goto, Return, TextOf
<1>8. ASSUME NEW r \in ReviewRequest, Update(r) PROVE SendInv'
  BY <1>8 DEF Update, Write, NewStatus, Goto
<1>9. ASSUME NEW r \in ReviewRequest, Resume(r) PROVE SendInv'
  BY <1>9 DEF Resume, Begin, Goto, Return
<1>10. ASSUME NEW r \in ReviewRequest, CompleteRead(r) PROVE SendInv'
  BY <1>10 DEF CompleteRead, Goto
<1>11. ASSUME NEW r \in ReviewRequest, CompleteSave(r) PROVE SendInv'
  BY <1>11 DEF CompleteSave, SaveCheckpoint, Goto
<1>12. ASSUME NEW r \in ReviewRequest, CompleteUpdate(r) PROVE SendInv'
  BY <1>12 DEF CompleteUpdate, Goto
<1>13. ASSUME NEW r \in Request, RequireAfter(r) PROVE SendInv'
  BY <1>13 DEF RequireAfter, Goto
<1>14. ASSUME NEW r \in Request, AppendAudit(r) PROVE SendInv'
  <2> DEFINE entry == [by |-> r, action |-> ActionOf(op[r]), before |-> before[r],
                       after |-> after[r], text |-> text[r], command |-> command[r]]
  <2>1. /\ at[r] = "audit" /\ audit' = audit \cup {entry}
        /\ UNCHANGED <<op, text, command, late, status>>
    BY <1>14 DEF AppendAudit
  <2>2. CASE op[r] = "resume" /\ Return(r, command[r])
    <3>1. entry.action = "resume" /\ entry.command = command[r] /\ entry.text = text[r]
          /\ entry.after = "completed" /\ status = "completed"
      BY <2>1, <2>2 DEF ActionOf
    <3>2. Sends' = IF command[r] = "send" THEN Sends \cup {r} ELSE Sends
      BY <2>1, <2>2 DEF Return
    <3>3. SendsAreAudited'
      <4> SUFFICES ASSUME NEW q \in Sends'
                   PROVE  /\ status' = "completed"
                          /\ \E e \in audit' : /\ e.action = "resume" /\ e.command = "send"
                                               /\ e.text = text'[q] /\ e.after = "completed"
        OBVIOUS
      <4>1. CASE q = r /\ command[r] = "send" BY <2>1, <3>1, <4>1
      <4>2. CASE q \in Sends BY <2>1, <4>2
      <4>3. QED BY <3>2, <4>1, <4>2
    <3>4. QED BY <2>1, <2>2, <3>2, <3>3 DEF Return
  <2>3. CASE op[r] # "resume"
    <3>1. Sends' = Sends BY <1>14, <2>1, <2>3 DEF AppendAudit, Goto, Return
    <3>2. SendsAreAudited' BY <2>1, <3>1
    <3>3. QED BY <1>14, <2>1, <2>3, <3>1, <3>2 DEF AppendAudit, Goto, Return
  <2>4. QED BY <1>14, <2>2, <2>3 DEF AppendAudit
<1>15. ASSUME NEW r \in Request, Abort(r) PROVE SendInv'
  BY <1>15 DEF Abort, Return
<1>16. CASE UNCHANGED vars BY <1>16 DEF vars
<1>17. QED
  BY <1>1, <1>2, <1>3, <1>4, <1>5, <1>6, <1>7, <1>8, <1>9, <1>10, <1>11, <1>12, <1>13, <1>14, <1>15, <1>16 DEF Next

LEMMA InductiveInvariant == Spec => []IInv
<1>1. IInv /\ [Next]_vars => IInv'
  BY TypeStep, ControlStep, DecisionStep, ApprovedStep, CreateStep, SendStep DEF IInv
<1>2. QED BY <1>1, InitIInv, PTL DEF Spec

(* Every reachable state is well typed.                                    *)
THEOREM TypeCorrect == Spec => []TypeOK
<1>1. IInv => TypeOK BY DEF IInv
<1>2. QED BY <1>1, InductiveInvariant, PTL

(* A completed review has a final command (store.py, mark_completed).      *)
THEOREM CompletedHasCommandSafe == Spec => []CompletedHasCommand
<1>1. IInv => CompletedHasCommand BY DEF IInv, DecisionInv, CompletedHasCommand
<1>2. QED BY <1>1, InductiveInvariant, PTL

(* Concurrent chat requests open one review (store.py, create_pending).    *)
THEOREM CreatedOnceSafe == Spec => []CreatedOnce
<1>1. IInv => CreatedOnce BY DEF IInv, CreateInv
<1>2. QED BY <1>1, InductiveInvariant, PTL

(* Who gets a send command finds it audited and the review completed       *)
(* (store.py, mark_completed).                                             *)
THEOREM SendsAreAuditedSafe == Spec => []SendsAreAudited
<1>1. IInv => SendsAreAudited BY DEF IInv, SendInv
<1>2. QED BY <1>1, InductiveInvariant, PTL

(* A resume that begins after a send command was answered sends nothing    *)
(* (service.py, resume_human_review).                                      *)
THEOREM LaterResumeSendsNothingSafe == Spec => []LaterResumeSendsNothing
<1>1. IInv => LaterResumeSendsNothing
  BY DEF IInv, TypeOK, SendInv, Sends, LaterResumeSendsNothing
<1>2. QED BY <1>1, InductiveInvariant, PTL

(* No request changes a completed review (store.py, the UPDATE statements).*)
THEOREM CompletedIsFinalSafe == Spec => CompletedIsFinal
<1>1. ASSUME IInv, [Next]_vars
      PROVE  [status = "completed" => UNCHANGED <<status, edited>>]_vars
  <2> SUFFICES ASSUME status = "completed" PROVE UNCHANGED <<status, edited>>
    OBVIOUS
  <2>1. CASE UNCHANGED vars BY <2>1 DEF vars
  <2>2. CASE Next
    BY <2>2
       DEF Next, Chat, SaveState, FindExisting, Insert, SaveFinal, ChatDirect, Mutate,
           Update, Write, RequireAfter, AppendAudit, Resume, CompleteRead, CompleteSave,
           CompleteUpdate, Abort, Begin, rowVars
  <2>3. QED BY <1>1, <2>1, <2>2
<1>2. QED BY <1>1, InductiveInvariant, PTL DEF Spec, CompletedIsFinal

LEMMA LifecycleInit == Init => Lifecycle!Init
BY DEF Init, Lifecycle!Init, SentTexts, Sends

LEMMA LifecycleStep ==
  ASSUME IInv, [Next]_vars
  PROVE  [Lifecycle!Next]_<<status, edited, approvedTexts, SentTexts>>
<1> DEFINE Stutter == UNCHANGED <<status, edited, approvedTexts, SentTexts>>
<1> USE DEF IInv
<1>a. ASSUME NEW r \in Request, at[r] # "done", UNCHANGED <<op, text>>,
             \E a : a # "send" /\ answer' = [answer EXCEPT ![r] = a]
      PROVE  UNCHANGED SentTexts
  <2>1. Sends' = Sends BY <1>a DEF Sends, TypeOK, ControlInv
  <2>2. QED BY <1>a, <2>1 DEF SentTexts
<1>b. ASSUME NEW r \in Request, NEW o, NEW t, NEW c, Begin(r, o, t, c),
             \/ UNCHANGED answer
             \/ \E a : a # "send" /\ answer' = [answer EXCEPT ![r] = a]
      PROVE  Stutter
  <2>1. r \notin Sends BY <1>b DEF Begin, Sends, ControlInv
  <2>2. Sends' = Sends BY <1>b, <2>1 DEF Begin, Sends, TypeOK, ControlInv
  <2>3. \A q \in Sends : text'[q] = text[q] BY <1>b, <2>1 DEF Begin, TypeOK, Sends
  <2>4. UNCHANGED SentTexts BY <2>2, <2>3 DEF SentTexts
  <2>5. QED BY <1>b, <2>4 DEF Begin, rowVars
<1>c. ASSUME UNCHANGED <<op, text, answer>> PROVE UNCHANGED SentTexts
  BY <1>c DEF SentTexts, Sends
<1>1. ASSUME NEW r \in ChatRequest, Chat(r) PROVE Stutter
  BY <1>1, <1>b DEF Chat, Goto, Request
<1>2. ASSUME NEW r \in ChatRequest, NEW c \in Command, ChatDirect(r, c) PROVE Stutter
  BY <1>2, <1>b DEF ChatDirect, Goto, Request
<1>3. ASSUME NEW r \in ReviewRequest, NEW o \in Mutation, NEW t \in TextOf(o),
             Mutate(r, o, t)
      PROVE  Stutter
  BY <1>3, <1>b DEF Mutate, Goto, Return, Request
<1>4. ASSUME NEW r \in ReviewRequest, Resume(r) PROVE Stutter
  BY <1>4, <1>b DEF Resume, Goto, Return, Request
<1>5. ASSUME NEW r \in Request,
             \/ SaveState(r) \/ FindExisting(r) \/ RequireAfter(r)
             \/ CompleteRead(r) \/ CompleteSave(r)
      PROVE  Stutter
  BY <1>5, <1>c DEF SaveState, FindExisting, RequireAfter, CompleteRead, CompleteSave,
                    Goto, requestVars, rowVars
<1>6. ASSUME NEW r \in ChatRequest, Insert(r) PROVE Lifecycle!Next \/ Stutter
  <2>1. CASE status = "none"
    <3>1. UNCHANGED SentTexts BY <1>6, <2>1, <1>c DEF Insert, Goto, requestVars
    <3>2. Lifecycle!Open
      BY <1>6, <2>1, <3>1 DEF Insert, Lifecycle!Open, ApprovedInv
    <3>3. QED BY <3>2 DEF Lifecycle!Next
  <2>2. CASE status # "none"
    BY <1>6, <2>2, <1>a DEF Insert, Return, requestVars, rowVars, Request
  <2>3. QED BY <2>1, <2>2
<1>7. ASSUME NEW r \in ChatRequest, SaveFinal(r) PROVE Stutter
  <2>1. op[r] # "resume" BY <1>7 DEF SaveFinal, ControlInv, Request
  <2>2. Sends' = Sends
    BY <1>7, <2>1 DEF SaveFinal, Return, Sends, TypeOK, requestVars, Request
  <2>3. QED BY <1>7, <2>2 DEF SaveFinal, SentTexts, requestVars, rowVars
<1>8. ASSUME NEW r \in ReviewRequest, Update(r) PROVE Lifecycle!Next \/ Stutter
  <2>1. UNCHANGED SentTexts BY <1>8, <1>c DEF Update, Goto, requestVars
  <2>2. CASE status # "completed" /\ Write(r)
    <3>1. op[r] \in Mutation /\ status # "none"
      BY <1>8 DEF Update, ControlInv, DecisionInv, Request
    <3>2. status \in {"pending", "approved", "rejected"}
      BY <2>2, <3>1 DEF TypeOK, Status
    <3>3. status' \in {status, "approved", "rejected"}
      BY <2>2, <3>1 DEF Write, NewStatus, Mutation
    <3>4. edited' \in Text \cup {edited}
      BY <2>2 DEF Write, TypeOK, Request
    <3>5. approvedTexts' = approvedTexts \cup Lifecycle!Standing'
      BY <2>2 DEF Write, Lifecycle!Standing
    <3>6. Lifecycle!Review
      BY <2>1, <3>2, <3>3, <3>4, <3>5 DEF Lifecycle!Review
    <3>7. QED BY <3>6 DEF Lifecycle!Next
  <2>3. CASE UNCHANGED <<rowVars, approvedTexts>>
    BY <2>1, <2>3 DEF rowVars
  <2>4. QED BY <1>8, <2>2, <2>3 DEF Update
<1>9. ASSUME NEW r \in ReviewRequest, CompleteUpdate(r) PROVE Lifecycle!Next \/ Stutter
  <2>1. UNCHANGED <<edited, approvedTexts, SentTexts>> /\ status' = "completed"
    BY <1>9, <1>c DEF CompleteUpdate, Goto, requestVars
  <2>2. status \in {"approved", "rejected", "completed"}
    BY <1>9 DEF CompleteUpdate, DecisionInv, Completing, Request
  <2>3. QED BY <2>1, <2>2 DEF Lifecycle!Next, Lifecycle!Complete
<1>10. ASSUME NEW r \in Request, AppendAudit(r) PROVE Lifecycle!Next \/ Stutter
  <2>1. UNCHANGED <<status, edited, approvedTexts, op, text>> /\ at[r] = "audit"
    BY <1>10 DEF AppendAudit, rowVars, requestVars
  <2>2. CASE op[r] = "chat" /\ Goto(r, "save_final") BY <2>1, <2>2, <1>c DEF Goto
  <2>3. CASE op[r] \in Mutation /\ Return(r, "ok") BY <2>1, <2>3, <1>a DEF Return
  <2>4. CASE op[r] = "resume" /\ Return(r, command[r])
    <3>1. CASE command[r] # "send" BY <2>1, <2>4, <3>1, <1>a DEF Return
    <3>2. CASE command[r] = "send"
      <4>1. Sends' = Sends \cup {r}
        BY <2>1, <2>4, <3>2 DEF Sends, Return, TypeOK
      <4>2. SentTexts' = SentTexts \cup {text[r]} BY <2>1, <4>1 DEF SentTexts
      <4>3. text[r] \in approvedTexts BY <2>4, <3>2 DEF ApprovedInv
      <4>4. status = "completed" BY <2>1, <2>4 DEF DecisionInv, Auditing
      <4>5. Lifecycle!Send BY <2>1, <4>2, <4>3, <4>4 DEF Lifecycle!Send
      <4>6. QED BY <4>5 DEF Lifecycle!Next
    <3>3. QED BY <3>1, <3>2
  <2>5. QED BY <1>10, <2>2, <2>3, <2>4 DEF AppendAudit
<1>11. ASSUME NEW r \in Request, Abort(r) PROVE Stutter
  BY <1>11, <1>a DEF Abort, Return, requestVars, rowVars
<1>12. CASE UNCHANGED vars BY <1>12, <1>c DEF vars
<1>13. QED
  BY <1>1, <1>2, <1>3, <1>4, <1>5, <1>6, <1>7, <1>8, <1>9, <1>10, <1>11, <1>12
     DEF Next, Request

(* The review, with its concurrent requests and their failures, implements *)
(* its life cycle: opened once, completed only after a decision and for    *)
(* good, and no text leaves it that did not stand in it while approved.    *)
THEOREM ReviewImplementsLifecycle == Spec => LifecycleSpec
BY LifecycleInit, LifecycleStep, InductiveInvariant, PTL
   DEF Spec, LifecycleSpec, Lifecycle!Spec, Lifecycle!lifecycleVars

=============================================================================
